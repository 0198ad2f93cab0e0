-------------------------- MODULE OosNcoOtProofs --------------------------
(***************************************************************************)
(* Theorems about OosNcoOt, for every number of OTs, every code, every      *)
(* choice of step sizes and every number of rounds: the types and bounds of *)
(* its state, that no pad is used twice, that the parties stay in step, and *)
(* that the corrections land in the rows they were made for.               *)
(*                                                                         *)
(* Then what is between the two parties: what they hash for a row is the    *)
(* same word exactly where it should be; between honest parties             *)
(* (MaxTamper = 0) the extension keeps the contract of NcoOt; and the check *)
(* of a round passes when and only when the bits corrupted in its           *)
(* corrections cancel in every challenged sum.                             *)
(***************************************************************************)
EXTENDS OosNcoOt, SequenceTheorems, XorTheorems

---------------------------------------------------------------------------
(* Arithmetic: rounding up to blocks, and positions laid out in rounds.     *)

(* Quotient and remainder of the code's unsigned division.                 *)
LEMMA Division ==
    ASSUME NEW x \in Nat, NEW y \in Nat \ {0}
    PROVE  /\ x \div y \in Nat
           /\ x % y \in 0..(y - 1)
           /\ x = (x \div y) * y + (x % y)
  OBVIOUS

(* Rounding up to a multiple of y does not make a number smaller.          *)
LEMMA RoundUpToBound ==
    ASSUME NEW x \in Nat, NEW y \in Nat \ {0}
    PROVE  /\ DivCeil(x, y) \in Nat
           /\ RoundUpTo(x, y) \in Nat
           /\ DivCeil(x, y) * y >= x
<1> DEFINE n == x + y - 1
<1> DEFINE q == n \div y
<1>1. n \in Nat
  OBVIOUS
<1>2. q \in Nat /\ (n % y) \in 0..(y - 1) /\ n = q * y + (n % y)
  BY <1>1, Division
<1>3. q * y \in Nat
  BY <1>2
<1>4. q * y >= x
  BY <1>2, <1>3
<1>5. DivCeil(x, y) = q /\ RoundUpTo(x, y) = q * y
  BY DEF DivCeil, RoundUpTo
<1> HIDE DEF q
<1>6. QED
  BY <1>2, <1>3, <1>4, <1>5

(* A position has one round and one row, when a round has L positions.     *)
LEMMA PositionsApart ==
    ASSUME NEW L \in Nat \ {0}, NEW g \in Nat, NEW h \in Nat,
           NEW i \in 0..(L - 1), NEW j \in 0..(L - 1),
           g * L + i = h * L + j
    PROVE  g = h /\ i = j
<1>1. ASSUME g < h PROVE FALSE
  <2>1. PICK d \in Nat : h = g + 1 + d
    BY <1>1, h - g - 1 \in Nat
  <2>2. h * L = g * L + L + d * L
    BY <2>1
  <2>3. d * L \in Nat /\ g * L \in Nat
    BY <2>1
  <2>4. QED
    BY <2>2, <2>3
<1>2. ASSUME h < g PROVE FALSE
  <2>1. PICK d \in Nat : g = h + 1 + d
    BY <1>2, g - h - 1 \in Nat
  <2>2. g * L = h * L + L + d * L
    BY <2>1
  <2>3. d * L \in Nat /\ h * L \in Nat
    BY <2>1
  <2>4. QED
    BY <2>2, <2>3
<1>3. QED
  BY <1>1, <1>2

---------------------------------------------------------------------------
(* The algebra keeps formal sums inside the unknowns.                      *)

LEMMA XorClosed ==
    ASSUME NEW U, NEW a \in SUBSET U, NEW b \in SUBSET U
    PROVE  Xor(a, b) \in SUBSET U
  BY DEF Xor, SymDiff

LEMMA XorSumClosed ==
    ASSUME NEW U, NEW f, NEW S, \A s \in S : f[s] \in SUBSET U
    PROVE  XorSum(f, S) \in SUBSET U
  BY DEF XorSum

---------------------------------------------------------------------------
(* The layout of a round.                                                  *)

(* The blocks a column PRNG advances in one init of the receiver, and the   *)
(* PRNG positions they hold.                                               *)
RoundBlks == NextBlk(0, RecvRows)
RoundRows == RoundBlks * RowBlk

LEMMA ConstantFacts ==
    /\ N \in Nat \ {0} /\ Stat \in Nat \ {0} /\ RowBlk \in Nat \ {0} /\ SuperBlk \in Nat \ {0}
    /\ MaxRound \in Nat \ {0} /\ MaxTamper \in Nat
  BY OosAssumption

(* Both parties allocate the rows of the OTs and of the check, and a round  *)
(* of the receiver draws at least as many positions as it has rows.        *)
LEMMA RowFacts ==
    /\ RecvRows \in Nat /\ RecvRows >= N + Stat
    /\ SendRows \in Nat /\ SendRows >= N + Stat
    /\ RoundBlks \in Nat
    /\ RoundRows \in Nat /\ RoundRows >= RecvRows
<1> USE ConstantFacts
<1> DEFINE q == DivCeil(N + Stat, RowBlk)
<1>1. N + Stat \in Nat
  OBVIOUS
<1>2. q \in Nat /\ q * RowBlk >= N + Stat
  BY <1>1, RoundUpToBound
<1>3. RecvRows = q * RowBlk
  BY DEF RecvRows, RoundUpTo
<1>4. SendRows = q * RowBlk
  <2>1. (N + (RowBlk - 1)) + Stat = (N + Stat) + RowBlk - 1
    OBVIOUS
  <2>2. QED
    BY <2>1 DEF SendRows, DivCeil
<1> HIDE DEF q
<1>5. q * RowBlk \in Nat
  BY <1>2
<1>6. (q * RowBlk) \div RowBlk = q
  <2> DEFINE k == (q * RowBlk) \div RowBlk
             m == (q * RowBlk) % RowBlk
  <2>1. k \in Nat /\ m \in 0..(RowBlk - 1) /\ q * RowBlk = k * RowBlk + m
    BY <1>5, Division
  <2> HIDE DEF k, m
  <2>2. q * RowBlk + 0 = k * RowBlk + m /\ 0 \in 0..(RowBlk - 1)
    BY <1>5, <2>1
  <2>3. q = k
    BY <1>2, <2>1, <2>2, PositionsApart
  <2>4. QED
    BY <2>3 DEF k
<1> DEFINE c == DivCeil(q, SuperBlk)
<1>7. c \in Nat /\ c * SuperBlk >= q
  BY <1>2, RoundUpToBound
<1>8. RoundBlks = c * SuperBlk
  <2>1. RoundBlks = 0 + c * SuperBlk
    BY <1>3, <1>6 DEF RoundBlks, NextBlk
  <2>2. QED
    BY <1>7, <2>1
<1> HIDE DEF c
<1>9. c * SuperBlk \in Nat
  BY <1>7
<1>10. (c * SuperBlk) * RowBlk >= q * RowBlk
  <2>1. PICK d \in Nat : c * SuperBlk = q + d
    BY <1>2, <1>7, <1>9, c * SuperBlk - q \in Nat
  <2>2. (q + d) * RowBlk = q * RowBlk + d * RowBlk
    BY <1>2, <2>1
  <2>3. d * RowBlk \in Nat
    BY <2>1
  <2>4. QED
    BY <1>5, <2>1, <2>2, <2>3
<1>11. RoundRows = (c * SuperBlk) * RowBlk /\ RoundRows \in Nat
  BY <1>8, <1>9 DEF RoundRows
<1>12. QED
  BY <1>2, <1>3, <1>4, <1>5, <1>8, <1>9, <1>10, <1>11

---------------------------------------------------------------------------
(* The inductive invariant.  TypeOK alone is not inductive: the rows a      *)
(* correction delivers are typed only because the message refers to an      *)
(* allocation that exists and stays within it, and the indices stay in      *)
(* bounds only because they follow the steps.                              *)

Matrix(rows) == [0..(rows - 1) -> Row]
OutRow == [t : Row, w : Word, used : BOOLEAN]
PerRelation(S) == [0..(Stat - 1) -> S]

CorrectionMsg == [kind : {"cor"}, mem : 1..MaxRound, lo : Nat, count : Nat, err : SUBSET (Nat \X Cols)]
MsgToS ==
    [kind : {"delta"}, delta : SUBSET Cols] \cup CorrectionMsg
    \cup [kind : {"tSum"}, sum : PerRelation(Row)] \cup [kind : {"wSum"}, sum : PerRelation(Word)]
MsgToR == [kind : {"challenge"}, seed : Seeds]

(* The receiver: what it holds in each phase, and where its index stands.   *)
RecvInv ==
    /\ rPc \in {"base", "ready", "open", "challenge", "failed"}
    /\ rFlip \in SUBSET Cols
    /\ rRound \in 0..MaxRound
    /\ rPc \in {"open", "challenge"} => rRound # 0
    /\ rBlk = rRound * RoundBlks
    /\ rStep \in 0..NumSteps
    /\ rIdx \in 0..RecvRows
    /\ rPc = "open" => rIdx = StepLo(rStep + 1)
    /\ IF rRound = 0 THEN rT0 = << >> /\ rW = << >>
                     ELSE rT0 \in Matrix(RecvRows) /\ rW \in [0..(RecvRows - 1) -> Word]
    /\ rT1 \in [1..MaxRound -> {<< >>} \cup Matrix(RecvRows)]
    /\ \A g \in 1..rRound : rT1[g] \in Matrix(RecvRows)
    /\ rPc = "challenge" => rTBuff \in PerRelation(Row) /\ rWBuff \in PerRelation(Word)
    /\ out \in [1..MaxRound -> [0..(N - 1) -> OutRow]]

(* Row i of round g is drawn at this position of the column PRNGs.         *)
PosOf(g, i) == (g - 1) * RoundRows + i
DrawnAt(row, p) == \A a \in row : a[3] = p

(* Every row the receiver holds or has handed out was drawn where its round *)
(* and its number say.                                                     *)
PadInv ==
    /\ rRound # 0 => \A i \in 0..(RecvRows - 1) : DrawnAt(rT0[i], PosOf(rRound, i))
    /\ \A g \in 1..MaxRound, i \in 0..(N - 1) : DrawnAt(out[g][i].t, PosOf(g, i))

(* The sender: its index follows the steps, and has moved ahead while a     *)
(* correction is awaited.                                                  *)
SendInv ==
    /\ choices \in SUBSET Cols /\ sDelta \in SUBSET Cols
    /\ sPc \in {"base", "ready", "open", "recv", "final", "proof", "abort"}
    /\ sBlk \in Nat /\ sRound \in 0..MaxRound /\ sStep \in 0..NumSteps
    /\ sIdx \in 0..SendRows
    /\ sPc = "open" => sIdx = StepLo(sStep + 1)
    /\ sPc = "recv" => sStep < NumSteps /\ sIdx = Bound[sStep + 1]
    /\ sPc = "final" => sIdx = N + Stat
    /\ IF sRound = 0 THEN sT = << >> /\ sCor = << >>
                     ELSE sT \in Matrix(SendRows) /\ sCor \in Matrix(SendRows)
    /\ sPc \in {"open", "recv", "final"} => sRound # 0
    /\ sSeed \in SUBSET Seeds

(* The socket: a correction refers to rows of an allocation that exists.    *)
InAllocation(m) == m.mem <= rRound /\ m.lo + m.count <= RecvRows
NetInv ==
    /\ toS \in Seq(MsgToS)
    /\ \A k \in 1..Len(toS) : toS[k].kind = "cor" => InAllocation(toS[k])
    /\ toR \in Seq(MsgToR)
    /\ closed \in BOOLEAN
    /\ tampered \in 0..MaxTamper

IInv == RecvInv /\ PadInv /\ SendInv /\ NetInv

---------------------------------------------------------------------------
(* Facts every action uses. *)

(* The steps cut the rows of a round into adjacent pieces that end at N.    *)
LEMMA StepFacts ==
    /\ NumSteps \in Nat \ {0}
    /\ StepLo(1) = 0 /\ StepLo(NumSteps + 1) = N
    /\ \A k \in 1..NumSteps :
          /\ Bound[k] \in 1..N /\ StepLo(k) \in 0..N /\ StepCount(k) \in Nat
          /\ StepLo(k) + StepCount(k) = Bound[k] /\ StepLo(k + 1) = Bound[k]
<1> USE ConstantFacts
<1>1. Bound \in Seq(1..N) /\ Bound # << >> /\ Bound[Len(Bound)] = N
      /\ \A k \in 1..(Len(Bound) - 1) : Bound[k] < Bound[k + 1]
  BY OosAssumption
<1>2. NumSteps \in Nat \ {0} /\ \A k \in 1..NumSteps : Bound[k] \in 1..N
  BY <1>1 DEF NumSteps
<1>3. StepLo(1) = 0 /\ StepLo(NumSteps + 1) = N
  BY <1>1, <1>2 DEF StepLo, NumSteps
<1>4. ASSUME NEW k \in 1..NumSteps
      PROVE  /\ Bound[k] \in 1..N /\ StepLo(k) \in 0..N /\ StepCount(k) \in Nat
             /\ StepLo(k) + StepCount(k) = Bound[k] /\ StepLo(k + 1) = Bound[k]
  <2>1. CASE k = 1
    BY <1>2, <2>1 DEF StepLo, StepCount
  <2>2. CASE k # 1
    <3>1. k - 1 \in 1..(Len(Bound) - 1) /\ k - 1 \in 1..NumSteps /\ (k - 1) + 1 = k
      BY <1>2, <2>2 DEF NumSteps
    <3>2. Bound[k - 1] < Bound[k]
      BY <1>1, <3>1
    <3>3. QED
      BY <1>2, <2>2, <3>1, <3>2 DEF StepLo, StepCount
  <2>3. QED
    BY <2>1, <2>2
<1>5. QED
  BY <1>2, <1>3, <1>4

(* Rows made from PRNG positions and codewords are rows.                   *)
LEMMA PrngRowType ==
    ASSUME NEW D \in SUBSET Cols, NEW p \in Nat
    PROVE  PrngRow(SeedOf(D), p) \in Row /\ DrawnAt(PrngRow(SeedOf(D), p), p)
  BY DEF PrngRow, SeedOf, Row, Unknown, DrawnAt

LEMMA ConstType == ASSUME NEW C \in SUBSET Cols PROVE Const(C) \in Row
  BY DEF Const, Row, Unknown

LEMMA MaskType == ASSUME NEW row \in Row, NEW D PROVE Mask(row, D) \in Row
  BY DEF Mask, Row

LEMMA CodeWordType == ASSUME NEW w \in Word PROVE CodeWord(w) \in SUBSET Cols
<1>1. \A b \in w : Gen[b] \in SUBSET Cols
  BY OosAssumption DEF Word
<1>2. QED
  BY <1>1, XorSumClosed DEF CodeWord

LEMMA ChallengedRows ==
    ASSUME NEW seed \in Seeds, NEW l \in 0..(Stat - 1), NEW idx
    PROVE  Challenged(seed, l, idx) \in SUBSET (0..(N - 1))
  BY OosAssumption DEF Challenged

(* Before its first init a party's matrices have no rows.                  *)
LEMMA NoRows == DOMAIN << >> = {}
<1>1. << >> \in Seq({}) /\ Len(<< >>) = 0
  OBVIOUS
<1>2. DOMAIN << >> = 1..0
  BY <1>1, LenProperties
<1>3. QED
  BY <1>2

(* A party whose variables a step leaves alone keeps its invariant.        *)
LEMMA RecvIdle ==
    ASSUME RecvInv, PadInv, UNCHANGED recvVars
    PROVE  RecvInv' /\ PadInv'
  BY DEF RecvInv, PadInv, recvVars

LEMMA SendIdle ==
    ASSUME SendInv, UNCHANGED <<choices, sendVars>>
    PROVE  SendInv'
  BY DEF SendInv, sendVars

LEMMA NetIdle ==
    ASSUME NetInv, RecvInv, rRound' = rRound \/ rRound' = rRound + 1, UNCHANGED netVars
    PROVE  NetInv'
  BY SMTT(30) DEF NetInv, RecvInv, netVars, InAllocation, MsgToS, CorrectionMsg

(* Sending to the sender, and the sender taking a message.                 *)
LEMMA SendsToS ==
    ASSUME NetInv, NEW m \in MsgToS, m.kind = "cor" => InAllocation(m),
           toS' = Append(toS, m), UNCHANGED <<rRound, toR, closed, tampered>>
    PROVE  NetInv'
<1>1. toS' \in Seq(MsgToS) /\ Len(toS') = Len(toS) + 1 /\ Len(toS) \in Nat
  BY DEF NetInv
<1>2. \A k \in 1..Len(toS') : toS'[k] = IF k <= Len(toS) THEN toS[k] ELSE m
  BY DEF NetInv
<1>3. QED
  BY <1>1, <1>2 DEF NetInv, InAllocation

LEMMA TakesFromToS ==
    ASSUME NetInv, toS # << >>, toS' = Tail(toS), closed' \in BOOLEAN, toR' \in Seq(MsgToR),
           UNCHANGED <<rRound, tampered>>
    PROVE  NetInv'
<1>1. toS' \in Seq(MsgToS) /\ Len(toS') = Len(toS) - 1
      /\ \A k \in 1..Len(toS') : toS'[k] = toS[k + 1]
  BY HeadTailProperties DEF NetInv
<1>2. Len(toS) \in Nat /\ \A k \in 1..Len(toS') : k + 1 \in 1..Len(toS)
  BY <1>1 DEF NetInv
<1>3. QED
  BY <1>1, <1>2 DEF NetInv, InAllocation

---------------------------------------------------------------------------
(* The initial states. *)

LEMMA InitIInv == Init => IInv
<1> SUFFICES ASSUME Init PROVE IInv
  OBVIOUS
<1> USE ConstantFacts DEF Init
<1>1. RecvInv
  <2>1. StepLo(1) = 0 /\ 0 \in 0..NumSteps /\ 0 \in 0..RecvRows /\ 0 = 0 * RoundBlks
    BY StepFacts, RowFacts
  <2>2. NoRow \in OutRow
    BY DEF NoRow, OutRow, Row, Word, ZeroBlock
  <2>3. out \in [1..MaxRound -> [0..(N - 1) -> OutRow]]
    BY <2>2
  <2>4. rT1 \in [1..MaxRound -> {<< >>} \cup Matrix(RecvRows)]
    OBVIOUS
  <2>5. QED
    BY <2>1, <2>3, <2>4 DEF RecvInv
<1>2. PadInv
  BY DEF PadInv, DrawnAt, NoRow, ZeroBlock
<1>3. SendInv
  BY StepFacts, RowFacts DEF SendInv
<1>4. NetInv
  BY DEF NetInv
<1>5. QED
  BY <1>1, <1>2, <1>3, <1>4 DEF IInv

---------------------------------------------------------------------------
(* The receiver's steps. *)

LEMMA RecvSetBaseOtsStep ==
    ASSUME IInv, NEW d \in SUBSET Cols, RecvSetBaseOts(d)
    PROVE  IInv'
<1> USE DEF IInv, RecvSetBaseOts
<1>1. RecvInv'
  BY DEF RecvInv
<1>2. PadInv'
  BY DEF PadInv
<1>3. SendInv'
  BY SendIdle DEF sendVars
<1>4. NetInv'
  BY SendsToS DEF MsgToS
<1>5. QED
  BY <1>1, <1>2, <1>3, <1>4

(* A new round draws its rows where the last one stopped.                  *)
LEMMA RecvInitStep ==
    ASSUME IInv, RecvInit
    PROVE  IInv'
<1> USE DEF IInv, RecvInit
<1> DEFINE pos(i) == rBlk * RowBlk + i
<1>1. rRound \in Nat /\ rRound' = rRound + 1 /\ rRound' \in 1..MaxRound
  BY ConstantFacts DEF RecvInv
<1>2. /\ \A i \in 0..(RecvRows - 1) : pos(i) \in Nat /\ pos(i) = PosOf(rRound', i)
      /\ rBlk' = rRound' * RoundBlks
  <2>1. rBlk = rRound * RoundBlks /\ RoundBlks \in Nat /\ RowBlk \in Nat
    BY RowFacts, ConstantFacts DEF RecvInv
  <2>2. (rRound * RoundBlks) * RowBlk = rRound * (RoundBlks * RowBlk)
    BY <1>1, <2>1
  <2>3. rBlk * RowBlk = rRound * RoundRows
    BY <2>1, <2>2 DEF RoundRows
  <2>4. rRound * RoundRows \in Nat
    BY <1>1, RowFacts
  <2>5. (rRound + 1) - 1 = rRound
    BY <1>1
  <2>6. \A i \in 0..(RecvRows - 1) : pos(i) \in Nat /\ pos(i) = PosOf(rRound', i)
    BY <1>1, <2>3, <2>4, <2>5, RowFacts DEF PosOf
  <2>7. NextBlk(rBlk, RecvRows) = rBlk + RoundBlks
    <3> DEFINE c == DivCeil(RecvRows \div RowBlk, SuperBlk) * SuperBlk
    <3>1. RoundBlks = 0 + c /\ NextBlk(rBlk, RecvRows) = rBlk + c
      BY DEF RoundBlks, NextBlk
    <3>2. c \in Nat
      <4>1. RecvRows \div RowBlk \in Nat
        BY Division, RowFacts, ConstantFacts
      <4>2. DivCeil(RecvRows \div RowBlk, SuperBlk) \in Nat
        BY <4>1, RoundUpToBound, ConstantFacts
      <4>3. QED
        BY <4>2, ConstantFacts
    <3> HIDE DEF c
    <3>3. QED
      BY <3>1, <3>2
  <2>8. rRound * RoundBlks + RoundBlks = (rRound + 1) * RoundBlks
    BY <1>1, <2>1
  <2>9. QED
    BY <1>1, <2>1, <2>6, <2>7, <2>8
<1>3. \A i \in 0..(RecvRows - 1) :
         /\ PrngRow(T0Seeds, pos(i)) \in Row /\ DrawnAt(PrngRow(T0Seeds, pos(i)), pos(i))
         /\ PrngRow(T1Seeds, pos(i)) \in Row
  BY <1>2, PrngRowType DEF RecvInv, T0Seeds, T1Seeds
<1>4. rT0' \in Matrix(RecvRows)
  BY <1>3 DEF Matrix
<1> DEFINE t1 == [i \in 0..(RecvRows - 1) |-> PrngRow(T1Seeds, pos(i))]
<1>5. t1 \in Matrix(RecvRows)
  BY <1>3 DEF Matrix
<1>6. /\ rT1' \in [1..MaxRound -> {<< >>} \cup Matrix(RecvRows)]
      /\ \A g \in 1..rRound' : rT1'[g] \in Matrix(RecvRows)
  <2>1. rT1' = [rT1 EXCEPT ![rRound'] = t1]
    BY <1>1 DEF T1Mem
  <2>2. /\ rT1 \in [1..MaxRound -> {<< >>} \cup Matrix(RecvRows)]
        /\ \A g \in 1..rRound : rT1[g] \in Matrix(RecvRows)
    BY DEF RecvInv
  <2> HIDE DEF t1, RecvInit, IInv
  <2>3. QED
    BY <1>1, <1>5, <2>1, <2>2
<1>7. RecvInv'
  <2>1. rW' \in [0..(RecvRows - 1) -> Word]
    BY DEF Word
  <2>2. rIdx' = 0 /\ rStep' = 0 /\ StepLo(0 + 1) = 0 /\ 0 \in 0..NumSteps /\ 0 \in 0..RecvRows
    BY StepFacts, RowFacts
  <2>3. QED
    BY <1>1, <1>2, <1>4, <1>6, <2>1, <2>2 DEF RecvInv
<1>8. PadInv'
  <2>1. \A i \in 0..(RecvRows - 1) : DrawnAt(rT0'[i], PosOf(rRound', i))
    BY <1>2, <1>3
  <2>2. QED
    BY <2>1 DEF PadInv
<1>9. SendInv' /\ NetInv'
  BY <1>1, SendIdle, NetIdle DEF sendVars
<1>10. QED
  BY <1>7, <1>8, <1>9

(* What the receiver holds while a round is open.                          *)
LEMMA OpenRound ==
    ASSUME RecvInv, rPc \in {"open", "challenge"}
    PROVE  /\ rRound \in 1..MaxRound /\ T1Mem(rRound) = rRound
           /\ rT0 \in Matrix(RecvRows) /\ rT1[rRound] \in Matrix(RecvRows)
           /\ rW \in [0..(RecvRows - 1) -> Word]
  BY ConstantFacts DEF RecvInv, T1Mem

LEMMA CorrectionRowType ==
    ASSUME RecvInv, rPc \in {"open", "challenge"}, NEW i \in 0..(RecvRows - 1), NEW w \in Word
    PROVE  CorrectionRow(i, w) \in Row
<1>1. rT0[i] \in Row /\ rT1[T1Mem(rRound)][i] \in Row /\ Const(CodeWord(w)) \in Row
  BY OpenRound, ConstType, CodeWordType DEF Matrix
<1>2. QED
  BY <1>1, XorClosed DEF CorrectionRow, Row

(* Rewriting rows of the current allocation keeps rT1 and its rows typed.   *)
LEMMA RewriteT1 ==
    ASSUME RecvInv, rPc \in {"open", "challenge"}, NEW m \in Matrix(RecvRows),
           rT1' = [rT1 EXCEPT ![rRound] = m], rRound' = rRound
    PROVE  /\ rT1' \in [1..MaxRound -> {<< >>} \cup Matrix(RecvRows)]
           /\ \A g \in 1..rRound' : rT1'[g] \in Matrix(RecvRows)
<1>1. rRound \in 1..MaxRound
  BY OpenRound
<1>2. /\ rT1 \in [1..MaxRound -> {<< >>} \cup Matrix(RecvRows)]
      /\ \A g \in 1..rRound : rT1[g] \in Matrix(RecvRows)
  BY DEF RecvInv
<1>3. QED
  BY <1>1, <1>2

(* Encoding row i, as encode or zeroEncode do: mW, mT1 and the application's *)
(* row change, and the application gets the row as drawn or nothing.       *)
LEMMA EncodesRow ==
    ASSUME IInv, NEW i \in 0..(N - 1), NEW w \in Word, NEW u \in Row, NEW t,
           t = rT0[i] \/ t = ZeroBlock,
           rPc = "open",
           rW' = [rW EXCEPT ![i] = w],
           rT1' = [rT1 EXCEPT ![T1Mem(rRound)][i] = u],
           out' = [out EXCEPT ![rRound][i] = [t |-> t, w |-> w, used |-> TRUE]],
           UNCHANGED <<choices, rPc, rFlip, rBlk, rRound, rT0, rIdx, rStep, rTBuff, rWBuff,
                       sendVars, netVars>>
    PROVE  IInv'
<1> USE DEF IInv
<1>1. /\ rRound \in 1..MaxRound /\ T1Mem(rRound) = rRound
      /\ rT0 \in Matrix(RecvRows) /\ rT1[rRound] \in Matrix(RecvRows)
      /\ rW \in [0..(RecvRows - 1) -> Word]
  BY OpenRound
<1>2. i \in 0..(RecvRows - 1)
  BY RowFacts, ConstantFacts
<1>3. t \in Row
  BY <1>1, <1>2 DEF Matrix, Row, ZeroBlock
<1>4. RecvInv'
  <2>1. rW' \in [0..(RecvRows - 1) -> Word]
    BY <1>1
  <2>2. [rT1[rRound] EXCEPT ![i] = u] \in Matrix(RecvRows)
    BY <1>1, <1>2 DEF Matrix
  <2>3. rT1' = [rT1 EXCEPT ![rRound] = [rT1[rRound] EXCEPT ![i] = u]]
    BY <1>1 DEF RecvInv
  <2>4. /\ rT1' \in [1..MaxRound -> {<< >>} \cup Matrix(RecvRows)]
        /\ \A g \in 1..rRound' : rT1'[g] \in Matrix(RecvRows)
    BY <2>2, <2>3, RewriteT1
  <2>5. out' \in [1..MaxRound -> [0..(N - 1) -> OutRow]]
    <3>1. [t |-> t, w |-> w, used |-> TRUE] \in OutRow
      BY <1>3 DEF OutRow
    <3>2. out \in [1..MaxRound -> [0..(N - 1) -> OutRow]]
      BY DEF RecvInv
    <3> HIDE DEF IInv
    <3>3. QED
      BY <1>1, <3>1, <3>2
  <2>6. QED
    BY <1>1, <2>1, <2>4, <2>5 DEF RecvInv
<1>5. PadInv'
  <2>1. DrawnAt(t, PosOf(rRound, i))
    BY <1>1, <1>2 DEF PadInv, DrawnAt, ZeroBlock
  <2>2. \A g \in 1..MaxRound, j \in 0..(N - 1) :
           out'[g][j].t = IF g = rRound /\ j = i THEN t ELSE out[g][j].t
    BY <1>1 DEF RecvInv
  <2>3. QED
    BY <2>1, <2>2 DEF PadInv
<1>6. SendInv'
  BY SendIdle
<1>7. NetInv'
  BY NetIdle
<1>8. QED
  BY <1>4, <1>5, <1>6, <1>7

LEMMA RecvEncodeStep ==
    ASSUME IInv, NEW i \in 0..(N - 1), NEW w \in Word, RecvEncode(i, w)
    PROVE  IInv'
<1>1. rPc = "open" /\ RecvInv
  BY DEF RecvEncode, Encodable, IInv
<1>2. CorrectionRow(i, w) \in Row
  BY <1>1, CorrectionRowType, RowFacts, ConstantFacts
<1>3. QED
  BY <1>1, <1>2, EncodesRow DEF RecvEncode

LEMMA RecvZeroEncodeStep ==
    ASSUME IInv, NEW i \in 0..(N - 1), RecvZeroEncode(i)
    PROVE  IInv'
<1>1. rPc = "open" /\ RecvInv
  BY DEF RecvZeroEncode, Encodable, IInv
<1>2. Xor(rT0[i], rT1[T1Mem(rRound)][i]) \in Row
  BY <1>1, OpenRound, XorClosed, RowFacts, ConstantFacts DEF Matrix, Row
<1>3. {} \in Word
  BY DEF Word
<1>4. QED
  BY <1>1, <1>2, <1>3, EncodesRow DEF RecvZeroEncode

(* A correction message of rows the receiver has.                          *)
LEMMA CorrectionInAllocation ==
    ASSUME RecvInv, rPc = "open", NEW lo \in Nat, NEW count \in Nat, lo + count <= RecvRows
    PROVE  /\ Correction(T1Mem(rRound), lo, count) \in MsgToS
           /\ InAllocation(Correction(T1Mem(rRound), lo, count))
  BY OpenRound DEF Correction, MsgToS, CorrectionMsg, InAllocation

LEMMA RecvSendCorrectionStep ==
    ASSUME IInv, RecvSendCorrection
    PROVE  IInv'
<1> USE DEF IInv, RecvSendCorrection
<1> DEFINE k == rStep + 1
           count == StepCount(k)
<1>1. /\ k \in 1..NumSteps /\ rIdx = StepLo(k) /\ rIdx \in Nat /\ count \in Nat
      /\ rIdx + count = StepLo(k + 1) /\ rIdx + count \in 0..N
  BY StepFacts, SMTT(30) DEF RecvInv
<1>2. rIdx' = rIdx + count /\ rStep' = k
  OBVIOUS
<1>3. rIdx + count \in 0..RecvRows
  BY <1>1, RowFacts, ConstantFacts
<1>4. RecvInv'
  <2>1. rIdx' = StepLo(rStep' + 1) /\ rStep' \in 0..NumSteps /\ rIdx' \in 0..RecvRows
    BY <1>1, <1>2, <1>3, StepFacts
  <2> HIDE DEF k, count
  <2>2. QED
    BY <2>1 DEF RecvInv
<1>5. PadInv'
  BY DEF PadInv
<1>6. SendInv'
  BY SendIdle DEF sendVars
<1>7. NetInv'
  BY <1>1, <1>3, CorrectionInAllocation, SendsToS
<1>8. QED
  BY <1>4, <1>5, <1>6, <1>7

(* The extra rows of the check fit behind the last correction.             *)
LEMMA RecvFinalizeStep ==
    ASSUME IInv, NEW ws \in PerRelation(Word), RecvFinalize(ws)
    PROVE  IInv'
<1> USE DEF IInv, RecvFinalize
<1>1. rIdx = N /\ N \in Nat /\ Stat \in Nat /\ N + Stat <= RecvRows /\ RecvRows \in Nat
  BY StepFacts, RowFacts, ConstantFacts DEF RecvInv
<1>2. /\ rRound \in 1..MaxRound /\ T1Mem(rRound) = rRound
      /\ rT0 \in Matrix(RecvRows) /\ rT1[rRound] \in Matrix(RecvRows)
      /\ rW \in [0..(RecvRows - 1) -> Word]
  BY OpenRound
<1>3. \A i \in rIdx..(rIdx + Stat - 1) : i \in 0..(RecvRows - 1) /\ i - rIdx \in 0..(Stat - 1)
  BY <1>1
<1>4. \A i \in rIdx..(rIdx + Stat - 1) : ws[i - rIdx] \in Word
  BY <1>3 DEF PerRelation
<1>5. \A i \in rIdx..(rIdx + Stat - 1) : CorrectionRow(i, ws[i - rIdx]) \in Row
  BY <1>3, <1>4, CorrectionRowType
<1> DEFINE extra == rIdx..(rIdx + Stat - 1)
           t1 == [i \in 0..(RecvRows - 1) |->
                     IF i \in extra THEN CorrectionRow(i, ws[i - rIdx]) ELSE rT1[rRound][i]]
<1>6. RecvInv'
  <2>1. rW' \in [0..(RecvRows - 1) -> Word]
    BY <1>2, <1>4
  <2>2. t1 \in Matrix(RecvRows)
    BY <1>2, <1>5 DEF Matrix
  <2>3. rT1' = [rT1 EXCEPT ![rRound] = t1]
    <3>1. DOMAIN rT1[rRound] = 0..(RecvRows - 1) /\ rRound \in DOMAIN rT1
      BY <1>2 DEF Matrix, RecvInv
    <3>2. QED
      BY <1>2, <3>1
  <2> HIDE DEF t1
  <2>4. /\ rT1' \in [1..MaxRound -> {<< >>} \cup Matrix(RecvRows)]
        /\ \A g \in 1..rRound' : rT1'[g] \in Matrix(RecvRows)
    BY <2>2, <2>3, RewriteT1
  <2>5. rTBuff' \in PerRelation(Row) /\ rWBuff' \in PerRelation(Word)
    <3>1. \A l \in 0..(Stat - 1) : rIdx + l \in 0..(RecvRows - 1)
      BY <1>1
    <3>2. QED
      BY <1>2, <3>1 DEF PerRelation, Matrix
  <2>6. rIdx' \in 0..RecvRows
    BY <1>1
  <2>7. QED
    BY <1>2, <2>1, <2>4, <2>5, <2>6 DEF RecvInv
<1>7. PadInv'
  BY DEF PadInv
<1>8. SendInv'
  BY SendIdle DEF sendVars
<1>9. NetInv'
  BY <1>1, CorrectionInAllocation, SendsToS
<1>10. QED
  BY <1>6, <1>7, <1>8, <1>9

LEMMA RecvProveStep ==
    ASSUME IInv, RecvProve
    PROVE  IInv'
<1> USE DEF IInv, RecvProve
<1> DEFINE seed == Head(toR).seed
           rows(l) == Challenged(seed, l, rIdx)
           tSum == [l \in 0..(Stat - 1) |-> Xor(rTBuff[l], XorSum(rT0, rows(l)))]
           wSum == [l \in 0..(Stat - 1) |-> Xor(rWBuff[l], XorSum(rW, rows(l)))]
           mt == [kind |-> "tSum", sum |-> tSum]
           mw == [kind |-> "wSum", sum |-> wSum]
<1>1. toR # << >> /\ toR \in Seq(MsgToR)
  BY DEF Ready, NetInv
<1>2. seed \in Seeds /\ Tail(toR) \in Seq(MsgToR)
  <2>1. Head(toR) \in MsgToR /\ Tail(toR) \in Seq(MsgToR)
    BY <1>1, HeadTailProperties
  <2>2. QED
    BY <2>1 DEF MsgToR
<1>3. /\ rT0 \in Matrix(RecvRows) /\ rW \in [0..(RecvRows - 1) -> Word]
      /\ rTBuff \in PerRelation(Row) /\ rWBuff \in PerRelation(Word)
  BY OpenRound DEF RecvInv
<1>4. \A l \in 0..(Stat - 1) : rows(l) \subseteq 0..(RecvRows - 1)
  BY <1>2, ChallengedRows, RowFacts, ConstantFacts, SMTT(30)
<1>5. tSum \in PerRelation(Row)
  <2>1. ASSUME NEW l \in 0..(Stat - 1) PROVE Xor(rTBuff[l], XorSum(rT0, rows(l))) \in Row
    <3>1. XorSum(rT0, rows(l)) \in Row
      <4>1. \A i \in rows(l) : rT0[i] \in SUBSET Unknown
        BY <1>3, <1>4 DEF Matrix, Row
      <4> HIDE DEF rows
      <4>2. QED
        BY <4>1, XorSumClosed DEF Row
    <3>2. rTBuff[l] \in Row
      BY <1>3 DEF PerRelation
    <3>3. QED
      BY <3>1, <3>2, XorClosed DEF Row
  <2>2. QED
    BY <2>1 DEF PerRelation
<1>6. wSum \in PerRelation(Word)
  <2>1. ASSUME NEW l \in 0..(Stat - 1) PROVE Xor(rWBuff[l], XorSum(rW, rows(l))) \in Word
    <3>1. XorSum(rW, rows(l)) \in Word
      <4>1. \A i \in rows(l) : rW[i] \in SUBSET Bits
        BY <1>3, <1>4 DEF Word
      <4> HIDE DEF rows
      <4>2. QED
        BY <4>1, XorSumClosed DEF Word
    <3>2. rWBuff[l] \in Word
      BY <1>3 DEF PerRelation
    <3>3. QED
      BY <3>1, <3>2, XorClosed DEF Word
  <2>2. QED
    BY <2>1 DEF PerRelation
<1>7. mt \in MsgToS /\ mw \in MsgToS /\ mt.kind # "cor" /\ mw.kind # "cor"
  BY <1>5, <1>6 DEF MsgToS
<1>8. toS' = toS \o <<mt, mw>> /\ toR' = Tail(toR)
  OBVIOUS
<1>9. RecvInv'
  BY DEF RecvInv
<1>10. PadInv'
  BY DEF PadInv
<1>11. SendInv'
  BY SendIdle DEF sendVars
<1>12. NetInv'
  <2> HIDE DEF mt, mw
  <2>1. toS \in Seq(MsgToS) /\ <<mt, mw>> \in Seq(MsgToS) /\ Len(<<mt, mw>>) = 2
    BY <1>7 DEF NetInv
  <2>2. /\ toS' \in Seq(MsgToS) /\ Len(toS') = Len(toS) + 2 /\ Len(toS) \in Nat
        /\ \A k \in 1..Len(toS') :
              toS'[k] = IF k <= Len(toS) THEN toS[k] ELSE <<mt, mw>>[k - Len(toS)]
    <3> DEFINE t == <<mt, mw>>
    <3>1. toS \in Seq(MsgToS) /\ t \in Seq(MsgToS) /\ Len(t) = 2 /\ toS' = toS \o t
      BY <1>8, <2>1
    <3>2. Len(toS) \in Nat
      BY <3>1
    <3> HIDE DEF t, IInv, RecvProve
    <3>3. toS \o t \in Seq(MsgToS) /\ Len(toS \o t) = Len(toS) + Len(t)
          /\ \A k \in 1..(Len(toS) + Len(t)) :
                (toS \o t)[k] = IF k <= Len(toS) THEN toS[k] ELSE t[k - Len(toS)]
      BY <3>1, ConcatProperties
    <3>4. QED
      BY <3>1, <3>2, <3>3 DEF t
  <2>3. \A k \in 1..Len(toS') : k > Len(toS) => toS'[k] \in {mt, mw}
    BY <2>2, SMTT(30)
  <2>4. \A k \in 1..Len(toS') : toS'[k].kind = "cor" => k \in 1..Len(toS) /\ toS'[k] = toS[k]
    BY <1>7, <2>2, <2>3
  <2>5. \A k \in 1..Len(toS') : toS'[k].kind = "cor" => InAllocation(toS[k])'
    BY <2>4 DEF NetInv, InAllocation
  <2>6. QED
    BY <1>2, <1>8, <2>2, <2>5 DEF NetInv
<1>13. QED
  BY <1>9, <1>10, <1>11, <1>12

(* Leaving a round without a check, and failing on a closed socket.        *)
LEMMA RecvLeavesStep ==
    ASSUME IInv, RecvSkipCheck \/ RecvClosed
    PROVE  IInv'
<1> USE DEF IInv, RecvSkipCheck, RecvClosed
<1>1. RecvInv'
  BY DEF RecvInv
<1>2. PadInv'
  BY DEF PadInv
<1>3. SendInv' /\ NetInv'
  BY SendIdle, NetIdle
<1>4. QED
  BY <1>1, <1>2, <1>3

---------------------------------------------------------------------------
(* The sender's steps. *)

LEMMA HeadOfToS ==
    ASSUME NetInv, toS # << >>
    PROVE  /\ Head(toS) \in MsgToS
           /\ Head(toS).kind = "delta" => Head(toS).delta \in SUBSET Cols
           /\ Head(toS).kind = "cor" => Head(toS) \in CorrectionMsg /\ InAllocation(Head(toS))
<1>1. Head(toS) \in MsgToS /\ Head(toS) = toS[1] /\ 1 \in 1..Len(toS)
  <2>1. toS \in Seq(MsgToS)
    BY DEF NetInv
  <2>2. Head(toS) \in MsgToS
    BY <2>1, HeadTailProperties
  <2>3. Head(toS) = toS[1] /\ 1 \in 1..Len(toS)
    BY <2>1
  <2>4. QED
    BY <2>2, <2>3
<1>2. Head(toS).kind = "delta" => Head(toS).delta \in SUBSET Cols
  BY <1>1 DEF MsgToS, CorrectionMsg
<1>3. Head(toS).kind = "cor" => Head(toS) \in CorrectionMsg
  BY <1>1 DEF MsgToS, CorrectionMsg
<1>4. QED
  BY <1>1, <1>2, <1>3 DEF NetInv

LEMMA SendSetBaseOtsStep ==
    ASSUME IInv, SendSetBaseOts
    PROVE  IInv'
<1> USE DEF IInv, SendSetBaseOts
<1>1. RecvInv' /\ PadInv'
  BY RecvIdle
<1>2. toS # << >> /\ Head(toS).delta \in SUBSET Cols
  BY HeadOfToS DEF Ready
<1>3. SendInv'
  BY <1>2, XorClosed DEF SendInv
<1>4. NetInv'
  BY <1>2, TakesFromToS DEF NetInv, recvVars
<1>5. QED
  BY <1>1, <1>3, <1>4

LEMMA NextBlkType ==
    ASSUME NEW b \in Nat, NEW rows \in Nat
    PROVE  NextBlk(b, rows) \in Nat
<1>1. rows \div RowBlk \in Nat
  BY Division, ConstantFacts
<1>2. DivCeil(rows \div RowBlk, SuperBlk) \in Nat
  BY <1>1, RoundUpToBound, ConstantFacts
<1>3. QED
  BY <1>2, ConstantFacts DEF NextBlk

LEMMA SendInitStep ==
    ASSUME IInv, SendInit
    PROVE  IInv'
<1> USE DEF IInv, SendInit
<1>1. RecvInv' /\ PadInv'
  BY RecvIdle
<1>2. sT' \in Matrix(SendRows) /\ sCor' \in Matrix(SendRows)
  <2>1. \A i \in 0..(SendRows - 1) : sBlk * RowBlk + i \in Nat
    <3>1. sBlk * RowBlk \in Nat
      BY ConstantFacts DEF SendInv
    <3>2. QED
      BY <3>1, RowFacts
  <2>2. \A i \in 0..(SendRows - 1) : PrngRow(SeedOf(choices), sBlk * RowBlk + i) \in Row
    BY <2>1, PrngRowType DEF SendInv
  <2>3. QED
    BY <2>2 DEF Matrix, Row, ZeroBlock
<1>3. sBlk' \in Nat
  BY NextBlkType, RowFacts DEF SendInv
<1>4. sRound' \in 0..MaxRound /\ sRound' # 0 /\ sIdx' = StepLo(sStep' + 1)
      /\ sIdx' \in 0..SendRows /\ sStep' \in 0..NumSteps
  BY ConstantFacts, StepFacts, RowFacts DEF SendInv
<1>5. SendInv'
  BY <1>2, <1>3, <1>4 DEF SendInv
<1>6. NetInv'
  BY NetIdle DEF recvVars
<1>7. QED
  BY <1>1, <1>5, <1>6

(* The awaits: the index moves, and stays within the allocation.           *)
LEMMA SendRecvCorrectionStep ==
    ASSUME IInv, SendRecvCorrection
    PROVE  IInv'
<1> USE DEF IInv, SendRecvCorrection
<1>1. RecvInv' /\ PadInv' /\ NetInv'
  BY RecvIdle, NetIdle DEF recvVars
<1>2. sIdx' = Bound[sStep + 1] /\ sIdx' \in 0..SendRows
  <2>1. sStep + 1 \in 1..NumSteps /\ sIdx = StepLo(sStep + 1)
    BY StepFacts DEF SendInv
  <2>2. QED
    BY <2>1, StepFacts, RowFacts, ConstantFacts
<1>3. SendInv'
  BY <1>2 DEF SendInv
<1>4. QED
  BY <1>1, <1>3

LEMMA SendRecvFinalizationStep ==
    ASSUME IInv, SendRecvFinalization
    PROVE  IInv'
<1> USE DEF IInv, SendRecvFinalization
<1>1. RecvInv' /\ PadInv' /\ NetInv'
  BY RecvIdle, NetIdle DEF recvVars
<1>2. sIdx' = N + Stat /\ sIdx' \in 0..SendRows
  BY StepFacts, RowFacts, ConstantFacts DEF SendInv
<1>3. SendInv'
  BY <1>2 DEF SendInv
<1>4. QED
  BY <1>1, <1>3

(* What lands is a row of mT1: the message's rows are in its allocation.    *)
LEMMA LandType ==
    ASSUME IInv, NEW count \in Nat, sRound # 0, sIdx - count \in Nat, Land(count)
    PROVE  toS # << >> /\ sCor' \in Matrix(SendRows)
<1> USE DEF IInv
<1> DEFINE m == Head(toS)
           dest == sIdx - count
<1>1. toS # << >> /\ m \in CorrectionMsg /\ InAllocation(m) /\ m.count = count
  BY HeadOfToS DEF Land, Ready
<1>2. /\ m.mem \in 1..MaxRound /\ m.mem <= rRound /\ rRound \in Nat /\ m.lo \in Nat
      /\ m.lo + count <= RecvRows /\ RecvRows \in Nat
  BY <1>1, RowFacts DEF CorrectionMsg, InAllocation, RecvInv
<1>3. rT1[m.mem] \in Matrix(RecvRows)
  BY <1>2 DEF RecvInv
<1> HIDE DEF m
<1>4. ASSUME NEW i \in dest..(dest + count - 1)
      PROVE  Delivered(m, i - dest) \in Row
  <2>1. m.lo + (i - dest) \in 0..(RecvRows - 1)
    BY <1>2
  <2>2. rT1[m.mem][m.lo + (i - dest)] \in Row
    BY <1>3, <2>1 DEF Matrix
  <2>3. Const({ c \in Cols : <<i - dest, c>> \in m.err }) \in Row
    BY ConstType
  <2>4. QED
    BY <2>2, <2>3, XorClosed DEF Delivered, Row
<1>5. sCor \in Matrix(SendRows)
  BY DEF SendInv
<1>6. sCor' = [i \in DOMAIN sCor |->
                  IF i \in dest..(dest + count - 1) THEN Delivered(m, i - dest) ELSE sCor[i]]
  BY DEF Land, m
<1> HIDE DEF dest
<1>7. QED
  BY <1>1, <1>4, <1>5, <1>6 DEF Matrix

LEMMA SendLandCorrectionStep ==
    ASSUME IInv, SendLandCorrection
    PROVE  IInv'
<1> USE DEF IInv, SendLandCorrection
<1>1. RecvInv' /\ PadInv'
  BY RecvIdle
<1> DEFINE k == sStep + 1
<1>2. /\ k \in 1..NumSteps /\ sIdx = Bound[k] /\ sRound # 0 /\ StepLo(k + 1) = Bound[k]
      /\ StepCount(k) \in Nat /\ sIdx - StepCount(k) \in Nat
  BY StepFacts DEF SendInv
<1>3. toS # << >> /\ sCor' \in Matrix(SendRows) /\ toS' = Tail(toS)
  BY <1>2, LandType DEF Land
<1>4. SendInv'
  BY <1>2, <1>3 DEF SendInv
<1>5. NetInv'
  BY <1>3, TakesFromToS DEF NetInv, recvVars
<1>6. QED
  BY <1>1, <1>4, <1>5

LEMMA SendChallengeStep ==
    ASSUME IInv, NEW seed \in Seeds, SendChallenge(seed)
    PROVE  IInv'
<1> USE DEF IInv, SendChallenge
<1>1. RecvInv' /\ PadInv'
  BY RecvIdle
<1>2. sIdx = N + Stat /\ sRound # 0 /\ Stat \in Nat /\ sIdx - Stat \in Nat
  BY ConstantFacts DEF SendInv
<1>3. toS # << >> /\ sCor' \in Matrix(SendRows) /\ toS' = Tail(toS)
  BY <1>2, LandType DEF Land
<1>4. SendInv'
  BY <1>3 DEF SendInv
<1>5. toR' \in Seq(MsgToR)
  BY DEF NetInv, MsgToR
<1>6. NetInv'
  BY <1>3, <1>5, TakesFromToS DEF NetInv, recvVars
<1>7. QED
  BY <1>1, <1>4, <1>6

LEMMA SendVerifyStep ==
    ASSUME IInv, SendVerify
    PROVE  IInv'
<1> USE DEF IInv
<1> DEFINE ok == ProofHolds(toS[1].sum, toS[2].sum)
<1>1. /\ sPc = "proof" /\ Len(toS) >= 2 /\ toS' = Tail(Tail(toS))
      /\ sPc' \in {"ready", "abort"} /\ closed' \in BOOLEAN
      /\ UNCHANGED <<choices, recvVars, sDelta, sBlk, sRound, sT, sCor, sIdx, sStep, sSeed, sQ,
                     sErr, toR, tampered>>
  BY DEF SendVerify
<1>2. RecvInv' /\ PadInv'
  BY <1>1, RecvIdle
<1>3. SendInv'
  BY <1>1 DEF SendInv
<1>4. NetInv'
  <2>1. toS \in Seq(MsgToS) /\ toS # << >>
    BY <1>1 DEF NetInv
  <2>2. /\ Tail(toS) \in Seq(MsgToS) /\ Len(Tail(toS)) = Len(toS) - 1
        /\ \A k \in 1..Len(Tail(toS)) : Tail(toS)[k] = toS[k + 1]
    BY <2>1, HeadTailProperties
  <2>3. Tail(toS) # << >>
    <3>1. Len(toS) \in Nat /\ Len(Tail(toS)) # 0
      BY <1>1, <2>1, <2>2
    <3>2. QED
      BY <3>1, EmptySeq
  <2>4. /\ toS' \in Seq(MsgToS) /\ Len(toS') = Len(Tail(toS)) - 1
        /\ \A k \in 1..Len(toS') : toS'[k] = Tail(toS)[k + 1]
    BY <1>1, <2>2, <2>3, HeadTailProperties
  <2>5. \A k \in 1..Len(toS') : k + 2 \in 1..Len(toS) /\ toS'[k] = toS[k + 2]
    BY <1>1, <2>1, <2>2, <2>4
  <2>6. QED
    BY <1>1, <2>4, <2>5 DEF NetInv, InAllocation, recvVars
<1>5. QED
  BY <1>2, <1>3, <1>4

LEMMA SendSkipCheckStep ==
    ASSUME IInv, SendSkipCheck
    PROVE  IInv'
<1> USE DEF IInv, SendSkipCheck
<1>1. RecvInv' /\ PadInv' /\ NetInv'
  BY RecvIdle, NetIdle DEF recvVars
<1>2. SendInv'
  BY DEF SendInv
<1>3. QED
  BY <1>1, <1>2

---------------------------------------------------------------------------
(* The channel, and every step. *)

LEMMA TamperStep ==
    ASSUME IInv, NEW j \in 1..Len(toS), NEW i \in 0..(N + Stat - 1), NEW c \in Cols, Tamper(j, i, c)
    PROVE  IInv'
<1> USE DEF IInv
<1> DEFINE m == [toS[j] EXCEPT !.err = @ \cup {<<i, c>>}]
<1>1. RecvInv' /\ PadInv' /\ SendInv'
  BY RecvIdle, SendIdle DEF Tamper
<1>2. toS \in Seq(MsgToS) /\ toS' = [toS EXCEPT ![j] = m]
  BY DEF Tamper, NetInv
<1>3. toS[j] \in CorrectionMsg
  <2>1. toS[j] \in MsgToS /\ toS[j].kind = "cor"
    BY <1>2, ElementOfSeq DEF Tamper
  <2>2. QED
    BY <2>1 DEF MsgToS, CorrectionMsg
<1>4. m \in CorrectionMsg /\ m.mem = toS[j].mem /\ m.lo = toS[j].lo /\ m.count = toS[j].count
  <2>1. <<i, c>> \in Nat \X Cols
    BY ConstantFacts
  <2>2. QED
    BY <1>3, <2>1 DEF CorrectionMsg
<1>5. toS[j].kind = "cor" /\ InAllocation(toS[j])
  BY DEF Tamper, NetInv
<1> HIDE DEF m
<1>6. /\ toS' \in Seq(MsgToS) /\ Len(toS') = Len(toS)
      /\ \A k \in 1..Len(toS) : toS'[k] = IF k = j THEN m ELSE toS[k]
  <2>1. m \in MsgToS
    BY <1>4 DEF MsgToS
  <2>2. QED
    BY <1>2, <2>1, ExceptSeq
<1>7. rRound' = rRound /\ tampered' \in 0..MaxTamper
  BY ConstantFacts, SMTT(30) DEF Tamper, NetInv, recvVars
<1>8. NetInv'
  <2>1. \A k \in 1..Len(toS') : toS'[k].kind = "cor" => InAllocation(toS[k])
    BY <1>5, <1>6 DEF NetInv
  <2>2. \A k \in 1..Len(toS') : toS'[k].mem = toS[k].mem /\ toS'[k].lo = toS[k].lo
                                /\ toS'[k].count = toS[k].count
    BY <1>4, <1>6
  <2>3. toR' = toR /\ closed' = closed
    BY DEF Tamper
  <2>4. QED
    BY <1>6, <1>7, <2>1, <2>2, <2>3 DEF NetInv, InAllocation
<1>9. QED
  BY <1>1, <1>8

(* Nothing changes in a step of the environment.                           *)
LEMMA StutterStep ==
    ASSUME IInv, UNCHANGED vars
    PROVE  IInv'
  BY RecvIdle, SendIdle, NetIdle DEF IInv, vars, recvVars

LEMMA NextIInv ==
    ASSUME IInv, [Next]_vars
    PROVE  IInv'
<1>1. CASE RecvNext
  <2>1. CASE \E d \in SUBSET Cols : RecvSetBaseOts(d)
    BY <2>1, RecvSetBaseOtsStep
  <2>2. CASE RecvInit
    BY <2>2, RecvInitStep
  <2>3. CASE \E i \in 0..(N - 1) : RecvZeroEncode(i) \/ \E w \in Word : RecvEncode(i, w)
    BY <2>3, RecvZeroEncodeStep, RecvEncodeStep
  <2>4. CASE RecvSendCorrection
    BY <2>4, RecvSendCorrectionStep
  <2>5. CASE \E ws \in [0..(Stat - 1) -> Word] : RecvFinalize(ws)
    BY <2>5, RecvFinalizeStep DEF PerRelation
  <2>6. CASE RecvProve
    BY <2>6, RecvProveStep
  <2>7. CASE RecvSkipCheck \/ RecvClosed
    BY <2>7, RecvLeavesStep
  <2>8. QED
    BY <1>1, <2>1, <2>2, <2>3, <2>4, <2>5, <2>6, <2>7 DEF RecvNext
<1>2. CASE SendNext
  <2>1. CASE SendSetBaseOts
    BY <2>1, SendSetBaseOtsStep
  <2>2. CASE SendInit
    BY <2>2, SendInitStep
  <2>3. CASE SendRecvCorrection
    BY <2>3, SendRecvCorrectionStep
  <2>4. CASE SendLandCorrection
    BY <2>4, SendLandCorrectionStep
  <2>5. CASE SendRecvFinalization
    BY <2>5, SendRecvFinalizationStep
  <2>6. CASE \E seed \in Seeds : SendChallenge(seed)
    BY <2>6, SendChallengeStep
  <2>7. CASE SendVerify
    BY <2>7, SendVerifyStep
  <2>8. CASE SendSkipCheck
    BY <2>8, SendSkipCheckStep
  <2>9. QED
    BY <1>2, <2>1, <2>2, <2>3, <2>4, <2>5, <2>6, <2>7, <2>8 DEF SendNext
<1>3. CASE \E j \in 1..Len(toS), i \in 0..(N + Stat - 1), c \in Cols : Tamper(j, i, c)
  BY <1>3, TamperStep
<1>4. CASE Done \/ UNCHANGED vars
  BY <1>4, StutterStep DEF Done
<1>5. QED
  BY <1>1, <1>2, <1>3, <1>4 DEF Next

(* The strengthening is an invariant of every behaviour.                   *)
THEOREM Invariant == Spec => []IInv
<1>1. Init => IInv
  BY InitIInv
<1>2. IInv /\ [Next]_vars => IInv'
  BY NextIInv
<1>3. QED
  BY <1>1, <1>2, PTL DEF Spec

---------------------------------------------------------------------------
(* The theorems. *)

(* Every variable keeps its shape and every index its bounds: mCorrectionIdx *)
(* of either party never passes the rows its init allocated, also with the  *)
(* extra rows of the check, and the rows of a correction are rows of mT1.   *)
THEOREM TypeCorrect == Spec => []TypeOK
<1>1. IInv => TypeOK
  <2> SUFFICES ASSUME IInv PROVE TypeOK
    OBVIOUS
  <2> USE DEF IInv
  <2>1. rBlk \in Nat
    BY RowFacts, ConstantFacts DEF RecvInv
  <2>2. \A i \in DOMAIN rT0 : rT0[i] \subseteq Unknown
    BY NoRows DEF RecvInv, Matrix, Row
  <2>3. \A g \in DOMAIN rT1 : \A i \in DOMAIN rT1[g] : rT1[g][i] \subseteq Unknown
    BY NoRows DEF RecvInv, Matrix, Row
  <2>4. \A i \in DOMAIN rW : rW[i] \in Word
    BY NoRows DEF RecvInv
  <2>5. \A g \in 1..MaxRound, i \in 0..(N - 1) :
           out[g][i].t \subseteq Unknown /\ out[g][i].w \in Word /\ out[g][i].used \in BOOLEAN
    <3>1. out \in [1..MaxRound -> [0..N - 1 -> OutRow]]
      BY DEF RecvInv
    <3> HIDE DEF IInv
    <3>2. \A x \in OutRow : x.t \subseteq Unknown /\ x.w \in Word /\ x.used \in BOOLEAN
      BY DEF OutRow, Row
    <3>3. QED
      BY <3>1, <3>2
  <2>6. /\ \A i \in DOMAIN sT : sT[i] \subseteq Unknown
        /\ \A i \in DOMAIN sCor : sCor[i] \subseteq Unknown
    BY NoRows DEF SendInv, Matrix, Row
  <2>7. /\ choices \subseteq Cols /\ sDelta \subseteq Cols
        /\ sPc \in {"base", "ready", "open", "recv", "final", "proof", "abort"}
        /\ sBlk \in Nat /\ sIdx \in 0..SendRows /\ sRound \in 0..MaxRound
        /\ sStep \in 0..NumSteps /\ sSeed \subseteq Seeds
    BY DEF SendInv
  <2>8. /\ rFlip \subseteq Cols /\ rIdx \in 0..RecvRows /\ rRound \in 0..MaxRound
        /\ rPc \in {"base", "ready", "open", "challenge", "failed"} /\ rStep \in 0..NumSteps
    BY DEF RecvInv
  <2>9. closed \in BOOLEAN /\ tampered \in 0..MaxTamper
    BY DEF NetInv
  <2>10. QED
    BY <2>1, <2>2, <2>3, <2>4, <2>5, <2>6, <2>7, <2>8, <2>9 DEF TypeOK
<1>2. QED
  BY <1>1, Invariant, PTL

(* No two rows handed out share a PRNG position, whatever the number of     *)
(* OTs, the block sizes and the number of inits on one set of base OTs: the *)
(* positions of a round start behind those of all rounds before it, because *)
(* mBlockIdx advances by at least the rows that init allocates.            *)
THEOREM PadsNeverReused == Spec => []PadsFresh
<1>1. IInv => PadsFresh
  <2> SUFFICES ASSUME IInv,
                      NEW g \in 1..MaxRound, NEW h \in 1..MaxRound,
                      NEW i \in 0..(N - 1), NEW j \in 0..(N - 1),
                      NEW a \in out[g][i].t, a \in out[h][j].t
               PROVE  <<g, i>> = <<h, j>>
    BY DEF PadsFresh
  <2>1. a[3] = PosOf(g, i) /\ a[3] = PosOf(h, j)
    BY DEF IInv, PadInv, DrawnAt
  <2>2. (g - 1) * RoundRows + i = (h - 1) * RoundRows + j
    BY <2>1 DEF PosOf
  <2>3. /\ g - 1 \in Nat /\ h - 1 \in Nat /\ RoundRows \in Nat \ {0}
        /\ i \in 0..(RoundRows - 1) /\ j \in 0..(RoundRows - 1)
    BY RowFacts, ConstantFacts
  <2>4. g - 1 = h - 1 /\ i = j
    BY <2>2, <2>3, PositionsApart
  <2>5. QED
    BY <2>3, <2>4
<1>2. QED
  BY <1>1, Invariant, PTL

----------------------------------------------------------------------------
(* PartiesInStep for every value of the constants: a count of the messages *)
(* each party has sent and taken says what is in the socket.                *)

(* What the receiver sends in a round: a correction per step and, for the   *)
(* check, the extra rows and two sums.                                     *)
RoundMsgs == NumSteps + (IF Malicious THEN 3 ELSE 0)

(* The rounds a party is done with, and the messages of its base OTs and of *)
(* the running round that it has sent or taken.                            *)
RecvDone == IF rPc \in {"base", "ready"} THEN rRound ELSE rRound - 1
SendDone == IF sPc \in {"base", "ready"} THEN sRound ELSE sRound - 1
SentNow ==
    CASE rPc = "base" -> 0
      [] rPc = "ready" -> 1
      [] rPc = "open" -> 1 + rStep
      [] OTHER -> 2 + NumSteps
TakenNow ==
    CASE sPc = "base" -> 0
      [] sPc = "ready" -> 1
      [] sPc \in {"open", "recv"} -> 1 + sStep
      [] sPc = "final" -> 1 + NumSteps
      [] OTHER -> 2 + NumSteps
Sent == RecvDone * RoundMsgs + SentNow
Taken == SendDone * RoundMsgs + TakenNow
Asked == SendDone + (IF sPc = "proof" THEN 1 ELSE 0)

(* The socket holds what was sent and not taken: corrections and proofs one *)
(* way, challenges the other.                                              *)
Counts ==
    /\ Len(toS) = Sent - Taken
    /\ Len(toR) = IF Malicious THEN Asked - RecvDone ELSE 0

Phases ==
    /\ rPc = "base" => rRound = 0
    /\ sPc = "base" => sRound = 0
    /\ rPc = "challenge" => Malicious
    /\ sPc \in {"final", "proof"} => Malicious /\ sRound # 0
    /\ rPc = "failed" => closed
    /\ closed => sPc = "abort"
    /\ sBlk = sRound * RoundBlks

SyncInv == Phases /\ (sPc # "abort" => Counts)

---------------------------------------------------------------------------
(* Both parties allocate the same rows, though by two formulas, and so      *)
(* their PRNGs advance alike.                                              *)
LEMMA SameRows == SendRows = RecvRows
<1>1. (N + (RowBlk - 1)) + Stat = (N + Stat) + RowBlk - 1
  BY ConstantFacts
<1>2. QED
  BY <1>1 DEF SendRows, RecvRows, RoundUpTo, DivCeil

LEMMA NextRound ==
    ASSUME NEW x \in Nat
    PROVE  /\ x * RoundMsgs \in Nat /\ (x + 1) * RoundMsgs = x * RoundMsgs + RoundMsgs
           /\ RoundMsgs \in Nat
<1>1. RoundMsgs \in Nat
  BY StepFacts DEF RoundMsgs
<1>2. QED
  BY <1>1

(* The blocks of another round.                                            *)
LEMMA AnotherBlk ==
    ASSUME NEW g \in Nat
    PROVE  NextBlk(g * RoundBlks, SendRows) = (g + 1) * RoundBlks
<1>1. NextBlk(g * RoundBlks, RecvRows) = g * RoundBlks + RoundBlks
  <2> DEFINE n == DivCeil(RecvRows \div RowBlk, SuperBlk) * SuperBlk
  <2>1. RoundBlks = 0 + n
    BY DEF RoundBlks, NextBlk
  <2>2. n \in Int
    BY RowFacts, ConstantFacts DEF DivCeil
  <2>3. QED
    BY <2>1, <2>2 DEF NextBlk
<1>2. QED
  BY <1>1, SameRows, RowFacts

LEMMA Typed ==
    ASSUME IInv
    PROVE  /\ rRound \in Nat /\ sRound \in Nat /\ rStep \in 0..NumSteps /\ sStep \in 0..NumSteps
           /\ toS \in Seq(MsgToS) /\ toR \in Seq(MsgToR) /\ Len(toS) \in Nat /\ Len(toR) \in Nat
           /\ rPc \in {"base", "ready", "open", "challenge", "failed"}
           /\ sPc \in {"base", "ready", "open", "recv", "final", "proof", "abort"}
           /\ rPc \in {"open", "challenge"} => rRound # 0
           /\ sPc \in {"open", "recv", "final"} => sRound # 0
           /\ NumSteps \in Nat \ {0} /\ Malicious \in BOOLEAN
  BY StepFacts, ConstantFacts, OosAssumption, SMTT(30) DEF IInv, RecvInv, SendInv, NetInv

(* Until the sender aborts, the counts are natural numbers.                *)
LEMMA Counted ==
    ASSUME IInv, SyncInv, sPc # "abort"
    PROVE  /\ rPc # "failed"
           /\ RecvDone \in Nat /\ SentNow \in Nat /\ Sent \in Nat
           /\ SendDone \in Nat /\ TakenNow \in Nat /\ Taken \in Nat
<1>1. rPc # "failed"
  BY DEF SyncInv, Phases
<1>2. RecvDone \in Nat /\ SentNow \in Nat
  BY <1>1, Typed DEF RecvDone, SentNow
<1>3. SendDone \in Nat /\ TakenNow \in Nat
  BY Typed DEF SendDone, TakenNow, SyncInv, Phases
<1>4. RecvDone * RoundMsgs \in Nat /\ SendDone * RoundMsgs \in Nat
  BY <1>2, <1>3, NextRound
<1>5. QED
  BY <1>1, <1>2, <1>3, <1>4 DEF Sent, Taken

(* A step of the receiver that sends n messages and ends a round or does    *)
(* not, and one of the sender that takes n and asks or does not.           *)
LEMMA RecvCounts ==
    ASSUME IInv, SyncInv, Phases', UNCHANGED sendVars, NEW n \in Nat, NEW r \in 0..1,
           rPc # "failed" =>
             /\ RecvDone' = RecvDone + r
             /\ RecvDone' * RoundMsgs + SentNow' = (RecvDone * RoundMsgs + SentNow) + n,
           Len(toS') = Len(toS) + n,
           Len(toR') = IF Malicious THEN Len(toR) - r ELSE Len(toR)
    PROVE  SyncInv'
<1> SUFFICES ASSUME sPc' # "abort" PROVE Counts'
  BY DEF SyncInv
<1>1. sPc # "abort" /\ SendDone' = SendDone /\ TakenNow' = TakenNow /\ sPc' = sPc
  BY DEF sendVars, SendDone, TakenNow
<1>2. Counts /\ rPc # "failed" /\ RecvDone \in Nat /\ SentNow \in Nat /\ Sent \in Nat
      /\ SendDone \in Nat /\ TakenNow \in Nat /\ Taken \in Nat
  BY <1>1, Counted DEF SyncInv
<1>3. Sent' = Sent + n /\ RecvDone' = RecvDone + r
  BY <1>2 DEF Sent
<1>4. Taken' = Taken /\ Asked' = Asked /\ Asked \in Nat
  BY <1>1, <1>2 DEF Taken, Asked
<1>5. Malicious \in BOOLEAN
  BY Typed
<1>6. QED
  BY <1>2, <1>3, <1>4, <1>5 DEF Counts

LEMMA SendCounts ==
    ASSUME IInv, SyncInv, Phases', UNCHANGED recvVars, sPc # "abort", NEW n \in Nat, NEW a \in 0..1,
           SendDone' * RoundMsgs + TakenNow' = (SendDone * RoundMsgs + TakenNow) + n,
           Asked' = Asked + a,
           Len(toS') = Len(toS) - n,
           Len(toR') = IF Malicious THEN Len(toR) + a ELSE Len(toR)
    PROVE  SyncInv'
<1>1. RecvDone' = RecvDone /\ SentNow' = SentNow
  BY DEF recvVars, RecvDone, SentNow
<1>2. Counts /\ RecvDone \in Nat /\ SentNow \in Nat /\ Sent \in Nat
      /\ SendDone \in Nat /\ TakenNow \in Nat /\ Taken \in Nat
  BY Counted DEF SyncInv
<1>3. Taken' = Taken + n /\ Asked \in Nat
  BY <1>2 DEF Taken, Asked
<1>4. Sent' = Sent
  BY <1>1 DEF Sent
<1>5. Malicious \in BOOLEAN
  BY Typed
<1>6. Counts'
  BY <1>1, <1>2, <1>3, <1>4, <1>5 DEF Counts
<1>7. QED
  BY <1>6 DEF SyncInv

---------------------------------------------------------------------------
LEMMA SyncInit == Init => SyncInv
<1> SUFFICES ASSUME Init PROVE SyncInv
  OBVIOUS
<1>1. rPc = "base" /\ sPc = "base" /\ rRound = 0 /\ sRound = 0 /\ sBlk = 0
      /\ closed = FALSE /\ Len(toS) = 0 /\ Len(toR) = 0
  BY DEF Init
<1>2. RecvDone = 0 /\ SendDone = 0 /\ SentNow = 0 /\ TakenNow = 0 /\ Asked = 0
  BY <1>1 DEF RecvDone, SendDone, SentNow, TakenNow, Asked
<1>3. 0 * RoundMsgs = 0 /\ 0 * RoundBlks = 0
  BY NextRound, RowFacts
<1>4. QED
  BY <1>1, <1>2, <1>3 DEF SyncInv, Phases, Counts, Sent, Taken

(* The steps of the receiver. *)
LEMMA RecvSync ==
    ASSUME IInv, SyncInv, RecvNext
    PROVE  SyncInv'
<1>t. /\ rRound \in Nat /\ rStep \in 0..NumSteps /\ NumSteps \in Nat \ {0} /\ Malicious \in BOOLEAN
      /\ Len(toS) \in Nat /\ Len(toR) \in Nat /\ toS \in Seq(MsgToS) /\ toR \in Seq(MsgToR)
      /\ rPc \in {"base", "ready", "open", "challenge", "failed"}
      /\ rPc \in {"open", "challenge"} => rRound # 0
  BY Typed
<1>p. Phases
  BY DEF SyncInv
<1>m. /\ rRound * RoundMsgs \in Nat /\ RoundMsgs \in Nat
      /\ rRound # 0 => rRound * RoundMsgs = (rRound - 1) * RoundMsgs + RoundMsgs /\ (rRound - 1) * RoundMsgs \in Nat
  <2>1. CASE rRound = 0
    BY <2>1, NextRound
  <2>2. CASE rRound # 0
    <3>1. rRound - 1 \in Nat /\ (rRound - 1) + 1 = rRound
      BY <1>t, <2>2
    <3>2. QED
      BY <1>t, <3>1, NextRound
  <2>3. QED
    BY <2>1, <2>2
<1>1. ASSUME NEW d \in SUBSET Cols, RecvSetBaseOts(d) PROVE SyncInv'
  <2>1. Phases'
    BY <1>1, <1>p DEF RecvSetBaseOts, Phases, sendVars
  <2>2. RecvDone' = RecvDone /\ SentNow = 0 /\ SentNow' = 1 /\ RecvDone = rRound
    BY <1>1 DEF RecvSetBaseOts, RecvDone, SentNow
  <2>3. Len(toS') = Len(toS) + 1 /\ UNCHANGED toR /\ UNCHANGED sendVars
    BY <1>1, <1>t DEF RecvSetBaseOts
  <2>4. QED
    BY <2>1, <2>2, <2>3, <1>m, <1>t, RecvCounts
<1>2. ASSUME RecvInit PROVE SyncInv'
  <2>1. Phases'
    BY <1>2, <1>p, <1>t DEF RecvInit, Phases, sendVars, netVars
  <2>2. RecvDone' = RecvDone /\ SentNow = 1 /\ SentNow' = 1 /\ RecvDone = rRound
    BY <1>2, <1>t DEF RecvInit, RecvDone, SentNow
  <2>3. UNCHANGED <<toS, toR, sendVars>>
    BY <1>2 DEF RecvInit, netVars
  <2>4. RecvDone' = RecvDone + 0
        /\ RecvDone' * RoundMsgs + SentNow' = (RecvDone * RoundMsgs + SentNow) + 0
    BY <2>2, <1>m, <1>t
  <2>5. QED
    BY <2>1, <2>3, <2>4, <1>t, RecvCounts
<1>3. ASSUME NEW i \in 0..(N - 1), RecvZeroEncode(i) \/ \E w \in Word : RecvEncode(i, w) PROVE SyncInv'
  <2>1. UNCHANGED <<rPc, rRound, rStep, sendVars, netVars>>
    BY <1>3 DEF RecvZeroEncode, RecvEncode
  <2>2. Phases' /\ RecvDone' = RecvDone /\ SentNow' = SentNow /\ UNCHANGED <<toS, toR>>
    BY <2>1, <1>p DEF Phases, RecvDone, SentNow, sendVars, netVars
  <2>3. rPc = "open" /\ RecvDone = rRound - 1 /\ SentNow \in Nat
    BY <1>3, <1>t DEF RecvZeroEncode, RecvEncode, Encodable, RecvDone, SentNow
  <2>4. QED
    BY <2>1, <2>2, <2>3, <1>m, <1>t, RecvCounts
<1>4. ASSUME RecvSendCorrection PROVE SyncInv'
  <2>1. Phases'
    BY <1>4, <1>p DEF RecvSendCorrection, Phases, sendVars
  <2>2. RecvDone' = RecvDone /\ SentNow = 1 + rStep /\ SentNow' = SentNow + 1 /\ RecvDone = rRound - 1
        /\ rPc = "open"
    BY <1>4, <1>t DEF RecvSendCorrection, RecvDone, SentNow
  <2>3. Len(toS') = Len(toS) + 1 /\ UNCHANGED <<toR, sendVars>>
    BY <1>4, <1>t DEF RecvSendCorrection
  <2>4. QED
    BY <2>1, <2>2, <2>3, <1>m, <1>t, RecvCounts
<1>5. ASSUME NEW ws \in [0..(Stat - 1) -> Word], RecvFinalize(ws) PROVE SyncInv'
  <2>1. Phases'
    BY <1>5, <1>p DEF RecvFinalize, Phases, sendVars
  <2>2. RecvDone' = RecvDone /\ SentNow = 1 + NumSteps /\ SentNow' = 2 + NumSteps /\ RecvDone = rRound - 1
        /\ rPc = "open"
    BY <1>5, <1>t DEF RecvFinalize, RecvDone, SentNow
  <2>3. Len(toS') = Len(toS) + 1 /\ UNCHANGED <<toR, sendVars>>
    BY <1>5, <1>t DEF RecvFinalize
  <2>4. QED
    BY <2>1, <2>2, <2>3, <1>m, <1>t, RecvCounts
<1>6. ASSUME RecvProve PROVE SyncInv'
  <2>1. Phases' /\ Malicious
    BY <1>6, <1>p, <1>t DEF RecvProve, Phases, sendVars
  <2>2. RecvDone' = rRound /\ RecvDone = rRound - 1 /\ SentNow = 2 + NumSteps /\ SentNow' = 1
        /\ rPc = "challenge"
    BY <1>6, <1>t DEF RecvProve, RecvDone, SentNow
  <2>3. RoundMsgs = NumSteps + 3
    BY <2>1 DEF RoundMsgs
  <2>4. Len(toR') = Len(toR) - 1 /\ UNCHANGED sendVars
    BY <1>6, <1>t, HeadTailProperties DEF RecvProve, Ready
  <2>5. Len(toS') = Len(toS) + 2
    BY <1>6, <1>t DEF RecvProve
  <2>6. RecvDone' = RecvDone + 1
        /\ RecvDone' * RoundMsgs + SentNow' = (RecvDone * RoundMsgs + SentNow) + 2
    BY <1>m, <1>t, <2>2, <2>3
  <2>7. QED
    BY <2>1, <2>4, <2>5, <2>6, RecvCounts
<1>7. ASSUME RecvSkipCheck PROVE SyncInv'
  <2>1. Phases'
    BY <1>7, <1>p DEF RecvSkipCheck, Phases, sendVars, netVars
  <2>2. RecvDone' = rRound /\ RecvDone = rRound - 1 /\ SentNow = 1 + NumSteps /\ SentNow' = 1
        /\ rPc = "open" /\ ~Malicious /\ RoundMsgs = NumSteps
    BY <1>7, <1>t DEF RecvSkipCheck, RecvDone, SentNow, RoundMsgs
  <2>3. UNCHANGED <<toS, toR, sendVars>>
    BY <1>7 DEF RecvSkipCheck, netVars
  <2>4. RecvDone' = RecvDone + 1
        /\ RecvDone' * RoundMsgs + SentNow' = (RecvDone * RoundMsgs + SentNow) + 0
    BY <1>m, <1>t, <2>2
  <2>5. QED
    BY <2>1, <2>2, <2>3, <2>4, <1>t, RecvCounts
<1>8. ASSUME RecvClosed PROVE SyncInv'
  BY <1>8, <1>p DEF RecvClosed, SyncInv, Phases, sendVars, netVars
<1>9. QED
  BY <1>1, <1>2, <1>3, <1>4, <1>5, <1>6, <1>7, <1>8 DEF RecvNext

(* The steps of the sender. *)
LEMMA SendSync ==
    ASSUME IInv, SyncInv, SendNext
    PROVE  SyncInv'
<1>t. /\ sRound \in Nat /\ sStep \in 0..NumSteps /\ NumSteps \in Nat \ {0} /\ Malicious \in BOOLEAN
      /\ Len(toS) \in Nat /\ Len(toR) \in Nat /\ toS \in Seq(MsgToS) /\ toR \in Seq(MsgToR)
      /\ sPc \in {"open", "recv", "final", "proof"} => sRound # 0
  BY Typed DEF SyncInv, Phases
<1>p. Phases
  BY DEF SyncInv
<1>m. /\ sRound * RoundMsgs \in Nat /\ RoundMsgs \in Nat
      /\ sRound # 0 => sRound * RoundMsgs = (sRound - 1) * RoundMsgs + RoundMsgs /\ (sRound - 1) * RoundMsgs \in Nat
  <2>1. CASE sRound = 0
    BY <2>1, NextRound
  <2>2. CASE sRound # 0
    <3>1. sRound - 1 \in Nat /\ (sRound - 1) + 1 = sRound
      BY <1>t, <2>2
    <3>2. QED
      BY <1>t, <3>1, NextRound
  <2>3. QED
    BY <2>1, <2>2
<1>1. ASSUME SendSetBaseOts PROVE SyncInv'
  <2>1. Phases' /\ sPc # "abort"
    BY <1>1, <1>p DEF SendSetBaseOts, Phases, recvVars
  <2>2. SendDone' = sRound /\ SendDone = sRound /\ TakenNow = 0 /\ TakenNow' = 1 /\ Asked' = Asked /\ Asked \in Nat
    BY <1>1, <1>t DEF SendSetBaseOts, SendDone, TakenNow, Asked
  <2>3. Len(toS') = Len(toS) - 1 /\ UNCHANGED <<toR, recvVars>>
    BY <1>1, <1>t, HeadTailProperties DEF SendSetBaseOts, Ready
  <2>4. QED
    BY <2>1, <2>2, <2>3, <1>m, <1>t, SendCounts
<1>2. ASSUME SendInit PROVE SyncInv'
  <2>1. sBlk' = sRound' * RoundBlks
    BY <1>2, <1>p, <1>t, AnotherBlk DEF SendInit, Phases
  <2>2. Phases' /\ sPc # "abort"
    BY <1>2, <1>p, <2>1 DEF SendInit, Phases, recvVars, netVars
  <2>3. SendDone' = sRound /\ SendDone = sRound /\ TakenNow = 1 /\ TakenNow' = 1 /\ Asked' = Asked /\ Asked \in Nat
    BY <1>2, <1>t DEF SendInit, SendDone, TakenNow, Asked
  <2>4. UNCHANGED <<toS, toR, recvVars>>
    BY <1>2 DEF SendInit, netVars
  <2>5. QED
    BY <2>2, <2>3, <2>4, <1>m, <1>t, SendCounts
<1>3. ASSUME SendRecvCorrection PROVE SyncInv'
  <2>1. Phases' /\ sPc = "open"
    BY <1>3, <1>p DEF SendRecvCorrection, Phases, recvVars, netVars
  <2>2. SendDone' = sRound - 1 /\ SendDone = sRound - 1 /\ TakenNow = 1 + sStep /\ TakenNow' = 1 + sStep
        /\ Asked' = Asked /\ Asked \in Int
    BY <1>3, <1>t DEF SendRecvCorrection, SendDone, TakenNow, Asked
  <2>3. UNCHANGED <<toS, toR, recvVars>>
    BY <1>3 DEF SendRecvCorrection, netVars
  <2>4. QED
    BY <2>1, <2>2, <2>3, <1>m, <1>t, SendCounts
<1>4. ASSUME SendLandCorrection PROVE SyncInv'
  <2>1. Phases' /\ sPc = "recv"
    BY <1>4, <1>p DEF SendLandCorrection, Phases, recvVars
  <2>2. SendDone' = sRound - 1 /\ SendDone = sRound - 1 /\ TakenNow = 1 + sStep /\ TakenNow' = 2 + sStep
        /\ Asked' = Asked /\ Asked \in Int
    BY <1>4, <1>t DEF SendLandCorrection, SendDone, TakenNow, Asked
  <2>3. Len(toS') = Len(toS) - 1 /\ UNCHANGED <<toR, recvVars>>
    BY <1>4, <1>t, HeadTailProperties DEF SendLandCorrection, Land, Ready
  <2>4. QED
    BY <2>1, <2>2, <2>3, <1>m, <1>t, SendCounts
<1>5. ASSUME SendRecvFinalization PROVE SyncInv'
  <2>1. Phases' /\ sPc = "open"
    BY <1>5, <1>p, <1>t DEF SendRecvFinalization, Phases, recvVars, netVars
  <2>2. SendDone' = sRound - 1 /\ SendDone = sRound - 1 /\ TakenNow = 1 + NumSteps /\ TakenNow' = 1 + NumSteps
        /\ Asked' = Asked /\ Asked \in Int
    BY <1>5, <1>t DEF SendRecvFinalization, SendDone, TakenNow, Asked
  <2>3. UNCHANGED <<toS, toR, recvVars>>
    BY <1>5 DEF SendRecvFinalization, netVars
  <2>4. QED
    BY <2>1, <2>2, <2>3, <1>m, <1>t, SendCounts
<1>6. ASSUME NEW seed \in Seeds, SendChallenge(seed) PROVE SyncInv'
  <2>1. Phases' /\ sPc = "final" /\ Malicious
    BY <1>6, <1>p DEF SendChallenge, Phases, recvVars
  <2>2. SendDone' = sRound - 1 /\ SendDone = sRound - 1 /\ TakenNow = 1 + NumSteps /\ TakenNow' = 2 + NumSteps
        /\ Asked' = Asked + 1
    BY <1>6, <1>t DEF SendChallenge, SendDone, TakenNow, Asked
  <2>3. Len(toS') = Len(toS) - 1 /\ Len(toR') = Len(toR) + 1 /\ UNCHANGED recvVars
    BY <1>6, <1>t, HeadTailProperties DEF SendChallenge, Land, Ready
  <2>4. QED
    BY <2>1, <2>2, <2>3, <1>m, <1>t, SendCounts
<1>7. ASSUME SendVerify PROVE SyncInv'
  <2>1. Phases' /\ sPc = "proof" /\ Malicious /\ sRound # 0
    BY <1>7, <1>p DEF SendVerify, Phases, recvVars
  <2>2. CASE sPc' = "abort"
    BY <2>1, <2>2 DEF SyncInv
  <2>3. CASE sPc' # "abort"
    <3>1. SendDone' = sRound /\ SendDone = sRound - 1 /\ TakenNow = 2 + NumSteps /\ TakenNow' = 1
          /\ Asked' = Asked + 0 /\ RoundMsgs = NumSteps + 3
      BY <1>7, <1>t, <2>1, <2>3 DEF SendVerify, SendDone, TakenNow, Asked, RoundMsgs
    <3>2. Len(toS') = Len(toS) - 2 /\ UNCHANGED <<toR, recvVars>>
      <4>1. toS # << >> /\ Tail(toS) # << >>
        BY <1>7 DEF SendVerify, Ready
      <4>2. Tail(toS) \in Seq(MsgToS) /\ Len(Tail(toS)) = Len(toS) - 1
        BY <4>1, <1>t, HeadTailProperties
      <4>3. Len(Tail(Tail(toS))) = Len(Tail(toS)) - 1
        BY <4>1, <4>2, HeadTailProperties
      <4>4. QED
        BY <1>7, <1>t, <4>2, <4>3 DEF SendVerify
    <3>3. SendDone' * RoundMsgs + TakenNow' = (SendDone * RoundMsgs + TakenNow) + 2
      BY <3>1, <1>m, <1>t, <2>1
    <3>4. QED
      BY <2>1, <3>1, <3>2, <3>3, <1>t, SendCounts
  <2>4. QED
    BY <2>2, <2>3
<1>8. ASSUME SendSkipCheck PROVE SyncInv'
  <2>1. Phases' /\ sPc = "open" /\ ~Malicious /\ sRound # 0
    BY <1>8, <1>p, <1>t DEF SendSkipCheck, Phases, recvVars, netVars
  <2>2. SendDone' = sRound /\ SendDone = sRound - 1 /\ TakenNow = 1 + NumSteps /\ TakenNow' = 1
        /\ Asked' = Asked + 1 /\ RoundMsgs = NumSteps
    BY <1>8, <1>t DEF SendSkipCheck, SendDone, TakenNow, Asked, RoundMsgs
  <2>3. UNCHANGED <<toS, toR, recvVars>>
    BY <1>8 DEF SendSkipCheck, netVars
  <2>4. SendDone' * RoundMsgs + TakenNow' = (SendDone * RoundMsgs + TakenNow) + 0
    BY <2>1, <2>2, <1>m, <1>t
  <2>5. QED
    BY <2>1, <2>2, <2>3, <2>4, <1>t, SendCounts
<1>9. QED
  BY <1>1, <1>2, <1>3, <1>4, <1>5, <1>6, <1>7, <1>8 DEF SendNext

LEMMA NextSync ==
    ASSUME IInv, SyncInv, [Next]_vars
    PROVE  SyncInv'
<1>1. CASE RecvNext
  BY <1>1, RecvSync
<1>2. CASE SendNext
  BY <1>2, SendSync
<1>3. ASSUME NEW j \in 1..Len(toS), NEW i \in 0..(N + Stat - 1), NEW c \in Cols, Tamper(j, i, c)
      PROVE  SyncInv'
  <2>1. Len(toS') = Len(toS) /\ UNCHANGED <<recvVars, sendVars, toR, closed>>
    BY <1>3, Typed DEF Tamper
  <2>2. QED
    BY <2>1 DEF SyncInv, Phases, Counts, Sent, Taken, Asked, RecvDone, SendDone, SentNow, TakenNow,
                recvVars, sendVars
<1>4. CASE Done \/ UNCHANGED vars
  BY <1>4 DEF Done, vars, recvVars, sendVars, netVars, SyncInv, Phases, Counts, Sent, Taken, Asked,
              RecvDone, SendDone, SentNow, TakenNow
<1>5. QED
  BY <1>1, <1>2, <1>3, <1>4 DEF Next

(* Whatever the number of OTs, of correction steps and of inits, and with or *)
(* without the check: after as many inits the column PRNGs of both parties   *)
(* stand at the same block, though the two compute their rows by different   *)
(* formulas; and when both are through their rounds nothing is left in the   *)
(* socket that the next round could take for its own.                      *)
THEOREM StaysInStep == Spec => []PartiesInStep
<1>1. Init => SyncInv
  BY SyncInit
<1>2. IInv /\ SyncInv /\ [Next]_vars => SyncInv'
  BY NextSync
<1>3. IInv /\ SyncInv => PartiesInStep
  <2> SUFFICES ASSUME IInv, SyncInv PROVE PartiesInStep
    OBVIOUS
  <2>1. rRound = sRound => rBlk = sBlk
    BY DEF IInv, RecvInv, SyncInv, Phases
  <2>2. ASSUME rPc = "ready", sPc = "ready", rRound = sRound
        PROVE  toS = << >> /\ toR = << >>
    <3>1. Counts /\ Sent \in Nat
      BY <2>2, Counted DEF SyncInv
    <3>2. RecvDone = SendDone /\ SentNow = TakenNow /\ Asked = SendDone /\ SendDone \in Nat
      BY <2>2, Typed DEF RecvDone, SendDone, SentNow, TakenNow, Asked
    <3>3. Len(toS) = 0 /\ Len(toR) = 0
      BY <3>1, <3>2 DEF Counts, Sent, Taken
    <3>4. QED
      BY <3>3, Typed, EmptySeq
  <2>3. QED
    BY <2>1, <2>2 DEF PartiesInStep
<1>4. QED
  BY <1>1, <1>2, <1>3, Invariant, PTL DEF Spec
---------------------------------------------------------------------------
(* CorrectionsLandInPlace: the k-th message in the socket is known by the   *)
(* number of messages before it, and the rows it refers to are rows that    *)
(* nobody writes any more.                                                 *)

(* The corrections of a round: those of the steps, and for the check those  *)
(* of the extra rows, which follow the last step. Correction j of round g   *)
(* is this message of all that the receiver sends.                         *)
CorSteps == NumSteps + (IF Malicious THEN 1 ELSE 0)
CorCount(j) == IF j <= NumSteps THEN StepCount(j) ELSE Stat
MsgNumber(g, j) == 1 + (g - 1) * RoundMsgs + j

IsCorrection(m, g, j) == m.kind = "cor" /\ m.mem = g /\ m.lo = StepLo(j) /\ m.count = CorCount(j)

(* The rows of a correction on its way are rows the application has used,   *)
(* and only bits of them can be corrupted.                                 *)
InRows(m, i) == m.lo <= i /\ i < m.lo + m.count
RowsFixed(o, m) == \A i \in 0..(N - 1) : InRows(m, i) => o[m.mem][i].used
ErrInside(m) == \A e \in m.err : e[1] \in 0..(m.count - 1)

InOrder ==
    \A k \in 1..Len(toS), g \in 1..MaxRound, j \in 1..CorSteps :
        Taken + k = MsgNumber(g, j) => IsCorrection(toS[k], g, j)
OnTheWay == \A k \in 1..Len(toS) : toS[k].kind = "cor" => RowsFixed(out, toS[k]) /\ ErrInside(toS[k])
LandedRows ==
    sRound > 0 => /\ \A i \in Landed : i < N => out[sRound][i].used
                  /\ \A e \in sErr : e[1] \in Landed

LandInv ==
    /\ sPc # "abort" => InOrder
    /\ OnTheWay
    /\ sPc = "abort" => closed
    /\ sPc = "final" => sStep = NumSteps
    /\ LandedRows
    /\ CorrectionsLandInPlace

---------------------------------------------------------------------------
LEMMA CorFacts ==
    /\ CorSteps \in Nat \ {0} /\ CorSteps <= RoundMsgs /\ RoundMsgs \in Nat \ {0}
    /\ \A j \in 1..CorSteps : StepLo(j) \in 0..N /\ CorCount(j) \in Nat
    /\ \A k \in 1..(NumSteps + 1) : StepLo(k) \in 0..N
<1>1. NumSteps \in Nat \ {0} /\ Stat \in Nat /\ N \in Nat /\ Malicious \in BOOLEAN
  BY StepFacts, ConstantFacts, OosAssumption
<1>2. CorSteps \in Nat \ {0} /\ CorSteps <= RoundMsgs /\ RoundMsgs \in Nat \ {0}
      /\ CorSteps <= NumSteps + 1
  BY <1>1 DEF CorSteps, RoundMsgs
<1>3. \A k \in 1..(NumSteps + 1) : StepLo(k) \in 0..N
  BY <1>1, StepFacts
<1>4. \A j \in 1..CorSteps : CorCount(j) \in Nat
  BY <1>1, <1>2, StepFacts DEF CorCount
<1>5. QED
  BY <1>1, <1>2, <1>3, <1>4

(* A number of a message has one round and one place in it.                *)
LEMMA OnePlace ==
    ASSUME NEW g \in Nat \ {0}, NEW h \in Nat \ {0}, NEW i \in 1..RoundMsgs, NEW j \in 1..RoundMsgs,
           MsgNumber(g, i) = MsgNumber(h, j)
    PROVE  g = h /\ i = j
<1>1. RoundMsgs \in Nat \ {0}
  BY CorFacts
<1>2. (g - 1) * RoundMsgs \in Nat /\ (h - 1) * RoundMsgs \in Nat
  BY <1>1, NextRound, g - 1 \in Nat, h - 1 \in Nat
<1>3. (g - 1) * RoundMsgs + (i - 1) = (h - 1) * RoundMsgs + (j - 1)
  BY <1>1, <1>2 DEF MsgNumber
<1>4. g - 1 \in Nat /\ h - 1 \in Nat /\ i - 1 \in 0..(RoundMsgs - 1) /\ j - 1 \in 0..(RoundMsgs - 1)
  BY <1>1
<1>5. g - 1 = h - 1 /\ i - 1 = j - 1
  BY <1>1, <1>3, <1>4, PositionsApart
<1>6. QED
  BY <1>4, <1>5

(* The sender never took what was not sent.                                *)
LEMMA NotAhead ==
    ASSUME IInv, SyncInv, sPc # "abort"
    PROVE  Taken <= Sent /\ Taken + Len(toS) = Sent
  BY Counted, Typed, SMTT(30) DEF SyncInv, Counts

LEMMA CountedNext == (IInv /\ SyncInv /\ sPc # "abort" => Taken \in Nat)'
<1>1. IInv /\ SyncInv /\ sPc # "abort" => Taken \in Nat
  BY Counted
<1>2. QED
  BY <1>1, PTL

---------------------------------------------------------------------------
(* What is in the socket, when messages are taken from it or added to it.   *)

LEMMA Takes ==
    ASSUME IInv, SyncInv, SyncInv', IInv', InOrder, OnTheWay, UNCHANGED recvVars, sPc # "abort",
           NEW n \in Nat, Len(toS') = Len(toS) - n,
           \A k \in 1..Len(toS') : toS'[k] = toS[k + n]
    PROVE  (sPc' # "abort" => InOrder') /\ OnTheWay'
<1>1. \A k \in 1..Len(toS') : k + n \in 1..Len(toS) /\ k \in Nat
  BY Typed
<1>2. ASSUME sPc' # "abort" PROVE InOrder'
  <2>1. Sent' = Sent
    BY DEF Sent, RecvDone, SentNow, recvVars
  <2>2. Sent \in Nat /\ Taken \in Nat /\ Taken + Len(toS) = Sent
    BY Counted, NotAhead
  <2>3. Taken' \in Nat /\ Taken' + Len(toS') = Sent'
    <3>1. Taken' \in Nat /\ Counts'
      BY <1>2, CountedNext DEF SyncInv
    <3>2. toS' \in Seq(MsgToS)
      BY DEF IInv, NetInv
    <3>3. Len(toS') \in Nat /\ Len(toS') = Sent' - Taken'
      BY <3>1, <3>2, LenProperties DEF Counts
    <3>4. Sent' \in Nat
      BY <2>1, <2>2
    <3> DEFINE a == Taken'
               b == Sent'
               l == Len(toS')
    <3>5. a \in Nat /\ b \in Nat /\ l \in Nat /\ l = b - a
      BY <3>1, <3>3, <3>4
    <3> HIDE DEF a, b, l
    <3>6. a \in Nat /\ a + l = b
      BY <3>5
    <3>7. QED
      BY <3>6 DEF a, b, l
  <2>4. Taken' = Taken + n
    BY <2>1, <2>2, <2>3, Typed
  <2>5. ASSUME NEW k \in 1..Len(toS'), NEW g \in 1..MaxRound, NEW j \in 1..CorSteps,
               Taken' + k = MsgNumber(g, j)
        PROVE  IsCorrection(toS'[k], g, j)
    <3>1. Taken + (k + n) = MsgNumber(g, j) /\ k + n \in 1..Len(toS)
      BY <1>1, <2>2, <2>4, <2>5
    <3>2. QED
      BY <3>1 DEF InOrder
  <2>6. QED
    BY <2>5 DEF InOrder
<1>3. OnTheWay'
  <2>1. out' = out
    BY DEF recvVars
  <2>2. QED
    BY <1>1, <2>1 DEF OnTheWay, RowsFixed, ErrInside
<1>4. QED
  BY <1>2, <1>3

(* Rows once used stay so.                                                 *)
UsedStays == \A g \in 1..MaxRound, i \in 0..(N - 1) : out[g][i].used => out'[g][i].used

LEMMA Adds ==
    ASSUME IInv, SyncInv, OnTheWay, sPc # "abort" => InOrder, UNCHANGED sendVars, UsedStays,
           NEW n \in Nat, Len(toS') = Len(toS) + n,
           \A k \in 1..Len(toS) : toS'[k] = toS[k],
           sPc # "abort" => \A k \in 1..n, g \in 1..MaxRound, j \in 1..CorSteps :
               Sent + k = MsgNumber(g, j) => IsCorrection(toS'[Len(toS) + k], g, j),
           \A k \in 1..n : LET m == toS'[Len(toS) + k] IN m.kind = "cor" => RowsFixed(out', m) /\ ErrInside(m)
    PROVE  (sPc' # "abort" => InOrder') /\ OnTheWay'
<1>1. \A k \in 1..Len(toS') : k \in 1..Len(toS) \/ \E l \in 1..n : k = Len(toS) + l
  <2> SUFFICES ASSUME NEW k \in 1..Len(toS'), k \notin 1..Len(toS) PROVE \E l \in 1..n : k = Len(toS) + l
    OBVIOUS
  <2>1. k - Len(toS) \in 1..n /\ k = Len(toS) + (k - Len(toS))
    BY Typed
  <2>2. QED
    BY <2>1
<1>2. ASSUME sPc' # "abort" PROVE InOrder'
  <2>1. sPc # "abort" /\ Taken' = Taken
    BY <1>2 DEF sendVars, Taken, SendDone, TakenNow
  <2>2. Taken \in Nat /\ Taken + Len(toS) = Sent /\ Len(toS) \in Nat
    BY <2>1, Counted, NotAhead, Typed
  <2>3. ASSUME NEW k \in 1..Len(toS'), NEW g \in 1..MaxRound, NEW j \in 1..CorSteps,
               Taken' + k = MsgNumber(g, j)
        PROVE  IsCorrection(toS'[k], g, j)
    <3>1. CASE k \in 1..Len(toS)
      BY <2>1, <2>3, <3>1 DEF InOrder
    <3>2. CASE k \notin 1..Len(toS)
      <4>1. PICK l \in 1..n : k = Len(toS) + l
        BY <1>1, <3>2
      <4>2. Sent + l = MsgNumber(g, j)
        BY <2>1, <2>2, <2>3, <4>1
      <4>3. QED
        BY <2>1, <4>1, <4>2
    <3>3. QED
      BY <3>1, <3>2
  <2>4. QED
    BY <2>3 DEF InOrder
<1>3. OnTheWay'
  <2>1. ASSUME NEW k \in 1..Len(toS), toS[k].kind = "cor"
        PROVE  RowsFixed(out', toS[k]) /\ ErrInside(toS[k])
    <3>1. RowsFixed(out, toS[k]) /\ ErrInside(toS[k])
      BY <2>1 DEF OnTheWay
    <3>2. toS[k] \in MsgToS
      BY Typed, ElementOfSeq
    <3>3. toS[k].mem \in 1..MaxRound
      BY <2>1, <3>2 DEF MsgToS, CorrectionMsg
    <3>4. QED
      BY <3>1, <3>3 DEF UsedStays, RowsFixed
  <2>2. ASSUME NEW k \in 1..Len(toS'), toS'[k].kind = "cor"
        PROVE  RowsFixed(out', toS'[k]) /\ ErrInside(toS'[k])
    <3>1. CASE k \in 1..Len(toS)
      BY <2>1, <2>2, <3>1
    <3>2. CASE k \notin 1..Len(toS)
      BY <1>1, <2>2, <3>2
    <3>3. QED
      BY <3>1, <3>2
  <2>3. QED
    BY <2>2 DEF OnTheWay, RowsFixed, ErrInside
<1>4. QED
  BY <1>2, <1>3

---------------------------------------------------------------------------
(* The rows that have landed, when the receiver moves.                     *)

LEMMA LandedFacts ==
    ASSUME IInv
    PROVE  /\ StepLo(sStep + 1) \in 0..N
           /\ \A i \in Landed : i \in 0..(N + Stat - 1)
<1>1. N \in Nat /\ Stat \in Nat /\ sStep \in 0..NumSteps /\ NumSteps \in Nat
  BY ConstantFacts, Typed
<1>2. StepLo(sStep + 1) \in 0..N
  BY <1>1, CorFacts
<1>3. QED
  BY <1>1, <1>2 DEF Landed

(* A step of the receiver that leaves the landed rows of mT1 alone.        *)
LEMMA LandedAlone ==
    ASSUME IInv, LandedRows, CorrectionsLandInPlace, UNCHANGED sendVars, UsedStays,
           sRound > 0 => \A i \in Landed : rT1'[sRound][i] = rT1[sRound][i]
    PROVE  LandedRows' /\ CorrectionsLandInPlace'
<1>1. Landed' = Landed /\ sRound' = sRound /\ sCor' = sCor /\ sErr' = sErr
  BY DEF Landed, sendVars
<1>2. ASSUME sRound > 0, NEW i \in Landed
      PROVE  /\ i < N => out'[sRound][i].used
             /\ sCor'[i] = Xor(rT1'[sRound][i], Const(ErrOf(i)'))
  <2>1. i \in 0..(N + Stat - 1) /\ N \in Nat /\ Stat \in Nat
    BY LandedFacts, ConstantFacts
  <2>2. sRound \in 1..MaxRound
    BY <1>2, Typed DEF IInv, SendInv
  <2>3. i < N => out'[sRound][i].used
    BY <1>2, <2>1, <2>2 DEF LandedRows, UsedStays
  <2>4. ErrOf(i)' = ErrOf(i)
    BY <1>1 DEF ErrOf
  <2>5. sCor[i] = Xor(rT1[sRound][i], Const(ErrOf(i)))
    BY <1>2 DEF CorrectionsLandInPlace
  <2>6. rT1'[sRound][i] = rT1[sRound][i]
    BY <1>2
  <2>7. QED
    BY <1>1, <2>3, <2>4, <2>5, <2>6
<1>3. LandedRows'
  BY <1>1, <1>2 DEF LandedRows
<1>4. CorrectionsLandInPlace'
  BY <1>1, <1>2 DEF CorrectionsLandInPlace
<1>5. QED
  BY <1>3, <1>4

(* The rounds of a running party, in messages.                             *)
LEMMA Rounds ==
    ASSUME NEW g \in Nat, NEW h \in Nat, g < h
    PROVE  g * RoundMsgs + RoundMsgs <= h * RoundMsgs /\ g * RoundMsgs \in Nat
<1>1. PICK d \in Nat : h = g + 1 + d
  BY h - g - 1 \in Nat
<1>2. RoundMsgs \in Nat
  BY CorFacts
<1>3. h * RoundMsgs = g * RoundMsgs + RoundMsgs + d * RoundMsgs
  BY <1>1, <1>2
<1>4. d * RoundMsgs \in Nat /\ g * RoundMsgs \in Nat
  BY <1>1, <1>2
<1>5. QED
  BY <1>2, <1>3, <1>4

(* A sender that is a round ahead of the receiver has nothing of it yet.   *)
LEMMA AheadHasNothing ==
    ASSUME IInv, SyncInv, sPc # "abort", rPc = "ready", sRound > rRound
    PROVE  Landed = {}
<1>1. /\ rRound \in Nat /\ sRound \in Nat /\ RoundMsgs \in Nat \ {0} /\ NumSteps \in Nat \ {0}
      /\ sStep \in 0..NumSteps
  BY Typed, CorFacts
<1>2. Sent = rRound * RoundMsgs + 1 /\ Taken <= Sent
  BY NotAhead DEF Sent, RecvDone, SentNow
<1>3. rRound * RoundMsgs + RoundMsgs <= sRound * RoundMsgs /\ rRound * RoundMsgs \in Nat
      /\ sRound * RoundMsgs \in Nat
  BY <1>1, Rounds
<1>4. sRound - 1 \in Nat /\ rRound <= sRound - 1 /\ rRound * RoundMsgs <= (sRound - 1) * RoundMsgs
      /\ (sRound - 1) * RoundMsgs \in Nat
  <2>1. sRound - 1 \in Nat /\ rRound <= sRound - 1
    BY <1>1
  <2>2. CASE rRound = sRound - 1
    BY <1>1, <1>3, <2>1, <2>2
  <2>3. CASE rRound < sRound - 1
    <3>1. (sRound - 1) * RoundMsgs \in Nat
      BY <1>1, <2>1
    <3>2. QED
      BY <1>1, <1>3, <2>1, <2>3, <3>1, Rounds
  <2>4. QED
    BY <1>1, <2>1, <2>2, <2>3
<1>5. sPc # "base"
  BY <1>1 DEF SyncInv, Phases
<1>6. sPc # "ready"
  <2> SUFFICES ASSUME sPc = "ready" PROVE FALSE
    OBVIOUS
  <2>1. Taken = sRound * RoundMsgs + 1
    BY DEF Taken, SendDone, TakenNow
  <2>2. QED
    BY <1>1, <1>2, <1>3, <2>1
<1>7. Taken = (sRound - 1) * RoundMsgs + TakenNow /\ TakenNow \in Nat
  BY <1>5, <1>6, Counted DEF Taken, SendDone
<1>8. TakenNow <= 1
  BY <1>2, <1>3, <1>4, <1>7
<1>9. sPc \in {"open", "recv"} /\ sStep = 0
  BY <1>1, <1>5, <1>6, <1>8, Typed DEF TakenNow
<1>10. StepLo(sStep + 1) = 0
  BY <1>9, StepFacts
<1>11. QED
  BY <1>9, <1>10 DEF Landed

(* The rows of the check land after the receiver has sent them.            *)
LEMMA BeforeFinalize ==
    ASSUME IInv, SyncInv, sPc # "abort", rPc = "open", Malicious, sRound = rRound
    PROVE  \A i \in Landed : i \in 0..(N - 1)
<1>1. /\ rRound \in Nat \ {0} /\ RoundMsgs \in Nat \ {0} /\ NumSteps \in Nat \ {0}
      /\ rStep \in 0..NumSteps /\ N \in Nat /\ RoundMsgs = NumSteps + 3
  BY Typed, CorFacts, ConstantFacts DEF RoundMsgs
<1>2. Sent = (rRound - 1) * RoundMsgs + (1 + rStep) /\ Taken <= Sent
  BY NotAhead DEF Sent, RecvDone, SentNow
<1>3. (rRound - 1) * RoundMsgs \in Nat /\ rRound * RoundMsgs = (rRound - 1) * RoundMsgs + RoundMsgs
  BY <1>1, rRound - 1 \in Nat
<1>4. sPc # "ready"
  <2> SUFFICES ASSUME sPc = "ready" PROVE FALSE
    OBVIOUS
  <2>1. Taken = rRound * RoundMsgs + 1
    BY DEF Taken, SendDone, TakenNow
  <2>2. QED
    BY <1>1, <1>2, <1>3, <2>1
<1>5. sPc # "proof"
  <2> SUFFICES ASSUME sPc = "proof" PROVE FALSE
    OBVIOUS
  <2>1. Taken = (rRound - 1) * RoundMsgs + (2 + NumSteps)
    BY DEF Taken, SendDone, TakenNow
  <2>2. QED
    BY <1>1, <1>2, <1>3, <2>1
<1>6. Landed = 0..(StepLo(sStep + 1) - 1)
  BY <1>4, <1>5 DEF Landed
<1>7. QED
  BY <1>1, <1>6, LandedFacts
---------------------------------------------------------------------------
(* The receiver's steps. *)

LEMMA RecvKeeps ==
    ASSUME IInv, SyncInv, LandInv, UNCHANGED sendVars, closed' = closed, UsedStays,
           sRound > 0 => \A i \in Landed : rT1'[sRound][i] = rT1[sRound][i],
           (sPc' # "abort" => InOrder') /\ OnTheWay'
    PROVE  LandInv'
<1>1. LandedRows' /\ CorrectionsLandInPlace'
  BY LandedAlone DEF LandInv
<1>2. QED
  BY <1>1 DEF LandInv, sendVars

(* A step that sends nothing. *)
LEMMA RecvSilent ==
    ASSUME IInv, SyncInv, LandInv, UNCHANGED <<sendVars, toS, closed>>, UsedStays,
           sRound > 0 => \A i \in Landed : rT1'[sRound][i] = rT1[sRound][i]
    PROVE  LandInv'
<1>1. Len(toS') = Len(toS) + 0
  BY Typed
<1>2. OnTheWay /\ (sPc # "abort" => InOrder)
  BY DEF LandInv
<1>3. 0 \in Nat /\ 1..0 = {} /\ toS' = toS /\ UNCHANGED sendVars
  OBVIOUS
<1>4. (sPc' # "abort" => InOrder') /\ OnTheWay'
  BY <1>1, <1>2, <1>3, Adds
<1>5. QED
  BY <1>4, RecvKeeps

LEMMA SetBaseOtsLands ==
    ASSUME IInv, SyncInv, LandInv, NEW d \in SUBSET Cols, RecvSetBaseOts(d)
    PROVE  LandInv'
<1>1. toS \in Seq(MsgToS) /\ UNCHANGED <<sendVars, closed, out, rT1>> /\ rPc = "base" /\ rRound = 0
  BY Typed DEF RecvSetBaseOts, SyncInv, Phases
<1>2. /\ Len(toS') = Len(toS) + 1 /\ \A k \in 1..Len(toS) : toS'[k] = toS[k]
      /\ toS'[Len(toS) + 1].kind = "delta"
  BY <1>1 DEF RecvSetBaseOts
<1>3. Sent = 0
  BY <1>1, NextRound DEF Sent, RecvDone, SentNow
<1>4. ASSUME NEW k \in 1..1, NEW g \in 1..MaxRound, NEW j \in 1..CorSteps
      PROVE  Sent + k # MsgNumber(g, j)
  <2>1. (g - 1) * RoundMsgs \in Nat /\ j >= 1 /\ j \in Nat
    BY NextRound, CorFacts, ConstantFacts, g - 1 \in Nat
  <2>2. QED
    BY <1>3, <2>1 DEF MsgNumber
<1>5. (sPc' # "abort" => InOrder') /\ OnTheWay'
  <2>1. OnTheWay /\ (sPc # "abort" => InOrder) /\ UsedStays
    BY <1>1 DEF LandInv, UsedStays
  <2>2. \A k \in 1..1 : k = 1
    OBVIOUS
  <2>3. QED
    BY <1>1, <1>2, <1>4, <2>1, <2>2, Adds
<1>6. QED
  BY <1>1, <1>5, RecvKeeps DEF UsedStays

LEMMA RecvInitLands ==
    ASSUME IInv, SyncInv, LandInv, RecvInit
    PROVE  LandInv'
<1>1. UNCHANGED <<sendVars, toS, closed, out>> /\ rPc = "ready" /\ ~closed /\ sPc # "abort"
  BY DEF RecvInit, netVars, LandInv
<1>2. ASSUME sRound > 0, NEW i \in Landed PROVE rT1'[sRound][i] = rT1[sRound][i]
  <2>1. sRound <= rRound
    BY <1>1, <1>2, AheadHasNothing, Typed
  <2>2. rRound \in Nat /\ sRound # rRound + 1
    BY <2>1, Typed
  <2>3. rT1'[sRound] = rT1[sRound]
    BY <2>2 DEF RecvInit, T1Mem, IInv, RecvInv, SendInv
  <2>4. QED
    BY <2>3
<1>3. QED
  BY <1>1, <1>2, RecvSilent DEF UsedStays

(* An application that has used a row does not encode it again: what has    *)
(* landed stays what the receiver holds.                                   *)
LEMMA EncodeLands ==
    ASSUME IInv, SyncInv, LandInv, NEW i \in 0..(N - 1), Encodable(i), NEW u, NEW r,
           r.used, rT1' = [rT1 EXCEPT ![T1Mem(rRound)][i] = u],
           out' = [out EXCEPT ![rRound][i] = r], UNCHANGED <<sendVars, netVars>>
    PROVE  LandInv'
<1>1. rPc = "open" /\ ~out[rRound][i].used /\ T1Mem(rRound) = rRound /\ rRound \in 1..MaxRound
      /\ UNCHANGED <<sendVars, toS, closed>>
  BY OpenRound DEF Encodable, IInv, netVars
<1>2. /\ out \in [1..MaxRound -> [0..(N - 1) -> OutRow]]
      /\ rT1 \in [1..MaxRound -> {<< >>} \cup Matrix(RecvRows)]
  BY DEF IInv, RecvInv
<1>3. UsedStays
  BY <1>1, <1>2 DEF UsedStays
<1>4. ASSUME sRound > 0, NEW k \in Landed PROVE rT1'[sRound][k] = rT1[sRound][k]
  <2>1. sRound \in 1..MaxRound
    BY <1>4, Typed DEF IInv, SendInv
  <2>2. CASE sRound # rRound
    BY <1>1, <1>2, <2>1, <2>2
  <2>3. CASE sRound = rRound
    <3>1. k # i
      BY <1>1, <1>4, <2>3, ConstantFacts DEF LandInv, LandedRows
    <3>2. QED
      BY <1>1, <1>2, <3>1, <2>3
  <2>4. QED
    BY <2>2, <2>3
<1>5. QED
  BY <1>1, <1>3, <1>4, RecvSilent

LEMMA SendCorrectionLands ==
    ASSUME IInv, SyncInv, LandInv, RecvSendCorrection
    PROVE  LandInv'
<1> DEFINE j0 == rStep + 1
           m == Correction(rRound, StepLo(j0), StepCount(j0))
<1>1. /\ rPc = "open" /\ T1Mem(rRound) = rRound /\ rRound \in 1..MaxRound /\ ~closed /\ sPc # "abort"
      /\ UNCHANGED <<sendVars, closed, out, rT1>> /\ toS \in Seq(MsgToS)
      /\ rIdx = StepLo(j0) /\ toS' = Append(toS, m) /\ j0 \in 1..NumSteps /\ rStep \in Nat
      /\ NumSteps \in Nat
  BY OpenRound, Typed DEF RecvSendCorrection, LandInv, IInv, RecvInv
<1>2. /\ \A i \in StepLo(j0)..(StepLo(j0) + StepCount(j0) - 1) : out[rRound][i].used
      /\ StepLo(j0) \in Nat /\ StepCount(j0) \in Nat
  <2>1. \A i \in rIdx..(rIdx + StepCount(j0) - 1) : out[rRound][i].used
    BY DEF RecvSendCorrection
  <2>2. StepLo(j0) \in 0..N /\ StepCount(j0) \in Nat /\ N \in Nat
    BY <1>1, StepFacts, ConstantFacts
  <2>3. QED
    BY <1>1, <2>1, <2>2
<1>3. Sent + 1 = MsgNumber(rRound, j0)
  <2>1. Sent = (rRound - 1) * RoundMsgs + (1 + rStep) /\ (rRound - 1) * RoundMsgs \in Nat
    BY <1>1, NextRound, rRound - 1 \in Nat DEF Sent, RecvDone, SentNow
  <2>2. QED
    BY <1>1, <2>1 DEF MsgNumber
<1>4. ASSUME NEW g \in 1..MaxRound, NEW j \in 1..CorSteps, Sent + 1 = MsgNumber(g, j)
      PROVE  IsCorrection(m, g, j)
  <2>1. j \in 1..RoundMsgs /\ j0 \in 1..RoundMsgs /\ g \in Nat \ {0} /\ rRound \in Nat \ {0}
    BY <1>1, CorFacts, ConstantFacts DEF CorSteps
  <2>2. g = rRound /\ j = j0
    BY <1>3, <1>4, <2>1, OnePlace
  <2>3. CorCount(j) = StepCount(j0)
    BY <1>1, <2>2 DEF CorCount
  <2>4. QED
    BY <2>2, <2>3 DEF IsCorrection, Correction
<1>5. RowsFixed(out', m) /\ ErrInside(m)
  <2>1. m.mem = rRound /\ m.lo = StepLo(j0) /\ m.count = StepCount(j0) /\ m.err = {}
    BY DEF Correction
  <2> HIDE DEF m, j0
  <2>2. \A i \in 0..(N - 1) : InRows(m, i) => i \in StepLo(j0)..(StepLo(j0) + StepCount(j0) - 1)
    BY <1>2, <2>1, ConstantFacts DEF InRows
  <2>3. QED
    BY <1>1, <1>2, <2>1, <2>2 DEF RowsFixed, ErrInside
<1> HIDE DEF m, j0
<1>6. /\ Len(toS') = Len(toS) + 1 /\ \A k \in 1..Len(toS) : toS'[k] = toS[k]
      /\ toS'[Len(toS) + 1] = m
  BY <1>1
<1>7. (sPc' # "abort" => InOrder') /\ OnTheWay'
  <2>1. OnTheWay /\ (sPc # "abort" => InOrder) /\ UsedStays
    BY <1>1 DEF LandInv, UsedStays
  <2>2. \A k \in 1..1 : k = 1
    OBVIOUS
  <2>3. QED
    BY <1>1, <1>4, <1>5, <1>6, <2>1, <2>2, Adds
<1>8. QED
  BY <1>1, <1>7, RecvKeeps DEF UsedStays

(* The extra rows are encoded behind all the rows that have landed.        *)
LEMMA FinalizeLands ==
    ASSUME IInv, SyncInv, LandInv, NEW ws \in PerRelation(Word), RecvFinalize(ws)
    PROVE  LandInv'
<1> DEFINE j0 == NumSteps + 1
           m == Correction(rRound, N, Stat)
<1>1. /\ rPc = "open" /\ T1Mem(rRound) = rRound /\ rRound \in 1..MaxRound /\ ~closed /\ sPc # "abort"
      /\ UNCHANGED <<sendVars, closed, out>> /\ toS \in Seq(MsgToS) /\ Malicious
      /\ rIdx = N /\ toS' = Append(toS, m) /\ rStep = NumSteps /\ NumSteps \in Nat \ {0}
      /\ rT1 \in [1..MaxRound -> {<< >>} \cup Matrix(RecvRows)] /\ rT1[rRound] \in Matrix(RecvRows)
  BY OpenRound, Typed, StepFacts DEF RecvFinalize, LandInv, IInv, RecvInv
<1>2. N \in Nat /\ Stat \in Nat /\ StepLo(j0) = N /\ CorSteps = j0 /\ RoundMsgs = NumSteps + 3
      /\ N <= RecvRows /\ RecvRows \in Nat
  BY <1>1, ConstantFacts, StepFacts, RowFacts DEF CorSteps, RoundMsgs
<1>3. Sent + 1 = MsgNumber(rRound, j0)
  <2>1. Sent = (rRound - 1) * RoundMsgs + (1 + rStep) /\ (rRound - 1) * RoundMsgs \in Nat
    BY <1>1, NextRound, rRound - 1 \in Nat DEF Sent, RecvDone, SentNow
  <2>2. QED
    BY <1>1, <2>1 DEF MsgNumber
<1>4. ASSUME NEW g \in 1..MaxRound, NEW j \in 1..CorSteps, Sent + 1 = MsgNumber(g, j)
      PROVE  IsCorrection(m, g, j)
  <2>1. j \in 1..RoundMsgs /\ j0 \in 1..RoundMsgs /\ g \in Nat \ {0} /\ rRound \in Nat \ {0}
    BY <1>1, <1>2, ConstantFacts
  <2>2. g = rRound /\ j = j0
    BY <1>3, <1>4, <2>1, OnePlace
  <2>3. CorCount(j) = Stat
    BY <1>1, <2>2 DEF CorCount
  <2>4. QED
    BY <1>2, <2>2, <2>3 DEF IsCorrection, Correction
<1>5. RowsFixed(out', m) /\ ErrInside(m)
  BY <1>2 DEF Correction, RowsFixed, InRows, ErrInside
<1>6. ASSUME sRound > 0, NEW i \in Landed PROVE rT1'[sRound][i] = rT1[sRound][i]
  <2>1. sRound \in 1..MaxRound
    BY <1>6, Typed DEF IInv, SendInv
  <2>2. rT1' = [rT1 EXCEPT ![rRound] =
                   [k \in DOMAIN @ |-> IF k \in N..(N + Stat - 1)
                                         THEN CorrectionRow(k, ws[k - N]) ELSE @[k]]]
    BY <1>1 DEF RecvFinalize
  <2>3. CASE sRound # rRound
    BY <1>1, <2>1, <2>2, <2>3
  <2>4. CASE sRound = rRound
    <3>1. i \in 0..(N - 1)
      BY <1>1, <2>4, BeforeFinalize
    <3>2. i \in DOMAIN rT1[rRound] /\ i \notin N..(N + Stat - 1)
      BY <1>1, <1>2, <3>1 DEF Matrix
    <3>3. QED
      BY <1>1, <2>2, <2>4, <3>2
  <2>5. QED
    BY <2>3, <2>4
<1> HIDE DEF m, j0
<1>7. /\ Len(toS') = Len(toS) + 1 /\ \A k \in 1..Len(toS) : toS'[k] = toS[k]
      /\ toS'[Len(toS) + 1] = m
  BY <1>1
<1>8. (sPc' # "abort" => InOrder') /\ OnTheWay'
  <2>1. OnTheWay /\ (sPc # "abort" => InOrder) /\ UsedStays
    BY <1>1 DEF LandInv, UsedStays
  <2>2. \A k \in 1..1 : k = 1
    OBVIOUS
  <2>3. QED
    BY <1>1, <1>4, <1>5, <1>7, <2>1, <2>2, Adds
<1>9. QED
  BY <1>1, <1>6, <1>8, RecvKeeps DEF UsedStays

LEMMA ProveLands ==
    ASSUME IInv, SyncInv, LandInv, RecvProve
    PROVE  LandInv'
<1>1. /\ rPc = "challenge" /\ Malicious /\ rRound \in Nat \ {0} /\ toS \in Seq(MsgToS)
      /\ UNCHANGED <<sendVars, closed, out, rT1>> /\ NumSteps \in Nat \ {0}
  BY Typed DEF RecvProve, SyncInv, Phases
<1>2. /\ Len(toS') = Len(toS) + 2 /\ \A k \in 1..Len(toS) : toS'[k] = toS[k]
      /\ toS'[Len(toS) + 1].kind = "tSum" /\ toS'[Len(toS) + 2].kind = "wSum"
  <2>1. PICK a, b : toS' = toS \o << [kind |-> "tSum", sum |-> a], [kind |-> "wSum", sum |-> b] >>
    BY DEF RecvProve
  <2>2. QED
    BY <1>1, <2>1
<1>3. ASSUME NEW k \in 1..2, NEW g \in 1..MaxRound, NEW j \in 1..CorSteps
      PROVE  Sent + k # MsgNumber(g, j)
  <2> SUFFICES ASSUME Sent + k = MsgNumber(g, j) PROVE FALSE
    OBVIOUS
  <2>1. Sent = (rRound - 1) * RoundMsgs + (2 + NumSteps) /\ (rRound - 1) * RoundMsgs \in Nat
    BY <1>1, NextRound, rRound - 1 \in Nat DEF Sent, RecvDone, SentNow
  <2>2. MsgNumber(rRound, NumSteps + 1 + k) = Sent + k
    BY <1>1, <2>1 DEF MsgNumber
  <2>3. CorSteps = NumSteps + 1 /\ RoundMsgs = NumSteps + 3 /\ g \in Nat \ {0}
    BY <1>1, ConstantFacts DEF CorSteps, RoundMsgs
  <2>4. j \in 1..RoundMsgs /\ NumSteps + 1 + k \in 1..RoundMsgs
    BY <1>1, <2>3
  <2>5. j = NumSteps + 1 + k
    BY <1>1, <2>2, <2>3, <2>4, OnePlace
  <2>6. QED
    BY <1>1, <2>3, <2>5
<1>4. (sPc' # "abort" => InOrder') /\ OnTheWay'
  <2>1. OnTheWay /\ (sPc # "abort" => InOrder) /\ UsedStays
    BY <1>1 DEF LandInv, UsedStays
  <2>2. \A k \in 1..2 : toS'[Len(toS) + k].kind # "cor"
    BY <1>2
  <2>3. QED
    BY <1>1, <1>2, <1>3, <2>1, <2>2, Adds
<1>5. QED
  BY <1>1, <1>4, RecvKeeps DEF UsedStays

LEMMA RecvLands ==
    ASSUME IInv, SyncInv, LandInv, RecvNext
    PROVE  LandInv'
<1>1. CASE \E d \in SUBSET Cols : RecvSetBaseOts(d)
  BY <1>1, SetBaseOtsLands
<1>2. CASE RecvInit
  BY <1>2, RecvInitLands
<1>3. ASSUME NEW i \in 0..(N - 1), RecvZeroEncode(i) \/ \E w \in Word : RecvEncode(i, w)
      PROVE  LandInv'
  <2>1. CASE RecvZeroEncode(i)
    <3> DEFINE r == [t |-> ZeroBlock, w |-> {}, used |-> TRUE]
               u == Xor(rT0[i], rT1[T1Mem(rRound)][i])
    <3>1. r.used /\ Encodable(i) /\ rT1' = [rT1 EXCEPT ![T1Mem(rRound)][i] = u]
          /\ out' = [out EXCEPT ![rRound][i] = r] /\ UNCHANGED <<sendVars, netVars>>
      BY <2>1 DEF RecvZeroEncode
    <3> HIDE DEF r, u
    <3>2. QED
      BY <3>1, EncodeLands
  <2>2. ASSUME NEW w \in Word, RecvEncode(i, w) PROVE LandInv'
    <3> DEFINE r == [t |-> rT0[i], w |-> w, used |-> TRUE]
               u == CorrectionRow(i, w)
    <3>1. r.used /\ Encodable(i) /\ rT1' = [rT1 EXCEPT ![T1Mem(rRound)][i] = u]
          /\ out' = [out EXCEPT ![rRound][i] = r] /\ UNCHANGED <<sendVars, netVars>>
      BY <2>2 DEF RecvEncode
    <3> HIDE DEF r, u
    <3>2. QED
      BY <3>1, EncodeLands
  <2>3. QED
    BY <1>3, <2>1, <2>2
<1>4. CASE RecvSendCorrection
  BY <1>4, SendCorrectionLands
<1>5. CASE \E ws \in [0..(Stat - 1) -> Word] : RecvFinalize(ws)
  BY <1>5, FinalizeLands DEF PerRelation
<1>6. CASE RecvProve
  BY <1>6, ProveLands
<1>7. CASE RecvSkipCheck \/ RecvClosed
  BY <1>7, RecvSilent DEF RecvSkipCheck, RecvClosed, netVars, UsedStays
<1>8. QED
  BY <1>1, <1>2, <1>3, <1>4, <1>5, <1>6, <1>7 DEF RecvNext
---------------------------------------------------------------------------
(* The sender's steps. *)

(* A step that takes no correction and changes no row.                     *)
LEMMA SendKeeps ==
    ASSUME IInv, LandInv, UNCHANGED <<recvVars, sRound, sCor, sErr>>,
           sRound > 0 => Landed' = Landed,
           sPc' = "abort" => closed', sPc' = "final" => sStep' = NumSteps,
           (sPc' # "abort" => InOrder') /\ OnTheWay'
    PROVE  LandInv'
<1>1. out' = out /\ rT1' = rT1 /\ \A i : ErrOf(i)' = ErrOf(i)
  BY DEF recvVars, ErrOf
<1>2. LandedRows'
  BY <1>1 DEF LandInv, LandedRows
<1>3. CorrectionsLandInPlace'
  BY <1>1 DEF LandInv, CorrectionsLandInPlace
<1>4. QED
  BY <1>2, <1>3 DEF LandInv

(* Nothing is taken.                                                       *)
LEMMA TakesNothing ==
    ASSUME IInv, SyncInv, SyncInv', IInv', LandInv, UNCHANGED <<recvVars, toS>>, sPc # "abort"
    PROVE  (sPc' # "abort" => InOrder') /\ OnTheWay'
<1>1. Len(toS') = Len(toS) - 0 /\ 0 \in Nat /\ \A k \in 1..Len(toS') : toS'[k] = toS[k + 0]
  BY Typed
<1>2. QED
  BY <1>1, Takes DEF LandInv

LEMMA TakesHead ==
    ASSUME IInv, SyncInv, SyncInv', IInv', LandInv, UNCHANGED recvVars, sPc # "abort",
           toS # << >>, toS' = Tail(toS)
    PROVE  (sPc' # "abort" => InOrder') /\ OnTheWay'
<1>1. Len(toS') = Len(toS) - 1 /\ 1 \in Nat /\ \A k \in 1..Len(toS') : toS'[k] = toS[k + 1]
  BY Typed, HeadTailProperties
<1>2. QED
  BY <1>1, Takes DEF LandInv

(* The next message is correction j of the sender's round, and it lands on  *)
(* the rows that follow those landed before.                               *)
LEMMA Lands ==
    ASSUME IInv, SyncInv, LandInv, sPc # "abort", sRound # 0, NEW j \in 1..CorSteps,
           Taken + 1 = MsgNumber(sRound, j), Land(CorCount(j)), sIdx - CorCount(j) = StepLo(j),
           StepLo(j) + CorCount(j) <= N + Stat,
           UNCHANGED <<recvVars, sRound>>,
           Landed = 0..(StepLo(j) - 1), Landed' = 0..(StepLo(j) + CorCount(j) - 1)
    PROVE  LandedRows' /\ CorrectionsLandInPlace' /\ toS # << >> /\ toS' = Tail(toS)
<1> DEFINE m == Head(toS)
           lo == StepLo(j)
           n == CorCount(j)
<1>1. /\ toS # << >> /\ m.kind = "cor" /\ toS' = Tail(toS)
      /\ sCor' = [i \in DOMAIN sCor |-> IF i \in lo..(lo + n - 1) THEN Delivered(m, i - lo) ELSE sCor[i]]
      /\ sErr' = sErr \cup { <<lo + e[1], e[2]>> : e \in m.err }
  BY DEF Land, Ready
<1>2. m = toS[1] /\ 1 \in 1..Len(toS) /\ m \in CorrectionMsg
  <2>1. m = toS[1] /\ 1 \in 1..Len(toS)
    BY <1>1, Typed
  <2>2. QED
    BY <1>1, <2>1, HeadOfToS DEF IInv
<1>3. sRound \in 1..MaxRound /\ sRound > 0 /\ SendRows \in Nat /\ N + Stat <= SendRows
      /\ DOMAIN sCor = 0..(SendRows - 1) /\ N \in Nat /\ Stat \in Nat
      /\ lo \in 0..N /\ n \in Nat /\ out' = out /\ rT1' = rT1
  BY RowFacts, ConstantFacts, CorFacts DEF IInv, SendInv, Matrix, recvVars
<1>4. m.mem = sRound /\ m.lo = lo /\ m.count = n
  BY <1>2, <1>3, SMTT(30) DEF LandInv, InOrder, IsCorrection
<1>5. /\ \A i \in 0..(N - 1) : lo <= i /\ i < lo + n => out[sRound][i].used
      /\ \A e \in m.err : e[1] \in 0..(n - 1) /\ e = <<e[1], e[2]>>
  <2>1. RowsFixed(out, m) /\ ErrInside(m)
    BY <1>1, <1>2 DEF LandInv, OnTheWay
  <2>2. m.err \in SUBSET (Nat \X Cols)
    BY <1>2 DEF CorrectionMsg
  <2> HIDE DEF m, lo, n
  <2>3. QED
    BY <1>4, <2>1, <2>2 DEF RowsFixed, ErrInside, InRows
<1>r. lo \in Nat /\ n \in Nat /\ lo + n <= N + Stat
  BY <1>3
<1> HIDE DEF m, lo, n
<1>6. /\ \A i : i \in Landed <=> i \in Nat /\ i < lo
      /\ \A i : i \in Landed' <=> i \in Nat /\ i < lo + n
  <2>1. Landed = 0..(lo - 1) /\ Landed' = 0..(lo + n - 1)
    BY DEF lo, n
  <2>2. ASSUME NEW a \in Nat, NEW i PROVE i \in 0..(a - 1) <=> i \in Nat /\ i < a
    OBVIOUS
  <2>3. lo + n \in Nat
    BY <1>r
  <2>4. \A i : i \in Landed <=> i \in Nat /\ i < lo
    BY <1>r, <2>1, <2>2
  <2>5. \A i : i \in Landed' <=> i \in Nat /\ i < lo + n
    <3> DEFINE hi == lo + n
    <3>1. hi \in Nat /\ Landed' = 0..(hi - 1)
      BY <1>r, <2>1
    <3> HIDE DEF hi
    <3>2. \A i : i \in Landed' <=> i \in Nat /\ i < hi
      BY <2>2, <3>1
    <3>3. QED
      BY <3>2 DEF hi
  <2>6. QED
    BY <2>4, <2>5
<1>7. \A e \in sErr : e[1] \in Landed
  BY <1>3 DEF LandInv, LandedRows
<1>8. LandedRows'
  <2>1. ASSUME NEW i \in Landed', i < N PROVE out'[sRound'][i].used
    <3>1. i \in Nat /\ i < lo + n /\ sRound' = sRound /\ i \in 0..(N - 1)
      BY <1>3, <1>6, <1>r, <2>1
    <3>2. CASE i < lo
      BY <1>3, <1>6, <2>1, <3>1, <3>2 DEF LandInv, LandedRows
    <3>3. CASE lo <= i
      BY <1>3, <1>5, <3>1, <3>3
    <3>4. QED
      BY <1>r, <3>1, <3>2, <3>3
  <2>2. ASSUME NEW e \in sErr' PROVE e[1] \in Landed'
    <3>1. CASE e \in sErr
      BY <1>r, <1>6, <1>7, <3>1
    <3>2. CASE e \notin sErr
      <4>1. PICK f \in m.err : e = <<lo + f[1], f[2]>>
        BY <1>1, <3>2
      <4>2. e[1] = lo + f[1] /\ f[1] \in 0..(n - 1)
        BY <1>5, <4>1
      <4>3. QED
        BY <1>r, <1>6, <4>2
    <3>3. QED
      BY <3>1, <3>2
  <2>3. QED
    BY <2>1, <2>2 DEF LandedRows
<1>9. ASSUME NEW i \in Landed'
      PROVE  sCor'[i] = Xor(rT1'[sRound'][i], Const(ErrOf(i)'))
  <2>1. i \in DOMAIN sCor /\ i \in Nat
    BY <1>3, <1>6, <1>r
  <2>2. CASE i < lo
    <3>1. i \in Landed /\ i \notin lo..(lo + n - 1)
      BY <1>r, <1>6, <2>1, <2>2
    <3>2. sCor'[i] = sCor[i] /\ sCor[i] = Xor(rT1[sRound][i], Const(ErrOf(i)))
      BY <1>1, <1>3, <2>1, <3>1 DEF LandInv, CorrectionsLandInPlace
    <3>3. ASSUME NEW c, <<i, c>> \in sErr' PROVE <<i, c>> \in sErr
      <4> SUFFICES ASSUME <<i, c>> \notin sErr PROVE FALSE
        OBVIOUS
      <4>1. PICK f \in m.err : <<i, c>> = <<lo + f[1], f[2]>>
        BY <1>1, <3>3
      <4>2. i = lo + f[1] /\ f[1] \in 0..(n - 1)
        BY <1>5, <4>1
      <4>3. QED
        BY <1>r, <2>1, <2>2, <4>2
    <3>4. ErrOf(i)' = ErrOf(i)
      BY <1>1, <3>3 DEF ErrOf
    <3>5. QED
      BY <1>3, <3>2, <3>4
  <2>3. CASE lo <= i
    <3>1. i \in lo..(lo + n - 1) /\ i \notin Landed /\ i - lo \in Nat /\ lo + (i - lo) = i
      BY <1>r, <1>6, <2>1, <2>3
    <3>2. sCor'[i] = Delivered(m, i - lo)
      BY <1>1, <2>1, <3>1
    <3>3. ASSUME NEW c \in Cols PROVE <<i, c>> \in sErr' <=> <<i - lo, c>> \in m.err
      <4>1. <<i, c>> \notin sErr
        BY <1>7, <3>1
      <4>2. ASSUME <<i - lo, c>> \in m.err PROVE <<i, c>> \in sErr'
        BY <1>1, <3>1, <4>2
      <4>3. ASSUME <<i, c>> \in sErr' PROVE <<i - lo, c>> \in m.err
        <5>1. PICK f \in m.err : <<i, c>> = <<lo + f[1], f[2]>>
          BY <1>1, <4>1, <4>3
        <5>2. i = lo + f[1] /\ c = f[2] /\ f[1] \in 0..(n - 1) /\ f = <<f[1], f[2]>>
          BY <1>5, <5>1
        <5>3. f[1] = i - lo
          BY <1>r, <5>2
        <5>4. QED
          BY <5>2, <5>3
      <4>4. QED
        BY <4>2, <4>3
    <3>4. ErrOf(i)' = { c \in Cols : <<i - lo, c>> \in m.err }
      BY <3>3 DEF ErrOf
    <3>5. m.lo + (i - lo) = i
      BY <1>4, <3>1
    <3>6. Delivered(m, i - lo) = Xor(rT1[sRound][i], Const({ c \in Cols : <<i - lo, c>> \in m.err }))
      BY <1>4, <3>5 DEF Delivered
    <3>7. QED
      BY <1>3, <3>2, <3>4, <3>6
  <2>4. QED
    BY <1>3, <2>1, <2>2, <2>3
<1>10. CorrectionsLandInPlace'
  BY <1>9 DEF CorrectionsLandInPlace
<1>11. QED
  BY <1>1, <1>8, <1>10

LEMMA LandCorrectionLands ==
    ASSUME IInv, SyncInv, SyncInv', IInv', LandInv, SendLandCorrection
    PROVE  LandInv'
<1> DEFINE j == sStep + 1
<1>1. /\ sPc = "recv" /\ sPc' = "open" /\ sStep' = j /\ sRound \in Nat \ {0} /\ UNCHANGED <<recvVars, sRound>>
      /\ sPc # "abort" /\ NumSteps \in Nat \ {0} /\ sStep \in Nat /\ N \in Nat /\ Stat \in Nat
      /\ sStep < NumSteps /\ sIdx = Bound[j] /\ Land(StepCount(j))
  BY Typed, ConstantFacts DEF SendLandCorrection, IInv, SendInv
<1>2. j \in 1..NumSteps /\ j \in 1..CorSteps /\ CorCount(j) = StepCount(j)
  BY <1>1 DEF CorCount, CorSteps
<1>3. /\ StepLo(j) + CorCount(j) = Bound[j] /\ Bound[j] \in 1..N /\ StepLo(j + 1) = Bound[j]
      /\ StepLo(j) \in 0..N /\ CorCount(j) \in Nat
  BY <1>2, StepFacts
<1>4. Taken + 1 = MsgNumber(sRound, j)
  <2>1. Taken = (sRound - 1) * RoundMsgs + (1 + sStep) /\ (sRound - 1) * RoundMsgs \in Nat
    BY <1>1, NextRound, sRound - 1 \in Nat DEF Taken, SendDone, TakenNow
  <2>2. QED
    BY <1>1, <2>1 DEF MsgNumber
<1>5. Landed = 0..(StepLo(j) - 1) /\ Landed' = 0..(StepLo(j) + CorCount(j) - 1)
  <2>1. Landed = 0..(StepLo(j) - 1) /\ Landed' = 0..(StepLo(j + 1) - 1)
    BY <1>1 DEF Landed
  <2>2. QED
    BY <1>3, <2>1
<1>6. sIdx - CorCount(j) = StepLo(j) /\ StepLo(j) + CorCount(j) <= N + Stat
  BY <1>1, <1>3
<1> HIDE DEF j
<1>7. LandedRows' /\ CorrectionsLandInPlace' /\ toS # << >> /\ toS' = Tail(toS)
  BY <1>1, <1>2, <1>4, <1>5, <1>6, Lands
<1>8. (sPc' # "abort" => InOrder') /\ OnTheWay'
  BY <1>1, <1>7, TakesHead
<1>9. QED
  BY <1>1, <1>7, <1>8 DEF LandInv

LEMMA ChallengeLands ==
    ASSUME IInv, SyncInv, SyncInv', IInv', LandInv, NEW seed \in Seeds, SendChallenge(seed)
    PROVE  LandInv'
<1> DEFINE j == NumSteps + 1
<1>1. /\ sPc = "final" /\ sPc' = "proof" /\ sStep = NumSteps /\ sRound \in Nat \ {0} /\ Malicious
      /\ UNCHANGED <<recvVars, sRound>> /\ sPc # "abort" /\ NumSteps \in Nat \ {0}
      /\ N \in Nat /\ Stat \in Nat /\ sIdx = N + Stat /\ Land(Stat)
  BY Typed, ConstantFacts DEF SendChallenge, IInv, SendInv, SyncInv, Phases, LandInv
<1>2. j \in 1..CorSteps /\ CorCount(j) = Stat /\ StepLo(j) = N
  BY <1>1, StepFacts DEF CorCount, CorSteps
<1>3. Taken + 1 = MsgNumber(sRound, j)
  <2>1. Taken = (sRound - 1) * RoundMsgs + (1 + NumSteps) /\ (sRound - 1) * RoundMsgs \in Nat
    BY <1>1, NextRound, sRound - 1 \in Nat DEF Taken, SendDone, TakenNow
  <2>2. QED
    BY <1>1, <2>1 DEF MsgNumber
<1>4. Landed = 0..(StepLo(j) - 1) /\ Landed' = 0..(StepLo(j) + CorCount(j) - 1)
  BY <1>1, <1>2 DEF Landed
<1>5. sIdx - CorCount(j) = StepLo(j) /\ StepLo(j) + CorCount(j) <= N + Stat
  BY <1>1, <1>2
<1>6. Land(CorCount(j))
  BY <1>1, <1>2
<1> HIDE DEF j
<1>7. LandedRows' /\ CorrectionsLandInPlace' /\ toS # << >> /\ toS' = Tail(toS)
  BY <1>1, <1>2, <1>3, <1>4, <1>5, <1>6, Lands
<1>8. (sPc' # "abort" => InOrder') /\ OnTheWay'
  BY <1>1, <1>7, TakesHead
<1>9. QED
  BY <1>1, <1>7, <1>8 DEF LandInv

(* A failed check changes nothing that has landed.                         *)
LEMMA VerifyLands ==
    ASSUME IInv, SyncInv, SyncInv', IInv', LandInv, SendVerify
    PROVE  LandInv'
<1>1. /\ sPc = "proof" /\ sPc' \in {"ready", "abort"} /\ Malicious
      /\ UNCHANGED <<recvVars, sRound, sCor, sErr, sStep>> /\ sPc # "abort"
      /\ sPc' = "abort" => closed'
  BY DEF SendVerify, SyncInv, Phases
<1>2. toS \in Seq(MsgToS) /\ Len(toS) >= 2 /\ toS' = Tail(Tail(toS)) /\ toS # << >> /\ Tail(toS) # << >>
  BY Typed DEF SendVerify, Ready
<1>3. Len(toS') = Len(toS) - 2 /\ \A k \in 1..Len(toS') : toS'[k] = toS[k + 2]
  <2>1. /\ Tail(toS) \in Seq(MsgToS) /\ Len(Tail(toS)) = Len(toS) - 1 /\ Len(toS) \in Nat
        /\ \A k \in 1..Len(Tail(toS)) : Tail(toS)[k] = toS[k + 1]
    BY <1>2, HeadTailProperties
  <2>2. /\ Len(toS') = Len(Tail(toS)) - 1
        /\ \A k \in 1..Len(toS') : toS'[k] = Tail(toS)[k + 1]
    BY <1>2, <2>1, HeadTailProperties
  <2>3. \A k \in 1..Len(toS') : k + 1 \in 1..Len(Tail(toS)) /\ (k + 1) + 1 = k + 2
    BY <2>1, <2>2
  <2>4. QED
    BY <2>1, <2>2, <2>3
<1>4. (sPc' # "abort" => InOrder') /\ OnTheWay'
  <2>1. 2 \in Nat /\ InOrder /\ OnTheWay
    BY <1>1 DEF LandInv
  <2>2. QED
    BY <1>1, <1>3, <2>1, Takes
<1>5. Landed' = Landed
  BY <1>1 DEF Landed
<1>6. QED
  BY <1>1, <1>4, <1>5, SendKeeps

LEMMA SendLands ==
    ASSUME IInv, SyncInv, SyncInv', IInv', LandInv, SendNext
    PROVE  LandInv'
<1>1. CASE SendSetBaseOts
  <2>1. /\ sPc = "base" /\ sRound = 0 /\ sPc' = "ready" /\ toS # << >> /\ toS' = Tail(toS)
        /\ UNCHANGED <<recvVars, sRound, sCor, sErr>> /\ sPc # "abort"
    BY <1>1 DEF SendSetBaseOts, SyncInv, Phases, Ready
  <2>2. (sPc' # "abort" => InOrder') /\ OnTheWay'
    BY <2>1, TakesHead
  <2>3. QED
    BY <2>1, <2>2, SendKeeps
<1>2. CASE SendInit
  <2>1. /\ sPc = "ready" /\ sPc' = "open" /\ sStep' = 0 /\ sErr' = {} /\ sPc # "abort"
        /\ UNCHANGED <<recvVars, toS>>
    BY <1>2 DEF SendInit, netVars
  <2>2. (sPc' # "abort" => InOrder') /\ OnTheWay'
    BY <2>1, TakesNothing
  <2>3. Landed' = {}
    <3>1. sStep' + 1 = 1 /\ StepLo(1) = 0
      BY <2>1, StepFacts
    <3>2. Landed' = 0..(StepLo(1) - 1)
      BY <2>1, <3>1 DEF Landed
    <3>3. QED
      BY <3>1, <3>2
  <2>4. LandedRows' /\ CorrectionsLandInPlace'
    BY <2>1, <2>3 DEF LandedRows, CorrectionsLandInPlace
  <2>5. QED
    BY <2>1, <2>2, <2>4 DEF LandInv
<1>3. CASE SendRecvCorrection \/ SendRecvFinalization \/ SendSkipCheck
  <2>1. /\ sPc = "open" /\ sPc' \in {"recv", "final", "ready"} /\ sPc # "abort"
        /\ sPc' = "ready" => ~Malicious
        /\ sPc' = "final" => sStep' = NumSteps
        /\ UNCHANGED <<recvVars, toS, sRound, sCor, sErr, sStep>>
    BY <1>3 DEF SendRecvCorrection, SendRecvFinalization, SendSkipCheck, netVars
  <2>2. (sPc' # "abort" => InOrder') /\ OnTheWay'
    BY <2>1, TakesNothing
  <2>3. Landed' = Landed
    BY <2>1 DEF Landed
  <2>4. QED
    BY <2>1, <2>2, <2>3, SendKeeps
<1>4. CASE SendLandCorrection
  BY <1>4, LandCorrectionLands
<1>5. CASE \E seed \in Seeds : SendChallenge(seed)
  BY <1>5, ChallengeLands
<1>6. CASE SendVerify
  BY <1>6, VerifyLands
<1>7. QED
  BY <1>1, <1>2, <1>3, <1>4, <1>5, <1>6 DEF SendNext

---------------------------------------------------------------------------
(* A corrupted bit is a bit of the rows its message carries.               *)
LEMMA TamperLands ==
    ASSUME IInv, SyncInv, LandInv, NEW j \in 1..Len(toS), NEW i \in 0..(N + Stat - 1), NEW c \in Cols,
           Tamper(j, i, c)
    PROVE  LandInv'
<1> DEFINE m == [toS[j] EXCEPT !.err = @ \cup {<<i, c>>}]
<1>1. /\ toS \in Seq(MsgToS) /\ toS' = [toS EXCEPT ![j] = m] /\ i \in Nat
      /\ UNCHANGED <<choices, recvVars, sendVars, closed>>
  BY Typed, ConstantFacts DEF Tamper
<1>2. toS[j] \in CorrectionMsg /\ toS[j].kind = "cor" /\ i < toS[j].count
  <2>1. toS[j] \in MsgToS /\ toS[j].kind = "cor" /\ i < toS[j].count
    BY <1>1, ElementOfSeq DEF Tamper
  <2>2. QED
    BY <2>1 DEF MsgToS, CorrectionMsg
<1>3. /\ m.kind = "cor" /\ m.mem = toS[j].mem /\ m.lo = toS[j].lo /\ m.count = toS[j].count
      /\ m.count \in Nat /\ m.err = toS[j].err \cup {<<i, c>>}
  BY <1>2 DEF CorrectionMsg
<1> HIDE DEF m
<1>4. /\ Len(toS') = Len(toS)
      /\ \A k \in 1..Len(toS) : toS'[k] = IF k = j THEN m ELSE toS[k]
  BY <1>1
<1>5. sPc' # "abort" => InOrder'
  <2> SUFFICES ASSUME sPc' # "abort", NEW k \in 1..Len(toS), NEW g \in 1..MaxRound, NEW h \in 1..CorSteps,
                      Taken' + k = MsgNumber(g, h)
               PROVE  IsCorrection(toS'[k], g, h)
    BY <1>4 DEF InOrder
  <2>1. sPc # "abort" /\ Taken' = Taken
    BY <1>1 DEF sendVars, Taken, SendDone, TakenNow
  <2>2. IsCorrection(toS[k], g, h)
    BY <2>1 DEF LandInv, InOrder
  <2>3. QED
    BY <1>3, <1>4, <2>2 DEF IsCorrection
<1>6. OnTheWay'
  <2>1. OnTheWay /\ out' = out
    BY <1>1 DEF LandInv, recvVars
  <2>2. RowsFixed(out, m) /\ ErrInside(m)
    <3>1. RowsFixed(out, toS[j]) /\ ErrInside(toS[j])
      BY <1>2, <2>1 DEF OnTheWay
    <3>2. RowsFixed(out, m)
      BY <1>3, <3>1 DEF RowsFixed, InRows
    <3>3. ErrInside(m)
      BY <1>1, <1>2, <1>3, <3>1 DEF ErrInside
    <3>4. QED
      BY <3>2, <3>3
  <2>3. QED
    BY <1>4, <2>1, <2>2 DEF OnTheWay
<1>7. LandedRows' /\ CorrectionsLandInPlace'
  BY <1>1, LandedAlone DEF LandInv, UsedStays, recvVars
<1>8. QED
  BY <1>1, <1>5, <1>6, <1>7 DEF LandInv, sendVars

LEMMA StutterLands ==
    ASSUME IInv, SyncInv, LandInv, UNCHANGED vars
    PROVE  LandInv'
  BY RecvSilent DEF vars, recvVars, netVars, UsedStays

LEMMA InitLands == Init => LandInv
<1> SUFFICES ASSUME Init PROVE LandInv
  OBVIOUS
<1>1. sRound = 0 /\ sPc = "base" /\ Len(toS) = 0
  BY DEF Init
<1>2. 1..0 = {} /\ ~(0 > 0)
  OBVIOUS
<1>3. QED
  BY <1>1, <1>2 DEF LandInv, InOrder, OnTheWay, LandedRows, CorrectionsLandInPlace

LEMMA NextLands ==
    ASSUME IInv, SyncInv, LandInv, [Next]_vars
    PROVE  LandInv'
<1>1. IInv' /\ SyncInv'
  BY NextIInv, NextSync
<1>2. CASE RecvNext
  BY <1>2, RecvLands
<1>3. CASE SendNext
  BY <1>1, <1>3, SendLands
<1>4. CASE \E j \in 1..Len(toS), i \in 0..(N + Stat - 1), c \in Cols : Tamper(j, i, c)
  BY <1>4, TamperLands
<1>5. CASE Done \/ UNCHANGED vars
  BY <1>5, StutterLands DEF Done
<1>6. QED
  BY <1>2, <1>3, <1>4, <1>5 DEF Next

(* Whatever the number of OTs, the step sizes the applications stream with   *)
(* and the number of inits, and however far the receiver is ahead: the       *)
(* correction the receiver computed for row i is what stands in row i of     *)
(* mCorrectionVals after its message has landed, corrupted bits apart. The   *)
(* message is a reference into mT1, and nobody writes the rows it refers to  *)
(* after it was sent, nor the sender's rows after it landed.               *)
THEOREM CorrectionsInPlace == Spec => []CorrectionsLandInPlace
<1>1. Init => LandInv /\ SyncInv
  BY InitLands, SyncInit
<1>2. IInv /\ SyncInv /\ LandInv /\ [Next]_vars => SyncInv' /\ LandInv'
  BY NextLands, NextSync
<1>3. LandInv => CorrectionsLandInPlace
  BY DEF LandInv
<1>4. QED
  BY <1>1, <1>2, <1>3, Invariant, PTL DEF Spec

---------------------------------------------------------------------------
(* EncodingsAgree. *)

(* The rows that the three sets of column PRNGs draw at position i of a     *)
(* round: the receiver's two and the sender's.                             *)
T0Row(g, i) == PrngRow(T0Seeds, PosOf(g, i))
T1Row(g, i) == PrngRow(T1Seeds, PosOf(g, i))
TRow(g, i) == PrngRow(SeedOf(choices), PosOf(g, i))

(* Once the flips have arrived, delta is what is left of the choices.       *)
DeltaInv ==
    /\ rPc = "base" => sPc = "base"
    /\ \A k \in 1..Len(toS) : toS[k].kind = "delta" => toS[k].delta = rFlip /\ rPc # "base"
    /\ sPc # "base" => sDelta = Xor(choices, rFlip)

(* A row that has not been used is as drawn; for one that has been encoded  *)
(* the correction is in mT1 and the application has the row of T0.         *)
EncodedRow(g, i) ==
    /\ out[g][i].t = T0Row(g, i)
    /\ rT1[g][i] = Xor(Xor(Const(CodeWord(out[g][i].w)), T0Row(g, i)), T1Row(g, i))
RowInv(g, i) ==
    IF out[g][i].used THEN out[g][i].t = ZeroBlock \/ EncodedRow(g, i) ELSE rT1[g][i] = T1Row(g, i)

DrawnInv ==
    /\ sRound # 0 => \A i \in 0..(N - 1) : sT[i] = TRow(sRound, i)
    /\ rRound # 0 => \A i \in 0..(N - 1) : rT0[i] = T0Row(rRound, i)
    /\ \A g \in 1..MaxRound, i \in 0..(N - 1) : out[g][i].used => g <= rRound
    /\ \A g \in 1..rRound, i \in 0..(N - 1) : RowInv(g, i)

AgreeInv == DeltaInv /\ DrawnInv

---------------------------------------------------------------------------
(* Delta swaps the sender's row into the receiver's: the column where delta *)
(* is 1 is the one where the sender's key is not the receiver's.           *)
LEMMA Swapped ==
    ASSUME NEW C \in SUBSET Cols, NEW F \in SUBSET Cols, NEW p
    PROVE  LET t0 == PrngRow(SeedOf(F), p)
               t1 == PrngRow(SeedOf(Cols \ F), p)
           IN  Xor(PrngRow(SeedOf(C), p), Mask(Xor(t0, t1), Xor(C, F))) = t0
<1> DEFINE t0 == PrngRow(SeedOf(F), p)
           t1 == PrngRow(SeedOf(Cols \ F), p)
           s == PrngRow(SeedOf(C), p)
           u == Mask(Xor(t0, t1), Xor(C, F))
           Bit(c, D) == IF c \in D THEN 1 ELSE 0
<1>1. ASSUME NEW D
      PROVE  PrngRow(SeedOf(D), p) = { <<c, Bit(c, D), p>> : c \in Cols }
  BY DEF PrngRow, SeedOf
<1>2. ASSUME NEW D, NEW c \in Cols, NEW b
      PROVE  <<c, b, p>> \in PrngRow(SeedOf(D), p) <=> b = Bit(c, D)
  BY <1>1
<1>3. ASSUME NEW x PROVE x \in u <=> x \in Xor(t0, t1) /\ x[1] \in Xor(C, F)
  BY DEF Mask
<1>4. ASSUME NEW x, x \in s \/ x \in t0 \/ x \in t1
      PROVE  \E c \in Cols, b \in {0, 1} : x = <<c, b, p>>
  BY <1>1, <1>4
<1>5. ASSUME NEW c \in Cols, NEW b \in {0, 1}
      PROVE  <<c, b, p>> \in Xor(s, u) <=> <<c, b, p>> \in t0
  <2> DEFINE x == <<c, b, p>>
  <2>1. /\ x \in s <=> (b = 1 <=> c \in C)
        /\ x \in t0 <=> (b = 1 <=> c \in F)
        /\ x \in t1 <=> (b = 1 <=> c \notin F)
    BY <1>2
  <2>2. x[1] = c
    OBVIOUS
  <2> HIDE DEF x, s, u, t0, t1
  <2>3. /\ x \in u <=> x \in Xor(t0, t1) /\ c \in Xor(C, F)
        /\ x \in Xor(t0, t1) <=> ~(x \in t0 <=> x \in t1)
        /\ c \in Xor(C, F) <=> ~(c \in C <=> c \in F)
        /\ x \in Xor(s, u) <=> ~(x \in s <=> x \in u)
    BY <1>3, <2>2, InXor
  <2>4. x \in Xor(s, u) <=> x \in t0
    BY <2>1, <2>3
  <2>5. QED
    BY <2>4 DEF x
<1> HIDE DEF s, u, t0, t1
<1>6. ASSUME NEW x, x \in Xor(s, u) \/ x \in t0 PROVE x \in s \/ x \in t0 \/ x \in t1
  BY <1>3, <1>6, InXor
<1>7. \A x : x \in Xor(s, u) <=> x \in t0
  <2> TAKE x
  <2>1. CASE x \in s \/ x \in t0 \/ x \in t1
    <3>1. PICK c \in Cols, b \in {0, 1} : x = <<c, b, p>>
      BY <1>4, <2>1
    <3>2. QED
      BY <1>5, <3>1
  <2>2. CASE ~(x \in s \/ x \in t0 \/ x \in t1)
    BY <1>6, <2>2
  <2>3. QED
    BY <2>1, <2>2
<1>8. QED
  BY <1>7 DEF s, u, t0, t1

(* The columns of delta in which two words' code words differ are what      *)
(* keeps the sender's encoding from being the receiver's.                  *)
LEMMA EncodingOf ==
    ASSUME NEW S, NEW t0, NEW t1, NEW A, NEW B, NEW D,
           Xor(S, Mask(Xor(t0, t1), D)) = t0
    PROVE  Xor(S, Mask(Xor(Xor(Xor(Const(A), t0), t1), Const(B)), D)) = t0
           <=> Xor(A, B) \cap D = {}
<1> DEFINE u == Mask(Xor(Xor(Xor(Const(A), t0), t1), Const(B)), D)
           v == Mask(Xor(t0, t1), D)
           d == Mask(Xor(Const(A), Const(B)), D)
<1>1. ASSUME NEW x PROVE x \in u <=> ~(x \in v <=> x \in d)
  BY InXor DEF Mask
<1>2. Xor(S, u) = Xor(Xor(S, v), d)
  <2> HIDE DEF u, v, d
  <2>1. ASSUME NEW x PROVE x \in Xor(S, u) <=> x \in Xor(Xor(S, v), d)
    BY <1>1, InXor
  <2>2. QED
    BY <2>1
<1>3. d = {} <=> Xor(A, B) \cap D = {}
  <2>1. ASSUME NEW c, c \in Xor(A, B) \cap D PROVE <<c, 2, 0>> \in d
    BY <2>1, InXor DEF Const, Mask
  <2>2. ASSUME NEW x, x \in d PROVE x[1] \in Xor(A, B) \cap D
    BY <2>2, InXor DEF Const, Mask
  <2> HIDE DEF d
  <2>3. QED
    BY <2>1, <2>2
<1> HIDE DEF u, v, d
<1>4. Xor(S, u) = t0 <=> d = {}
  BY <1>2, XorFixed DEF v
<1>5. QED
  BY <1>3, <1>4 DEF u

---------------------------------------------------------------------------
(* The invariant says what the parties hash for a row that landed intact.   *)
LEMMA Agreement ==
    ASSUME IInv, SyncInv, LandInv, AgreeInv
    PROVE  EncodingsAgree
<1> SUFFICES ASSUME sRound > 0, NEW i \in Landed \cap (0..(N - 1)),
                    ErrOf(i) = {}, out[sRound][i].t # ZeroBlock, NEW w \in Word
             PROVE  Agrees(sRound, i, w)
  BY DEF EncodingsAgree
<1> DEFINE r == out[sRound][i]
           S == TRow(sRound, i)
           t0 == T0Row(sRound, i)
           t1 == T1Row(sRound, i)
           A == CodeWord(r.w)
           B == CodeWord(w)
<1>1. /\ choices \in SUBSET Cols /\ rFlip \in SUBSET Cols /\ N \in Nat
      /\ sRound \in 1..MaxRound /\ rRound \in Nat /\ r \in OutRow
  BY ConstantFacts, Typed DEF IInv, RecvInv, SendInv
<1>2. r.used
  BY <1>1 DEF LandInv, LandedRows
<1>3. sRound \in 1..rRound
  BY <1>1, <1>2 DEF AgreeInv, DrawnInv
<1>4. r.t = t0 /\ rT1[sRound][i] = Xor(Xor(Const(A), t0), t1)
  BY <1>2, <1>3 DEF AgreeInv, DrawnInv, RowInv, EncodedRow
<1>5. sT[i] = S
  BY <1>1 DEF AgreeInv, DrawnInv
<1>6. sCor[i] = rT1[sRound][i]
  <2>1. Const({}) = {}
    BY DEF Const
  <2>2. sCor[i] = Xor(rT1[sRound][i], Const({}))
    BY DEF LandInv, CorrectionsLandInPlace
  <2>3. QED
    BY <2>1, <2>2, XorNothing
<1>7. sDelta = Xor(choices, rFlip)
  BY DEF SyncInv, Phases, AgreeInv, DeltaInv
<1>8. Xor(S, Mask(Xor(t0, t1), sDelta)) = t0
  BY <1>1, <1>7, Swapped DEF TRow, T0Row, T1Row, T0Seeds, T1Seeds
<1>9. Xor(S, Mask(Xor(Xor(Xor(Const(A), t0), t1), Const(B)), sDelta)) = t0
      <=> Xor(A, B) \cap sDelta = {}
  BY <1>8, EncodingOf
<1>10. CodeWord(Xor(w, r.w)) = Xor(A, B)
  <2>1. IsFiniteSet(w) /\ IsFiniteSet(r.w)
    BY <1>1, FS_Subset, OosAssumption DEF Word, OutRow
  <2>2. CodeWord(Xor(w, r.w)) = Xor(B, A)
    BY <2>1, XorSumLinear DEF CodeWord
  <2>3. Xor(B, A) = Xor(A, B)
    BY DEF Xor, SymDiff
  <2>4. QED
    BY <2>2, <2>3
<1>11. SendEncode(i, w) = Xor(S, Mask(Xor(Xor(Xor(Const(A), t0), t1), Const(B)), sDelta))
  BY <1>4, <1>5, <1>6 DEF SendEncode
<1> HIDE DEF r, S, t0, t1, A, B
<1>12. (SendEncode(i, w) = r.t) <=> (CodeWord(Xor(w, r.w)) \cap sDelta = {})
  BY <1>4, <1>9, <1>10, <1>11
<1>13. QED
  BY <1>12 DEF Agrees, r

---------------------------------------------------------------------------
(* Steps that leave the rows, or the two keys, alone.                      *)

LEMMA RowsStay ==
    ASSUME DrawnInv, UNCHANGED <<choices, rFlip, sT, sRound, rT0, rT1, rRound, out>>
    PROVE  DrawnInv'
<1>1. ASSUME NEW g, NEW i
      PROVE  T0Row(g, i)' = T0Row(g, i) /\ T1Row(g, i)' = T1Row(g, i) /\ TRow(g, i)' = TRow(g, i)
  BY DEF T0Row, T1Row, TRow, T0Seeds, T1Seeds
<1>2. ASSUME NEW g, NEW i PROVE RowInv(g, i)' <=> RowInv(g, i)
  BY <1>1 DEF RowInv, EncodedRow
<1>3. QED
  BY <1>1, <1>2 DEF DrawnInv

NoNewDelta ==
    \A k \in 1..Len(toS') : toS'[k].kind = "delta" =>
        \E l \in 1..Len(toS) : toS[l].kind = "delta" /\ toS[l].delta = toS'[k].delta

LEMMA KeysStay ==
    ASSUME DeltaInv, UNCHANGED <<choices, rFlip, sDelta>>, NoNewDelta,
           rPc' = "base" <=> rPc = "base", sPc' = "base" <=> sPc = "base"
    PROVE  DeltaInv'
  BY DEF DeltaInv, NoNewDelta

LEMMA AppendNoDelta ==
    ASSUME IInv, NEW m, m.kind # "delta", toS' = Append(toS, m)
    PROVE  NoNewDelta
<1>1. toS \in Seq(MsgToS)
  BY Typed
<1>2. /\ Len(toS') = Len(toS) + 1 /\ Len(toS) \in Nat
      /\ \A k \in 1..Len(toS) : toS'[k] = toS[k]
      /\ toS'[Len(toS) + 1] = m
  <2>1. toS \in Seq(MsgToS \cup {m}) /\ m \in MsgToS \cup {m}
    BY <1>1
  <2>2. QED
    BY <2>1
<1>3. \A k \in 1..Len(toS') : k \in 1..Len(toS) \/ k = Len(toS) + 1
  BY <1>2
<1>4. QED
  BY <1>2, <1>3 DEF NoNewDelta

LEMMA TailNoDelta ==
    ASSUME IInv, toS # << >>, toS' = Tail(toS)
    PROVE  NoNewDelta
<1>1. toS \in Seq(MsgToS) /\ Len(toS) \in Nat
  BY Typed
<1>2. Len(toS') = Len(toS) - 1 /\ \A k \in 1..Len(toS') : toS'[k] = toS[k + 1]
  BY <1>1, HeadTailProperties
<1>3. \A k \in 1..Len(toS') : k + 1 \in 1..Len(toS)
  BY <1>1, <1>2
<1>4. QED
  BY <1>2, <1>3 DEF NoNewDelta

LEMMA SameNoDelta ==
    ASSUME toS' = toS
    PROVE  NoNewDelta
  BY DEF NoNewDelta

LEMMA InitAgree == Init => AgreeInv
<1> SUFFICES ASSUME Init PROVE AgreeInv
  OBVIOUS
<1>1. /\ sRound = 0 /\ rRound = 0 /\ sPc = "base" /\ rPc = "base" /\ Len(toS) = 0
      /\ \A g \in 1..MaxRound, i \in 0..(N - 1) : ~out[g][i].used
  BY DEF Init, NoRow
<1>2. 1..0 = {}
  OBVIOUS
<1>3. QED
  BY <1>1, <1>2 DEF AgreeInv, DeltaInv, DrawnInv

---------------------------------------------------------------------------
(* The receiver's steps. *)

LEMMA SetBaseOtsAgrees ==
    ASSUME IInv, SyncInv, AgreeInv, NEW d \in SUBSET Cols, RecvSetBaseOts(d)
    PROVE  AgreeInv'
<1>1. /\ rPc = "base" /\ rPc' = "ready" /\ rRound = 0 /\ sRound = 0 /\ sPc = "base" /\ rFlip' = d
      /\ toS \in Seq(MsgToS) /\ UNCHANGED <<rRound, sRound, sPc, out>> /\ rRound' = 0 /\ sRound' = 0
  BY Typed DEF RecvSetBaseOts, SyncInv, Phases, AgreeInv, DeltaInv, sendVars
<1>2. DeltaInv'
  <2> DEFINE m == [kind |-> "delta", delta |-> d]
  <2>1. toS' = Append(toS, m) /\ m.delta = d
    BY DEF RecvSetBaseOts
  <2>2. m \in MsgToS
    BY DEF MsgToS
  <2> HIDE DEF m
  <2>3. /\ Len(toS') = Len(toS) + 1 /\ Len(toS) \in Nat
        /\ \A k \in 1..Len(toS) : toS'[k] = toS[k]
        /\ toS'[Len(toS) + 1] = m
    BY <1>1, <2>1, <2>2
  <2>4. \A k \in 1..Len(toS') : k \in 1..Len(toS) \/ k = Len(toS) + 1
    BY <2>3
  <2>5. QED
    BY <1>1, <2>1, <2>3, <2>4 DEF AgreeInv, DeltaInv
<1>3. DrawnInv'
  <2>1. 1..0 = {}
    OBVIOUS
  <2>2. \A g \in 1..MaxRound, i \in 0..(N - 1) : out'[g][i].used => g <= rRound'
    BY <1>1 DEF AgreeInv, DrawnInv
  <2>3. QED
    BY <1>1, <2>1, <2>2 DEF DrawnInv
<1>4. QED
  BY <1>2, <1>3 DEF AgreeInv

(* A new round draws unused rows at its own positions.                     *)
LEMMA RecvInitAgrees ==
    ASSUME IInv, SyncInv, AgreeInv, RecvInit
    PROVE  AgreeInv'
<1>1. /\ UNCHANGED <<choices, rFlip, sDelta, sT, sRound, out, toS, sPc>>
      /\ rPc = "ready" /\ rPc' = "open" /\ rRound' = rRound + 1 /\ rRound \in Nat /\ rRound + 1 \in 1..MaxRound
      /\ MaxRound \in Nat /\ N \in Nat /\ N <= RecvRows /\ RecvRows \in Nat
  BY ConstantFacts, RowFacts, Typed DEF RecvInit, sendVars, netVars
<1>2. DeltaInv'
  BY <1>1, SameNoDelta, KeysStay DEF AgreeInv
<1>3. ASSUME NEW i \in 0..(N - 1)
      PROVE  i \in 0..(RecvRows - 1) /\ rBlk * RowBlk + i = PosOf(rRound + 1, i)
  <2>1. rBlk = rRound * RoundBlks /\ RoundBlks \in Nat /\ RowBlk \in Nat
    BY RowFacts, ConstantFacts DEF IInv, RecvInv
  <2>2. (rRound * RoundBlks) * RowBlk = rRound * (RoundBlks * RowBlk) /\ (rRound + 1) - 1 = rRound
    BY <1>1, <2>1
  <2>3. QED
    BY <1>1, <2>1, <2>2 DEF PosOf, RoundRows
<1>4. ASSUME NEW g, NEW i
      PROVE  T0Row(g, i)' = T0Row(g, i) /\ T1Row(g, i)' = T1Row(g, i) /\ TRow(g, i)' = TRow(g, i)
  BY <1>1 DEF T0Row, T1Row, TRow, T0Seeds, T1Seeds
<1>g. PICK g0 \in 1..MaxRound : g0 = rRound + 1
  BY <1>1
<1>5. \A i \in 0..(N - 1) : rT0'[i] = T0Row(g0, i)'
  BY <1>1, <1>3, <1>4, <1>g DEF RecvInit, T0Row
<1>6. /\ \A i \in 0..(N - 1) : rT1'[g0][i] = T1Row(g0, i)'
      /\ \A g \in 1..rRound : rT1'[g] = rT1[g]
  <2>1. rT1 \in [1..MaxRound -> {<< >>} \cup Matrix(RecvRows)]
    BY DEF IInv, RecvInv
  <2>2. rT1' = [rT1 EXCEPT ![rRound + 1] =
                   [i \in 0..(RecvRows - 1) |-> PrngRow(T1Seeds, rBlk * RowBlk + i)]]
    BY DEF RecvInit, T1Mem
  <2>3. \A g \in 1..rRound : rT1'[g] = rT1[g]
    BY <1>1, <2>1, <2>2
  <2>4. rT1'[g0] = [i \in 0..(RecvRows - 1) |-> PrngRow(T1Seeds, rBlk * RowBlk + i)]
    BY <1>g, <2>1, <2>2
  <2>5. QED
    BY <1>1, <1>3, <1>4, <1>g, <2>3, <2>4 DEF T1Row
<1>7. \A g \in 1..MaxRound, i \in 0..(N - 1) : out[g][i].used => g <= rRound
  BY DEF AgreeInv, DrawnInv
<1>8. ASSUME NEW g \in 1..rRound', NEW i \in 0..(N - 1) PROVE RowInv(g, i)'
  <2>1. CASE g = rRound + 1
    <3>1. ~out'[g][i].used
      BY <1>1, <1>7, <2>1
    <3>2. rT1'[g][i] = T1Row(g, i)'
      BY <1>6, <1>g, <2>1
    <3>3. QED
      BY <3>1, <3>2 DEF RowInv
  <2>2. CASE g \in 1..rRound
    <3>1. RowInv(g, i)
      BY <2>2 DEF AgreeInv, DrawnInv
    <3>2. rT1'[g][i] = rT1[g][i] /\ out' = out
      BY <1>1, <1>6, <2>2
    <3>3. QED
      BY <1>4, <3>1, <3>2 DEF RowInv, EncodedRow
  <2>3. QED
    BY <1>1, <2>1, <2>2
<1>9. DrawnInv'
  <2>1. sRound' # 0 => \A i \in 0..(N - 1) : sT'[i] = TRow(sRound, i)'
    BY <1>1 DEF AgreeInv, DrawnInv, TRow
  <2>2. \A g \in 1..MaxRound, i \in 0..(N - 1) : out'[g][i].used => g <= rRound'
    BY <1>1, <1>7
  <2>3. \A i \in 0..(N - 1) : rT0'[i] = T0Row(rRound, i)'
    BY <1>1, <1>5, <1>g DEF T0Row
  <2>4. QED
    BY <1>8, <2>1, <2>2, <2>3 DEF DrawnInv
<1>10. QED
  BY <1>2, <1>9 DEF AgreeInv

(* encode and zeroEncode: one unused row of the running round changes.      *)
LEMMA EncodeAgrees ==
    ASSUME IInv, AgreeInv, NEW i \in 0..(N - 1), Encodable(i), NEW w \in Word, NEW t, NEW u,
           \/ t = ZeroBlock
           \/ t = rT0[i] /\ u = Xor(Xor(Const(CodeWord(w)), rT0[i]), rT1[T1Mem(rRound)][i]),
           rT1' = [rT1 EXCEPT ![T1Mem(rRound)][i] = u],
           out' = [out EXCEPT ![rRound][i] = [t |-> t, w |-> w, used |-> TRUE]],
           UNCHANGED <<choices, rPc, rFlip, rRound, rT0, sendVars, netVars>>
    PROVE  AgreeInv'
<1>1. /\ rPc = "open" /\ ~out[rRound][i].used /\ T1Mem(rRound) = rRound /\ rRound \in 1..MaxRound
      /\ UNCHANGED <<sDelta, sT, sRound, toS, sPc>> /\ rT1[rRound] \in Matrix(RecvRows)
      /\ N \in Nat /\ N <= RecvRows /\ RecvRows \in Nat
  BY OpenRound, ConstantFacts, RowFacts DEF Encodable, IInv, netVars, sendVars
<1>2. DeltaInv'
  BY <1>1, SameNoDelta, KeysStay DEF AgreeInv
<1>3. ASSUME NEW g, NEW k
      PROVE  T0Row(g, k)' = T0Row(g, k) /\ T1Row(g, k)' = T1Row(g, k) /\ TRow(g, k)' = TRow(g, k)
  BY <1>1 DEF T0Row, T1Row, TRow, T0Seeds, T1Seeds
<1>4. /\ out \in [1..MaxRound -> [0..(N - 1) -> OutRow]]
      /\ rT1 \in [1..MaxRound -> {<< >>} \cup Matrix(RecvRows)]
      /\ DOMAIN rT1[rRound] = 0..(RecvRows - 1) /\ i \in 0..(RecvRows - 1)
  BY <1>1 DEF IInv, RecvInv, Matrix
<1>5. /\ out'[rRound][i] = [t |-> t, w |-> w, used |-> TRUE]
      /\ \A g \in 1..MaxRound, k \in 0..(N - 1) : <<g, k>> # <<rRound, i>> => out'[g][k] = out[g][k]
  BY <1>1, <1>4
<1>6. /\ rT1'[rRound][i] = u
      /\ \A g \in 1..MaxRound, k \in 0..(N - 1) : <<g, k>> # <<rRound, i>> => rT1'[g][k] = rT1[g][k]
  BY <1>1, <1>4
<1>7. rT1[rRound][i] = T1Row(rRound, i) /\ rT0[i] = T0Row(rRound, i)
  BY <1>1 DEF AgreeInv, DrawnInv, RowInv
<1>8. RowInv(rRound, i)'
  <2> DEFINE r == [t |-> t, w |-> w, used |-> TRUE]
  <2>1. out'[rRound'][i] = r /\ r.t = t /\ r.w = w /\ r.used
    BY <1>1, <1>5
  <2> HIDE DEF r
  <2>2. rT1'[rRound'][i] = u
    BY <1>1, <1>6
  <2>3. CASE t = ZeroBlock
    BY <2>1, <2>3 DEF RowInv
  <2>4. CASE t = rT0[i] /\ u = Xor(Xor(Const(CodeWord(w)), rT0[i]), rT1[T1Mem(rRound)][i])
    <3>1. EncodedRow(rRound, i)'
      BY <1>1, <1>3, <1>7, <2>1, <2>2, <2>4 DEF EncodedRow
    <3>2. QED
      BY <2>1, <3>1 DEF RowInv
  <2>5. QED
    BY <2>3, <2>4
<1>9. ASSUME NEW g \in 1..rRound, NEW k \in 0..(N - 1) PROVE RowInv(g, k)'
  <2>1. CASE g = rRound /\ k = i
    BY <1>1, <1>8, <2>1
  <2>2. CASE ~(g = rRound /\ k = i)
    <3>1. g \in 1..MaxRound /\ <<g, k>> # <<rRound, i>>
      BY <1>1, <2>2, ConstantFacts
    <3>2. out'[g][k] = out[g][k] /\ rT1'[g][k] = rT1[g][k]
      BY <1>5, <1>6, <3>1
    <3>3. RowInv(g, k)
      BY DEF AgreeInv, DrawnInv
    <3>4. QED
      BY <1>3, <3>2, <3>3 DEF RowInv, EncodedRow
  <2>3. QED
    BY <2>1, <2>2
<1>10. \A g \in 1..MaxRound, k \in 0..(N - 1) : out'[g][k].used => g <= rRound'
  <2> TAKE g \in 1..MaxRound, k \in 0..(N - 1)
  <2>1. CASE <<g, k>> = <<rRound, i>>
    BY <1>1, <2>1
  <2>2. CASE <<g, k>> # <<rRound, i>>
    BY <1>1, <1>5, <2>2 DEF AgreeInv, DrawnInv
  <2>3. QED
    BY <2>1, <2>2
<1>11. DrawnInv'
  BY <1>1, <1>3, <1>9, <1>10 DEF AgreeInv, DrawnInv
<1>12. QED
  BY <1>2, <1>11 DEF AgreeInv

(* The extra rows of the check are no rows of the application.              *)
LEMMA FinalizeAgrees ==
    ASSUME IInv, AgreeInv, NEW ws \in PerRelation(Word), RecvFinalize(ws)
    PROVE  AgreeInv'
<1>1. /\ rPc = "open" /\ rPc' = "challenge" /\ T1Mem(rRound) = rRound /\ rRound \in 1..MaxRound
      /\ UNCHANGED <<choices, rFlip, rRound, rT0, out, sDelta, sT, sRound, sPc>>
      /\ rIdx = N /\ N \in Nat /\ Stat \in Nat /\ rT1[rRound] \in Matrix(RecvRows)
      /\ N <= RecvRows /\ RecvRows \in Nat /\ rT1 \in [1..MaxRound -> {<< >>} \cup Matrix(RecvRows)]
  <2>1. /\ rPc = "open" /\ rPc' = "challenge" /\ rStep = NumSteps
        /\ UNCHANGED <<choices, rFlip, rRound, rT0, out, sDelta, sT, sRound, sPc>>
    BY DEF RecvFinalize, sendVars
  <2>2. rIdx = N
    BY <2>1, StepFacts DEF IInv, RecvInv
  <2>3. rT1 \in [1..MaxRound -> {<< >>} \cup Matrix(RecvRows)]
    BY DEF IInv, RecvInv
  <2>4. T1Mem(rRound) = rRound /\ rRound \in 1..MaxRound /\ rT1[rRound] \in Matrix(RecvRows)
    BY <2>1, OpenRound DEF IInv
  <2>5. QED
    BY <2>1, <2>2, <2>3, <2>4, ConstantFacts, RowFacts
<1>2. DeltaInv'
  <2> DEFINE m == Correction(T1Mem(rRound), rIdx, Stat)
  <2>1. m.kind # "delta" /\ toS' = Append(toS, m)
    BY DEF RecvFinalize, Correction
  <2> HIDE DEF m
  <2>2. QED
    BY <1>1, <2>1, AppendNoDelta, KeysStay DEF AgreeInv
<1>3. \A g \in 1..rRound, k \in 0..(N - 1) : rT1'[g][k] = rT1[g][k]
  <2>1. rT1' = [rT1 EXCEPT ![rRound] =
                   [k \in DOMAIN @ |-> IF k \in N..(N + Stat - 1)
                                         THEN CorrectionRow(k, ws[k - N]) ELSE @[k]]]
    BY <1>1 DEF RecvFinalize
  <2>2. \A k \in 0..(N - 1) : k \in DOMAIN rT1[rRound] /\ k \notin N..(N + Stat - 1)
    BY <1>1 DEF Matrix
  <2>3. QED
    BY <1>1, <2>1, <2>2
<1>4. ASSUME NEW g, NEW k
      PROVE  T0Row(g, k)' = T0Row(g, k) /\ T1Row(g, k)' = T1Row(g, k) /\ TRow(g, k)' = TRow(g, k)
  BY <1>1 DEF T0Row, T1Row, TRow, T0Seeds, T1Seeds
<1>5. ASSUME NEW g \in 1..rRound, NEW k \in 0..(N - 1) PROVE RowInv(g, k)'
  <2>1. RowInv(g, k)
    BY DEF AgreeInv, DrawnInv
  <2>2. QED
    BY <1>1, <1>3, <1>4, <2>1 DEF RowInv, EncodedRow
<1>6. DrawnInv'
  BY <1>1, <1>4, <1>5 DEF AgreeInv, DrawnInv
<1>7. QED
  BY <1>2, <1>6 DEF AgreeInv

LEMMA RecvAgrees ==
    ASSUME IInv, SyncInv, AgreeInv, RecvNext
    PROVE  AgreeInv'
<1>1. CASE \E d \in SUBSET Cols : RecvSetBaseOts(d)
  BY <1>1, SetBaseOtsAgrees
<1>2. CASE RecvInit
  BY <1>2, RecvInitAgrees
<1>3. ASSUME NEW i \in 0..(N - 1), RecvZeroEncode(i) \/ \E w \in Word : RecvEncode(i, w)
      PROVE  AgreeInv'
  <2>1. CASE RecvZeroEncode(i)
    <3> DEFINE u == Xor(rT0[i], rT1[T1Mem(rRound)][i])
    <3>1. /\ Encodable(i) /\ {} \in Word
          /\ rT1' = [rT1 EXCEPT ![T1Mem(rRound)][i] = u]
          /\ out' = [out EXCEPT ![rRound][i] = [t |-> ZeroBlock, w |-> {}, used |-> TRUE]]
          /\ UNCHANGED <<choices, rPc, rFlip, rRound, rT0, sendVars, netVars>>
      BY <2>1 DEF RecvZeroEncode, Word
    <3> HIDE DEF u
    <3>2. QED
      BY <3>1, EncodeAgrees
  <2>2. ASSUME NEW w \in Word, RecvEncode(i, w) PROVE AgreeInv'
    <3> DEFINE u == CorrectionRow(i, w)
    <3>1. /\ Encodable(i)
          /\ rT1' = [rT1 EXCEPT ![T1Mem(rRound)][i] = u]
          /\ out' = [out EXCEPT ![rRound][i] = [t |-> rT0[i], w |-> w, used |-> TRUE]]
          /\ UNCHANGED <<choices, rPc, rFlip, rRound, rT0, sendVars, netVars>>
      BY <2>2 DEF RecvEncode
    <3>2. u = Xor(Xor(Const(CodeWord(w)), rT0[i]), rT1[T1Mem(rRound)][i])
      BY DEF CorrectionRow
    <3> HIDE DEF u
    <3>3. QED
      BY <3>1, <3>2, EncodeAgrees
  <2>3. QED
    BY <1>3, <2>1, <2>2
<1>4. CASE RecvSendCorrection
  <2> DEFINE m == Correction(T1Mem(rRound), rIdx, StepCount(rStep + 1))
  <2>1. /\ m.kind # "delta" /\ toS' = Append(toS, m)
        /\ UNCHANGED <<choices, rPc, rFlip, rRound, rT0, rT1, out, sDelta, sT, sRound, sPc>>
    BY <1>4 DEF RecvSendCorrection, Correction, sendVars
  <2> HIDE DEF m
  <2>2. QED
    BY <2>1, AppendNoDelta, KeysStay, RowsStay DEF AgreeInv
<1>5. CASE \E ws \in [0..(Stat - 1) -> Word] : RecvFinalize(ws)
  BY <1>5, FinalizeAgrees DEF PerRelation
<1>6. CASE RecvProve
  <2>1. /\ rPc = "challenge" /\ rPc' = "ready"
        /\ UNCHANGED <<choices, rFlip, rRound, rT0, rT1, out, sDelta, sT, sRound, sPc>>
    BY <1>6 DEF RecvProve, sendVars
  <2>2. NoNewDelta
    <3>1. PICK a, b : toS' = toS \o << [kind |-> "tSum", sum |-> a], [kind |-> "wSum", sum |-> b] >>
      BY <1>6 DEF RecvProve
    <3>2. toS \in Seq(MsgToS) /\ Len(toS) \in Nat
      BY Typed
    <3>3. /\ Len(toS') = Len(toS) + 2 /\ \A k \in 1..Len(toS) : toS'[k] = toS[k]
          /\ toS'[Len(toS) + 1].kind = "tSum" /\ toS'[Len(toS) + 2].kind = "wSum"
      BY <3>1, <3>2
    <3>4. \A k \in 1..Len(toS') : k \in 1..Len(toS) \/ k = Len(toS) + 1 \/ k = Len(toS) + 2
      BY <3>2, <3>3
    <3>5. QED
      BY <3>3, <3>4 DEF NoNewDelta
  <2>3. QED
    BY <2>1, <2>2, KeysStay, RowsStay DEF AgreeInv
<1>7. CASE RecvSkipCheck \/ RecvClosed
  <2>1. /\ rPc' # "base" /\ (rPc # "base" \/ closed)
        /\ UNCHANGED <<choices, rFlip, rRound, rT0, rT1, out, sDelta, sT, sRound, sPc, toS>>
    BY <1>7 DEF RecvSkipCheck, RecvClosed, sendVars, netVars
  <2>2. rPc # "base"
    <3> SUFFICES ASSUME rPc = "base" PROVE FALSE
      OBVIOUS
    <3>1. sPc = "base" /\ closed
      BY <2>1 DEF AgreeInv, DeltaInv
    <3>2. QED
      BY <3>1 DEF SyncInv, Phases
  <2>3. QED
    BY <2>1, <2>2, SameNoDelta, KeysStay, RowsStay DEF AgreeInv
<1>8. QED
  BY <1>1, <1>2, <1>3, <1>4, <1>5, <1>6, <1>7 DEF RecvNext

---------------------------------------------------------------------------
(* The sender's steps. *)

LEMMA SendInitAgrees ==
    ASSUME IInv, SyncInv, AgreeInv, SendInit
    PROVE  AgreeInv'
<1>1. /\ UNCHANGED <<choices, rFlip, rRound, rT0, rT1, out, sDelta, toS, rPc>>
      /\ sPc = "ready" /\ sPc' = "open" /\ sRound' = sRound + 1 /\ sRound \in Nat
      /\ N \in Nat /\ N <= SendRows /\ SendRows \in Nat
      /\ sT' = [i \in 0..(SendRows - 1) |-> PrngRow(SeedOf(choices), sBlk * RowBlk + i)]
  BY ConstantFacts, RowFacts, Typed DEF SendInit, recvVars, netVars
<1>2. DeltaInv'
  BY <1>1, SameNoDelta, KeysStay DEF AgreeInv
<1>3. PICK g0 \in Nat : g0 = sRound + 1
  BY <1>1
<1>4. ASSUME NEW i \in 0..(N - 1)
      PROVE  i \in 0..(SendRows - 1) /\ sBlk * RowBlk + i = PosOf(g0, i)
  <2>1. sBlk = sRound * RoundBlks /\ RoundBlks \in Nat /\ RowBlk \in Nat
    BY RowFacts, ConstantFacts DEF SyncInv, Phases
  <2>2. (sRound * RoundBlks) * RowBlk = sRound * (RoundBlks * RowBlk) /\ g0 - 1 = sRound
    BY <1>1, <1>3, <2>1
  <2>3. QED
    BY <1>1, <2>1, <2>2 DEF PosOf, RoundRows
<1>5. ASSUME NEW g, NEW k
      PROVE  T0Row(g, k)' = T0Row(g, k) /\ T1Row(g, k)' = T1Row(g, k)
  BY <1>1 DEF T0Row, T1Row, T0Seeds, T1Seeds
<1>6. \A i \in 0..(N - 1) : sT'[i] = TRow(sRound, i)'
  BY <1>1, <1>3, <1>4 DEF TRow
<1>7. ASSUME NEW g \in 1..rRound, NEW k \in 0..(N - 1) PROVE RowInv(g, k)'
  <2>1. RowInv(g, k)
    BY DEF AgreeInv, DrawnInv
  <2>2. QED
    BY <1>1, <1>5, <2>1 DEF RowInv, EncodedRow
<1>8. DrawnInv'
  BY <1>1, <1>5, <1>6, <1>7 DEF AgreeInv, DrawnInv
<1>9. QED
  BY <1>2, <1>8 DEF AgreeInv

LEMMA SendAgrees ==
    ASSUME IInv, SyncInv, AgreeInv, SendNext
    PROVE  AgreeInv'
<1>1. CASE SendSetBaseOts
  <2>1. /\ sPc = "base" /\ sPc' = "ready" /\ toS # << >> /\ toS' = Tail(toS) /\ Head(toS).kind = "delta"
        /\ sDelta' = Xor(choices, Head(toS).delta)
        /\ UNCHANGED <<choices, rFlip, rRound, rT0, rT1, out, sT, sRound, rPc>>
    BY <1>1 DEF SendSetBaseOts, Ready, recvVars
  <2>2. toS \in Seq(MsgToS) /\ Head(toS) = toS[1] /\ 1 \in 1..Len(toS)
    BY <2>1, Typed
  <2>3. sDelta' = Xor(choices, rFlip) /\ rPc # "base"
    BY <2>1, <2>2 DEF AgreeInv, DeltaInv
  <2>4. NoNewDelta
    BY <2>1, TailNoDelta
  <2>5. DeltaInv'
    BY <2>1, <2>3, <2>4 DEF AgreeInv, DeltaInv, NoNewDelta
  <2>6. QED
    BY <2>1, <2>5, RowsStay DEF AgreeInv
<1>2. CASE SendInit
  BY <1>2, SendInitAgrees
<1>3. CASE SendRecvCorrection \/ SendRecvFinalization \/ SendSkipCheck
  <2>1. /\ sPc # "base" /\ sPc' # "base"
        /\ UNCHANGED <<choices, rFlip, rRound, rT0, rT1, out, sT, sRound, rPc, toS, sDelta>>
    BY <1>3 DEF SendRecvCorrection, SendRecvFinalization, SendSkipCheck, recvVars, netVars
  <2>2. QED
    BY <2>1, SameNoDelta, KeysStay, RowsStay DEF AgreeInv
<1>4. CASE SendLandCorrection \/ \E seed \in Seeds : SendChallenge(seed)
  <2>1. /\ sPc # "base" /\ sPc' # "base" /\ toS # << >> /\ toS' = Tail(toS)
        /\ UNCHANGED <<choices, rFlip, rRound, rT0, rT1, out, sT, sRound, rPc, sDelta>>
    BY <1>4 DEF SendLandCorrection, SendChallenge, Land, Ready, recvVars
  <2>2. QED
    BY <2>1, TailNoDelta, KeysStay, RowsStay DEF AgreeInv
<1>5. CASE SendVerify
  <2>1. /\ sPc # "base" /\ sPc' # "base" /\ toS # << >> /\ Tail(toS) # << >> /\ toS' = Tail(Tail(toS))
        /\ UNCHANGED <<choices, rFlip, rRound, rT0, rT1, out, sT, sRound, rPc, sDelta>>
    BY <1>5 DEF SendVerify, Ready, recvVars
  <2>2. NoNewDelta
    <3>1. toS \in Seq(MsgToS)
      BY Typed
    <3>2. /\ Tail(toS) \in Seq(MsgToS) /\ Len(Tail(toS)) = Len(toS) - 1 /\ Len(toS) \in Nat
          /\ \A k \in 1..Len(Tail(toS)) : Tail(toS)[k] = toS[k + 1]
      BY <2>1, <3>1, HeadTailProperties
    <3>3. /\ Len(toS') = Len(Tail(toS)) - 1
          /\ \A k \in 1..Len(toS') : toS'[k] = Tail(toS)[k + 1]
      BY <2>1, <3>2, HeadTailProperties
    <3>4. \A k \in 1..Len(toS') : /\ k + 1 \in 1..Len(Tail(toS)) /\ (k + 1) + 1 = k + 2
                                  /\ k + 2 \in 1..Len(toS)
      BY <3>2, <3>3
    <3>5. \A k \in 1..Len(toS') : toS'[k] = toS[k + 2]
      BY <3>2, <3>3, <3>4
    <3>6. QED
      BY <3>4, <3>5 DEF NoNewDelta
  <2>3. QED
    BY <2>1, <2>2, KeysStay, RowsStay DEF AgreeInv
<1>6. QED
  BY <1>1, <1>2, <1>3, <1>4, <1>5 DEF SendNext

LEMMA NextAgrees ==
    ASSUME IInv, SyncInv, AgreeInv, [Next]_vars
    PROVE  AgreeInv'
<1>1. CASE RecvNext
  BY <1>1, RecvAgrees
<1>2. CASE SendNext
  BY <1>2, SendAgrees
<1>3. ASSUME NEW j \in 1..Len(toS), NEW i \in 0..(N + Stat - 1), NEW c \in Cols, Tamper(j, i, c)
      PROVE  AgreeInv'
  <2>1. /\ UNCHANGED <<choices, rFlip, rRound, rT0, rT1, out, sT, sRound, rPc, sPc, sDelta>>
        /\ toS' = [toS EXCEPT ![j].err = @ \cup {<<i, c>>}] /\ toS[j].kind = "cor"
    BY <1>3 DEF Tamper, recvVars, sendVars
  <2>2. toS \in Seq(MsgToS)
    BY Typed
  <2>3. toS[j] \in CorrectionMsg
    BY <2>1, <2>2, ElementOfSeq DEF MsgToS, CorrectionMsg
  <2>4. /\ Len(toS') = Len(toS) /\ toS'[j].kind = "cor"
        /\ \A k \in 1..Len(toS) : k # j => toS'[k] = toS[k]
    BY <2>1, <2>2, <2>3 DEF CorrectionMsg
  <2>5. NoNewDelta
    BY <2>4 DEF NoNewDelta
  <2>6. QED
    BY <2>1, <2>5, KeysStay, RowsStay DEF AgreeInv
<1>4. CASE Done \/ UNCHANGED vars
  <2>1. UNCHANGED <<choices, rFlip, rRound, rT0, rT1, out, sT, sRound, rPc, sPc, sDelta, toS>>
    BY <1>4 DEF Done, vars, recvVars, sendVars, netVars
  <2>2. QED
    BY <2>1, SameNoDelta, KeysStay, RowsStay DEF AgreeInv
<1>5. QED
  BY <1>1, <1>2, <1>3, <1>4 DEF Next

(* For every code, every number of OTs, all choice bits of the base OTs and  *)
(* all words: on a row whose correction landed intact, what the sender       *)
(* hashes for a word is what the receiver hashed exactly when the two words'  *)
(* code words agree in the columns of delta. encode, zeroEncode, the          *)
(* streamed corrections, the base OT flips and a further init do not disturb *)
(* it.                                                                      *)
THEOREM OtCorrect == Spec => []EncodingsAgree
<1>1. Init => SyncInv /\ LandInv /\ AgreeInv
  BY SyncInit, InitLands, InitAgree
<1>2. IInv /\ SyncInv /\ LandInv /\ AgreeInv /\ [Next]_vars => SyncInv' /\ LandInv' /\ AgreeInv'
  BY NextSync, NextLands, NextAgrees
<1>3. IInv /\ SyncInv /\ LandInv /\ AgreeInv => EncodingsAgree
  BY Agreement
<1>4. QED
  BY <1>1, <1>2, <1>3, Invariant, PTL DEF Spec

---------------------------------------------------------------------------
(* ImplementsNcoOt. *)

(* Between honest parties nothing arrives corrupted.                        *)
NoError ==
    /\ sErr = {}
    /\ \A k \in 1..Len(toS) : toS[k].kind = "cor" => toS[k].err = {}

(* A round ends with all its rows landed, and they stay used.              *)
RoundsEnd ==
    /\ sPc = "ready" /\ sRound > 0 => Malicious \/ sStep = NumSteps
    /\ sPc \in {"final", "proof", "abort"} => sStep = NumSteps
    /\ \A g \in 1..(sRound - 1), i \in 0..(N - 1) : out[g][i].used

HonestInv == NoError /\ RoundsEnd
Honest == IInv /\ SyncInv /\ LandInv /\ AgreeInv /\ HonestInv

(* The abstract state, read off the receiver's rows and the sender's place  *)
(* in its round.                                                           *)
Reached == IF Malicious /\ sPc \in {"proof", "ready", "abort"} THEN N ELSE StepLo(sStep + 1)
UptoNow == [g \in 1..MaxRound |-> IF g < sRound THEN N ELSE IF g = sRound THEN Reached ELSE 0]
OpenNow ==
    [g \in 1..MaxRound |->
        { i \in 0..(N - 1) : i < UptoNow[g] /\ AbstractChosen[g][i] \notin {NoWord, Skipped} }]
Mapped == AbstractUpto = UptoNow /\ AbstractOpen = OpenNow

---------------------------------------------------------------------------
(* Nothing is corrupted, and rounds end as they should.                    *)

NoNewError ==
    \A k \in 1..Len(toS') : toS'[k].kind = "cor" =>
        toS'[k].err = {} \/ \E l \in 1..Len(toS) : toS[l] = toS'[k]

LEMMA ErrorsStay ==
    ASSUME NoError, NoNewError, sErr' = {}
    PROVE  NoError'
  BY DEF NoError, NoNewError

LEMMA AppendNoError ==
    ASSUME IInv, NEW m, m.kind = "cor" => m.err = {}, toS' = Append(toS, m)
    PROVE  NoNewError
<1>1. toS \in Seq(MsgToS)
  BY Typed
<1>2. /\ Len(toS') = Len(toS) + 1 /\ Len(toS) \in Nat
      /\ \A k \in 1..Len(toS) : toS'[k] = toS[k]
      /\ toS'[Len(toS) + 1] = m
  <2>1. toS \in Seq(MsgToS \cup {m}) /\ m \in MsgToS \cup {m}
    BY <1>1
  <2>2. QED
    BY <2>1
<1>3. \A k \in 1..Len(toS') : k \in 1..Len(toS) \/ k = Len(toS) + 1
  BY <1>2
<1>4. QED
  BY <1>2, <1>3 DEF NoNewError

LEMMA TailNoError ==
    ASSUME IInv, toS # << >>, toS' = Tail(toS)
    PROVE  NoNewError
<1>1. toS \in Seq(MsgToS) /\ Len(toS) \in Nat
  BY Typed
<1>2. Len(toS') = Len(toS) - 1 /\ \A k \in 1..Len(toS') : toS'[k] = toS[k + 1]
  BY <1>1, HeadTailProperties
<1>3. \A k \in 1..Len(toS') : k + 1 \in 1..Len(toS)
  BY <1>1, <1>2
<1>4. QED
  BY <1>2, <1>3 DEF NoNewError

LEMMA SameNoError ==
    ASSUME toS' = toS
    PROVE  NoNewError
  BY DEF NoNewError

(* Rows stay used, whatever the receiver does.                             *)
LEMMA RecvUsedStays ==
    ASSUME IInv, RecvNext
    PROVE  UsedStays
<1>1. out \in [1..MaxRound -> [0..(N - 1) -> OutRow]]
  BY DEF IInv, RecvInv
<1>2. ASSUME NEW i \in 0..(N - 1), RecvZeroEncode(i) \/ \E w \in Word : RecvEncode(i, w)
      PROVE  UsedStays
  <2>1. PICK r : r.used /\ out' = [out EXCEPT ![rRound][i] = r]
    <3>1. [t |-> ZeroBlock, w |-> {}, used |-> TRUE].used
          /\ \A w : [t |-> rT0[i], w |-> w, used |-> TRUE].used
      OBVIOUS
    <3>2. QED
      BY <1>2, <3>1 DEF RecvZeroEncode, RecvEncode
  <2>2. QED
    BY <1>1, <2>1 DEF UsedStays
<1>3. ASSUME out' = out PROVE UsedStays
  BY <1>3 DEF UsedStays
<1>4. QED
  BY <1>2, <1>3 DEF RecvNext, RecvSetBaseOts, RecvInit, RecvSendCorrection, RecvFinalize, RecvProve,
                    RecvSkipCheck, RecvClosed

LEMMA RecvHonest ==
    ASSUME IInv, HonestInv, RecvNext
    PROVE  HonestInv'
<1>1. UNCHANGED sendVars
  BY DEF RecvNext, RecvSetBaseOts, RecvInit, RecvZeroEncode, RecvEncode, RecvSendCorrection, RecvFinalize,
         RecvProve, RecvSkipCheck, RecvClosed
<1>2. RoundsEnd'
  <2>1. sRound \in 0..MaxRound /\ MaxRound \in Nat
    BY ConstantFacts DEF IInv, SendInv
  <2>2. \A g \in 1..(sRound - 1) : g \in 1..MaxRound
    BY <2>1
  <2>3. QED
    BY <1>1, <2>2, RecvUsedStays DEF HonestInv, RoundsEnd, UsedStays, sendVars
<1>3. NoNewError
  <2>1. CASE \E d \in SUBSET Cols : RecvSetBaseOts(d)
    <3>1. PICK d \in SUBSET Cols : RecvSetBaseOts(d)
      BY <2>1
    <3> DEFINE m == [kind |-> "delta", delta |-> d]
    <3>2. toS' = Append(toS, m) /\ m.kind = "delta"
      BY <3>1 DEF RecvSetBaseOts
    <3> HIDE DEF m
    <3>3. QED
      BY <3>2, AppendNoError
  <2>2. CASE RecvSendCorrection
    <3> DEFINE m == Correction(T1Mem(rRound), rIdx, StepCount(rStep + 1))
    <3>1. toS' = Append(toS, m) /\ m.err = {}
      BY <2>2 DEF RecvSendCorrection, Correction
    <3> HIDE DEF m
    <3>2. QED
      BY <3>1, AppendNoError
  <2>3. CASE \E ws \in [0..(Stat - 1) -> Word] : RecvFinalize(ws)
    <3> DEFINE m == Correction(T1Mem(rRound), rIdx, Stat)
    <3>1. toS' = Append(toS, m) /\ m.err = {}
      BY <2>3 DEF RecvFinalize, Correction
    <3> HIDE DEF m
    <3>2. QED
      BY <3>1, AppendNoError
  <2>4. CASE RecvProve
    <3>1. PICK a, b : toS' = toS \o << [kind |-> "tSum", sum |-> a], [kind |-> "wSum", sum |-> b] >>
      BY <2>4 DEF RecvProve
    <3>2. toS \in Seq(MsgToS) /\ Len(toS) \in Nat
      BY Typed
    <3>3. /\ Len(toS') = Len(toS) + 2 /\ \A k \in 1..Len(toS) : toS'[k] = toS[k]
          /\ toS'[Len(toS) + 1].kind = "tSum" /\ toS'[Len(toS) + 2].kind = "wSum"
      BY <3>1, <3>2
    <3>4. \A k \in 1..Len(toS') : k \in 1..Len(toS) \/ k = Len(toS) + 1 \/ k = Len(toS) + 2
      BY <3>2, <3>3
    <3>5. QED
      BY <3>3, <3>4 DEF NoNewError
  <2>5. CASE RecvInit \/ RecvSkipCheck \/ RecvClosed
             \/ \E i \in 0..(N - 1) : RecvZeroEncode(i) \/ \E w \in Word : RecvEncode(i, w)
    <3>1. toS' = toS
      BY <2>5 DEF RecvInit, RecvSkipCheck, RecvClosed, RecvZeroEncode, RecvEncode, netVars
    <3>2. QED
      BY <3>1, SameNoError
  <2>6. QED
    BY <2>1, <2>2, <2>3, <2>4, <2>5 DEF RecvNext
<1>4. NoError'
  BY <1>1, <1>3, ErrorsStay DEF HonestInv, NoError, sendVars
<1>5. QED
  BY <1>2, <1>4 DEF HonestInv

(* What lands is what was sent.                                            *)
LEMMA LandsIntact ==
    ASSUME IInv, NoError, NEW count, Land(count)
    PROVE  NoError'
<1>1. toS # << >> /\ toS' = Tail(toS) /\ Head(toS).kind = "cor" /\ toS \in Seq(MsgToS)
  BY Typed DEF Land, Ready
<1>2. Head(toS) = toS[1] /\ 1 \in 1..Len(toS)
  BY <1>1
<1>3. Head(toS).err = {} /\ sErr = {}
  BY <1>1, <1>2 DEF NoError
<1>4. sErr' = {}
  BY <1>3 DEF Land
<1>5. QED
  BY <1>1, <1>4, TailNoError, ErrorsStay

LEMMA SendHonest ==
    ASSUME IInv, SyncInv, LandInv, HonestInv, SendNext
    PROVE  HonestInv'
<1>t. /\ NumSteps \in Nat \ {0} /\ sStep \in 0..NumSteps /\ sRound \in 0..MaxRound
      /\ N \in Nat \ {0} /\ Stat \in Nat
  BY StepFacts, ConstantFacts DEF IInv, SendInv
<1>h. NoError /\ RoundsEnd
  BY DEF HonestInv
<1>1. CASE SendSetBaseOts
  <2>1. /\ toS # << >> /\ toS' = Tail(toS) /\ UNCHANGED <<sErr, out, sRound>> /\ sRound = 0 /\ sPc' = "ready"
    BY <1>1 DEF SendSetBaseOts, Ready, recvVars, SyncInv, Phases
  <2>2. NoError'
    BY <1>h, <2>1, TailNoError, ErrorsStay DEF NoError
  <2>3. QED
    BY <1>h, <2>1, <2>2 DEF HonestInv, RoundsEnd
<1>2. CASE SendInit
  <2>1. /\ toS' = toS /\ sErr' = {} /\ out' = out /\ sRound' = sRound + 1 /\ sPc = "ready" /\ sPc' = "open"
    BY <1>2 DEF SendInit, recvVars, netVars
  <2>2. NoError'
    BY <1>h, <2>1, SameNoError, ErrorsStay
  <2>3. ASSUME sRound > 0, NEW i \in 0..(N - 1) PROVE out[sRound][i].used
    <3>1. Malicious \/ StepLo(sStep + 1) = N
      BY <1>h, <2>1, <2>3, StepFacts DEF RoundsEnd
    <3>2. i \in Landed
      BY <1>t, <2>1, <3>1 DEF Landed
    <3>3. QED
      BY <1>t, <2>3, <3>2 DEF LandInv, LandedRows
  <2>4. ASSUME NEW g \in 1..(sRound' - 1), NEW i \in 0..(N - 1) PROVE out'[g][i].used
    <3>1. g \in 1..(sRound - 1) \/ (g = sRound /\ sRound > 0)
      BY <1>t, <2>1
    <3>2. QED
      BY <1>h, <2>1, <2>3, <3>1 DEF RoundsEnd
  <2>5. QED
    BY <2>1, <2>2, <2>4 DEF HonestInv, RoundsEnd
<1>3. CASE SendRecvCorrection
  <2>1. UNCHANGED <<toS, sErr, out, sRound>> /\ sPc' = "recv"
    BY <1>3 DEF SendRecvCorrection, recvVars, netVars
  <2>2. QED
    BY <1>h, <2>1 DEF HonestInv, NoError, RoundsEnd
<1>4. CASE SendLandCorrection
  <2>1. UNCHANGED <<out, sRound>> /\ sPc' = "open" /\ Land(StepCount(sStep + 1))
    BY <1>4 DEF SendLandCorrection, recvVars
  <2>2. QED
    BY <1>h, <2>1, LandsIntact DEF HonestInv, RoundsEnd
<1>5. CASE SendRecvFinalization
  <2>1. UNCHANGED <<toS, sErr, out, sRound, sStep>> /\ sPc' = "final" /\ sStep = NumSteps
    BY <1>5 DEF SendRecvFinalization, recvVars, netVars
  <2>2. QED
    BY <1>h, <2>1 DEF HonestInv, NoError, RoundsEnd
<1>6. CASE \E seed \in Seeds : SendChallenge(seed)
  <2>1. UNCHANGED <<out, sRound, sStep>> /\ sPc = "final" /\ sPc' = "proof" /\ Land(Stat)
    BY <1>6 DEF SendChallenge, recvVars
  <2>2. QED
    BY <1>h, <2>1, LandsIntact DEF HonestInv, RoundsEnd
<1>7. CASE SendVerify
  <2>1. /\ UNCHANGED <<out, sRound, sStep, sErr>> /\ sPc = "proof" /\ sPc' \in {"ready", "abort"} /\ Malicious
        /\ toS # << >> /\ Tail(toS) # << >> /\ toS' = Tail(Tail(toS))
    BY <1>7 DEF SendVerify, Ready, recvVars, SyncInv, Phases
  <2>2. NoNewError
    <3>1. toS \in Seq(MsgToS)
      BY Typed
    <3>2. /\ Tail(toS) \in Seq(MsgToS) /\ Len(Tail(toS)) = Len(toS) - 1 /\ Len(toS) \in Nat
          /\ \A k \in 1..Len(Tail(toS)) : Tail(toS)[k] = toS[k + 1]
      BY <2>1, <3>1, HeadTailProperties
    <3>3. /\ Len(toS') = Len(Tail(toS)) - 1
          /\ \A k \in 1..Len(toS') : toS'[k] = Tail(toS)[k + 1]
      BY <2>1, <3>2, HeadTailProperties
    <3>4. \A k \in 1..Len(toS') : /\ k + 1 \in 1..Len(Tail(toS)) /\ (k + 1) + 1 = k + 2
                                  /\ k + 2 \in 1..Len(toS)
      BY <3>2, <3>3
    <3>5. \A k \in 1..Len(toS') : toS'[k] = toS[k + 2]
      BY <3>2, <3>3, <3>4
    <3>6. QED
      BY <3>4, <3>5 DEF NoNewError
  <2>3. NoError'
    BY <1>h, <2>1, <2>2, ErrorsStay DEF NoError
  <2>4. QED
    BY <1>h, <2>1, <2>3 DEF HonestInv, RoundsEnd
<1>8. CASE SendSkipCheck
  <2>1. UNCHANGED <<toS, sErr, out, sRound, sStep>> /\ sPc' = "ready" /\ sStep = NumSteps
    BY <1>8 DEF SendSkipCheck, recvVars, netVars
  <2>2. QED
    BY <1>h, <2>1 DEF HonestInv, NoError, RoundsEnd
<1>9. QED
  BY <1>1, <1>2, <1>3, <1>4, <1>5, <1>6, <1>7, <1>8 DEF SendNext

LEMMA InitHonest == Init => HonestInv
<1> SUFFICES ASSUME Init PROVE HonestInv
  OBVIOUS
<1>1. sRound = 0 /\ sPc = "base" /\ Len(toS) = 0 /\ sErr = {}
  BY DEF Init
<1>2. 1..0 = {} /\ 1..(0 - 1) = {} /\ ~(0 > 0)
  OBVIOUS
<1>3. QED
  BY <1>1, <1>2 DEF HonestInv, NoError, RoundsEnd

LEMMA NextHonest ==
    ASSUME MaxTamper = 0, Honest, [Next]_vars
    PROVE  Honest'
<1> USE DEF Honest
<1>1. IInv' /\ SyncInv' /\ LandInv' /\ AgreeInv'
  BY NextIInv, NextSync, NextLands, NextAgrees
<1>2. CASE RecvNext
  BY <1>1, <1>2, RecvHonest
<1>3. CASE SendNext
  BY <1>1, <1>3, SendHonest
<1>4. ~ \E j \in 1..Len(toS), i \in 0..(N + Stat - 1), c \in Cols : Tamper(j, i, c)
  BY DEF Tamper, IInv, NetInv
<1>5. CASE Done \/ UNCHANGED vars
  BY <1>1, <1>5 DEF Done, vars, recvVars, sendVars, netVars, HonestInv, NoError, RoundsEnd
<1>6. QED
  BY <1>2, <1>3, <1>4, <1>5 DEF Next

---------------------------------------------------------------------------
(* The abstract state.                                                     *)

(* The rows of the OTs that have landed are those before the place reached. *)
LEMMA LandedIs ==
    ASSUME IInv
    PROVE  /\ Reached \in 0..N
           /\ Landed \cap (0..(N - 1)) = 0..(Reached - 1)
<1>1. StepLo(sStep + 1) \in 0..N /\ N \in Nat \ {0} /\ Stat \in Nat
  BY LandedFacts, ConstantFacts
<1>2. CASE Malicious /\ sPc \in {"proof", "ready", "abort"}
  <2>1. Reached = N /\ Landed = 0..(N + Stat - 1)
    BY <1>2 DEF Reached, Landed
  <2>2. QED
    BY <1>1, <2>1
<1>3. CASE ~(Malicious /\ sPc \in {"proof", "ready", "abort"})
  <2>1. Reached = StepLo(sStep + 1) /\ Landed = 0..(StepLo(sStep + 1) - 1)
    BY <1>3 DEF Reached, Landed
  <2>2. QED
    BY <1>1, <2>1
<1>4. QED
  BY <1>2, <1>3

(* What the sender can encode, the receiver has fixed.                      *)
LEMMA UsedBelow ==
    ASSUME Honest, NEW g \in 1..MaxRound, NEW i \in 0..(N - 1), i < UptoNow[g]
    PROVE  out[g][i].used
<1>1. sRound \in 0..MaxRound /\ MaxRound \in Nat /\ N \in Nat \ {0} /\ Reached \in 0..N
  BY ConstantFacts, LandedIs DEF Honest, IInv, SendInv
<1>2. CASE g < sRound
  <2>1. g \in 1..(sRound - 1)
    BY <1>1, <1>2
  <2>2. QED
    BY <2>1 DEF Honest, HonestInv, RoundsEnd
<1>3. CASE g = sRound
  <2>1. i < Reached /\ sRound > 0
    BY <1>1, <1>3 DEF UptoNow
  <2>2. i \in 0..(Reached - 1)
    BY <1>1, <2>1
  <2>3. i \in Landed /\ i < N
    BY <1>1, <2>2, LandedIs DEF Honest
  <2>4. QED
    BY <1>3, <2>1, <2>3 DEF Honest, LandInv, LandedRows
<1>4. CASE ~(g < sRound) /\ g # sRound
  BY <1>1, <1>4 DEF UptoNow
<1>5. QED
  BY <1>2, <1>3, <1>4

LEMMA MappedNow == Honest => Mapped
<1> SUFFICES ASSUME Honest PROVE Mapped
  OBVIOUS
<1>1. sRound \in 0..MaxRound /\ MaxRound \in Nat /\ N \in Nat \ {0} /\ Reached \in 0..N
  BY ConstantFacts, LandedIs DEF Honest, IInv, SendInv
<1>2. Landed \cap (0..(N - 1)) = 0..(Reached - 1)
  BY LandedIs DEF Honest
<1>3. Cardinality(Landed \cap (0..(N - 1))) = Reached
  <2>1. 0 \in Int /\ Reached - 1 \in Int
    BY <1>1
  <2>2. Cardinality(0..(Reached - 1)) = IF 0 > Reached - 1 THEN 0 ELSE (Reached - 1) - 0 + 1
    BY <2>1, FS_Interval
  <2>3. Cardinality(0..(Reached - 1)) = Reached
    <3> DEFINE c == Cardinality(0..(Reached - 1))
    <3>1. c = IF 0 > Reached - 1 THEN 0 ELSE (Reached - 1) - 0 + 1
      BY <2>2
    <3> HIDE DEF c
    <3>2. c = Reached
      BY <1>1, <3>1
    <3>3. QED
      BY <3>2 DEF c
  <2>4. QED
    BY <1>2, <2>3
<1>4. AbstractUpto = UptoNow
  BY <1>3 DEF AbstractUpto, UptoNow
<1>5. ASSUME NEW g \in 1..MaxRound
      PROVE  AbstractOpen[g] = OpenNow[g]
  <2> DEFINE Open(i) == AbstractChosen[g][i] \notin {NoWord, Skipped}
  <2>1. AbstractOpen[g] = { i \in 0..(N - 1) :
            Open(i) /\ (g < sRound \/ (g = sRound /\ i \in Landed /\ \A w \in Word : Agrees(g, i, w))) }
    BY DEF AbstractOpen
  <2>2. OpenNow[g] = { i \in 0..(N - 1) : i < UptoNow[g] /\ Open(i) }
    BY DEF OpenNow
  <2>3. ASSUME NEW i \in 0..(N - 1), Open(i) PROVE out[g][i].t # ZeroBlock
    BY <2>3 DEF AbstractChosen
  <2>4. ASSUME g = sRound, NEW i \in 0..(N - 1), i \in Landed, Open(i)
        PROVE  \A w \in Word : Agrees(g, i, w)
    <3>1. ErrOf(i) = {} /\ sRound > 0
      BY <1>1, <2>4 DEF ErrOf, Honest, HonestInv, NoError
    <3>2. EncodingsAgree
      BY Agreement DEF Honest
    <3>3. QED
      BY <2>3, <2>4, <3>1, <3>2 DEF EncodingsAgree
  <2>5. ASSUME NEW i \in 0..(N - 1) PROVE i \in Landed <=> i < Reached
    BY <1>1, <1>2
  <2> HIDE DEF Open
  <2>6. UptoNow[g] = IF g < sRound THEN N ELSE IF g = sRound THEN Reached ELSE 0
    BY DEF UptoNow
  <2>7. ASSUME NEW i \in 0..(N - 1), Open(i)
        PROVE  i < UptoNow[g]
               <=> (g < sRound \/ (g = sRound /\ i \in Landed /\ \A w \in Word : Agrees(g, i, w)))
    BY <1>1, <2>4, <2>5, <2>6, <2>7
  <2>8. QED
    BY <2>1, <2>2, <2>7
<1>6. AbstractOpen = OpenNow
  BY <1>5 DEF AbstractOpen, OpenNow
<1>7. QED
  BY <1>4, <1>6 DEF Mapped

LEMMA MappedNext == (Honest => Mapped)'
<1>1. Honest => Mapped
  BY MappedNow
<1>2. QED
  BY <1>1, PTL

LEMMA UsedBelowNext ==
    (Honest => \A g \in 1..MaxRound, i \in 0..(N - 1) : i < UptoNow[g] => out[g][i].used)'
<1>1. Honest => \A g \in 1..MaxRound, i \in 0..(N - 1) : i < UptoNow[g] => out[g][i].used
  BY UsedBelow
<1>2. QED
  BY <1>1, PTL

---------------------------------------------------------------------------
(* A step of the code is a step of the contract, or the contract stands     *)
(* still.                                                                  *)

ContractStep == Contract!Next \/ UNCHANGED Contract!vars

(* Neither a row fixed nor one opened.                                     *)
LEMMA Stutters ==
    ASSUME Honest, Honest', out' = out, UptoNow' = UptoNow
    PROVE  UNCHANGED Contract!vars
<1>1. AbstractChosen' = AbstractChosen
  BY DEF AbstractChosen, NoWord, Skipped, Fixed
<1>2. Mapped /\ Mapped'
  BY MappedNow, MappedNext
<1>3. OpenNow' = OpenNow
  BY <1>1 DEF OpenNow, NoWord, Skipped
<1>4. QED
  BY <1>1, <1>2, <1>3 DEF Contract!vars, Mapped

(* encode and zeroEncode fix a row, one that the sender cannot encode yet.  *)
LEMMA EncodeFixes ==
    ASSUME Honest, Honest', NEW i \in 0..(N - 1), Encodable(i), NEW r,
           r.used, r.t = ZeroBlock \/ r.w \in Word,
           out' = [out EXCEPT ![rRound][i] = r], UNCHANGED sendVars
    PROVE  ContractStep
<1> DEFINE x == IF r.t = ZeroBlock THEN Skipped ELSE Fixed(r.w)
<1>1. /\ rRound \in 1..MaxRound /\ ~out[rRound][i].used
      /\ out \in [1..MaxRound -> [0..(N - 1) -> OutRow]]
  BY OpenRound DEF Encodable, Honest, IInv, RecvInv
<1>2. UptoNow' = UptoNow
  BY DEF UptoNow, Reached, sendVars
<1>3. ASSUME NEW g \in 1..MaxRound, NEW k \in 0..(N - 1)
      PROVE  out'[g][k] = IF g = rRound /\ k = i THEN r ELSE out[g][k]
  BY <1>1
<1>4. ASSUME NEW g \in 1..MaxRound, NEW k \in 0..(N - 1)
      PROVE  AbstractChosen'[g][k] = IF g = rRound /\ k = i THEN x ELSE AbstractChosen[g][k]
  BY <1>3 DEF AbstractChosen, NoWord, Skipped, Fixed
<1>5. AbstractChosen[rRound][i] = NoWord
  BY <1>1 DEF AbstractChosen
<1>6. AbstractChosen' = [AbstractChosen EXCEPT ![rRound][i] = x]
  <2> DEFINE f == AbstractChosen
             h == AbstractChosen'
             R == [f EXCEPT ![rRound][i] = x]
  <2>1. f = [g \in 1..MaxRound |-> [k \in 0..(N - 1) |-> f[g][k]]]
    BY DEF AbstractChosen
  <2>2. h = [g \in 1..MaxRound |-> [k \in 0..(N - 1) |-> h[g][k]]]
    BY DEF AbstractChosen
  <2>3. \A g \in 1..MaxRound, k \in 0..(N - 1) : h[g][k] = IF g = rRound /\ k = i THEN x ELSE f[g][k]
    BY <1>4
  <2> HIDE DEF f, h, x
  <2>4. R = [g \in 1..MaxRound |-> [k \in 0..(N - 1) |-> IF g = rRound /\ k = i THEN x ELSE f[g][k]]]
    BY <1>1, <2>1
  <2>5. ASSUME NEW g \in 1..MaxRound PROVE h[g] = R[g]
    <3> DEFINE v(k) == IF g = rRound /\ k = i THEN x ELSE f[g][k]
    <3>1. R[g] = [k \in 0..(N - 1) |-> v(k)]
      BY <2>4
    <3>2. h[g] = [k \in 0..(N - 1) |-> h[g][k]]
      BY <2>2
    <3>3. \A k \in 0..(N - 1) : h[g][k] = v(k)
      BY <2>3
    <3> HIDE DEF v
    <3>4. QED
      BY <3>1, <3>2, <3>3
  <2>6. h = [g \in 1..MaxRound |-> h[g]] /\ R = [g \in 1..MaxRound |-> R[g]]
    BY <2>2, <2>4
  <2> HIDE DEF R
  <2>7. h = R
    BY <2>5, <2>6
  <2>8. QED
    BY <2>7 DEF f, h, R
<1>7. OpenNow' = OpenNow
  <2>1. ASSUME NEW g \in 1..MaxRound, NEW k \in 0..(N - 1), k < UptoNow[g]
        PROVE  AbstractChosen'[g][k] = AbstractChosen[g][k]
    <3>1. ~(g = rRound /\ k = i)
      BY <1>1, <2>1, UsedBelow
    <3>2. QED
      BY <1>4, <3>1
  <2>2. QED
    BY <1>2, <2>1 DEF OpenNow, NoWord, Skipped
<1>8. Mapped /\ Mapped'
  BY MappedNow, MappedNext
<1>9. x \in { Fixed(w) : w \in Word } \cup {Skipped}
  OBVIOUS
<1> HIDE DEF x
<1>10. Contract!Fix(rRound, i, x)
  BY <1>2, <1>5, <1>6, <1>7, <1>8 DEF Contract!Fix, Mapped
<1>11. QED
  BY <1>1, <1>9, <1>10 DEF ContractStep, Contract!Next, Contract!Rows

(* A correction that lands opens the rows it carries.                       *)
LEMMA LandingOpens ==
    ASSUME Honest, Honest', SendLandCorrection
    PROVE  ContractStep
<1> DEFINE n == Bound[sStep + 1]
<1>1. /\ sPc = "recv" /\ sPc' = "open" /\ sStep' = sStep + 1 /\ out' = out /\ sRound' = sRound
  BY DEF SendLandCorrection, recvVars
<1>2. /\ sRound \in 1..MaxRound /\ sStep \in 0..(NumSteps - 1) /\ N \in Nat \ {0} /\ MaxRound \in Nat
      /\ NumSteps \in Nat \ {0}
  BY <1>1, ConstantFacts, StepFacts DEF Honest, IInv, SendInv
<1>3. sStep + 1 \in 1..NumSteps
  BY <1>2
<1>4. n \in 1..N /\ StepLo((sStep + 1) + 1) = n /\ StepLo(sStep + 1) \in 0..N
  BY <1>3, StepFacts
<1>5. StepLo(sStep + 1) < n
  <2>1. CASE sStep + 1 = 1
    BY <1>4, <2>1 DEF StepLo
  <2>2. CASE sStep + 1 # 1
    <3>1. sStep \in 1..(Len(Bound) - 1)
      BY <1>2, <2>2 DEF NumSteps
    <3>2. Bound[sStep] < Bound[sStep + 1]
      BY <3>1, OosAssumption
    <3>3. StepLo(sStep + 1) = Bound[sStep]
      BY <1>2, <2>2 DEF StepLo
    <3>4. QED
      BY <3>2, <3>3
  <2>3. QED
    BY <2>1, <2>2
<1>6. Reached = StepLo(sStep + 1) /\ Reached' = n
  BY <1>1, <1>4 DEF Reached
<1> HIDE DEF n
<1>7. /\ \A g \in 1..MaxRound : UptoNow[g] = IF g < sRound THEN N ELSE IF g = sRound THEN Reached ELSE 0
      /\ \A g \in 1..MaxRound : UptoNow'[g] = IF g < sRound THEN N ELSE IF g = sRound THEN n ELSE 0
      /\ UptoNow' = [UptoNow EXCEPT ![sRound] = n]
  <2> DEFINE V(a) == [g \in 1..MaxRound |-> IF g < sRound THEN N ELSE IF g = sRound THEN a ELSE 0]
  <2>1. UptoNow = V(Reached)
    BY DEF UptoNow
  <2>2. UptoNow' = V(n)
    BY <1>1, <1>6 DEF UptoNow
  <2>3. V(n) = [V(Reached) EXCEPT ![sRound] = n]
    <3>1. [V(Reached) EXCEPT ![sRound] = n]
          = [g \in 1..MaxRound |-> IF g = sRound THEN n ELSE V(Reached)[g]]
      OBVIOUS
    <3>2. \A g \in 1..MaxRound : V(n)[g] = IF g = sRound THEN n ELSE V(Reached)[g]
      BY <1>2
    <3>3. V(n) = [g \in 1..MaxRound |-> V(n)[g]]
      OBVIOUS
    <3> HIDE DEF V
    <3>4. QED
      BY <3>1, <3>2, <3>3
  <2>4. QED
    BY <2>1, <2>2, <2>3
<1>8. ASSUME NEW i \in 0..(N - 1), i < n PROVE AbstractChosen[sRound][i] # NoWord
  <2>1. out[sRound][i].used
    BY <1>1, <1>2, <1>7, <1>8, UsedBelowNext
  <2>2. QED
    BY <1>2, <2>1 DEF AbstractChosen, NoWord, Skipped, Fixed
<1>9. AbstractChosen' = AbstractChosen
  BY <1>1 DEF AbstractChosen, NoWord, Skipped, Fixed
<1>10. OpenNow' = [OpenNow EXCEPT ![sRound] = @ \cup
                     { i \in Reached..(n - 1) : AbstractChosen[sRound][i] # Skipped }]
  <2> DEFINE F == [OpenNow EXCEPT ![sRound] = @ \cup
                     { i \in Reached..(n - 1) : AbstractChosen[sRound][i] # Skipped }]
             A(g) == { i \in 0..(N - 1) : AbstractChosen[g][i] \notin {NoWord, Skipped} }
  <2>1. ASSUME NEW g \in 1..MaxRound
        PROVE  /\ OpenNow[g] = { i \in A(g) : i < UptoNow[g] }
               /\ OpenNow'[g] = { i \in A(g) : i < UptoNow'[g] }
    BY <1>9 DEF OpenNow, NoWord, Skipped
  <2>2. ASSUME NEW i \in Reached..(n - 1)
        PROVE  AbstractChosen[sRound][i] # Skipped <=> i \in A(sRound)
    <3>1. i \in 0..(N - 1) /\ i < n
      BY <1>2, <1>4, <1>6
    <3>2. QED
      BY <1>8, <3>1
  <2>3. { i \in Reached..(n - 1) : AbstractChosen[sRound][i] # Skipped }
        = { i \in A(sRound) : Reached <= i /\ i < n }
    <3>1. ASSUME NEW i \in A(sRound) PROVE i \in Reached..(n - 1) <=> Reached <= i /\ i < n
      BY <1>2, <1>4, <1>6
    <3>2. QED
      BY <2>2, <3>1
  <2> HIDE DEF A
  <2>4. ASSUME NEW g \in 1..MaxRound PROVE OpenNow'[g] = F[g]
    <3>1. CASE g = sRound
      <4>1. ASSUME NEW i \in A(g) PROVE i \in Int
        BY <4>1 DEF A
      <4>2. OpenNow[g] = { i \in A(g) : i < Reached } /\ OpenNow'[g] = { i \in A(g) : i < n }
        BY <1>1, <1>2, <1>7, <2>1, <3>1
      <4>3. F[g] = OpenNow[g] \cup { i \in A(g) : Reached <= i /\ i < n }
        BY <2>3, <3>1 DEF OpenNow
      <4>4. Reached \in Int /\ n \in Int /\ Reached < n
        BY <1>4, <1>5, <1>6
      <4>5. QED
        BY <4>1, <4>2, <4>3, <4>4
    <3>2. CASE g # sRound
      <4>1. UptoNow'[g] = UptoNow[g]
        BY <1>7, <3>2
      <4>2. F[g] = OpenNow[g]
        BY <3>2 DEF OpenNow
      <4>3. QED
        BY <2>1, <4>1, <4>2
    <3>3. QED
      BY <3>1, <3>2
  <2>5. DOMAIN F = 1..MaxRound /\ F = [g \in 1..MaxRound |-> F[g]]
    BY DEF OpenNow
  <2>6. OpenNow' = [g \in 1..MaxRound |-> OpenNow'[g]]
    BY DEF OpenNow
  <2> HIDE DEF F
  <2>7. OpenNow' = F
    BY <2>4, <2>5, <2>6
  <2>8. QED
    BY <2>7 DEF F
<1>11. Mapped /\ Mapped'
  BY MappedNow, MappedNext
<1>12. /\ UptoNow[sRound] = Reached /\ n > Reached /\ n <= N
       /\ \A h \in 1..(sRound - 1) : UptoNow[h] = N
       /\ \A i \in 0..(n - 1) : AbstractChosen[sRound][i] # NoWord
  <2>1. \A i \in 0..(n - 1) : i \in 0..(N - 1) /\ i < n
    BY <1>2, <1>4
  <2>2. \A h \in 1..(sRound - 1) : h \in 1..MaxRound /\ h < sRound
    BY <1>2
  <2>3. QED
    BY <1>2, <1>4, <1>5, <1>6, <1>7, <1>8, <2>1, <2>2
<1>13. Contract!Open(sRound, n)
  BY <1>7, <1>9, <1>10, <1>11, <1>12 DEF Contract!Open, Mapped
<1>14. QED
  BY <1>2, <1>4, <1>13 DEF ContractStep, Contract!Next

LEMMA RecvMapped ==
    ASSUME Honest, Honest', RecvNext
    PROVE  ContractStep
<1>1. ASSUME NEW i \in 0..(N - 1), RecvZeroEncode(i) PROVE ContractStep
  <2> DEFINE r == [t |-> ZeroBlock, w |-> {}, used |-> TRUE]
  <2>1. /\ Encodable(i) /\ out' = [out EXCEPT ![rRound][i] = r] /\ UNCHANGED sendVars
        /\ r.used /\ r.t = ZeroBlock
    BY <1>1 DEF RecvZeroEncode
  <2> HIDE DEF r
  <2>2. QED
    BY <2>1, EncodeFixes
<1>2. ASSUME NEW i \in 0..(N - 1), NEW w \in Word, RecvEncode(i, w) PROVE ContractStep
  <2> DEFINE r == [t |-> rT0[i], w |-> w, used |-> TRUE]
  <2>1. /\ Encodable(i) /\ out' = [out EXCEPT ![rRound][i] = r] /\ UNCHANGED sendVars
        /\ r.used /\ r.w \in Word
    BY <1>2 DEF RecvEncode
  <2> HIDE DEF r
  <2>2. QED
    BY <2>1, EncodeFixes
<1>3. CASE UNCHANGED <<sendVars, out>>
  <2>1. UptoNow' = UptoNow
    BY <1>3 DEF UptoNow, Reached, sendVars
  <2>2. QED
    BY <1>3, <2>1, Stutters DEF ContractStep
<1>4. QED
  BY <1>1, <1>2, <1>3 DEF RecvNext, RecvSetBaseOts, RecvInit, RecvSendCorrection, RecvFinalize,
                          RecvProve, RecvSkipCheck, RecvClosed

(* The sender's place in its round moves only when a correction lands.      *)
LEMMA SamePlace ==
    ASSUME Honest, Honest', out' = out, sRound' = sRound, sRound > 0 => Reached' = Reached
    PROVE  ContractStep
<1>1. UptoNow' = UptoNow
  BY DEF UptoNow
<1>2. QED
  BY <1>1, Stutters DEF ContractStep

LEMMA SendMapped ==
    ASSUME Honest, Honest', SendNext
    PROVE  ContractStep
<1>t. /\ NumSteps \in Nat \ {0} /\ sStep \in 0..NumSteps /\ sRound \in 0..MaxRound
      /\ StepLo(1) = 0 /\ StepLo(NumSteps + 1) = N /\ MaxRound \in Nat
  BY StepFacts, ConstantFacts DEF Honest, IInv, SendInv
<1>1. CASE SendSetBaseOts
  <2>1. UNCHANGED <<out, sRound>> /\ sRound = 0
    BY <1>1 DEF SendSetBaseOts, recvVars, Honest, SyncInv, Phases
  <2>2. QED
    BY <2>1, SamePlace
<1>2. CASE SendInit
  <2>1. out' = out /\ sRound' = sRound + 1 /\ sStep' = 0 /\ sPc = "ready" /\ sPc' = "open"
    BY <1>2 DEF SendInit, recvVars
  <2>2. Reached' = 0
    BY <1>t, <2>1 DEF Reached
  <2>3. sRound > 0 => Reached = N
    BY <1>t, <2>1 DEF Reached, Honest, HonestInv, RoundsEnd
  <2>4. UptoNow' = [g \in 1..MaxRound |-> IF g < sRound + 1 THEN N ELSE 0]
    BY <2>1, <2>2 DEF UptoNow
  <2>5. UptoNow = [g \in 1..MaxRound |-> IF g < sRound + 1 THEN N ELSE 0]
    BY <1>t, <2>3 DEF UptoNow
  <2>6. QED
    BY <2>1, <2>4, <2>5, Stutters DEF ContractStep
<1>3. CASE SendRecvCorrection
  <2>1. UNCHANGED <<out, sRound, sStep>> /\ sPc = "open" /\ sPc' = "recv"
    BY <1>3 DEF SendRecvCorrection, recvVars
  <2>2. QED
    BY <2>1, SamePlace DEF Reached
<1>4. CASE SendLandCorrection
  BY <1>4, LandingOpens
<1>5. CASE SendRecvFinalization
  <2>1. UNCHANGED <<out, sRound, sStep>> /\ sPc = "open" /\ sPc' = "final"
    BY <1>5 DEF SendRecvFinalization, recvVars
  <2>2. QED
    BY <2>1, SamePlace DEF Reached
<1>6. CASE \E seed \in Seeds : SendChallenge(seed)
  <2>1. UNCHANGED <<out, sRound, sStep>> /\ sPc = "final" /\ sPc' = "proof"
    BY <1>6 DEF SendChallenge, recvVars
  <2>2. sStep = NumSteps
    BY <2>1 DEF Honest, HonestInv, RoundsEnd
  <2>3. Reached = N /\ Reached' = N
    BY <1>t, <2>1, <2>2 DEF Reached
  <2>4. QED
    BY <2>1, <2>3, SamePlace
<1>7. CASE SendVerify
  <2>1. UNCHANGED <<out, sRound, sStep>> /\ sPc = "proof" /\ sPc' \in {"ready", "abort"} /\ Malicious
    BY <1>7 DEF SendVerify, recvVars, Honest, SyncInv, Phases
  <2>2. QED
    BY <2>1, SamePlace DEF Reached
<1>8. CASE SendSkipCheck
  <2>1. UNCHANGED <<out, sRound, sStep>> /\ ~Malicious
    BY <1>8 DEF SendSkipCheck, recvVars
  <2>2. QED
    BY <2>1, SamePlace DEF Reached
<1>9. QED
  BY <1>1, <1>2, <1>3, <1>4, <1>5, <1>6, <1>7, <1>8 DEF SendNext

LEMMA NextMapped ==
    ASSUME MaxTamper = 0, Honest, Honest', [Next]_vars
    PROVE  ContractStep
<1>1. ~ \E j \in 1..Len(toS), i \in 0..(N + Stat - 1), c \in Cols : Tamper(j, i, c)
  BY DEF Tamper, Honest, IInv, NetInv
<1>2. CASE Done \/ UNCHANGED vars
  <2>1. UNCHANGED <<out, sRound, sStep, sPc>>
    BY <1>2 DEF Done, vars, recvVars, sendVars
  <2>2. QED
    BY <2>1, SamePlace DEF Reached
<1>3. QED
  BY <1>1, <1>2, RecvMapped, SendMapped DEF Next

LEMMA InitMapped == Init /\ Honest => Contract!Init
<1> SUFFICES ASSUME Init, Honest PROVE Contract!Init
  OBVIOUS
<1>1. /\ sRound = 0 /\ N \in Nat \ {0} /\ MaxRound \in Nat
      /\ out = [g \in 1..MaxRound |-> [i \in 0..(N - 1) |-> NoRow]]
  BY ConstantFacts DEF Init
<1>2. AbstractChosen = [g \in 1..MaxRound |-> [i \in 0..(N - 1) |-> NoWord]]
  BY <1>1 DEF AbstractChosen, NoRow
<1>3. UptoNow = [g \in 1..MaxRound |-> 0]
  BY <1>1 DEF UptoNow
<1>4. OpenNow = [g \in 1..MaxRound |-> {}]
  BY <1>2, <1>3 DEF OpenNow
<1>5. QED
  BY <1>2, <1>3, <1>4, MappedNow DEF Contract!Init, Contract!Rows, Mapped

(* Between honest parties the extension implements the contract of NcoOt,   *)
(* for every code, every N and every way to cut it into corrections, over    *)
(* any number of inits, semi-honest or with the check: encode and           *)
(* zeroEncode fix rows once, each recvCorrection opens the next rows in       *)
(* order, and no other step of either coroutine, and none of the socket,     *)
(* changes what the applications may rely on.                               *)
THEOREM Implements ==
    ASSUME MaxTamper = 0
    PROVE  Spec => ImplementsNcoOt
<1>1. Init => Honest
  BY InitIInv, SyncInit, InitLands, InitAgree, InitHonest DEF Honest
<1>2. Honest /\ [Next]_vars => Honest'
  BY NextHonest
<1>3. Init => Contract!Init
  BY <1>1, InitMapped
<1>4. Honest /\ Honest' /\ [Next]_vars => [Contract!Next]_(Contract!vars)
  BY NextMapped DEF ContractStep
<1>5. QED
  BY <1>1, <1>2, <1>3, <1>4, PTL DEF Spec, ImplementsNcoOt, Contract!Spec

---------------------------------------------------------------------------
(* CheckIsExact and HonestAccepted. *)

(* The rows of a round that the check adds up.                             *)
AllRows == 0..(N + Stat - 1)

(* What the receiver leaves in mT1 for a word.                             *)
Encoded(g, i, w) == Xor(Xor(Const(CodeWord(w)), T0Row(g, i)), T1Row(g, i))

(* What both parties hold in the running round, up to the extra rows.       *)
AllDrawn ==
    /\ sRound # 0 => \A i \in AllRows : sT[i] = TRow(sRound, i)
    /\ rRound # 0 => \A i \in AllRows : rT0[i] = T0Row(rRound, i)
RowNow(i) ==
    rT1[rRound][i] = IF i < N /\ out[rRound][i].used THEN Encoded(rRound, i, rW[i]) ELSE T1Row(rRound, i)
OpenRows ==
    rPc = "open" => /\ \A i \in AllRows : RowNow(i)
                    /\ \A i \in 0..(N - 1) : i < rIdx => out[rRound][i].used
FinalRows ==
    rPc = "challenge" =>
        /\ rIdx = N + Stat
        /\ \A i \in AllRows : rT1[rRound][i] = Encoded(rRound, i, rW[i])
        /\ \A l \in 0..(Stat - 1) : rTBuff[l] = T0Row(rRound, N + l) /\ rWBuff[l] = rW[N + l]

(* The sums of the two parties for one challenge seed.                      *)
QSums(seed) ==
    \A l \in 0..(Stat - 1) :
        sQ[l] = Xor(QRow(sCor, N + l), XorSum([i \in AllRows |-> QRow(sCor, i)], Chi[seed][l]))
Proof(g, seed, tSum, wSum) ==
    \E W \in [AllRows -> Word] :
        /\ \A i \in AllRows : rT1[g][i] = Encoded(g, i, W[i])
        /\ \A l \in 0..(Stat - 1) :
              /\ tSum[l] = Xor(T0Row(g, N + l), XorSum([i \in AllRows |-> T0Row(g, i)], Chi[seed][l]))
              /\ wSum[l] = Xor(W[N + l], XorSum(W, Chi[seed][l]))

(* While the sender awaits a proof: its sums, and the challenge or the      *)
(* proof that is in the socket.                                            *)
AtProof ==
    sPc = "proof" =>
        \E seed \in Seeds :
            /\ sSeed = {seed} /\ QSums(seed)
            /\ \A k \in 1..Len(toR) : toR[k].seed = seed
            /\ toS # << >> => /\ toS[1].kind = "tSum" /\ toS[2].kind = "wSum"
                             /\ Proof(sRound, seed, toS[1].sum, toS[2].sum)

CheckInv == AllDrawn /\ OpenRows /\ FinalRows /\ AtProof /\ CheckIsExact

---------------------------------------------------------------------------
(* The relation the check tests.                                           *)

LEMMA InMask ==
    ASSUME NEW r, NEW D, NEW y
    PROVE  y \in Mask(r, D) <=> y \in r /\ y[1] \in D
  BY DEF Mask

LEMMA InConst ==
    ASSUME NEW C, NEW y
    PROVE  y \in Const(C) <=> \E c \in C : y = <<c, 2, 0>>
  BY DEF Const

(* A sum of constant rows is the constant row of the sum.                   *)
LEMMA ConstSum ==
    ASSUME NEW P, IsFiniteSet(P), NEW f, NEW D,
           NEW g, \A i \in P : g[i] = Mask(Const(f[i]), D)
    PROVE  XorSum(g, P) = Mask(Const(XorSum(f, P)), D)
<1>1. ASSUME NEW c \in D, NEW y, y = <<c, 2, 0>>
      PROVE  y \in XorSum(g, P) <=> y \in Mask(Const(XorSum(f, P)), D)
  <2>1. y[1] = c /\ \A d : y = <<d, 2, 0>> => d = c
    BY <1>1
  <2>2. ASSUME NEW C PROVE y \in Mask(Const(C), D) <=> c \in C
    BY <1>1, <2>1, InMask, InConst
  <2>3. { i \in P : y \in g[i] } = { i \in P : c \in f[i] }
    BY <2>2
  <2>4. /\ y \in XorSum(g, P) <=> Cardinality({ i \in P : y \in g[i] }) % 2 = 1
        /\ c \in XorSum(f, P) <=> Cardinality({ i \in P : c \in f[i] }) % 2 = 1
    BY InXorSum
  <2>5. QED
    BY <2>2, <2>3, <2>4
<1>2. ASSUME NEW y, y \in XorSum(g, P) \/ y \in Mask(Const(XorSum(f, P)), D)
      PROVE  \E c \in D : y = <<c, 2, 0>>
  <2>1. \E C : y \in Mask(Const(C), D)
    BY <1>2 DEF XorSum
  <2>2. PICK C : y \in Mask(Const(C), D)
    BY <2>1
  <2>3. PICK c \in C : y = <<c, 2, 0>>
    BY <2>2, InMask, InConst
  <2>4. y[1] = c
    BY <2>3
  <2>5. QED
    BY <2>2, <2>3, <2>4, InMask
<1>3. QED
  BY <1>1, <1>2

(* Every row of the sender is the receiver's row, the row's code word and    *)
(* the row's corruption, the last two in the columns of delta.              *)
Corrected(P, D, T, Q, W, E) ==
    \A i \in P :
        /\ W[i] \in Word
        /\ Q[i] = Xor(T[i], Xor(Mask(Const(CodeWord(W[i])), D), Mask(Const(E[i]), D)))

(* Then the sums satisfy the relation when and only when the corruption     *)
(* cancels.                                                                *)
LEMMA CheckRelation ==
    ASSUME NEW D, NEW S, IsFiniteSet(S), NEW x, x \notin S, NEW T, NEW Q, NEW W, NEW E,
           Corrected(S \cup {x}, D, T, Q, W, E)
    PROVE  Xor(Xor(T[x], XorSum(T, S)), Xor(Q[x], XorSum(Q, S)))
               = Mask(Const(CodeWord(Xor(W[x], XorSum(W, S)))), D)
           <=> XorSum(E, S \cup {x}) \cap D = {}
<1> DEFINE P == S \cup {x}
           C == [i \in P |-> CodeWord(W[i])]
           A == [i \in P |-> Mask(Const(C[i]), D)]
           e == [i \in P |-> Mask(Const(E[i]), D)]
           h == [i \in P |-> Xor(A[i], e[i])]
<1>1. IsFiniteSet(P)
  BY FS_AddElement
<1>2. /\ XorSum(T, P) = Xor(T[x], XorSum(T, S))
      /\ XorSum(Q, P) = Xor(Q[x], XorSum(Q, S))
      /\ XorSum(W, P) = Xor(W[x], XorSum(W, S))
  BY XorSumAdd
<1>3. \A i \in P : /\ C[i] = CodeWord(W[i]) /\ A[i] = Mask(Const(C[i]), D) /\ e[i] = Mask(Const(E[i]), D)
                   /\ h[i] = Xor(A[i], e[i]) /\ Q[i] = Xor(T[i], h[i]) /\ W[i] \in SUBSET Bits
  BY DEF Word, Corrected
<1> HIDE DEF P, C, A, e, h
<1>4. XorSum(Q, P) = Xor(XorSum(T, P), Xor(XorSum(A, P), XorSum(e, P)))
  <2>1. XorSum(Q, P) = Xor(XorSum(T, P), XorSum(h, P))
    BY <1>1, <1>3, XorSumOfXor
  <2>2. XorSum(h, P) = Xor(XorSum(A, P), XorSum(e, P))
    BY <1>1, <1>3, XorSumOfXor
  <2>3. QED
    BY <2>1, <2>2
<1>5. XorSum(A, P) = Mask(Const(XorSum(C, P)), D) /\ XorSum(e, P) = Mask(Const(XorSum(E, P)), D)
  BY <1>1, <1>3, ConstSum
<1>6. CodeWord(XorSum(W, P)) = XorSum(C, P)
  <2>1. IsFiniteSet(Bits)
    BY OosAssumption
  <2>2. \A i \in P : C[i] = XorSum(Gen, W[i])
    BY <1>3 DEF CodeWord
  <2>3. QED
    BY <1>1, <1>3, <2>1, <2>2, XorSumOfSums DEF CodeWord
<1>7. Xor(XorSum(T, P), XorSum(Q, P)) = Xor(XorSum(A, P), XorSum(e, P))
  <2>1. \A a, b : Xor(a, Xor(a, b)) = b
    <3>1. ASSUME NEW a, NEW b, NEW y PROVE y \in Xor(a, Xor(a, b)) <=> y \in b
      BY InXor
    <3>2. QED
      BY <3>1
  <2>2. QED
    BY <1>4, <2>1
<1>8. Xor(XorSum(T, P), XorSum(Q, P)) = Mask(Const(CodeWord(XorSum(W, P))), D)
      <=> Mask(Const(XorSum(E, P)), D) = {}
  BY <1>5, <1>6, <1>7, XorFixed
<1>9. Mask(Const(XorSum(E, P)), D) = {} <=> XorSum(E, P) \cap D = {}
  <2>1. ASSUME NEW c PROVE <<c, 2, 0>> \in Mask(Const(XorSum(E, P)), D) <=> c \in XorSum(E, P) /\ c \in D
    <3>1. <<c, 2, 0>>[1] = c
      OBVIOUS
    <3>2. <<c, 2, 0>> \in Const(XorSum(E, P)) <=> c \in XorSum(E, P)
      BY InConst
    <3>3. QED
      BY <3>1, <3>2, InMask
  <2>2. ASSUME NEW y \in Mask(Const(XorSum(E, P)), D) PROVE \E c : y = <<c, 2, 0>>
    BY InMask, InConst
  <2>3. QED
    BY <2>1, <2>2
<1>10. QED
  BY <1>2, <1>8, <1>9 DEF P

(* A row of the sender, once its correction has landed.                     *)
LEMMA QRowIs ==
    ASSUME NEW t0, NEW t1, NEW S, NEW D, NEW A, NEW B, NEW cor, NEW i,
           Xor(S, Mask(Xor(t0, t1), D)) = t0, sT[i] = S, sDelta = D,
           cor[i] = Xor(Xor(Xor(Const(A), t0), t1), Const(B))
    PROVE  QRow(cor, i) = Xor(t0, Xor(Mask(Const(A), D), Mask(Const(B), D)))
<1> DEFINE a == Const(A)
           b == Const(B)
<1>1. QRow(cor, i) = Xor(Mask(Xor(Xor(Xor(a, t0), t1), b), D), S)
  BY DEF QRow
<1>2. ASSUME NEW y
      PROVE  y \in Xor(Mask(Xor(Xor(Xor(a, t0), t1), b), D), S) <=> y \in Xor(t0, Xor(Mask(a, D), Mask(b, D)))
  <2>1. y \in t0 <=> ~(y \in S <=> (~(y \in t0 <=> y \in t1) /\ y[1] \in D))
    BY InXor, InMask
  <2> HIDE DEF a, b
  <2>2. QED
    BY <2>1, InXor, InMask
<1>3. QED
  BY <1>1, <1>2

(* What the l-th relation sees of the corruption, as a sum.                 *)
LEMMA ErrSeenIs ==
    ASSUME NEW seed \in Seeds, sSeed = {seed}, NEW l \in 0..(Stat - 1),
           NEW E, \A i \in AllRows : E[i] = ErrOf(i), sDelta \in SUBSET Cols
    PROVE  ErrSeen(l) = XorSum(E, Chi[seed][l] \cup {N + l}) \cap sDelta
<1> DEFINE P == Chi[seed][l] \cup {N + l}
<1>1. N \in Nat \ {0} /\ Stat \in Nat /\ Chi[seed][l] \in SUBSET (0..(N - 1))
  BY ConstantFacts, OosAssumption
<1>2. P \in SUBSET AllRows /\ IsFiniteSet(P)
  <2>1. P \in SUBSET AllRows
    BY <1>1 DEF AllRows
  <2>2. IsFiniteSet(AllRows)
    BY <1>1, FS_Interval, 0 \in Int, N + Stat - 1 \in Int DEF AllRows
  <2>3. QED
    BY <2>1, <2>2, FS_Subset
<1>3. (UNION { Chi[s][l] : s \in sSeed }) \cup {N + l} = P
  <2>1. { Chi[s][l] : s \in sSeed } = { Chi[seed][l] }
    OBVIOUS
  <2>2. UNION { Chi[seed][l] } = Chi[seed][l]
    OBVIOUS
  <2>3. QED
    BY <2>1, <2>2
<1> HIDE DEF P
<1>4. ASSUME NEW c \in sDelta
      PROVE  c \in ErrSeen(l) <=> c \in XorSum(E, P)
  <2>1. { i \in P : <<i, c>> \in sErr } = { i \in P : c \in E[i] }
    BY <1>2, <1>4 DEF ErrOf
  <2>2. c \in ErrSeen(l) <=> Cardinality({ i \in P : <<i, c>> \in sErr }) % 2 = 1
    <3> DEFINE U == (UNION { Chi[s][l] : s \in sSeed }) \cup {N + l}
    <3>1. c \in ErrSeen(l) <=> Cardinality({ i \in U : <<i, c>> \in sErr }) % 2 = 1
      BY <1>4 DEF ErrSeen
    <3>2. U = P
      BY <1>3
    <3> HIDE DEF U
    <3>3. QED
      BY <3>1, <3>2
  <2>3. c \in XorSum(E, P) <=> Cardinality({ i \in P : c \in E[i] }) % 2 = 1
    BY <1>2, InXorSum
  <2>4. QED
    BY <2>1, <2>2, <2>3
<1>5. ErrSeen(l) \subseteq sDelta
  BY DEF ErrSeen
<1>6. QED
  BY <1>4, <1>5 DEF P

---------------------------------------------------------------------------
(* Where the receiver is when the sender waits for its extra rows, and when  *)
(* it waits for its proof.                                                 *)

LEMMA PhaseCounts ==
    ASSUME IInv, SyncInv, sPc \in {"final", "proof"}
    PROVE  /\ Malicious /\ sPc # "abort" /\ sRound \in Nat \ {0} /\ rRound \in Nat
           /\ RoundMsgs = NumSteps + 3 /\ NumSteps \in Nat \ {0}
           /\ SendDone = sRound - 1
           /\ Taken = (sRound - 1) * RoundMsgs + NumSteps + (IF sPc = "final" THEN 1 ELSE 2)
           /\ Len(toS) = Sent - Taken /\ Len(toS) \in Nat /\ Len(toR) \in Nat
           /\ Len(toR) = sRound - (IF sPc = "final" THEN 1 ELSE 0) - RecvDone
           /\ (sRound - 1) * RoundMsgs \in Nat
<1>1. /\ Malicious /\ sRound \in Nat \ {0} /\ rRound \in Nat /\ NumSteps \in Nat \ {0}
      /\ Len(toS) \in Nat /\ Len(toR) \in Nat
  BY Typed DEF SyncInv, Phases
<1>2. RoundMsgs = NumSteps + 3 /\ sRound - 1 \in Nat
  BY <1>1 DEF RoundMsgs
<1>3. (sRound - 1) * RoundMsgs \in Nat
  BY <1>2, NextRound
<1>4. SendDone = sRound - 1 /\ TakenNow = NumSteps + (IF sPc = "final" THEN 1 ELSE 2)
  BY <1>1 DEF SendDone, TakenNow
<1>5. Taken = (sRound - 1) * RoundMsgs + NumSteps + (IF sPc = "final" THEN 1 ELSE 2)
  BY <1>1, <1>3, <1>4 DEF Taken
<1>6. Len(toS) = Sent - Taken /\ Len(toR) = Asked - RecvDone
  BY <1>1 DEF SyncInv, Counts
<1>7. RecvDone \in Nat
  BY Counted
<1>8. Asked = sRound - (IF sPc = "final" THEN 1 ELSE 0)
  BY <1>1, <1>4 DEF Asked
<1>9. QED
  BY <1>1, <1>2, <1>3, <1>4, <1>5, <1>6, <1>7, <1>8

(* A receiver that is a round behind has not sent enough.                   *)
LEMMA NotBehind ==
    ASSUME IInv, SyncInv, sPc \in {"final", "proof"}
    PROVE  /\ RecvDone \in Nat /\ RecvDone >= sRound - 1
           /\ RecvDone = sRound - 1 =>
                  Len(toS) = SentNow - NumSteps - (IF sPc = "final" THEN 1 ELSE 2)
           /\ SentNow \in Nat /\ SentNow <= NumSteps + 2
           /\ SentNow = NumSteps + 2 => rPc = "challenge"
           /\ SentNow = 0 => rPc = "base"
<1>1. RecvDone \in Nat /\ SentNow \in Nat /\ Sent = RecvDone * RoundMsgs + SentNow
  BY Counted, PhaseCounts DEF Sent
<1>2. /\ rStep \in 0..NumSteps /\ rPc \in {"base", "ready", "open", "challenge"}
      /\ NumSteps \in Nat \ {0} /\ sRound - 1 \in Nat /\ RoundMsgs = NumSteps + 3
  BY Typed, Counted, PhaseCounts
<1>3. /\ SentNow <= NumSteps + 2
      /\ SentNow = NumSteps + 2 => rPc = "challenge"
      /\ SentNow = 0 => rPc = "base"
  BY <1>2 DEF SentNow
<1> DEFINE a == RecvDone * RoundMsgs
           b == (sRound - 1) * RoundMsgs
           e == IF sPc = "final" THEN 1 ELSE 2
<1>4. Sent = a + SentNow /\ b \in Nat /\ Taken = b + NumSteps + e /\ Len(toS) = Sent - Taken /\ Len(toS) \in Nat
  BY <1>1, PhaseCounts
<1>5. RecvDone < sRound - 1 => a + RoundMsgs <= b /\ a \in Nat
  BY <1>1, <1>2, Rounds
<1>6. RecvDone = sRound - 1 => a = b
  OBVIOUS
<1>7. e \in 1..2
  OBVIOUS
<1>8. RecvDone >= sRound - 1 /\ (RecvDone = sRound - 1 => Len(toS) = SentNow - NumSteps - e)
  <2> HIDE DEF a, b, e
  <2>1. QED
    BY <1>1, <1>2, <1>3, <1>4, <1>5, <1>6, <1>7
<1>9. QED
  BY <1>1, <1>3, <1>8

LEMMA ProofPlaces ==
    ASSUME IInv, SyncInv, sPc = "proof"
    PROVE  \/ rPc = "challenge" /\ rRound = sRound /\ toS = << >>
           \/ Len(toS) >= 2 /\ sRound <= RecvDone
<1>1. RecvDone \in Nat /\ RecvDone >= sRound - 1 /\ sRound \in Nat \ {0} /\ NumSteps \in Nat \ {0}
      /\ rRound \in Nat /\ Len(toS) \in Nat /\ SentNow \in Nat /\ SentNow <= NumSteps + 2
      /\ toS \in Seq(MsgToS)
  BY NotBehind, PhaseCounts, Typed
<1>2. CASE RecvDone = sRound - 1
  <2>1. Len(toS) = SentNow - NumSteps - 2
    BY <1>2, NotBehind
  <2>2. SentNow = NumSteps + 2 /\ Len(toS) = 0
    BY <1>1, <2>1
  <2>3. rPc = "challenge" /\ toS = << >>
    BY <1>1, <2>2, NotBehind
  <2>4. RecvDone = rRound - 1
    BY <2>3 DEF RecvDone
  <2>5. QED
    BY <1>1, <1>2, <2>3, <2>4
<1>3. CASE RecvDone # sRound - 1
  <2>1. sRound <= RecvDone
    BY <1>1, <1>3
  <2>2. SentNow # 0
    <3>1. ASSUME rPc = "base" PROVE RecvDone = 0
      BY <3>1 DEF RecvDone, SyncInv, Phases
    <3>2. QED
      BY <1>1, <2>1, <3>1, NotBehind
  <2>3. Len(toS) >= 2
    <3> DEFINE a == RecvDone * RoundMsgs
               b == (sRound - 1) * RoundMsgs
    <3>1. b + RoundMsgs <= a /\ a \in Nat /\ b \in Nat
      <4>1. sRound - 1 \in Nat /\ sRound - 1 < RecvDone
        BY <1>1, <2>1
      <4>2. QED
        BY <1>1, <4>1, Rounds, NextRound
    <3>2. Len(toS) = (a + SentNow) - (b + NumSteps + 2) /\ RoundMsgs = NumSteps + 3
      BY PhaseCounts DEF Sent
    <3> HIDE DEF a, b
    <3>3. QED
      BY <1>1, <2>2, <3>1, <3>2
  <2>4. QED
    BY <2>1, <2>3
<1>4. QED
  BY <1>2, <1>3

LEMMA FinalPlaces ==
    ASSUME IInv, SyncInv, sPc = "final", toS # << >>
    PROVE  Len(toS) = 1 /\ toR = << >>
<1>1. RecvDone \in Nat /\ RecvDone >= sRound - 1 /\ sRound \in Nat \ {0} /\ NumSteps \in Nat \ {0}
      /\ Len(toS) \in Nat /\ SentNow \in Nat /\ SentNow <= NumSteps + 2 /\ Len(toR) \in Nat
      /\ toS \in Seq(MsgToS) /\ toR \in Seq(MsgToR)
  BY NotBehind, PhaseCounts, Typed
<1>2. Len(toR) = sRound - 1 - RecvDone
  BY PhaseCounts
<1>3. RecvDone = sRound - 1 /\ Len(toR) = 0
  BY <1>1, <1>2
<1>4. Len(toS) = SentNow - NumSteps - 1
  BY <1>3, NotBehind
<1>5. Len(toS) # 0
  BY <1>1
<1>6. QED
  BY <1>1, <1>3, <1>4, <1>5

---------------------------------------------------------------------------
(* Steps that leave one party alone.                                       *)

LEMMA AllRowsFacts ==
    /\ AllRows \subseteq 0..(RecvRows - 1) /\ AllRows \subseteq 0..(SendRows - 1)
    /\ 0..(N - 1) \subseteq AllRows /\ \A l \in 0..(Stat - 1) : N + l \in AllRows
  BY RowFacts, ConstantFacts DEF AllRows

LEMMA InitCheck == Init => CheckInv
  BY DEF Init, CheckInv, AllDrawn, OpenRows, FinalRows, AtProof, CheckIsExact

LEMMA SenderSame ==
    ASSUME CheckInv, UNCHANGED <<choices, sendVars>>
    PROVE  CheckIsExact' /\ (sRound' # 0 => \A i \in AllRows : sT'[i] = TRow(sRound, i)')
<1>1. \A l : ErrSeen(l)' = ErrSeen(l)
  BY DEF ErrSeen, sendVars
<1>2. CheckIsExact'
  BY <1>1 DEF CheckInv, CheckIsExact, sendVars
<1>3. sRound' # 0 => \A i \in AllRows : sT'[i] = TRow(sRound, i)'
  BY DEF CheckInv, AllDrawn, TRow, sendVars
<1>4. QED
  BY <1>2, <1>3

(* The sender's half, while the receiver works on its own round.            *)
LEMMA SenderRests ==
    ASSUME IInv, SyncInv, CheckInv, UNCHANGED <<choices, sendVars, toR>>,
           sPc = "proof" => rFlip' = rFlip /\ rPc # "challenge",
           toS' = toS \/ \E m : toS' = Append(toS, m),
           \A g \in 1..MaxRound : g <= RecvDone => rT1'[g] = rT1[g]
    PROVE  AtProof' /\ CheckIsExact' /\ (sRound' # 0 => \A i \in AllRows : sT'[i] = TRow(sRound, i)')
<1>1. CheckIsExact' /\ (sRound' # 0 => \A i \in AllRows : sT'[i] = TRow(sRound, i)')
  BY SenderSame
<1>2. AtProof'
  <2> SUFFICES ASSUME sPc = "proof" PROVE AtProof'
    BY DEF AtProof, sendVars
  <2>1. PICK seed \in Seeds :
            /\ sSeed = {seed} /\ QSums(seed)
            /\ \A k \in 1..Len(toR) : toR[k].seed = seed
            /\ toS # << >> => /\ toS[1].kind = "tSum" /\ toS[2].kind = "wSum"
                             /\ Proof(sRound, seed, toS[1].sum, toS[2].sum)
    BY DEF CheckInv, AtProof
  <2>2. sSeed' = {seed} /\ QSums(seed)' /\ \A k \in 1..Len(toR') : toR'[k].seed = seed
    BY <2>1 DEF QSums, QRow, sendVars
  <2>3. /\ Len(toS) >= 2 /\ sRound <= RecvDone /\ rFlip' = rFlip /\ sRound' = sRound
        /\ sRound \in 1..MaxRound /\ toS \in Seq(MsgToS) /\ Len(toS) \in Nat
    <3>1. sRound \in 0..MaxRound /\ MaxRound \in Nat
      BY ConstantFacts DEF IInv, SendInv
    <3>2. sRound \in Nat \ {0} /\ Len(toS) \in Nat
      BY PhaseCounts
    <3>3. Len(toS) >= 2 /\ sRound <= RecvDone
      BY ProofPlaces
    <3>4. QED
      BY <3>1, <3>2, <3>3, Typed DEF sendVars
  <2>4. toS'[1] = toS[1] /\ toS'[2] = toS[2] /\ toS # << >>
    <3>1. 1 \in 1..Len(toS) /\ 2 \in 1..Len(toS) /\ toS # << >>
      BY <2>3
    <3>2. ASSUME NEW m, toS' = Append(toS, m) PROVE \A k \in 1..Len(toS) : toS'[k] = toS[k]
      <4>1. toS \in Seq(MsgToS \cup {m}) /\ m \in MsgToS \cup {m}
        BY <2>3
      <4>2. QED
        BY <3>2, <4>1
    <3>3. QED
      BY <3>1, <3>2
  <2>5. rT1'[sRound] = rT1[sRound]
    BY <2>3
  <2>6. Proof(sRound, seed, toS[1].sum, toS[2].sum)'
    <3>1. \A g, i : T0Row(g, i)' = T0Row(g, i) /\ T1Row(g, i)' = T1Row(g, i)
      BY <2>3 DEF T0Row, T1Row, T0Seeds, T1Seeds
    <3>2. \A i : T0Row(sRound, i)' = T0Row(sRound, i) /\ T1Row(sRound, i)' = T1Row(sRound, i)
      BY <2>3 DEF T0Row, T1Row, T0Seeds, T1Seeds
    <3>3. PICK W \in [AllRows -> Word] :
        /\ \A i \in AllRows : rT1[sRound][i] = Encoded(sRound, i, W[i])
        /\ \A l \in 0..(Stat - 1) :
              /\ toS[1].sum[l] = Xor(T0Row(sRound, N + l),
                                     XorSum([i \in AllRows |-> T0Row(sRound, i)], Chi[seed][l]))
              /\ toS[2].sum[l] = Xor(W[N + l], XorSum(W, Chi[seed][l]))
      BY <2>1, <2>4 DEF Proof
    <3>4. \A i \in AllRows : rT1'[sRound'][i] = Encoded(sRound, i, W[i])'
      BY <2>3, <2>5, <3>2, <3>3 DEF Encoded
    <3>5. [i \in AllRows |-> T0Row(sRound, i)]' = [i \in AllRows |-> T0Row(sRound, i)]
      BY <3>2
    <3>6. ASSUME NEW l \in 0..(Stat - 1)
          PROVE  /\ toS'[1].sum[l] = Xor(T0Row(sRound, N + l)',
                                         XorSum([i \in AllRows |-> T0Row(sRound, i)]', Chi[seed][l]))
                 /\ toS'[2].sum[l] = Xor(W[N + l], XorSum(W, Chi[seed][l]))
      BY <2>4, <3>2, <3>3, <3>5
    <3>7. QED
      BY <3>4, <3>6 DEF Proof
  <2>7. toS'[1].kind = "tSum" /\ toS'[2].kind = "wSum"
    BY <2>1, <2>4
  <2>8. QED
    BY <2>2, <2>6, <2>7 DEF AtProof
<1>3. QED
  BY <1>1, <1>2

(* The receiver's half, while the sender works.                             *)
LEMMA ReceiverRests ==
    ASSUME CheckInv, UNCHANGED <<choices, recvVars>>
    PROVE  OpenRows' /\ FinalRows' /\ (rRound' # 0 => \A i \in AllRows : rT0'[i] = T0Row(rRound, i)')
<1>1. /\ \A i : T0Row(rRound, i)' = T0Row(rRound, i) /\ T1Row(rRound, i)' = T1Row(rRound, i)
      /\ \A i, w : Encoded(rRound, i, w)' = Encoded(rRound, i, w)
  BY DEF T0Row, T1Row, T0Seeds, T1Seeds, recvVars, Encoded
<1>2. \A i : Encoded(rRound, i, rW[i])' = Encoded(rRound, i, rW[i])
  BY DEF T0Row, T1Row, T0Seeds, T1Seeds, recvVars, Encoded
<1>3. \A i : RowNow(i)' <=> RowNow(i)
  BY <1>1, <1>2 DEF RowNow, recvVars
<1>4. OpenRows'
  BY <1>3 DEF CheckInv, OpenRows, recvVars
<1>5. FinalRows'
  BY <1>1, <1>2 DEF CheckInv, FinalRows, recvVars
<1>6. QED
  BY <1>1, <1>4, <1>5 DEF CheckInv, AllDrawn, recvVars

---------------------------------------------------------------------------
(* The receiver's steps. *)

LEMMA SetBaseOtsCheck ==
    ASSUME IInv, SyncInv, AgreeInv, CheckInv, NEW d \in SUBSET Cols, RecvSetBaseOts(d)
    PROVE  CheckInv'
<1>1. /\ rPc = "base" /\ rPc' = "ready" /\ rRound = 0 /\ rRound' = rRound /\ sPc = "base"
      /\ UNCHANGED <<choices, sendVars, toR, rT1>> /\ \E m : toS' = Append(toS, m)
  BY DEF RecvSetBaseOts, SyncInv, Phases, AgreeInv, DeltaInv
<1>2. AtProof' /\ CheckIsExact' /\ (sRound' # 0 => \A i \in AllRows : sT'[i] = TRow(sRound, i)')
  BY <1>1, SenderRests
<1>3. QED
  BY <1>1, <1>2 DEF CheckInv, AllDrawn, OpenRows, FinalRows

LEMMA RecvInitCheck ==
    ASSUME IInv, SyncInv, AgreeInv, CheckInv, RecvInit
    PROVE  CheckInv'
<1>1. /\ UNCHANGED <<choices, rFlip, sendVars, out, toS, toR>> /\ rIdx' = 0
      /\ rPc = "ready" /\ rPc' = "open" /\ rRound' = rRound + 1 /\ rRound \in Nat /\ rRound + 1 \in 1..MaxRound
      /\ MaxRound \in Nat
  BY ConstantFacts, Typed DEF RecvInit, netVars
<1>2. ASSUME NEW i \in AllRows
      PROVE  i \in 0..(RecvRows - 1) /\ rBlk * RowBlk + i = PosOf(rRound + 1, i)
  <2>1. rBlk = rRound * RoundBlks /\ RoundBlks \in Nat /\ RowBlk \in Nat
    BY RowFacts, ConstantFacts DEF IInv, RecvInv
  <2>2. (rRound * RoundBlks) * RowBlk = rRound * (RoundBlks * RowBlk) /\ (rRound + 1) - 1 = rRound
    BY <1>1, <2>1
  <2>3. i \in 0..(RecvRows - 1)
    BY AllRowsFacts
  <2>4. QED
    BY <2>1, <2>2, <2>3 DEF PosOf, RoundRows
<1>g. PICK g0 \in 1..MaxRound : g0 = rRound + 1
  BY <1>1
<1>3. T0Seeds' = T0Seeds /\ T1Seeds' = T1Seeds
  BY <1>1 DEF T0Seeds, T1Seeds
<1>4. \A i \in AllRows : rT0'[i] = T0Row(rRound, i)'
  BY <1>1, <1>2, <1>3, <1>g DEF RecvInit, T0Row
<1>5. /\ \A i \in AllRows : rT1'[g0][i] = PrngRow(T1Seeds, PosOf(g0, i))
      /\ \A g \in 1..MaxRound : g <= rRound => rT1'[g] = rT1[g]
  <2>1. rT1 \in [1..MaxRound -> {<< >>} \cup Matrix(RecvRows)]
    BY DEF IInv, RecvInv
  <2>2. rT1' = [rT1 EXCEPT ![g0] = [i \in 0..(RecvRows - 1) |-> PrngRow(T1Seeds, rBlk * RowBlk + i)]]
    BY <1>g DEF RecvInit, T1Mem
  <2>3. \A g \in 1..MaxRound : g <= rRound => rT1'[g] = rT1[g]
    BY <1>1, <1>g, <2>1, <2>2
  <2>4. rT1'[g0] = [i \in 0..(RecvRows - 1) |-> PrngRow(T1Seeds, rBlk * RowBlk + i)]
    BY <2>1, <2>2
  <2>5. QED
    BY <1>2, <1>g, <2>3, <2>4
<1>6. \A i \in 0..(N - 1) : ~out'[g0][i].used
  BY <1>1, <1>g DEF AgreeInv, DrawnInv
<1>7. OpenRows'
  <2>1. ASSUME NEW i \in AllRows PROVE RowNow(i)'
    <3>1. ~(i < N /\ out'[g0][i].used)
      BY <1>6, ConstantFacts DEF AllRows
    <3>2. QED
      BY <1>1, <1>3, <1>5, <1>g, <3>1 DEF RowNow, T1Row
  <2>2. QED
    BY <1>1, <2>1 DEF OpenRows
<1>8. AtProof' /\ CheckIsExact' /\ (sRound' # 0 => \A i \in AllRows : sT'[i] = TRow(sRound, i)')
  <2>1. RecvDone = rRound
    BY <1>1 DEF RecvDone
  <2>2. QED
    BY <1>1, <1>5, <2>1, SenderRests
<1>9. QED
  BY <1>1, <1>4, <1>7, <1>8 DEF CheckInv, AllDrawn, FinalRows

(* encode and zeroEncode leave a code word in the row, the zero word's in    *)
(* the second case.                                                        *)
LEMMA EncodeCheck ==
    ASSUME IInv, SyncInv, CheckInv, NEW i \in 0..(N - 1), Encodable(i), NEW w \in Word, NEW r, r.used,
           rW' = [rW EXCEPT ![i] = w],
           rT1' = [rT1 EXCEPT ![T1Mem(rRound)][i] = CorrectionRow(i, w)],
           out' = [out EXCEPT ![rRound][i] = r],
           UNCHANGED <<choices, rPc, rFlip, rRound, rT0, rIdx, sendVars, netVars>>
    PROVE  CheckInv'
<1>1. /\ rPc = "open" /\ ~out[rRound][i].used /\ T1Mem(rRound) = rRound /\ rRound \in 1..MaxRound
      /\ UNCHANGED <<toS, toR>> /\ rT1[rRound] \in Matrix(RecvRows) /\ i \in AllRows /\ i < N
      /\ rW \in [0..(RecvRows - 1) -> Word]
  BY OpenRound, AllRowsFacts, ConstantFacts DEF Encodable, IInv, netVars
<1>2. /\ out \in [1..MaxRound -> [0..(N - 1) -> OutRow]]
      /\ rT1 \in [1..MaxRound -> {<< >>} \cup Matrix(RecvRows)]
      /\ DOMAIN rT1[rRound] = 0..(RecvRows - 1) /\ i \in 0..(RecvRows - 1)
  BY <1>1, AllRowsFacts DEF IInv, RecvInv, Matrix
<1>3. ASSUME NEW k
      PROVE  T0Row(rRound, k)' = T0Row(rRound, k) /\ T1Row(rRound, k)' = T1Row(rRound, k)
  BY DEF T0Row, T1Row, T0Seeds, T1Seeds
<1>4. /\ out'[rRound][i].used
      /\ \A k \in 0..(N - 1) : k # i => out'[rRound][k] = out[rRound][k]
  BY <1>1, <1>2
<1>5. /\ rT1'[rRound][i] = CorrectionRow(i, w) /\ rW'[i] = w
      /\ \A k \in 0..(RecvRows - 1) : k # i => rT1'[rRound][k] = rT1[rRound][k] /\ rW'[k] = rW[k]
      /\ \A g \in 1..MaxRound : g # rRound => rT1'[g] = rT1[g]
  BY <1>1, <1>2
<1>6. RowNow(i)'
  <2>1. rT1[rRound][i] = T1Row(rRound, i) /\ rT0[i] = T0Row(rRound, i)
    BY <1>1, ConstantFacts DEF CheckInv, AllDrawn, OpenRows, RowNow
  <2>2. CorrectionRow(i, w) = Xor(Xor(Const(CodeWord(w)), T0Row(rRound, i)), T1Row(rRound, i))
    BY <1>1, <2>1 DEF CorrectionRow
  <2>3. QED
    BY <1>1, <1>3, <1>4, <1>5, <2>2 DEF RowNow, Encoded
<1>7. ASSUME NEW k \in AllRows PROVE RowNow(k)'
  <2>1. CASE k = i
    BY <1>6, <2>1
  <2>2. CASE k # i
    <3>1. rT1'[rRound][k] = rT1[rRound][k] /\ rW'[k] = rW[k]
      BY <1>5, <2>2, AllRowsFacts
    <3>2. k < N => out'[rRound][k] = out[rRound][k]
      BY <1>4, <2>2, ConstantFacts DEF AllRows
    <3>3. RowNow(k)
      BY <1>1 DEF CheckInv, OpenRows
    <3>4. QED
      BY <1>3, <3>1, <3>2, <3>3 DEF RowNow, Encoded
  <2>3. QED
    BY <2>1, <2>2
<1>8. OpenRows'
  <2>1. \A k \in 0..(N - 1) : k < rIdx => out'[rRound][k].used
    BY <1>1, <1>4 DEF CheckInv, OpenRows
  <2>2. QED
    BY <1>7, <2>1 DEF OpenRows
<1>9. AtProof' /\ CheckIsExact' /\ (sRound' # 0 => \A k \in AllRows : sT'[k] = TRow(sRound, k)')
  <2>1. \A g \in 1..MaxRound : g <= RecvDone => g # rRound
    BY <1>1, ConstantFacts DEF RecvDone
  <2>2. QED
    BY <1>1, <1>5, <2>1, SenderRests
<1>10. \A k \in AllRows : rT0'[k] = T0Row(rRound, k)'
  BY <1>1, <1>3, ConstantFacts DEF CheckInv, AllDrawn
<1>11. QED
  BY <1>1, <1>8, <1>9, <1>10 DEF CheckInv, AllDrawn, FinalRows

(* A row that is sent is used.                                             *)
LEMMA SendCorrectionCheck ==
    ASSUME IInv, SyncInv, CheckInv, RecvSendCorrection
    PROVE  CheckInv'
<1>1. /\ rPc = "open" /\ rPc' = "open" /\ UNCHANGED <<choices, rFlip, rRound, rT0, rT1, rW, out, sendVars, toR>>
      /\ \E m : toS' = Append(toS, m)
      /\ rIdx' = rIdx + StepCount(rStep + 1) /\ rIdx \in Nat /\ rStep + 1 \in 1..NumSteps
      /\ \A i \in rIdx..(rIdx + StepCount(rStep + 1) - 1) : out[rRound][i].used
  BY Typed, RowFacts DEF RecvSendCorrection, IInv, RecvInv
<1>2. StepCount(rStep + 1) \in Nat
  BY <1>1, StepFacts
<1>3. ASSUME NEW k
      PROVE  T0Row(rRound, k)' = T0Row(rRound, k) /\ T1Row(rRound, k)' = T1Row(rRound, k)
  BY <1>1 DEF T0Row, T1Row, T0Seeds, T1Seeds
<1>4. \A k \in AllRows : RowNow(k)'
  BY <1>1, <1>3 DEF CheckInv, OpenRows, RowNow, Encoded
<1>5. ASSUME NEW i \in 0..(N - 1), i < rIdx' PROVE out'[rRound'][i].used
  <2>1. i < rIdx \/ i \in rIdx..(rIdx + StepCount(rStep + 1) - 1)
    BY <1>1, <1>2, <1>5
  <2>2. QED
    BY <1>1, <2>1 DEF CheckInv, OpenRows
<1>6. AtProof' /\ CheckIsExact' /\ (sRound' # 0 => \A k \in AllRows : sT'[k] = TRow(sRound, k)')
  BY <1>1, SenderRests
<1>7. rRound' # 0 => \A k \in AllRows : rT0'[k] = T0Row(rRound, k)'
  BY <1>1, <1>3 DEF CheckInv, AllDrawn
<1>8. QED
  BY <1>1, <1>4, <1>5, <1>6, <1>7 DEF CheckInv, AllDrawn, OpenRows, FinalRows

(* With the extra rows every row of the round is a code word.               *)
LEMMA FinalizeCheck ==
    ASSUME IInv, SyncInv, CheckInv, NEW ws \in PerRelation(Word), RecvFinalize(ws)
    PROVE  CheckInv'
<1>1. /\ rPc = "open" /\ rPc' = "challenge" /\ rStep = NumSteps /\ \E m : toS' = Append(toS, m)
      /\ UNCHANGED <<choices, rFlip, rRound, rT0, out, sendVars, toR>>
  BY DEF RecvFinalize
<1>2. rIdx = N /\ rIdx' = N + Stat /\ N \in Nat \ {0} /\ Stat \in Nat \ {0}
  BY <1>1, StepFacts, ConstantFacts DEF IInv, RecvInv, RecvFinalize
<1>3. /\ T1Mem(rRound) = rRound /\ rRound \in 1..MaxRound /\ rT1[rRound] \in Matrix(RecvRows)
      /\ rT1 \in [1..MaxRound -> {<< >>} \cup Matrix(RecvRows)] /\ rW \in [0..(RecvRows - 1) -> Word]
      /\ DOMAIN rT1[rRound] = 0..(RecvRows - 1) /\ DOMAIN rW = 0..(RecvRows - 1)
  BY <1>1, OpenRound DEF IInv, RecvInv, Matrix
<1>4. /\ rT1' = [rT1 EXCEPT ![rRound] = [k \in DOMAIN @ |-> IF k \in N..(N + Stat - 1)
                                         THEN CorrectionRow(k, ws[k - N]) ELSE @[k]]]
      /\ rW' = [k \in DOMAIN rW |-> IF k \in N..(N + Stat - 1) THEN ws[k - N] ELSE rW[k]]
      /\ rTBuff' = [l \in 0..(Stat - 1) |-> rT0[N + l]] /\ rWBuff' = ws
  BY <1>2, <1>3 DEF RecvFinalize
<1>5. /\ \A k \in AllRows : rT1'[rRound][k] = IF k \in N..(N + Stat - 1) THEN CorrectionRow(k, ws[k - N])
                                                                      ELSE rT1[rRound][k]
      /\ \A k \in AllRows : rW'[k] = IF k \in N..(N + Stat - 1) THEN ws[k - N] ELSE rW[k]
      /\ \A g \in 1..MaxRound : g # rRound => rT1'[g] = rT1[g]
  BY <1>3, <1>4, AllRowsFacts
<1>6. ASSUME NEW k
      PROVE  T0Row(rRound, k)' = T0Row(rRound, k) /\ T1Row(rRound, k)' = T1Row(rRound, k)
  BY <1>1 DEF T0Row, T1Row, T0Seeds, T1Seeds
<1>7. \A k \in AllRows : rT0[k] = T0Row(rRound, k)
  BY <1>3, ConstantFacts DEF CheckInv, AllDrawn
<1>8. ASSUME NEW k \in AllRows
      PROVE  rT1'[rRound][k] = Encoded(rRound, k, rW'[k])
  <2>1. RowNow(k)
    BY <1>1 DEF CheckInv, OpenRows
  <2>2. CASE k < N
    <3>1. k \in 0..(N - 1) /\ k \notin N..(N + Stat - 1)
      BY <1>2, <2>2 DEF AllRows
    <3>2. out[rRound][k].used
      BY <1>1, <1>2, <2>2, <3>1 DEF CheckInv, OpenRows
    <3>3. QED
      BY <1>5, <2>1, <2>2, <3>1, <3>2 DEF RowNow
  <2>3. CASE ~(k < N)
    <3>1. k \in N..(N + Stat - 1)
      BY <1>2, <2>3 DEF AllRows
    <3>2. rT1[rRound][k] = T1Row(rRound, k)
      BY <2>1, <2>3 DEF RowNow
    <3>3. CorrectionRow(k, ws[k - N]) = Encoded(rRound, k, ws[k - N])
      BY <1>3, <1>7, <3>2 DEF CorrectionRow, Encoded
    <3>4. QED
      BY <1>5, <3>1, <3>3
  <2>4. QED
    BY <2>2, <2>3
<1>9. FinalRows'
  <2>1. \A k \in AllRows : rT1'[rRound'][k] = Encoded(rRound, k, rW[k])'
    BY <1>1, <1>6, <1>8 DEF Encoded
  <2>2. ASSUME NEW l \in 0..(Stat - 1)
        PROVE  rTBuff'[l] = T0Row(rRound, N + l)' /\ rWBuff'[l] = rW'[N + l]
    <3>1. N + l \in AllRows /\ N + l \in N..(N + Stat - 1) /\ (N + l) - N = l
      BY <1>2, AllRowsFacts
    <3>2. rTBuff'[l] = rT0[N + l] /\ rWBuff'[l] = ws[l]
      BY <1>4
    <3>3. rW'[N + l] = ws[l]
      BY <1>5, <3>1
    <3>4. QED
      BY <1>6, <1>7, <3>1, <3>2, <3>3
  <2>3. QED
    BY <1>2, <2>1, <2>2 DEF FinalRows
<1>10. AtProof' /\ CheckIsExact' /\ (sRound' # 0 => \A k \in AllRows : sT'[k] = TRow(sRound, k)')
  <2>1. \A g \in 1..MaxRound : g <= RecvDone => g # rRound
    BY <1>1, <1>3, ConstantFacts DEF RecvDone
  <2>2. QED
    BY <1>1, <1>5, <2>1, SenderRests
<1>11. \A k \in AllRows : rT0'[k] = T0Row(rRound, k)'
  BY <1>1, <1>6, <1>7
<1>12. QED
  BY <1>1, <1>9, <1>10, <1>11 DEF CheckInv, AllDrawn, OpenRows

LEMMA ChallengedAll ==
    ASSUME NEW seed \in Seeds, NEW l \in 0..(Stat - 1)
    PROVE  /\ Challenged(seed, l, N + Stat) = Chi[seed][l] /\ Chi[seed][l] \in SUBSET (0..(N - 1))
           /\ Chi[seed][l] \subseteq AllRows
<1>1. Chi[seed][l] \in SUBSET (0..(N - 1)) /\ N \in Nat /\ Stat \in Nat
  BY OosAssumption
<1>2. \A i \in 0..(N - 1) : i < (N + Stat) - Stat
  BY <1>1
<1>3. QED
  BY <1>1, <1>2, AllRowsFacts DEF Challenged

(* The proof answers the challenge with the rows that have been sent.       *)
LEMMA ProveCheck ==
    ASSUME IInv, SyncInv, CheckInv, RecvProve
    PROVE  CheckInv'
<1> DEFINE seed == Head(toR).seed
           a == [l \in 0..(Stat - 1) |-> Xor(rTBuff[l], XorSum(rT0, Challenged(seed, l, rIdx)))]
           b == [l \in 0..(Stat - 1) |-> Xor(rWBuff[l], XorSum(rW, Challenged(seed, l, rIdx)))]
           ma == [kind |-> "tSum", sum |-> a]
           mb == [kind |-> "wSum", sum |-> b]
<1>1. /\ rPc = "challenge" /\ rPc' = "ready" /\ toR # << >> /\ toR' = Tail(toR)
      /\ UNCHANGED <<choices, rFlip, rRound, rT0, rT1, rW, sendVars>>
      /\ toS' = toS \o <<ma, mb>>
  BY DEF RecvProve, Ready
<1>2. /\ toR \in Seq(MsgToR) /\ toS \in Seq(MsgToS) /\ Len(toR) \in Nat /\ rRound \in Nat
      /\ rIdx = N + Stat /\ rRound # 0
  BY <1>1, Typed DEF CheckInv, FinalRows
<1>3. ASSUME NEW k
      PROVE  T0Row(rRound, k)' = T0Row(rRound, k) /\ T1Row(rRound, k)' = T1Row(rRound, k)
  BY <1>1 DEF T0Row, T1Row, T0Seeds, T1Seeds
<1>4. AtProof'
  <2> SUFFICES ASSUME sPc = "proof" PROVE AtProof'
    BY <1>1 DEF AtProof, sendVars
  <2>1. PICK s \in Seeds : sSeed = {s} /\ QSums(s) /\ \A k \in 1..Len(toR) : toR[k].seed = s
    BY DEF CheckInv, AtProof
  <2>2. Len(toR) # 0
    BY <1>1, <1>2
  <2>3. RecvDone = rRound - 1 /\ sRound \in Nat /\ Len(toR) = sRound - RecvDone
    BY <1>1, PhaseCounts DEF RecvDone
  <2>4. toS = << >> /\ rRound = sRound
    BY <1>2, <2>2, <2>3, ProofPlaces
  <2>5. Len(toR) = 1
    BY <1>2, <2>3, <2>4
  <2>6. seed = s /\ Len(toR') = 0
    <3>1. Head(toR) = toR[1] /\ 1 \in 1..Len(toR)
      BY <1>1, <1>2, <2>5
    <3>2. Len(Tail(toR)) = 0
      BY <1>1, <1>2, <2>5, HeadTailProperties
    <3>3. QED
      BY <1>1, <2>1, <3>1, <3>2
  <2>7. toS' = <<ma, mb>>
    <3> HIDE DEF ma, mb
    <3>1. <<ma, mb>> \in Seq({ma, mb})
      OBVIOUS
    <3>2. << >> \o <<ma, mb>> = <<ma, mb>>
      BY <3>1
    <3>3. QED
      BY <1>1, <2>4, <3>2
  <2>8. toS'[1].sum = a /\ toS'[2].sum = b /\ toS'[1].kind = "tSum" /\ toS'[2].kind = "wSum"
    <3> HIDE DEF a, b
    <3>1. QED
      BY <2>7
  <2>15. PICK W : W = [i \in AllRows |-> rW[i]]
    OBVIOUS
  <2>9. W \in [AllRows -> Word]
    <3>1. rW \in [0..(RecvRows - 1) -> Word]
      BY <1>1, OpenRound DEF IInv
    <3>2. QED
      BY <3>1, <2>15, AllRowsFacts
  <2>10. \A i \in AllRows : rT1'[sRound'][i] = Encoded(rRound, i, W[i])
    <3>1. \A i \in AllRows : rT1[rRound][i] = Encoded(rRound, i, W[i])
      BY <1>1, <2>15 DEF CheckInv, FinalRows
    <3>2. QED
      BY <1>1, <2>4, <3>1 DEF sendVars
  <2>11. ASSUME NEW l \in 0..(Stat - 1)
         PROVE  /\ a[l] = Xor(T0Row(rRound, N + l), XorSum([i \in AllRows |-> T0Row(rRound, i)], Chi[s][l]))
                /\ b[l] = Xor(W[N + l], XorSum(W, Chi[s][l]))
    <3>1. Challenged(seed, l, rIdx) = Chi[s][l] /\ Chi[s][l] \subseteq AllRows /\ N + l \in AllRows
      BY <1>2, <2>6, ChallengedAll, AllRowsFacts
    <3>2. rTBuff[l] = T0Row(rRound, N + l) /\ rWBuff[l] = W[N + l]
      BY <1>1, <2>15, <3>1 DEF CheckInv, FinalRows
    <3>3. \A i \in AllRows : rT0[i] = T0Row(rRound, i) /\ W[i] = rW[i]
      BY <1>2, <2>15 DEF CheckInv, AllDrawn
    <3>4. /\ XorSum(rT0, Chi[s][l]) = XorSum([i \in AllRows |-> T0Row(rRound, i)], Chi[s][l])
          /\ XorSum(rW, Chi[s][l]) = XorSum(W, Chi[s][l])
      <4> DEFINE T == [i \in AllRows |-> T0Row(rRound, i)]
      <4>1. \A i \in Chi[s][l] : rT0[i] = T[i] /\ rW[i] = W[i]
        BY <3>1, <3>3
      <4> HIDE DEF T
      <4>2. XorSum(rT0, Chi[s][l]) = XorSum(T, Chi[s][l]) /\ XorSum(rW, Chi[s][l]) = XorSum(W, Chi[s][l])
        BY <4>1, XorSumSame
      <4>3. QED
        BY <4>2 DEF T
    <3>5. /\ a[l] = Xor(rTBuff[l], XorSum(rT0, Challenged(seed, l, rIdx)))
          /\ b[l] = Xor(rWBuff[l], XorSum(rW, Challenged(seed, l, rIdx)))
      OBVIOUS
    <3> HIDE DEF a, b, seed
    <3>6. QED
      BY <3>1, <3>2, <3>4, <3>5
  <2> HIDE DEF a, b, seed
  <2>12. Proof(sRound, s, toS[1].sum, toS[2].sum)'
    <3>1. \A i : T0Row(sRound, i)' = T0Row(rRound, i)
      BY <1>1, <2>4 DEF T0Row, T0Seeds, sendVars
    <3>2. [i \in AllRows |-> T0Row(sRound, i)]' = [i \in AllRows |-> T0Row(rRound, i)]
      BY <3>1
    <3>3. \A i \in AllRows : rT1'[sRound'][i] = Encoded(sRound, i, W[i])'
      <4>1. ASSUME NEW i \in AllRows, NEW w PROVE Encoded(sRound, i, w)' = Encoded(rRound, i, w)
        BY <1>1, <1>3, <2>4 DEF Encoded, T0Row, T1Row, T0Seeds, T1Seeds, sendVars
      <4>2. QED
        BY <2>10, <4>1
    <3>4. ASSUME NEW l \in 0..(Stat - 1)
          PROVE  /\ toS'[1].sum[l] = Xor(T0Row(sRound, N + l)',
                                         XorSum([i \in AllRows |-> T0Row(sRound, i)]', Chi[s][l]))
                 /\ toS'[2].sum[l] = Xor(W[N + l], XorSum(W, Chi[s][l]))
      BY <2>8, <2>11, <3>1, <3>2
    <3>5. QED
      BY <2>9, <3>3, <3>4 DEF Proof
  <2>13. sSeed' = {s} /\ QSums(s)' /\ \A k \in 1..Len(toR') : toR'[k].seed = s
    <3>1. 1..0 = {}
      OBVIOUS
    <3>2. QED
      BY <1>1, <2>1, <2>6, <3>1 DEF QSums, QRow, sendVars
  <2>14. QED
    BY <2>8, <2>12, <2>13 DEF AtProof
<1>5. CheckIsExact' /\ (sRound' # 0 => \A i \in AllRows : sT'[i] = TRow(sRound, i)')
  BY <1>1, SenderSame
<1>6. \A k \in AllRows : rT0'[k] = T0Row(rRound, k)'
  BY <1>1, <1>2, <1>3 DEF CheckInv, AllDrawn
<1>7. QED
  BY <1>1, <1>4, <1>5, <1>6 DEF CheckInv, AllDrawn, OpenRows, FinalRows

LEMMA RecvCheck ==
    ASSUME IInv, SyncInv, LandInv, AgreeInv, CheckInv, RecvNext
    PROVE  CheckInv'
<1>1. CASE \E d \in SUBSET Cols : RecvSetBaseOts(d)
  BY <1>1, SetBaseOtsCheck
<1>2. CASE RecvInit
  BY <1>2, RecvInitCheck
<1>3. ASSUME NEW i \in 0..(N - 1), RecvZeroEncode(i) \/ \E w \in Word : RecvEncode(i, w)
      PROVE  CheckInv'
  <2>1. CASE RecvZeroEncode(i)
    <3> DEFINE r == [t |-> ZeroBlock, w |-> {}, used |-> TRUE]
    <3>1. CorrectionRow(i, {}) = Xor(rT0[i], rT1[T1Mem(rRound)][i])
      <4>1. CodeWord({}) = {} /\ Const({}) = {}
        BY XorSumNone DEF CodeWord, Const
      <4>2. \A x : Xor({}, x) = x
        BY InXor
      <4>3. QED
        BY <4>1, <4>2 DEF CorrectionRow
    <3>2. /\ Encodable(i) /\ {} \in Word /\ rW' = [rW EXCEPT ![i] = {}] /\ r.used
          /\ rT1' = [rT1 EXCEPT ![T1Mem(rRound)][i] = CorrectionRow(i, {})]
          /\ out' = [out EXCEPT ![rRound][i] = r]
          /\ UNCHANGED <<choices, rPc, rFlip, rRound, rT0, rIdx, sendVars, netVars>>
      BY <2>1, <3>1 DEF RecvZeroEncode, Word
    <3> HIDE DEF r
    <3>3. QED
      BY <3>2, EncodeCheck
  <2>2. ASSUME NEW w \in Word, RecvEncode(i, w) PROVE CheckInv'
    <3> DEFINE r == [t |-> rT0[i], w |-> w, used |-> TRUE]
    <3>1. /\ Encodable(i) /\ rW' = [rW EXCEPT ![i] = w] /\ r.used
          /\ rT1' = [rT1 EXCEPT ![T1Mem(rRound)][i] = CorrectionRow(i, w)]
          /\ out' = [out EXCEPT ![rRound][i] = r]
          /\ UNCHANGED <<choices, rPc, rFlip, rRound, rT0, rIdx, sendVars, netVars>>
      BY <2>2 DEF RecvEncode
    <3> HIDE DEF r
    <3>2. QED
      BY <3>1, EncodeCheck
  <2>3. QED
    BY <1>3, <2>1, <2>2
<1>4. CASE RecvSendCorrection
  BY <1>4, SendCorrectionCheck
<1>5. CASE \E ws \in [0..(Stat - 1) -> Word] : RecvFinalize(ws)
  BY <1>5, FinalizeCheck DEF PerRelation
<1>6. CASE RecvProve
  BY <1>6, ProveCheck
<1>7. CASE RecvSkipCheck \/ RecvClosed
  <2>1. /\ rPc' \notin {"open", "challenge"} /\ sPc # "proof"
        /\ UNCHANGED <<choices, rFlip, rRound, rT0, sendVars>>
    BY <1>7 DEF RecvSkipCheck, RecvClosed, SyncInv, Phases
  <2>2. CheckIsExact' /\ (sRound' # 0 => \A i \in AllRows : sT'[i] = TRow(sRound, i)')
    BY <2>1, SenderSame
  <2>3. rRound' # 0 => \A k \in AllRows : rT0'[k] = T0Row(rRound, k)'
    BY <2>1 DEF CheckInv, AllDrawn, T0Row, T0Seeds
  <2>4. AtProof'
    BY <2>1 DEF AtProof, sendVars
  <2>5. QED
    BY <2>1, <2>2, <2>3, <2>4 DEF CheckInv, AllDrawn, OpenRows, FinalRows
<1>8. QED
  BY <1>1, <1>2, <1>3, <1>4, <1>5, <1>6, <1>7 DEF RecvNext

---------------------------------------------------------------------------
(* The sender's steps. *)

LEMMA SendInitCheck ==
    ASSUME IInv, SyncInv, CheckInv, SendInit
    PROVE  CheckInv'
<1>1. /\ UNCHANGED <<choices, recvVars>> /\ sPc' = "open" /\ sRound' = sRound + 1 /\ sRound \in Nat
      /\ N \in Nat /\ SendRows \in Nat /\ sPc = "ready"
      /\ sT' = [i \in 0..(SendRows - 1) |-> PrngRow(SeedOf(choices), sBlk * RowBlk + i)]
  BY ConstantFacts, RowFacts, Typed DEF SendInit
<1>2. PICK g0 \in Nat : g0 = sRound + 1
  BY <1>1
<1>3. ASSUME NEW i \in AllRows
      PROVE  i \in 0..(SendRows - 1) /\ sBlk * RowBlk + i = PosOf(g0, i)
  <2>1. sBlk = sRound * RoundBlks /\ RoundBlks \in Nat /\ RowBlk \in Nat
    BY RowFacts, ConstantFacts DEF SyncInv, Phases
  <2>2. (sRound * RoundBlks) * RowBlk = sRound * (RoundBlks * RowBlk) /\ g0 - 1 = sRound
    BY <1>1, <1>2, <2>1
  <2>3. QED
    BY <1>1, <2>1, <2>2, AllRowsFacts DEF PosOf, RoundRows
<1>4. \A i \in AllRows : sT'[i] = TRow(sRound, i)'
  BY <1>1, <1>2, <1>3 DEF TRow
<1>5. QED
  BY <1>1, <1>4, ReceiverRests DEF CheckInv, AllDrawn, AtProof, CheckIsExact

(* The sums are of the rows that have landed, the extra rows among them.    *)
LEMMA ChallengeCheck ==
    ASSUME IInv, SyncInv, CheckInv, NEW seed \in Seeds, SendChallenge(seed)
    PROVE  CheckInv'
<1> DEFINE c == [kind |-> "challenge", seed |-> seed]
<1>1. /\ UNCHANGED <<choices, recvVars, sDelta, sT, sRound>> /\ sPc = "final" /\ sPc' = "proof"
      /\ sSeed' = {seed} /\ toS # << >> /\ toS' = Tail(toS)
      /\ toR' = Append(toR, c) /\ c.seed = seed /\ sIdx = N + Stat
      /\ N \in Nat /\ Stat \in Nat /\ sCor \in Matrix(SendRows) /\ toS \in Seq(MsgToS)
  BY ConstantFacts, Typed DEF SendChallenge, Land, Ready, IInv, SendInv
<1>2. Len(toS') = 0
  BY <1>1, FinalPlaces, HeadTailProperties
<1>3. \A k \in 1..Len(toR') : toR'[k].seed = seed
  <2> HIDE DEF c
  <2>1. toR = << >>
    BY <1>1, FinalPlaces
  <2>2. Append(<< >>, c) = <<c>> /\ Len(<<c>>) = 1 /\ \A k \in 1..1 : <<c>>[k] = c
    OBVIOUS
  <2>3. QED
    BY <1>1, <2>1, <2>2
<1>4. PICK cor : cor = sCor'
  OBVIOUS
<1>5. QSums(seed)'
  <2> SUFFICES ASSUME NEW l \in 0..(Stat - 1)
               PROVE  sQ'[l] = Xor(QRow(cor, N + l)', XorSum([i \in AllRows |-> QRow(cor, i)]', Chi[seed][l]))
    BY <1>4 DEF QSums
  <2> DEFINE D == [i \in DOMAIN sCor |-> QRow(cor, i)]
             A == [i \in AllRows |-> QRow(cor, i)]
  <2>1. \A i : QRow(cor, i)' = QRow(cor, i)
    BY <1>1 DEF QRow
  <2>2. [i \in AllRows |-> QRow(cor, i)]' = A
    BY <2>1
  <2>3. sQ'[l] = Xor(QRow(cor, (sIdx - Stat) + l), XorSum(D, Challenged(seed, l, sIdx)))
    BY <1>4 DEF SendChallenge
  <2>4. (sIdx - Stat) + l = N + l /\ Challenged(seed, l, sIdx) = Chi[seed][l] /\ Chi[seed][l] \subseteq AllRows
    BY <1>1, ChallengedAll
  <2>5. AllRows \subseteq DOMAIN sCor
    BY <1>1, AllRowsFacts DEF Matrix
  <2>6. \A i \in Chi[seed][l] : D[i] = A[i]
    BY <2>4, <2>5
  <2> HIDE DEF D, A
  <2>7. XorSum(D, Chi[seed][l]) = XorSum(A, Chi[seed][l])
    BY <2>6, XorSumSame
  <2>8. QED
    BY <2>1, <2>2, <2>3, <2>4, <2>7
<1>6. AtProof'
  <2>1. toS' = << >>
    <3>1. toS' \in Seq(MsgToS)
      BY <1>1, HeadTailProperties
    <3>2. QED
      BY <1>2, <3>1, EmptySeq
  <2>2. QED
    BY <1>1, <1>3, <1>5, <2>1 DEF AtProof
<1>7. (sRound' # 0 => \A i \in AllRows : sT'[i] = TRow(sRound, i)')
  BY <1>1 DEF CheckInv, AllDrawn, TRow
<1>8. QED
  BY <1>1, <1>6, <1>7, ReceiverRests DEF CheckInv, AllDrawn, CheckIsExact

(* Every row of the sender is the receiver's row, its code word and its      *)
(* corruption, so each relation holds when its corruption cancels.         *)
LEMMA VerifyExact ==
    ASSUME IInv, SyncInv, LandInv, AgreeInv, CheckInv, SendVerify
    PROVE  /\ ProofHolds(toS[1].sum, toS[2].sum) <=> \A l \in 0..(Stat - 1) : ErrSeen(l) = {}
<1>1. /\ sPc = "proof" /\ Malicious /\ sRound \in Nat \ {0} /\ toS # << >> /\ sRound > 0
      /\ choices \in SUBSET Cols /\ rFlip \in SUBSET Cols /\ sDelta \in SUBSET Cols
  <2>1. sPc = "proof" /\ toS # << >>
    BY DEF SendVerify, Ready
  <2>2. sRound \in Nat \ {0} /\ Malicious
    BY <2>1, PhaseCounts
  <2>3. choices \in SUBSET Cols /\ rFlip \in SUBSET Cols /\ sDelta \in SUBSET Cols
    BY DEF IInv, RecvInv, SendInv
  <2>4. QED
    BY <2>1, <2>2, <2>3
<1>2. PICK seed \in Seeds :
          /\ sSeed = {seed} /\ QSums(seed)
          /\ Proof(sRound, seed, toS[1].sum, toS[2].sum)
  BY <1>1 DEF CheckInv, AtProof
<1>3. PICK W \in [AllRows -> Word] :
        /\ \A i \in AllRows : rT1[sRound][i] = Encoded(sRound, i, W[i])
        /\ \A l \in 0..(Stat - 1) :
              /\ toS[1].sum[l] = Xor(T0Row(sRound, N + l),
                                     XorSum([i \in AllRows |-> T0Row(sRound, i)], Chi[seed][l]))
              /\ toS[2].sum[l] = Xor(W[N + l], XorSum(W, Chi[seed][l]))
  BY <1>2 DEF Proof
<1> DEFINE T == [i \in AllRows |-> T0Row(sRound, i)]
           Q == [i \in AllRows |-> QRow(sCor, i)]
           E == [i \in AllRows |-> ErrOf(i)]
<1>4. ASSUME NEW i \in AllRows
      PROVE  Q[i] = Xor(T[i], Xor(Mask(Const(CodeWord(W[i])), sDelta), Mask(Const(E[i]), sDelta)))
  <2> DEFINE S == TRow(sRound, i)
             t0 == T0Row(sRound, i)
             t1 == T1Row(sRound, i)
  <2>1. sCor[i] = Xor(rT1[sRound][i], Const(ErrOf(i)))
    <3>1. Landed = AllRows
      BY <1>1 DEF Landed, AllRows
    <3>2. QED
      BY <1>1, <3>1 DEF LandInv, CorrectionsLandInPlace
  <2>2. sCor[i] = Xor(Xor(Xor(Const(CodeWord(W[i])), t0), t1), Const(ErrOf(i)))
    BY <1>3, <2>1 DEF Encoded
  <2>3. sT[i] = S
    BY <1>1 DEF CheckInv, AllDrawn
  <2>4. sDelta = Xor(choices, rFlip)
    BY <1>1 DEF AgreeInv, DeltaInv
  <2>5. Xor(S, Mask(Xor(t0, t1), sDelta)) = t0
    BY <1>1, <2>4, Swapped DEF TRow, T0Row, T1Row, T0Seeds, T1Seeds
  <2> HIDE DEF S, t0, t1
  <2>6. QRow(sCor, i) = Xor(t0, Xor(Mask(Const(CodeWord(W[i])), sDelta), Mask(Const(ErrOf(i)), sDelta)))
    BY <2>2, <2>3, <2>5, QRowIs
  <2>7. QED
    BY <2>6 DEF t0
<1>5. ASSUME NEW l \in 0..(Stat - 1)
      PROVE  Xor(toS[1].sum[l], sQ[l]) = Mask(Const(CodeWord(toS[2].sum[l])), sDelta) <=> ErrSeen(l) = {}
  <2> DEFINE S == Chi[seed][l]
             x == N + l
  <2>1. /\ toS[1].sum[l] = Xor(T[x], XorSum(T, S)) /\ sQ[l] = Xor(Q[x], XorSum(Q, S))
        /\ toS[2].sum[l] = Xor(W[x], XorSum(W, S)) /\ x \in AllRows
    BY <1>2, <1>3, AllRowsFacts DEF QSums
  <2>2. IsFiniteSet(S) /\ x \notin S /\ S \cup {x} \subseteq AllRows
    <3>1. S \in SUBSET (0..(N - 1)) /\ N \in Nat /\ l \in Nat
      BY ChallengedAll, ConstantFacts
    <3>2. IsFiniteSet(0..(N - 1))
      BY <3>1, FS_Interval, 0 \in Int, N - 1 \in Int
    <3>3. QED
      BY <2>1, <3>1, <3>2, FS_Subset, ChallengedAll
  <2>3. ErrSeen(l) = XorSum(E, S \cup {x}) \cap sDelta
    BY <1>1, <1>2, ErrSeenIs
  <2>4. Corrected(S \cup {x}, sDelta, T, Q, W, E)
    BY <1>4, <2>2 DEF Corrected
  <2> HIDE DEF T, Q, E, S, x
  <2>5. Xor(Xor(T[x], XorSum(T, S)), Xor(Q[x], XorSum(Q, S)))
            = Mask(Const(CodeWord(Xor(W[x], XorSum(W, S)))), sDelta)
        <=> XorSum(E, S \cup {x}) \cap sDelta = {}
    BY <2>2, <2>4, CheckRelation
  <2>6. QED
    BY <2>1, <2>3, <2>5
<1>6. QED
  BY <1>5 DEF ProofHolds

LEMMA VerifyCheck ==
    ASSUME IInv, SyncInv, LandInv, AgreeInv, CheckInv, SendVerify
    PROVE  CheckInv'
<1> DEFINE ok == ProofHolds(toS[1].sum, toS[2].sum)
<1>1. /\ UNCHANGED <<choices, recvVars, sDelta, sT, sRound, sSeed, sErr>>
      /\ sPc' = IF ok THEN "ready" ELSE "abort"
  BY DEF SendVerify
<1>2. ok <=> \A l \in 0..(Stat - 1) : ErrSeen(l) = {}
  BY VerifyExact
<1>3. \A l : ErrSeen(l)' = ErrSeen(l)
  BY <1>1 DEF ErrSeen
<1>4. CheckIsExact'
  <2> HIDE DEF ok
  <2>1. QED
    BY <1>1, <1>2, <1>3 DEF CheckIsExact
<1>5. sRound' # 0 => \A i \in AllRows : sT'[i] = TRow(sRound, i)'
  BY <1>1 DEF CheckInv, AllDrawn, TRow
<1>6. AtProof'
  BY <1>1 DEF AtProof
<1>7. QED
  BY <1>1, <1>4, <1>5, <1>6, ReceiverRests DEF CheckInv, AllDrawn

LEMMA SendCheck ==
    ASSUME IInv, SyncInv, LandInv, AgreeInv, CheckInv, SendNext
    PROVE  CheckInv'
<1>1. CASE SendInit
  BY <1>1, SendInitCheck
<1>2. CASE \E seed \in Seeds : SendChallenge(seed)
  BY <1>2, ChallengeCheck
<1>3. CASE SendVerify
  BY <1>3, VerifyCheck
<1>4. CASE SendSetBaseOts \/ SendRecvCorrection \/ SendLandCorrection \/ SendRecvFinalization \/ SendSkipCheck
  <2>1. /\ UNCHANGED <<choices, recvVars, sT, sRound>>
        /\ sPc' \in {"open", "recv", "final"} \/ (sPc' = "ready" /\ (sRound = 0 \/ ~Malicious))
    BY <1>4 DEF SendSetBaseOts, SendRecvCorrection, SendLandCorrection, SendRecvFinalization, SendSkipCheck,
                SyncInv, Phases
  <2>2. CheckIsExact'
    BY <2>1 DEF CheckIsExact
  <2>3. AtProof'
    BY <2>1 DEF AtProof
  <2>4. sRound' # 0 => \A i \in AllRows : sT'[i] = TRow(sRound, i)'
    BY <2>1 DEF CheckInv, AllDrawn, TRow
  <2>5. QED
    BY <2>1, <2>2, <2>3, <2>4, ReceiverRests DEF CheckInv, AllDrawn
<1>5. QED
  BY <1>1, <1>2, <1>3, <1>4 DEF SendNext

(* A step that changes neither party, nor a proof in the socket.            *)
LEMMA QuietCheck ==
    ASSUME CheckInv, UNCHANGED <<choices, recvVars, sendVars, toR>>,
           sPc = "proof" /\ toS' # << >> => toS # << >> /\ toS'[1] = toS[1] /\ toS'[2] = toS[2]
    PROVE  CheckInv'
<1>1. CheckIsExact' /\ (sRound' # 0 => \A k \in AllRows : sT'[k] = TRow(sRound, k)')
  BY SenderSame
<1>2. AtProof'
  <2> SUFFICES ASSUME sPc = "proof" PROVE AtProof'
    BY DEF AtProof, sendVars
  <2>1. PICK seed \in Seeds :
            /\ sSeed = {seed} /\ QSums(seed)
            /\ \A k \in 1..Len(toR) : toR[k].seed = seed
            /\ toS # << >> => /\ toS[1].kind = "tSum" /\ toS[2].kind = "wSum"
                             /\ Proof(sRound, seed, toS[1].sum, toS[2].sum)
    BY DEF CheckInv, AtProof
  <2>2. QSums(seed)' /\ sSeed' = {seed} /\ \A k \in 1..Len(toR') : toR'[k].seed = seed
    BY <2>1 DEF QSums, QRow, sendVars
  <2>3. ASSUME toS' # << >> PROVE Proof(sRound, seed, toS[1].sum, toS[2].sum)'
    <3>1. rFlip' = rFlip /\ rT1' = rT1 /\ sRound' = sRound
      BY DEF recvVars, sendVars
    <3>2. toS # << >> /\ toS'[1] = toS[1] /\ toS'[2] = toS[2]
      BY <2>3
    <3>3. PICK W \in [AllRows -> Word] :
        /\ \A k \in AllRows : rT1[sRound][k] = Encoded(sRound, k, W[k])
        /\ \A l \in 0..(Stat - 1) :
              /\ toS[1].sum[l] = Xor(T0Row(sRound, N + l),
                                     XorSum([k \in AllRows |-> T0Row(sRound, k)], Chi[seed][l]))
              /\ toS[2].sum[l] = Xor(W[N + l], XorSum(W, Chi[seed][l]))
      BY <2>1, <3>2 DEF Proof
    <3>4. \A k : T0Row(sRound, k)' = T0Row(sRound, k) /\ T1Row(sRound, k)' = T1Row(sRound, k)
      BY <3>1 DEF T0Row, T1Row, T0Seeds, T1Seeds
    <3>5. \A k \in AllRows : rT1'[sRound'][k] = Encoded(sRound, k, W[k])'
      BY <3>1, <3>3, <3>4 DEF Encoded
    <3>6. [k \in AllRows |-> T0Row(sRound, k)]' = [k \in AllRows |-> T0Row(sRound, k)]
      BY <3>4
    <3>7. ASSUME NEW l \in 0..(Stat - 1)
          PROVE  /\ toS'[1].sum[l] = Xor(T0Row(sRound, N + l)',
                                         XorSum([k \in AllRows |-> T0Row(sRound, k)]', Chi[seed][l]))
                 /\ toS'[2].sum[l] = Xor(W[N + l], XorSum(W, Chi[seed][l]))
      BY <3>2, <3>3, <3>4, <3>6
    <3>8. QED
      BY <3>5, <3>7 DEF Proof
  <2>4. QED
    BY <2>1, <2>2, <2>3 DEF AtProof
<1>3. QED
  BY <1>1, <1>2, ReceiverRests DEF CheckInv, AllDrawn

(* A corrupted correction is no proof.                                     *)
LEMMA TamperCheck ==
    ASSUME IInv, SyncInv, CheckInv, NEW j \in 1..Len(toS), NEW i, NEW c, Tamper(j, i, c)
    PROVE  CheckInv'
<1>1. /\ UNCHANGED <<choices, recvVars, sendVars, toR>> /\ toS[j].kind = "cor"
      /\ toS' = [toS EXCEPT ![j].err = @ \cup {<<i, c>>}] /\ toS \in Seq(MsgToS)
  BY Typed DEF Tamper
<1>2. ASSUME sPc = "proof" PROVE toS # << >> /\ toS'[1] = toS[1] /\ toS'[2] = toS[2]
  <2>1. toS # << >>
    <3>1. Len(<< >>) = 0 /\ 1..0 = {}
      OBVIOUS
    <3>2. QED
      BY <3>1
  <2>2. Len(toS) >= 2 /\ Len(toS) \in Nat
    BY <1>1, <1>2, <2>1, ProofPlaces
  <2>3. toS[1].kind = "tSum" /\ toS[2].kind = "wSum"
    BY <1>2, <2>1 DEF CheckInv, AtProof
  <2>4. QED
    BY <1>1, <2>1, <2>2, <2>3
<1>3. QED
  BY <1>1, <1>2, QuietCheck

LEMMA StutterCheck ==
    ASSUME CheckInv, UNCHANGED vars
    PROVE  CheckInv'
  BY QuietCheck DEF vars, netVars

LEMMA NextCheck ==
    ASSUME IInv, SyncInv, LandInv, AgreeInv, CheckInv, [Next]_vars
    PROVE  CheckInv'
<1>1. CASE RecvNext
  BY <1>1, RecvCheck
<1>2. CASE SendNext
  BY <1>2, SendCheck
<1>3. CASE \E j \in 1..Len(toS), i \in 0..(N + Stat - 1), c \in Cols : Tamper(j, i, c)
  BY <1>3, TamperCheck
<1>4. CASE Done \/ UNCHANGED vars
  BY <1>4, StutterCheck DEF Done
<1>5. QED
  BY <1>1, <1>2, <1>3, <1>4 DEF Next

---------------------------------------------------------------------------
(* The theorems. *)

(* For every code, every number of OTs and of relations, whatever the        *)
(* challenge selects and whatever was corrupted on the way: recvProof        *)
(* accepts a round when the corrupted bits in the columns of delta cancel in *)
(* each of the challenged sums, and throws when they do not.               *)
THEOREM CheckExact == Spec => []CheckIsExact
<1>1. Init => SyncInv /\ LandInv /\ AgreeInv /\ CheckInv
  BY SyncInit, InitLands, InitAgree, InitCheck
<1>2. IInv /\ SyncInv /\ LandInv /\ AgreeInv /\ CheckInv /\ [Next]_vars
        => SyncInv' /\ LandInv' /\ AgreeInv' /\ CheckInv'
  BY NextSync, NextLands, NextAgrees, NextCheck
<1>3. CheckInv => CheckIsExact
  BY DEF CheckInv
<1>4. QED
  BY <1>1, <1>2, <1>3, Invariant, PTL DEF Spec

(* The sender gives up only in a round it has checked.                     *)
AbortChecked == sPc = "abort" => Malicious /\ sRound > 0

LEMMA NextAborts ==
    ASSUME IInv, SyncInv, AbortChecked, [Next]_vars
    PROVE  AbortChecked'
<1>1. CASE UNCHANGED sendVars
  BY <1>1 DEF AbortChecked, sendVars
<1>2. CASE SendVerify
  <2>1. sRound' = sRound /\ sPc = "proof"
    BY <1>2 DEF SendVerify
  <2>2. Malicious /\ sRound \in Nat \ {0}
    BY <2>1, PhaseCounts
  <2>3. QED
    BY <2>1, <2>2 DEF AbortChecked
<1>3. CASE SendNext /\ ~SendVerify
  BY <1>3 DEF SendNext, SendSetBaseOts, SendInit, SendRecvCorrection, SendLandCorrection, SendRecvFinalization,
              SendChallenge, SendSkipCheck, AbortChecked
<1>4. RecvNext => UNCHANGED sendVars
  BY DEF RecvNext, RecvSetBaseOts, RecvInit, RecvZeroEncode, RecvEncode, RecvSendCorrection, RecvFinalize,
         RecvProve, RecvSkipCheck, RecvClosed
<1>5. QED
  BY <1>1, <1>2, <1>3, <1>4 DEF Next, Tamper, Done, vars

(* While nothing has been corrupted.                                       *)
Untouched == tampered = 0 => HonestInv

LEMMA NextUntouched ==
    ASSUME IInv, SyncInv, LandInv, Untouched, [Next]_vars
    PROVE  Untouched'
<1>1. CASE RecvNext
  <2>1. tampered' = tampered
    BY <1>1 DEF RecvNext, RecvSetBaseOts, RecvInit, RecvZeroEncode, RecvEncode, RecvSendCorrection, RecvFinalize,
                RecvProve, RecvSkipCheck, RecvClosed, netVars
  <2>2. QED
    BY <1>1, <2>1, RecvHonest DEF Untouched
<1>2. CASE SendNext
  <2>1. tampered' = tampered
    BY <1>2 DEF SendNext, SendSetBaseOts, SendInit, SendRecvCorrection, SendLandCorrection, SendRecvFinalization,
                SendChallenge, SendVerify, SendSkipCheck, netVars
  <2>2. QED
    BY <1>2, <2>1, SendHonest DEF Untouched
<1>3. CASE \E j \in 1..Len(toS), i \in 0..(N + Stat - 1), c \in Cols : Tamper(j, i, c)
  <2>1. tampered' = tampered + 1 /\ tampered \in Nat
    BY <1>3, ConstantFacts, OosAssumption DEF Tamper, IInv, NetInv
  <2>2. QED
    BY <2>1 DEF Untouched
<1>4. CASE Done \/ UNCHANGED vars
  BY <1>4 DEF Done, vars, recvVars, sendVars, netVars, Untouched, HonestInv, NoError, RoundsEnd
<1>5. QED
  BY <1>1, <1>2, <1>3, <1>4 DEF Next

(* Completeness, for every value of the constants: as long as no correction  *)
(* is corrupted recvProof does not throw, no call of the receiver finds the  *)
(* socket closed, and the number of inits and the way they are cut into      *)
(* corrections do not matter.                                              *)
THEOREM HonestAccept == Spec => []HonestAccepted
<1>1. Init => SyncInv /\ LandInv /\ AbortChecked /\ Untouched
  BY SyncInit, InitLands, InitHonest DEF Untouched, AbortChecked, Init
<1>2. IInv /\ SyncInv /\ LandInv /\ AbortChecked /\ Untouched /\ [Next]_vars
        => SyncInv' /\ LandInv' /\ AbortChecked' /\ Untouched'
  BY NextSync, NextLands, NextAborts, NextUntouched
<1>3. SyncInv /\ AbortChecked /\ Untouched /\ CheckIsExact => HonestAccepted
  <2> SUFFICES ASSUME SyncInv, AbortChecked, Untouched, CheckIsExact, tampered = 0
               PROVE  sPc # "abort" /\ rPc # "failed" /\ ~closed
    BY DEF HonestAccepted
  <2>1. sErr = {}
    BY DEF Untouched, HonestInv, NoError
  <2>2. ASSUME NEW l PROVE ErrSeen(l) = {}
    <3> DEFINE P == (UNION { Chi[seed][l] : seed \in sSeed }) \cup {N + l}
    <3>1. ErrSeen(l) = { c \in sDelta : Cardinality({ i \in P : <<i, c>> \in sErr }) % 2 = 1 }
      BY DEF ErrSeen
    <3> HIDE DEF P
    <3>2. \A c : { i \in P : <<i, c>> \in sErr } = {}
      BY <2>1
    <3>3. Cardinality({}) = 0 /\ 0 % 2 = 0
      BY FS_EmptySet
    <3>4. QED
      BY <3>1, <3>2, <3>3
  <2>3. sPc # "abort"
    BY <2>2 DEF AbortChecked, CheckIsExact
  <2>4. QED
    BY <2>3 DEF SyncInv, Phases
<1>4. QED
  BY <1>1, <1>2, <1>3, CheckExact, Invariant, PTL DEF Spec
=============================================================================
