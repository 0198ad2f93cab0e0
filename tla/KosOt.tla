------------------------------- MODULE KosOt -------------------------------
(***************************************************************************)
(* The KOS and IKNP 1-out-of-2 OT extensions: KosOtExtSender and            *)
(* KosOtExtReceiver with splitBase, the chosen-message wrappers of          *)
(* OTExtInterface, and IknpOtExt as KOS without the check.                  *)
(*                                                                         *)
(* An instance is a sender object, a receiver object and their socket.      *)
(* Instance 0 is the one the applications set up; splitting it gives birth  *)
(* to another, which runs concurrently on a socket of its own.              *)
(*                                                                         *)
(* A bit is a formal sum (XorAlgebra) of                                   *)
(*   <<1, key, pos, row>>   bit `row` of block `pos` of the PRNG of `key`   *)
(*   <<0, call, p, 0>>      choice bit p of the call <<instance, number>>   *)
(*   <<2, << >>, 0, 0>>     the constant 1, where a receiver cheats         *)
(*   <<3, call, p, column>> what the caller's message p held before the call *)
(* so one behaviour stands for all choice bits. A key is a sequence: that   *)
(* of a base OT message, extended by pos when it is block pos of a PRNG.    *)
(* Hashing the rows is left out: both parties hash with the same index.     *)
(***************************************************************************)
EXTENDS XorAlgebra, Sequences

CONSTANTS
    K,          \* gOtExtBaseOtCount: 128 columns, and OTs per block
    CommStep,   \* commStepSize, the blocks per message
    Confs,      \* the settings and the call sequences of the applications
    MaxBad      \* bound: bits of u a cheating receiver gets wrong

Cols == 0..(K - 1)
Rows == 0..(K - 1)
Root == 0

ASSUME KosAssumption ==
    /\ K \in Nat \ {0} /\ CommStep \in Nat \ {0} /\ MaxBad \in Nat
    /\ \A c \in Confs :
          /\ c.iknp \in BOOLEAN /\ c.fs \in BOOLEAN
          /\ c.hash \in {"AesHash", "RandomOracle", "NoHash"}
          /\ Root \in DOMAIN c.script /\ DOMAIN c.script \subseteq Nat
          /\ \A i \in DOMAIN c.script : Len(c.script[i]) \in Nat
          /\ \A i \in DOMAIN c.script : \A k \in 1..Len(c.script[i]) :
                LET op == c.script[i][k] IN
                \/ op.op = "base"
                \/ op.op = "split" /\ op.child \in DOMAIN c.script \ {Root} /\ i = Root
                \/ op.op = "ext" /\ op.n \in Nat \ {0} /\ op.payload \in BOOLEAN

VARIABLES
    conf,
    delta,    \* the columns whose mBaseChoiceBits is 1
    r,        \* r[i]: the receiver of instance i, its current call, its results
    s,        \* s[i]: the sender
    toS, toR, \* toS[i], toR[i]: the socket of instance i
    closed,
    bad       \* where the receiver cheated: <<instance, number, block, row, column>>

vars == <<conf, delta, r, s, toS, toR, closed, bad>>

Insts == DOMAIN conf.script
NumCalls(i) == Len(conf.script[i])

---------------------------------------------------------------------------
(* Settings, keys and bits. *)

(* IKNP is KOS with mIsMalicious off.                                      *)
RootCfg == [mal |-> ~conf.iknp, fs |-> conf.fs, hash |-> conf.hash]
(* splitBase constructs a new object: the settings are the default ones. An *)
(* IKNP receiver switches mIsMalicious off in the copy, an IKNP sender      *)
(* does not.                                                               *)
DefaultCfg == [mal |-> TRUE, fs |-> FALSE, hash |-> "AesHash"]
RecvSplitCfg == [DefaultCfg EXCEPT !.mal = ~conf.iknp]
SendSplitCfg == DefaultCfg

Bit(key, pos, row) == { <<1, key, pos, row>> }
ChoiceBit(i, k, b, row) == { <<0, <<i, k>>, b * K + row, 0>> }
One == { <<2, << >>, 0, 0>> }
Unwritten(i, k, b) == [row \in Rows |-> [c \in Cols |-> { <<3, <<i, k>>, b * K + row, c>> }]]

(* The base OTs made for call k of instance i.                             *)
RecvRootKeys(i, k) == [c \in Cols |-> [b \in {0, 1} |-> <<i, k, c, b>>]]
SendRootKeys(i, k) == [c \in Cols |-> <<i, k, c, IF c \in delta THEN 1 ELSE 0>>]

(* The receiver's mGens is a vector of two generators of 128 keys each, and *)
(* splitBase derives as many base OTs as mGens has elements. The rest of    *)
(* its array is uninitialised.                                             *)
NumGens == 2
Uninitialised(i, c, b) == <<-1, i, c, b>>
RecvSplitKeys(i, keys, pos) ==
    [c \in Cols |-> [b \in {0, 1} |->
        IF c < NumGens THEN Append(keys[c][b], pos) ELSE Uninitialised(i, c, b)]]
SendSplitKeys(keys, pos) == [c \in Cols |-> Append(keys[c], pos)]

---------------------------------------------------------------------------
(* Blocks and messages of a call for n OTs. *)

MinOf(a, b) == IF a < b THEN a ELSE b

(* The receiver runs over the blocks of choices and then those of the       *)
(* extra choices; the sender rounds up the number of rows.                 *)
RecvBlocks(n, mal) == DivCeil(n, K) + DivCeil(IF mal THEN K ELSE 0, K)
SendBlocks(n, mal) == DivCeil(n + (IF mal THEN K ELSE 0), K)

RecvStep(p, n) == MinOf(RecvBlocks(n, p.cfg.mal) - p.blk, CommStep)
SendStep(p, n) == MinOf(SendBlocks(n, p.cfg.mal) - p.blk, CommStep)

(* The next blocks of t0, and the u of them that gives the sender the       *)
(* choice bits times delta; err are the bits the receiver gets wrong.       *)
T0(p, step) ==
    [j \in 1..step |-> [row \in Rows |-> [c \in Cols |-> Bit(p.keys[c][0], p.idx + j - 1, row)]]]
U(i, k, p, step, err) ==
    [j \in 1..step |-> [row \in Rows |-> [c \in Cols |->
        Xor(Xor(Xor(Bit(p.keys[c][0], p.idx + j - 1, row), Bit(p.keys[c][1], p.idx + j - 1, row)),
                ChoiceBit(i, k, p.blk + j - 1, row)),
            IF <<i, k, p.blk + j - 1, row, c>> \in err THEN One ELSE ZeroBlock)]]]
QUnmasked(p, u) ==
    [j \in 1..Len(u) |-> [row \in Rows |-> [c \in Cols |->
        Xor(Bit(p.keys[c], p.idx + j - 1, row), u[j][row][c])]]]
(* The sender's rows: its PRNG, and u where its base choice bit is 1.       *)
Q(p, u) ==
    [j \in 1..Len(u) |-> [row \in Rows |-> [c \in Cols |->
        Xor(Bit(p.keys[c], p.idx + j - 1, row), BitTimes(c \in delta, u[j][row][c]))]]]

---------------------------------------------------------------------------
(* The correlation check: a sum over the blocks, each times the challenge   *)
(* of its number, and the extra block as it is. Two different seeds have    *)
(* unrelated challenges, so the sums are compared together with the seed.   *)

Challenge(rows, b) == IF b = Len(rows) THEN 0 ELSE b
ColumnSum(rows, c) ==
    UNION { { <<Challenge(rows, b), row, a>> : a \in rows[b][row][c] } :
              b \in 1..Len(rows), row \in Rows }
ChoiceSum(i, k, rows) ==
    UNION { { <<Challenge(rows, b), row, a>> : a \in ChoiceBit(i, k, b - 1, row) } :
              b \in 1..Len(rows), row \in Rows }
(* The parties. *)

Call(p) == Len(p.out) + 1
Op(i, p) == conf.script[i][Call(p)]
About(i, p, op) == p.pc = "idle" /\ Call(p) <= NumCalls(i) /\ Op(i, p).op = op

(* A call has the rows of step more blocks, made from or into u.            *)
Took(p, step, rows, u) ==
    [p EXCEPT !.t = @ \o rows, !.blk = @ + step, !.idx = @ + step,
              !.seen = IF p.cfg.fs THEN @ \o u ELSE @]
(* The sender's mIter goes back by the block it wrote, and forward again    *)
(* only where the block is hashed: without a hash every block is written    *)
(* over the first, and the messages after it are never written.             *)
Written(i, p, step, rows) ==
    IF p.cfg.hash = "NoHash"
      THEN [b \in 1..(p.blk + step) |-> IF b = 1 THEN rows[step] ELSE Unwritten(i, Call(p), b - 1)]
      ELSE p.t \o rows
SendTook(i, p, step, rows, u) == [Took(p, step, rows, u) EXCEPT !.t = Written(i, p, step, rows)]
(* A call returns, with rows for its application.                          *)
Return(p, rows) == [p EXCEPT !.pc = "idle", !.out = Append(@, rows), !.t = << >>, !.seen = << >>]
(* The protocol of receive or send is over: with chosen messages there is   *)
(* one more to come.                                                       *)
AfterRows(i, p) == IF Op(i, p).payload THEN [p EXCEPT !.pc = "payload"] ELSE Return(p, p.t)

NewParty(pc, base, keys, cfg) ==
    [pc |-> pc, out |-> << >>, base |-> base, keys |-> keys, idx |-> 0, cfg |-> cfg,
     blk |-> 0, t |-> << >>, seen |-> << >>]

Init ==
    /\ conf \in Confs
    /\ delta \in (SUBSET Cols) \ {{}}
    /\ r = [i \in Insts |-> NewParty(IF i = Root THEN "idle" ELSE "unborn", FALSE, << >>, RootCfg)]
    /\ s = r
    /\ toS = [i \in Insts |-> << >>] /\ toR = [i \in Insts |-> << >>]
    /\ closed = [i \in Insts |-> FALSE]
    /\ bad = {}

ToS(i, m) == toS' = [toS EXCEPT ![i] = Append(@, m)]
ToR(i, m) == toR' = [toR EXCEPT ![i] = Append(@, m)]
RecvFails(i) == r' = [r EXCEPT ![i].pc = "failed"] /\ closed' = [closed EXCEPT ![i] = TRUE]
SendFails(i) == s' = [s EXCEPT ![i].pc = "failed"] /\ closed' = [closed EXCEPT ![i] = TRUE]

SetBase(p, keys) == [p EXCEPT !.base = TRUE, !.keys = keys, !.idx = 0]
(* A call makes base OTs when there are none.                              *)
RecvGenBase(i, p) == IF p.base THEN p ELSE SetBase(p, RecvRootKeys(i, Call(p)))
SendGenBase(i, p) == IF p.base THEN p ELSE SetBase(p, SendRootKeys(i, Call(p)))
BeginKeepsBlk(p) == [p EXCEPT !.pc = "ext"]
Begin(p) == [p EXCEPT !.pc = "ext", !.blk = 0]

---------------------------------------------------------------------------
(* The receiver. *)

(* The application sets new base OTs.                                      *)
RecvSetBase(i) ==
    /\ About(i, r[i], "base")
    /\ r' = [r EXCEPT ![i] = Return(SetBase(@, RecvRootKeys(i, Call(@))), << >>)]
    /\ UNCHANGED <<conf, delta, s, toS, toR, closed, bad>>

RecvNextIdxSame(idx) == idx
RecvNextIdx(idx) == idx + 1
RecvSplit(i) ==
    /\ About(i, r[i], "split") /\ r[i].base
    /\ LET child == Op(i, r[i]).child IN
       r' = [r EXCEPT ![i] = [Return(r[i], << >>) EXCEPT !.idx = RecvNextIdx(@)],
                      ![child] = NewParty("idle", TRUE,
                                          RecvSplitKeys(child, r[i].keys, r[i].idx), RecvSplitCfg)]
    /\ UNCHANGED <<conf, delta, s, toS, toR, closed, bad>>

Rejected(cfg) == cfg.mal /\ cfg.hash = "NoHash"

(* receive up to the first block, genBaseOts included.                     *)
RecvStart(i) ==
    /\ About(i, r[i], "ext")
    /\ IF Rejected(r[i].cfg)
         THEN RecvFails(i)
         ELSE /\ r' = [r EXCEPT ![i] = Begin(RecvGenBase(i, @))]
              /\ UNCHANGED closed
    /\ UNCHANGED <<conf, delta, s, toS, toR, bad>>

(* More blocks, the check, or the end of the protocol.                      *)
RecvAfter(i, p) ==
    IF p.blk < RecvBlocks(Op(i, p).n, p.cfg.mal) THEN p
    ELSE IF p.cfg.mal THEN [p EXCEPT !.pc = "check"] ELSE AfterRows(i, p)

(* What a receiver may get wrong in its next blocks.                        *)
Errors(i, p, step) ==
    { {} } \cup
    { {<<i, Call(p), p.blk + j - 1, row, c>>} : j \in 1..step, row \in Rows,
          c \in IF i = Root /\ p.cfg.mal /\ Cardinality(bad) < MaxBad THEN Cols ELSE {} }

(* Filling and sending one buffer of u.                                    *)
RecvSendU(i) ==
    /\ r[i].pc = "ext" /\ ~closed[i]
    /\ LET step == RecvStep(r[i], Op(i, r[i]).n) IN
       \E err \in Errors(i, r[i], step) :
          LET u == U(i, Call(r[i]), r[i], step, err) IN
          /\ bad' = bad \cup err
          /\ ToS(i, [kind |-> "u", u |-> u])
          /\ r' = [r EXCEPT ![i] = RecvAfter(i, Took(@, step, T0(@, step), u))]
    /\ UNCHANGED <<conf, delta, s, toR, closed>>

(* check, with the challenge from the sender or by Fiat-Shamir.            *)
RecvProve(i) ==
    /\ r[i].pc = "check" /\ ~closed[i]
    /\ r[i].cfg.fs \/ toR[i] # << >>
    /\ LET seed == IF r[i].cfg.fs THEN r[i].seen ELSE Head(toR[i]).seed IN
       ToS(i, [kind |-> "proof", seed |-> seed, x |-> ChoiceSum(i, Call(r[i]), r[i].t),
               t |-> [c \in Cols |-> ColumnSum(r[i].t, c)]])
    /\ toR' = IF r[i].cfg.fs THEN toR ELSE [toR EXCEPT ![i] = Tail(@)]
    /\ r' = [r EXCEPT ![i] = AfterRows(i, @)]
    /\ UNCHANGED <<conf, delta, s, closed, bad>>

(* receiveChosen unmasks the message of its choice.                        *)
RecvPayload(i) ==
    /\ r[i].pc = "payload" /\ toR[i] # << >>
    /\ toR' = [toR EXCEPT ![i] = Tail(@)]
    /\ r' = [r EXCEPT ![i] = Return(@, @.t)]
    /\ UNCHANGED <<conf, delta, s, toS, closed, bad>>

(* A send on a closed socket throws, and so does a receive when nothing is  *)
(* left in it.                                                             *)
RecvClosed(i) ==
    /\ closed[i]
    /\ \/ r[i].pc = "ext"
       \/ r[i].pc = "check" /\ (r[i].cfg.fs \/ toR[i] = << >>)
       \/ r[i].pc = "payload" /\ toR[i] = << >>
    /\ RecvFails(i)
    /\ UNCHANGED <<conf, delta, s, toS, toR, bad>>

---------------------------------------------------------------------------
(* The sender. A receiver closes the socket only when it rejects settings   *)
(* the sender rejects too, or when the sender has closed it before: the     *)
(* sender itself never meets a closed socket.                              *)

SendSetBase(i) ==
    /\ About(i, s[i], "base")
    /\ s' = [s EXCEPT ![i] = Return(SetBase(@, SendRootKeys(i, Call(@))), << >>)]
    /\ UNCHANGED <<conf, delta, r, toS, toR, closed, bad>>

SendNextIdxSame(idx) == idx
SendNextIdx(idx) == idx + 1
SendSplit(i) ==
    /\ About(i, s[i], "split") /\ s[i].base
    /\ LET child == Op(i, s[i]).child IN
       s' = [s EXCEPT ![i] = [Return(s[i], << >>) EXCEPT !.idx = SendNextIdx(@)],
                      ![child] = NewParty("idle", TRUE,
                                          SendSplitKeys(s[i].keys, s[i].idx), SendSplitCfg)]
    /\ UNCHANGED <<conf, delta, r, toS, toR, closed, bad>>

SendStart(i) ==
    /\ About(i, s[i], "ext")
    /\ IF Rejected(s[i].cfg)
         THEN SendFails(i)
         ELSE /\ s' = [s EXCEPT ![i] = Begin(SendGenBase(i, @))]
              /\ UNCHANGED closed
    /\ UNCHANGED <<conf, delta, r, toS, toR, bad>>

SendAfter(i, p) ==
    IF p.blk < SendBlocks(Op(i, p).n, p.cfg.mal) THEN p
    ELSE IF p.cfg.mal THEN [p EXCEPT !.pc = IF p.cfg.fs THEN "verify" ELSE "seed"]
    ELSE AfterRows(i, p)

(* Receiving one buffer of u and computing the rows of its blocks.         *)
SendRecvU(i) ==
    /\ s[i].pc = "ext" /\ toS[i] # << >>
    /\ Head(toS[i]).kind = "u"
    /\ LET u == Head(toS[i]).u
           step == SendStep(s[i], Op(i, s[i]).n)
       IN /\ Len(u) = step
          /\ s' = [s EXCEPT ![i] = SendAfter(i, SendTook(i, @, step, Q(@, u), u))]
    /\ toS' = [toS EXCEPT ![i] = Tail(@)]
    /\ UNCHANGED <<conf, delta, r, toR, closed, bad>>

(* A message of another size than the buffer it is received into.          *)
SendBadSize(i) ==
    /\ toS[i] # << >>
    /\ LET m == Head(toS[i]) IN
       \/ s[i].pc = "ext"
          /\ (m.kind # "u" \/ Len(m.u) # SendStep(s[i], Op(i, s[i]).n))
       \/ s[i].pc = "verify" /\ m.kind # "proof"
    /\ SendFails(i)
    /\ UNCHANGED <<conf, delta, r, toS, toR, bad>>

SendSeed(i) ==
    /\ s[i].pc = "seed"
    /\ ToR(i, [kind |-> "seed", seed |-> << >>])
    /\ s' = [s EXCEPT ![i].pc = "verify"]
    /\ UNCHANGED <<conf, delta, r, toS, closed, bad>>

AcceptsFirstCols(p, m) ==
    /\ m.seed = p.seen
    /\ \A c \in Cols \ {K - 1} :
          Xor(ColumnSum(p.t, c), BitTimes(c \in delta, m.x)) = m.t[c]
(* Column by column: q + delta * x = t.                                    *)
Accepts(p, m) ==
    /\ m.seed = p.seen
    /\ \A c \in Cols : Xor(ColumnSum(p.t, c), BitTimes(c \in delta, m.x)) = m.t[c]

RejectOpen(i) == s' = [s EXCEPT ![i].pc = "rejected"] /\ UNCHANGED closed
Reject(i) == s' = [s EXCEPT ![i].pc = "rejected"] /\ closed' = [closed EXCEPT ![i] = TRUE]

SendVerify(i) ==
    /\ s[i].pc = "verify" /\ toS[i] # << >>
    /\ Head(toS[i]).kind = "proof"
    /\ IF Accepts(s[i], Head(toS[i]))
         THEN s' = [s EXCEPT ![i] = AfterRows(i, @)] /\ UNCHANGED closed
         ELSE Reject(i)
    /\ toS' = [toS EXCEPT ![i] = Tail(@)]
    /\ UNCHANGED <<conf, delta, r, toR, bad>>

(* sendChosen masks its messages and sends them.                           *)
SendPayload(i) ==
    /\ s[i].pc = "payload"
    /\ ToR(i, [kind |-> "payload"])
    /\ s' = [s EXCEPT ![i] = Return(@, @.t)]
    /\ UNCHANGED <<conf, delta, r, toS, closed, bad>>

---------------------------------------------------------------------------
Ended(i, p) == p.pc \in {"failed", "rejected", "unborn"} \/ (p.pc = "idle" /\ Call(p) > NumCalls(i))
Finished == \A i \in Insts : Ended(i, r[i]) /\ Ended(i, s[i])
Done == Finished /\ UNCHANGED vars

RecvNext(i) ==
    RecvSetBase(i) \/ RecvSplit(i) \/ RecvStart(i) \/ RecvSendU(i) \/ RecvProve(i)
    \/ RecvPayload(i) \/ RecvClosed(i)
SendNext(i) ==
    SendSetBase(i) \/ SendSplit(i) \/ SendStart(i) \/ SendRecvU(i) \/ SendBadSize(i)
    \/ SendSeed(i) \/ SendVerify(i) \/ SendPayload(i)
Next == (\E i \in Insts : RecvNext(i) \/ SendNext(i)) \/ Done

Spec == Init /\ [][Next]_vars
FairSpec ==
    Spec /\ \A i \in UNION { DOMAIN c.script : c \in Confs } :
               WF_vars(i \in Insts /\ RecvNext(i)) /\ WF_vars(i \in Insts /\ SendNext(i))

---------------------------------------------------------------------------
(* Properties. *)

TypeOK ==
    /\ conf \in Confs /\ delta \subseteq Cols /\ Cardinality(bad) <= MaxBad
    /\ \A i \in Insts :
          /\ closed[i] \in BOOLEAN
          /\ r[i].pc \in {"unborn", "idle", "ext", "check", "payload", "failed"}
          /\ s[i].pc \in {"unborn", "idle", "ext", "seed", "verify", "payload", "failed", "rejected"}
          /\ \A p \in {r[i], s[i]} :
                /\ p.idx \in Nat /\ Len(p.out) <= NumCalls(i) /\ Len(p.seen) <= p.blk
                /\ p.pc = "ext" => p.blk = Len(p.t) /\ p.blk < RecvBlocks(Op(i, p).n, p.cfg.mal)

(* What call k of instance i gave its two applications is a correlated OT   *)
(* for every choice: the sender's row is the receiver's plus the choice     *)
(* times delta, so message number `choice` is the receiver's.              *)
Correct(i, k) ==
    \A p \in 0..(conf.script[i][k].n - 1) :
        \A c \in Cols :
            Xor(s[i].out[k][p \div K + 1][p % K][c], r[i].out[k][p \div K + 1][p % K][c])
                = BitTimes(c \in delta, ChoiceBit(i, k, p \div K, p % K))
Both(i) == { k \in 1..NumCalls(i) :
                /\ conf.script[i][k].op = "ext"
                /\ k <= Len(r[i].out) /\ k <= Len(s[i].out) }

(* Every call that returned to both applications gave OTs, whatever calls,  *)
(* splits and new base OTs came before, however the blocks were cut into    *)
(* messages, and also when the receiver cheated and was accepted; but for   *)
(* those without a hash for more OTs than a block has.                     *)
LosesBlocks(k) == conf.hash = "NoHash" /\ conf.script[Root][k].n > K
OtCorrect == \A k \in Both(Root) : ~LosesBlocks(k) => Correct(Root, k)

(* KosOtExtSender.h says of send that "the destination span is populated    *)
(* (written to) with the random OT messages": calls without a hash, which   *)
(* IKNP supports, are OTs for any number of messages.                       *)
UnhashedOtsCorrect == conf.hash = "NoHash" => \A k \in Both(Root) : Correct(Root, k)

(* The sender rejects exactly the receivers whose cheating met a column in  *)
(* which its base choice is 1, and never returns, nor sends a chosen        *)
(* message, before it knows.                                               *)
Caught(k) == \E e \in bad : e[1] = Root /\ e[2] = k /\ e[5] \in delta
CheckIsExact ==
    LET passed == Len(s[Root].out) + (IF s[Root].pc = "payload" THEN 1 ELSE 0) IN
    /\ s[Root].pc = "rejected" => Caught(Call(s[Root]))
    /\ \A k \in 1..passed : ~Caught(k)

(* No block of a base OT's PRNG serves twice: as rows of two calls, as a    *)
(* row of a call and of its check, or as a row and as a base OT of a split. *)
AllDrawn ==
    (UNION { UNION { { <<i, k, b>> : b \in 1..Len(r[i].out[k]) } : k \in 1..Len(r[i].out) } : i \in Insts })
    \cup (UNION { { <<i, Call(r[i]), b>> : b \in 1..Len(r[i].t) } : i \in Insts })
BlockOf(d) == IF d[2] <= Len(r[d[1]].out) THEN r[d[1]].out[d[2]][d[3]] ELSE r[d[1]].t[d[3]]
PrngBlocks(d) == UNION { { <<a[2], a[3]>> : a \in BlockOf(d)[0][c] } : c \in Cols }
PadsFresh ==
    /\ \A d, e \in AllDrawn : d # e => PrngBlocks(d) \cap PrngBlocks(e) = {}
    /\ \A i \in Insts \ {Root} : r[i].pc # "unborn" =>
          \A d \in AllDrawn : \A a \in PrngBlocks(d) :
              \A c \in Cols, b \in {0, 1} : r[i].keys[c][b] # Append(a[1], a[2])

(* Between calls with the same number behind them the parties are in step:  *)
(* the same position in the PRNGs, the same settings, an empty socket.      *)
PartiesInStep ==
    (r[Root].pc = "idle" /\ s[Root].pc = "idle" /\ Call(r[Root]) = Call(s[Root])) =>
        /\ r[Root].idx = s[Root].idx /\ r[Root].cfg = s[Root].cfg
        /\ toS[Root] = << >> /\ toR[Root] = << >>

(* Everything ends, also for the party whose peer rejected or failed; and   *)
(* with an honest receiver and settings that are supported, every call of   *)
(* the instance that was set up has returned to both.                      *)
Terminates ==
    <>[](/\ Finished
         /\ (bad = {} /\ ~Rejected(RootCfg)) =>
               Len(r[Root].out) = NumCalls(Root) /\ Len(s[Root].out) = NumCalls(Root))

(* KosOtExtReceiver.h and KosOtExtSender.h say that splitBase returns an    *)
(* independent instance that can be used like the original: its calls, with *)
(* an honest receiver, are accepted and give OTs.                          *)
SplitInstanceWorks ==
    \A i \in Insts \ {Root} :
        s[i].pc # "rejected" /\ \A k \in Both(i) : Correct(i, k)
===========================================================================
