------------------------------ MODULE KkrtNcoOt ------------------------------
(***************************************************************************)
(* KkrtNcoOtReceiver (party 1) and KkrtNcoOtSender (party 0), the           *)
(* semi-honest 1-out-of-N OT extension with pseudo-random codewords, and    *)
(* the chosen message wrappers of NcoOtExt on top of it. The receiver       *)
(* corrects row i to the codeword of its word; the sender can then encode   *)
(* the row at any word, and gets the receiver's value at the receiver's.    *)
(*                                                                         *)
(* A row is a formal sum (XorAlgebra) of                                   *)
(*   <<1, c, b, key, pos>>  bit pos of the PRNG of column c, whose key is   *)
(*                          base OT message b of the base OTs named key     *)
(*   <<2, c, 0, <<k>>, w>>  column c of the codeword of w under cipher key k *)
(* and key is the call that set the base OTs, followed by the counter that  *)
(* each split took them from.                                              *)
(***************************************************************************)
EXTENDS XorAlgebra, TwoParty, SequencesExt

CONSTANTS
    KkrtConfs,  \* the sender's base choices and the calls of the applications
    KkrtCols,   \* the columns, 512
    KkrtWords,  \* the words a choice can be
    RowBlk,     \* the rows of a PRNG block, 128
    SuperBlk    \* superBlkSize

KkrtAssumption ==
    /\ RowBlk \in Nat \ {0} /\ SuperBlk \in Nat \ {0} /\ IsFiniteSet(KkrtCols)
    /\ \A c \in KkrtConfs : c.choices \in (SUBSET KkrtCols) \ {{}}

SenderP == 0
ReceiverP == 1

PrngBit(c, b, key, pos) == <<1, c, b, key, pos>>
CodeWord(k, w) == { <<2, c, 0, <<k>>, w>> : c \in KkrtCols }
Mask(row) == { a \in row : a[2] \in conf.choices }

---------------------------------------------------------------------------
(* The objects: key names the base OTs (empty for none), idx is             *)
(* mGensBlkIdx, cipher the key of mMultiKeyAES, sent mCorrectionIdx. The    *)
(* receiver has mT0 and points to an allocation for mT1, the sender has mT  *)
(* and mCorrectionVals.                                                    *)

NewObject == [key |-> << >>, idx |-> 0, cipher |-> 0, sent |-> 0, n |-> 0,
              t |-> << >>, mem |-> 0, cor |-> << >>]
Fresh == [pc |-> "idle", call |-> 1, objs |-> <<NewObject>>, heap |-> << >>, drawn |-> << >>,
          out |-> << >>]

Op(st) == conf.script[st.call]
Object(st) == st.objs[Op(st).obj]
WithObject(st, o) == [st EXCEPT !.objs[Op(st).obj] = o]
About(p, op) == /\ party[p].pc = "idle" /\ party[p].call <= Len(conf.script)
                /\ Op(party[p]).op = op
Returns(st) == [st EXCEPT !.pc = "idle", !.call = @ + 1]

(* setBaseOts does not reset the counters it finds.                        *)
BaseOts(p) ==
    /\ About(p, "base")
    /\ LET st == party[p] IN
       Goes(p, Returns(WithObject(st, [Object(st) EXCEPT !.key = <<st.call>>])), << >>)

SplitIdxSame(idx) == idx
SplitIdx(idx) == idx + 1
(* splitBase: base OTs from the next block of every PRNG, when there are    *)
(* any.                                                                    *)
Split(p) ==
    /\ About(p, "split")
    /\ LET st == party[p]
           o == Object(st)
           unset == [NewObject EXCEPT !.cipher = o.cipher]
           child == [unset EXCEPT !.key = Append(o.key, o.idx)]
       IN IF o.key = << >> THEN Goes(p, [Returns(st) EXCEPT !.objs = Append(@, unset)], << >>)
          ELSE Goes(p, [Returns(WithObject(st, [o EXCEPT !.idx = SplitIdx(@)]))
                          EXCEPT !.objs = Append(@, child),
                                 !.drawn = Append(@, [key |-> o.key, pos |-> o.idx])],
                    << >>)

(* sendChosen and receiveChosen throw without base OTs; init makes them.    *)
NoBaseOts(p) ==
    /\ About(p, "chosen") /\ Object(party[p]).key = << >>
    /\ Goes(p, [party[p] EXCEPT !.pc = "failed"], << >>)
Ready(p, op) == About(p, op) /\ (op = "chosen" => Object(party[p]).key # << >>)

(* The blocks of the super blocks that n rows take; the sender has rounded   *)
(* n up before.                                                            *)
SenderRows(n) == DivCeil(n, RowBlk) * RowBlk
SenderBlocks(n) == DivCeil(SenderRows(n) \div RowBlk, SuperBlk) * SuperBlk
ReceiverBlocks(n) == DivCeil(DivCeil(n, RowBlk), SuperBlk) * SuperBlk
Drawn(st, o, blocks) ==
    st.drawn \o [j \in 1..blocks |-> [key |-> o.key, pos |-> o.idx + j - 1]]
Row(o, i, b) == { PrngBit(c, b[c], o.key, o.idx * RowBlk + i) : c \in KkrtCols }
Base(o, st) == IF o.key = << >> THEN [o EXCEPT !.key = <<st.call>>] ELSE o

---------------------------------------------------------------------------
(* The receiver. *)

(* init, up to the wait for the sender's seed: mT1 is a new allocation, for  *)
(* messages may still refer to the one before.                             *)
KeptMem(st) == IF st.heap = << >> THEN <<[i \in {} |-> 0]>> ELSE st.heap
FreshMem(st) == Append(st.heap, [i \in {} |-> 0])
ReceiverInit(op) ==
    /\ Ready(ReceiverP, op)
    /\ LET st == party[ReceiverP]
           o == Base(Object(st), st)
           n == Op(st).n
           heap == FreshMem(st)
           t1 == [i \in 0..(n - 1) |-> Row(o, i, [c \in KkrtCols |-> 1])]
           next == [o EXCEPT !.n = n, !.sent = 0, !.mem = Len(heap),
                             !.t = [i \in 0..(n - 1) |-> Row(o, i, [c \in KkrtCols |-> 0])],
                             !.idx = @ + ReceiverBlocks(n)]
       IN Goes(ReceiverP, [WithObject(st, next) EXCEPT !.pc = "seed", !.heap = [heap EXCEPT ![Len(heap)] = t1],
                                                     !.drawn = Drawn(st, o, ReceiverBlocks(n))], << >>)

(* encode of a row: the correction replaces the row of mT1. zeroEncode is    *)
(* that with no codeword.                                                  *)
WithCorrection(st, i, code) ==
    LET o == Object(st) IN
    [st EXCEPT !.heap[o.mem][i] = Xor(code, Xor(o.t[i], @))]
Encoded(st, i, w) ==
    LET o == Object(st) IN
    [WithCorrection(st, i, CodeWord(o.cipher, w)) EXCEPT
        !.out = Append(@, [obj |-> Op(st).obj, mem |-> o.mem, row |-> i, word |-> w, value |-> o.t[i]])]
Encode ==
    /\ About(ReceiverP, "encode")
    /\ LET st == party[ReceiverP] IN
       Goes(ReceiverP, Returns(Encoded(st, Op(st).row, Op(st).word)), << >>)
ZeroEncode ==
    /\ About(ReceiverP, "zero")
    /\ LET st == party[ReceiverP] IN
       Goes(ReceiverP, Returns(WithCorrection(st, Op(st).row, ZeroBlock)), << >>)

(* sendCorrection refers to rows of the allocation, which are read when the  *)
(* message leaves.                                                         *)
CorrectionMessage(o, n) == [kind |-> "correction", mem |-> o.mem, first |-> o.sent, n |-> n]
SendCorrection ==
    /\ About(ReceiverP, "correct")
    /\ LET st == party[ReceiverP] o == Object(st) n == Op(st).n IN
       Goes(ReceiverP, Returns(WithObject(st, [o EXCEPT !.sent = @ + n])), <<CorrectionMessage(o, n)>>)

(* The sender's seed keys the cipher. receiveChosen then encodes its choices *)
(* and sends the corrections before it waits again.                        *)
TakeSeed ==
    /\ party[ReceiverP].pc = "seed" /\ HasMessage(ReceiverP) /\ Message(ReceiverP).kind = "seed"
    /\ LET st == party[ReceiverP]
           keyed == WithObject(st, [Object(st) EXCEPT !.cipher = Message(ReceiverP).seed])
           enc[i \in 0..Op(st).n] ==
               IF i = 0 THEN keyed ELSE Encoded(enc[i - 1], i - 1, Op(st).words[i])
           all == enc[Op(st).n]
           o == Object(all)
       IN IF Op(st).op = "init" THEN Takes(ReceiverP, Returns(keyed), << >>)
          ELSE Takes(ReceiverP,
                     [WithObject(all, [o EXCEPT !.sent = o.n]) EXCEPT !.pc = "payload"],
                     <<CorrectionMessage(o, o.n)>>)

Garbage == [row |-> -1, word |-> -1]
Opened(st, masked) ==
    [i \in 1..Op(st).n |->
        LET m == masked[i - 1][Op(st).words[i]] IN
        IF m.pad = Object(st).t[i - 1] THEN m.msg ELSE Garbage]
TakePayload ==
    /\ party[ReceiverP].pc = "payload" /\ HasMessage(ReceiverP) /\ Message(ReceiverP).kind = "payload"
    /\ LET st == party[ReceiverP] IN
       Takes(ReceiverP,
             [Returns(st) EXCEPT !.out = Append(@, [chosen |-> st.call,
                                                    msgs |-> Opened(st, Message(ReceiverP).masked)])],
             << >>)

---------------------------------------------------------------------------
(* The sender. *)

SenderInit(op) ==
    /\ Ready(SenderP, op)
    /\ LET st == party[SenderP]
           o == Base(Object(st), st)
           n == SenderRows(Op(st).n)
           bit == [c \in KkrtCols |-> IF c \in conf.choices THEN 1 ELSE 0]
           next == [o EXCEPT !.n = n, !.sent = 0, !.cipher = st.call, !.mem = @ + 1,
                             !.t = [i \in 0..(n - 1) |-> Row(o, i, bit)],
                             !.cor = [i \in 0..(n - 1) |-> IF i \in DOMAIN @ THEN @[i] ELSE ZeroBlock],
                             !.idx = @ + SenderBlocks(Op(st).n)]
           begun == [WithObject(st, next) EXCEPT !.drawn = Drawn(st, o, SenderBlocks(Op(st).n))]
       IN Goes(SenderP, IF op = "init" THEN Returns(begun) ELSE [begun EXCEPT !.pc = "corrections"],
               <<[kind |-> "seed", seed |-> st.call]>>)

SkipEncode ==
    /\ About(SenderP, "encode") \/ About(SenderP, "zero")
    /\ Goes(SenderP, Returns(party[SenderP]), << >>)

EncodingNoMask(o, i, w) == Xor(o.t[i], Xor(o.cor[i], CodeWord(o.cipher, w)))
Encoding(o, i, w) == Xor(o.t[i], Mask(Xor(o.cor[i], CodeWord(o.cipher, w))))

Corrected(o, m) ==
    LET mem == party[ReceiverP].heap[m.mem] IN
    [o EXCEPT !.sent = @ + m.n,
              !.cor = [i \in DOMAIN @ |-> IF i \in o.sent..(o.sent + m.n - 1)
                                            THEN mem[m.first + i - o.sent] ELSE @[i]]]
(* recvCorrection; the application then encodes the new rows at every word. *)
RecvCorrection ==
    /\ About(SenderP, "correct") /\ HasMessage(SenderP) /\ Message(SenderP).kind = "correction"
    /\ LET st == party[SenderP]
           o == Object(st)
           next == Corrected(o, Message(SenderP))
           new == o.sent..(next.sent - 1)
       IN Takes(SenderP,
                [Returns(WithObject(st, next)) EXCEPT
                   !.out = Append(@, [obj |-> Op(st).obj, mem |-> Message(SenderP).mem,
                                      value |-> [i \in new |-> [w \in KkrtWords |-> Encoding(next, i, w)]]])],
                << >>)
(* sendChosen masks message <<i, w>> with the encoding of row i at w.       *)
SendPayload ==
    /\ party[SenderP].pc = "corrections" /\ HasMessage(SenderP) /\ Message(SenderP).kind = "correction"
    /\ LET st == party[SenderP]
           next == Corrected(Object(st), Message(SenderP))
           masked == [i \in 0..(Op(st).n - 1) |-> [w \in KkrtWords |->
                        [pad |-> Encoding(next, i, w), msg |-> [row |-> i, word |-> w]]]]
       IN Takes(SenderP, Returns(WithObject(st, next)), <<[kind |-> "payload", masked |-> masked]>>)

---------------------------------------------------------------------------

KkrtInit ==
    /\ conf \in KkrtConfs
    /\ party = [p \in Parties |-> Fresh]
    /\ net = EmptyNet

KkrtFinished == \A p \in Parties : party[p].pc = "failed" \/ party[p].call > Len(conf.script)
KkrtDone == KkrtFinished /\ UNCHANGED vars

KkrtNext ==
    \/ \E p \in Parties : BaseOts(p) \/ Split(p) \/ NoBaseOts(p)
    \/ ReceiverInit("init") \/ ReceiverInit("chosen") \/ SenderInit("init") \/ SenderInit("chosen")
    \/ Encode \/ ZeroEncode \/ SendCorrection \/ TakeSeed \/ TakePayload
    \/ SkipEncode \/ RecvCorrection \/ SendPayload
    \/ KkrtDone
KkrtSpec == KkrtInit /\ [][KkrtNext]_vars

---------------------------------------------------------------------------
(* Properties. *)

Encodings == SelectSeq(party[ReceiverP].out, LAMBDA e : "row" \in DOMAIN e)
(* The sender's encodings of a row it has the correction of: the receiver's  *)
(* value at the receiver's word and another one at all others, also after   *)
(* another init, new base OTs or a split, and when corrections arrive late.  *)
KkrtEncodingsAgree ==
    \A k \in DOMAIN Encodings, j \in DOMAIN party[SenderP].out :
        LET e == Encodings[k] d == party[SenderP].out[j] IN
        (e.obj = d.obj /\ e.mem = d.mem /\ e.row \in DOMAIN d.value) =>
            \A w \in KkrtWords : (d.value[e.row][w] = e.value) <=> (w = e.word)

(* receiveChosen returns the sender's message of every choice.             *)
KkrtChosenCorrect ==
    \A k \in DOMAIN party[ReceiverP].out :
        LET e == party[ReceiverP].out[k] IN
        "chosen" \in DOMAIN e =>
            \A i \in DOMAIN e.msgs :
                e.msgs[i] = [row |-> i - 1, word |-> conf.script[e.chosen].words[i]]

(* No block of a base OT's PRNG is drawn twice, for rows or for a split, by  *)
(* either party.                                                           *)
KkrtPadsFresh == \A p \in Parties : IsInjective(party[p].drawn)
===========================================================================
