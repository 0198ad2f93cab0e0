------------------------------ MODULE KosDotOt ------------------------------
(***************************************************************************)
(* KosDotExtSender (party 0) and KosDotExtReceiver (party 1), the KOS       *)
(* extension that gives correlated OTs: the two messages of every OT differ *)
(* by the sender's mDelta. The parties extend over more columns than a      *)
(* message has bits, and a random code that is chosen after the columns     *)
(* were sent compresses them.                                              *)
(*                                                                         *)
(* A row is a formal sum (XorAlgebra) of                                   *)
(*   <<c, b, key, pos, i>>    bit i of block pos of the PRNG of column c,    *)
(*                            whose key is base OT message b of key         *)
(*   <<c, 2, << >>, 0, 0>>    a one in column c                             *)
(*   <<0, 4, <<call>>, 0, i>> what row i of the caller's buffer held behind   *)
(*                            the columns                                    *)
(* and a message one of such atoms under the code of a seed, and of          *)
(*   <<0, 3, delta, 0, 0>>    the unknown correlation delta.                *)
(***************************************************************************)
EXTENDS XorAlgebra, TwoParty, SequencesExt

CONSTANTS
    DotConfs,   \* the sender's base choices, the calls, whether the sender's buffer
                \* is zeroed, and how the receiver cheats
    DotCols,    \* the columns, gOtExtBaseOtCount + 40
    DotBlk,     \* the rows of a PRNG block and the extra rows, 128
    DotSuper,   \* superBlkSize, the blocks of a super block
    DotStep,    \* commStepSize, the super blocks of a message
    PrngBuffer  \* the blocks of a PRNG's buffer

DotAssumption ==
    /\ {DotBlk, DotSuper, DotStep, PrngBuffer} \subseteq Nat \ {0} /\ IsFiniteSet(DotCols)
    /\ 0 \notin DotCols
    /\ \A c \in DotConfs :
          /\ c.choices \in (SUBSET DotCols) \ {{}}
          /\ \A k \in DOMAIN c.script : c.script[k].op = "ext" => c.script[k].zeroed \in BOOLEAN

SenderP == 0
ReceiverP == 1
Least(a, b) == IF a < b THEN a ELSE b

DotBit(c, b, key, pos, i) == <<c, b, key, pos, i>>
OneIn(c) == <<c, 2, << >>, 0, 0>>
Ones == { OneIn(c) : c \in DotCols }
Mask(row) == { a \in row : a[1] \in conf.choices }
(* A message is <<code seed, atom>>s: the code is linear, and reads the      *)
(* bytes of the columns only.                                              *)
Code(seed, row) == { <<seed, a>> : a \in { b \in row : b[1] \in DotCols } }
Unknown(delta) == { << << >>, <<0, 3, delta, 0, 0>> >> }

---------------------------------------------------------------------------
(* The objects. A PRNG has filled its buffer with blocks from first on, next *)
(* of which have been taken, and idx is its mBlockIdx. mDelta is a name, << >> *)
(* for ZeroBlock.                                                          *)

NewPrngs(key) == [key |-> key, first |-> 0, next |-> 0, idx |-> PrngBuffer]
NewObject == [gens |-> NewPrngs(<< >>), delta |-> << >>]
Fresh == [pc |-> "idle", call |-> 1, objs |-> <<NewObject>>, drawn |-> << >>, out |-> << >>, run |-> << >>]

Op(st) == conf.script[st.call]
Object(st) == st.objs[Op(st).obj]
WithObject(st, o) == [st EXCEPT !.objs[Op(st).obj] = o]
About(p, op) == /\ party[p].pc = "idle" /\ party[p].call <= Len(conf.script)
                /\ Op(party[p]).op = op
Returns(st) == [st EXCEPT !.pc = "idle", !.call = @ + 1, !.run = << >>]

BaseOts(p) ==
    /\ About(p, "base")
    /\ LET st == party[p] IN
       Goes(p, Returns(WithObject(st, [Object(st) EXCEPT !.gens = NewPrngs(<<st.call>>)])), << >>)

(* PRNG::get takes a block of the buffer, and fills it again at mBlockIdx    *)
(* when it is used up.                                                     *)
Taken(g) == g.first + g.next
AfterGetNoRefill(g) == [g EXCEPT !.next = (@ + 1) % PrngBuffer]
AfterGet(g) ==
    IF g.next + 1 < PrngBuffer THEN [g EXCEPT !.next = @ + 1]
    ELSE [g EXCEPT !.first = g.idx, !.next = 0, !.idx = @ + PrngBuffer]

(* splitBase and split. The new sender has no mDelta.                       *)
Split(p) ==
    /\ About(p, "split")
    /\ LET st == party[p]
           g == Object(st).gens
           child == [NewObject EXCEPT !.gens = NewPrngs(Append(g.key, Taken(g)))]
       IN Goes(p, [Returns(WithObject(st, [Object(st) EXCEPT !.gens = AfterGet(g)]))
                     EXCEPT !.objs = Append(@, child),
                            !.drawn = Append(@, [key |-> g.key, pos |-> Taken(g)])],
               << >>)

(* setDelta, of the sender.                                                *)
SetDelta(p) ==
    /\ About(p, "delta")
    /\ LET st == party[p] IN
       Goes(p, Returns(IF p = SenderP
                         THEN WithObject(st, [Object(st) EXCEPT !.delta = <<st.call>>]) ELSE st), << >>)

SuperRows == DotBlk * DotSuper
NumSuper(n) == (DivCeil(n, DotBlk) + DotSuper) \div DotSuper
StepFrom(n, super) == Least(NumSuper(n) - super, DotStep)
NumRows(n) == n + DotBlk

(* The rows of a super block, and the PRNGs and what was drawn after it.     *)
Message0 == [c \in DotCols |-> 0]
Message1 == [c \in DotCols |-> 1]
BaseChoice == [c \in DotCols |-> IF c \in conf.choices THEN 1 ELSE 0]
PrngRow(g, i, b) ==
    { DotBit(c, b[c], g.key, g.idx + (i \div DotBlk), i % DotBlk) : c \in DotCols }
AfterSuper(g, steps) == [g EXCEPT !.idx = @ + steps * DotSuper]
Drew(st, g, steps) ==
    st.drawn \o [j \in 1..(steps * DotSuper) |-> [key |-> g.key, pos |-> g.idx + j - 1]]
Begun(st, pc, run) ==
    LET o == Object(st) IN
    [WithObject(st, IF o.gens.key = << >> THEN [o EXCEPT !.gens = NewPrngs(<<st.call>>)] ELSE o)
        EXCEPT !.pc = pc, !.run = run]

---------------------------------------------------------------------------
(* The receiver. run has its choices, the rows of messageTemp it has and     *)
(* the super blocks it has done.                                           *)

FirstExt(st) == \A k \in 1..(st.call - 1) : conf.script[k].op # "ext"

(* receive up to the first u: it commits to its seed, and appends random     *)
(* choices.                                                                *)
ReceiverStart ==
    /\ About(ReceiverP, "ext")
    /\ LET st == party[ReceiverP]
           op == Op(st)
           wide == NumSuper(Len(op.choices)) * SuperRows
       IN \E extra \in SUBSET (Len(op.choices)..(NumRows(Len(op.choices)) - 1)) :
            Goes(ReceiverP,
                 Begun(st, "u", [choices |-> [i \in 0..(wide - 1) |->
                                                i \in extra \/ (i < Len(op.choices) /\ op.choices[i + 1] = 1)],
                                 rows |-> << >>, super |-> 0]),
                 <<[kind |-> "commit", seed |-> st.call]>>)

(* u of row i: both PRNGs and the choice, and what a cheating receiver flips. *)
UOf(st, g, i, at) ==
    Xor(Xor(PrngRow(g, i, Message0), PrngRow(g, i, Message1)),
        Xor(BitTimes(st.run.choices[at], Ones),
            IF FirstExt(st) THEN { OneIn(w[2]) : w \in { v \in conf.wrong : v[1] = at } } ELSE {}))

(* One buffer of u. The rows beyond messageTemp are not kept.               *)
ReceiverSendU ==
    /\ party[ReceiverP].pc = "u"
    /\ LET st == party[ReceiverP]
           g == Object(st).gens
           run == st.run
           n == Len(Op(st).choices)
           steps == StepFrom(n, run.super)
           done == run.super * SuperRows
           keep == Least(steps * SuperRows, NumRows(n) - done)
           u == [i \in 1..(steps * SuperRows) |-> UOf(st, g, i - 1, done + i - 1)]
           rows == run.rows \o [i \in 1..keep |-> PrngRow(g, i - 1, Message0)]
       IN Goes(ReceiverP,
               [WithObject(st, [Object(st) EXCEPT !.gens = AfterSuper(g, steps)])
                  EXCEPT !.run = [run EXCEPT !.rows = rows, !.super = @ + steps],
                         !.drawn = Drew(st, g, steps),
                         !.pc = IF run.super + steps = NumSuper(n) THEN "seed" ELSE "u"],
               <<[kind |-> "u", u |-> u]>>)

(* It opens its seed only when it has the sender's; a cheat opens another.   *)
ReceiverOpen ==
    /\ party[ReceiverP].pc = "seed" /\ HasMessage(ReceiverP) /\ Message(ReceiverP).kind = "seed"
    /\ LET st == party[ReceiverP]
           own == IF conf.lies /\ FirstExt(st) THEN 0 ELSE st.call
       IN Takes(ReceiverP,
                [st EXCEPT !.pc = "offset",
                           !.run = [choices |-> @.choices, rows |-> @.rows, code |-> Message(ReceiverP).seed]],
                <<[kind |-> "open", seed |-> own]>>)

(* The sums of the check: row i times the challenge of i.                   *)
RowSum(rows) == UNION { { <<i - 1, a>> : a \in rows[i] } : i \in DOMAIN rows }
ChoiceSum(run) == { i \in 0..(Len(run.rows) - 1) : run.choices[i] }
ReceiverMessage(run, offset, i) ==
    Xor(Code(run.code, run.rows[i + 1]), BitTimes(run.choices[i], offset))
ReceiverProve ==
    /\ party[ReceiverP].pc = "offset" /\ HasMessage(ReceiverP) /\ Message(ReceiverP).kind = "offset"
    /\ LET st == party[ReceiverP]
           run == st.run
           msgs == [i \in 1..Len(Op(st).choices) |->
                        ReceiverMessage(run, Message(ReceiverP).offset, i - 1)]
       IN Takes(ReceiverP, [Returns(st) EXCEPT !.out = Append(@, [call |-> st.call, msgs |-> msgs])],
                <<[kind |-> "proof", x |-> ChoiceSum(run), t |-> RowSum(run.rows)]>>)

(* A receive or send on the socket the sender closed throws.               *)
ReceiverClosed ==
    /\ party[ReceiverP].pc # "failed" /\ HasMessage(ReceiverP) /\ Message(ReceiverP).kind = "closed"
    /\ Goes(ReceiverP, [party[ReceiverP] EXCEPT !.pc = "failed"], << >>)

---------------------------------------------------------------------------
(* The sender. run has the rows of messages and of extraBlocks it has, and   *)
(* the super blocks done.                                                  *)

SenderStart ==
    /\ About(SenderP, "ext") /\ HasMessage(SenderP) /\ Message(SenderP).kind = "commit"
    /\ Takes(SenderP,
             Begun(party[SenderP], "u",
                   [commit |-> Message(SenderP).seed, rows |-> << >>, extra |-> << >>, super |-> 0]),
             << >>)

QOf(g, u, i) == Xor(PrngRow(g, i, BaseChoice), Mask(u))

(* A super block with messages left behind it is transposed into the         *)
(* caller's messages, whose rows are wider than the columns; the others go   *)
(* through a buffer of zeros.                                              *)
Direct(n, i) == (i \div SuperRows + 1) * SuperRows < n
Stored(st, i, row) ==
    IF Direct(Len(Op(st).choices), i) /\ ~Op(st).zeroed THEN row \cup { <<0, 4, <<st.call>>, 0, i>> } ELSE row

(* The rows of the super blocks of a buffer fill messages first and then     *)
(* extraBlocks; the rest is dropped.                                       *)
Filled(st, q) ==
    LET run == st.run
        from == run.super * SuperRows - 1
        rows == [i \in DOMAIN q |-> Stored(st, from + i, q[i])]
        m == Least(Len(rows), Len(Op(st).choices) - Len(run.rows))
        x == Least(Len(rows) - m, DotBlk - Len(run.extra))
    IN [run EXCEPT !.rows = @ \o SubSeq(rows, 1, m),
                   !.extra = @ \o SubSeq(rows, m + 1, m + x)]
SenderRecvU ==
    /\ party[SenderP].pc = "u" /\ HasMessage(SenderP) /\ Message(SenderP).kind = "u"
    /\ LET st == party[SenderP]
           g == Object(st).gens
           n == Len(Op(st).choices)
           steps == StepFrom(n, st.run.super)
           u == Message(SenderP).u
           run == [Filled(st, [i \in DOMAIN u |-> QOf(g, u[i], i - 1)]) EXCEPT !.super = @ + steps]
       IN /\ Len(u) = steps * SuperRows
          /\ Takes(SenderP,
                   [WithObject(st, [Object(st) EXCEPT !.gens = AfterSuper(g, steps)])
                      EXCEPT !.run = run, !.drawn = Drew(st, g, steps),
                             !.pc = IF run.super = NumSuper(n) THEN "offset" ELSE "u"],
                   << >>)

(* The code's seed, and what corrects the compressed base choices to mDelta, *)
(* which is sampled when there is none.                                    *)
Sampled(st, o) == IF o.delta = << >> THEN [o EXCEPT !.delta = <<st.call>>] ELSE o
OffsetStale(seed, old, o) == Xor(Code(seed, Mask(Ones)), IF old.delta = << >> THEN {} ELSE Unknown(o.delta))
Offset(seed, old, o) == Xor(Code(seed, Mask(Ones)), Unknown(o.delta))
SenderOffset ==
    /\ party[SenderP].pc = "offset"
    /\ LET st == party[SenderP] o == Sampled(st, Object(st)) IN
       Goes(SenderP, [WithObject(st, o) EXCEPT !.pc = "open"],
            <<[kind |-> "seed", seed |-> <<st.call>>],
              [kind |-> "offset", offset |-> Offset(<<st.call>>, Object(st), o)]>>)

Closed == <<[kind |-> "closed"]>>
OpensAny(commit, seed) == TRUE
Opens(commit, seed) == commit = seed
SenderOpen ==
    /\ party[SenderP].pc = "open" /\ HasMessage(SenderP) /\ Message(SenderP).kind = "open"
    /\ LET st == party[SenderP] IN
       IF Opens(st.run.commit, Message(SenderP).seed)
         THEN Takes(SenderP, [st EXCEPT !.pc = "proof"], << >>)
         ELSE Takes(SenderP, [st EXCEPT !.pc = "badcommit"], Closed)

(* t = x * delta + q, over the rows of messages and then extraBlocks.       *)
AcceptsMessagesOnly(run, m) ==
    { a \in m.t : a[1] < Len(run.rows) } =
        Xor(RowSum(run.rows), { <<i, a>> : i \in m.x \cap 0..(Len(run.rows) - 1), a \in Mask(Ones) })
DotAccepts(run, m) ==
    m.t = Xor(RowSum(run.rows \o run.extra), { <<i, a>> : i \in m.x, a \in Mask(Ones) })
SenderVerify ==
    /\ party[SenderP].pc = "proof" /\ HasMessage(SenderP) /\ Message(SenderP).kind = "proof"
    /\ LET st == party[SenderP]
           zero(i) == Code(<<st.call>>, st.run.rows[i])
           msgs == [i \in 1..Len(Op(st).choices) |-> <<zero(i), Xor(zero(i), Unknown(Object(st).delta))>>]
       IN IF DotAccepts(st.run, Message(SenderP))
            THEN Takes(SenderP, [Returns(st) EXCEPT !.out = Append(@, [call |-> st.call, msgs |-> msgs])], << >>)
            ELSE Takes(SenderP, [st EXCEPT !.pc = "rejected"], Closed)

---------------------------------------------------------------------------

DotInit ==
    /\ conf \in DotConfs
    /\ party = [p \in Parties |-> Fresh]
    /\ net = EmptyNet

Ended(p) == party[p].pc \in {"failed", "rejected", "badcommit"} \/ (party[p].pc = "idle" /\ party[p].call > Len(conf.script))
DotDone == (\A p \in Parties : Ended(p)) /\ UNCHANGED vars

DotNext ==
    \/ \E p \in Parties : BaseOts(p) \/ Split(p) \/ SetDelta(p)
    \/ ReceiverStart \/ ReceiverSendU \/ ReceiverOpen \/ ReceiverProve \/ ReceiverClosed
    \/ SenderStart \/ SenderRecvU \/ SenderOffset \/ SenderOpen \/ SenderVerify
    \/ DotDone
DotSpec == DotInit /\ [][DotNext]_vars

---------------------------------------------------------------------------
(* Properties. *)

(* The correlation an extension with object obj ends with: the last one set  *)
(* or sampled.                                                             *)
DeltaFor(k) ==
    LET obj == conf.script[k].obj
        Of(op) == { j \in 1..k : conf.script[j].op = op /\ conf.script[j].obj = obj }
    IN IF Of("delta") # {} THEN <<Max(Of("delta"))>> ELSE <<Min(Of("ext"))>>

(* Whatever both parties finished is a correlated OT: the receiver's message *)
(* is the sender's of its choice, the sender's two differ by the delta of    *)
(* the object, the same for all its calls; also when n is next to a super    *)
(* block, after a split or new base OTs.                                   *)
DotOtCorrect ==
    \A j \in DOMAIN party[ReceiverP].out, k \in DOMAIN party[SenderP].out :
        LET r == party[ReceiverP].out[j] s == party[SenderP].out[k] IN
        r.call = s.call =>
            \A i \in DOMAIN r.msgs :
                /\ r.msgs[i] = s.msgs[i][conf.script[r.call].choices[i] + 1]
                /\ Xor(s.msgs[i][1], s.msgs[i][2]) = Unknown(DeltaFor(s.call))

(* The sender rejects exactly the receiver that flipped a bit of u, in a row *)
(* that is used, where its base choice is 1, or that opened another seed,    *)
(* and, whatever the receiver did, the call of its own whose buffer was not  *)
(* zero and takes a super block directly: the check then sums what the       *)
(* buffer held behind the columns.                                         *)
CheatCall == Min({ k \in DOMAIN conf.script : conf.script[k].op = "ext" })
Caught == \E w \in conf.wrong : w[2] \in conf.choices /\ w[1] < NumRows(Len(conf.script[CheatCall].choices))
Stale(k) == ~conf.script[k].zeroed /\ Len(conf.script[k].choices) > SuperRows
DotCheckExact ==
    LET st == party[SenderP] IN
    /\ st.pc = "rejected" => Stale(st.call) \/ (st.call = CheatCall /\ Caught)
    /\ st.pc = "badcommit" => st.call = CheatCall /\ conf.lies
    /\ \A k \in DOMAIN st.out :
          /\ ~Stale(st.out[k].call)
          /\ st.out[k].call = CheatCall => ~Caught /\ ~conf.lies

(* No block of a PRNG is used twice, for columns or for a split.           *)
DotPadsFresh == \A p \in Parties : IsInjective(party[p].drawn)
===========================================================================
