------------------------------ MODULE SilentVole ------------------------------
(***************************************************************************)
(* SilentVoleSender and SilentVoleReceiver: the life of one sender (party   *)
(* 0, which knows delta and gets b) and one receiver (party 1, which gets   *)
(* a = b + c * delta) over configure, the base OTs and the base VOLE, the   *)
(* PPRF, the debug and the malicious check, compression and clear. The base *)
(* OT protocols and SoftSpoken are one exchange, the PPRF one message       *)
(* (module Pprf models it).                                                *)
(***************************************************************************)
EXTENDS NoisyVole, TwoParty, SequencesExt

CONSTANTS
    VoleConfs,   \* rings, scripts of calls and what is corrupted
    VoleBits,    \* bitSize<F>()
    TreeLeaves,     \* mSizePer, the leaves of a PPRF tree
    Partitions,  \* mNumPartitions, the PPRF trees
    PprfBatch,   \* the trees that are interleaved, 8
    VoleCode     \* VoleCode[n][i]: the noise positions output i of n sums up

SilentVoleAssumption ==
    /\ TreeLeaves \in Nat \ {0} /\ Partitions \in Nat \ {0} /\ VoleBits \in Nat \ {0}
    /\ PprfBatch \in Nat \ {0} /\ Partitions % PprfBatch = 0
    /\ \A c \in VoleConfs :
         /\ c.ring \in {"integer", "gf128", "bit"} /\ c.debug \in BOOLEAN
         /\ c.points \in [1..Partitions -> 0..(TreeLeaves - 1)]
         /\ c.sampled \in [1..Partitions -> 1..(2^VoleBits - 1)]

SenderP == 0
ReceiverP == 1
Trees == 1..Partitions
NoiseSize == TreeLeaves * Partitions
Noise == 0..(NoiseSize - 1)

Q == IF conf.ring = "integer" THEN 2^VoleBits ELSE 2
MaliciousSupported == conf.ring = "gf128"
DeltaElem(delta) == FromBits(Q, BinaryDecomposition(delta, VoleBits))
Encode(n, v) == [i \in 1..n |-> Sum(Q, v, VoleCode[n][i])]

(* Blocks nobody has seen before: element j from message k of OT i of the   *)
(* base VOLE of call b; leaf p of the expansion of call b; and what a       *)
(* corrupted leaf is off by.                                               *)
OtElem(b, i, k, j) == Unknown(10000 * b + 1000 * (i + 1) + 100 * (k + 1) + j + 1)
LeafOf(b, p) == Unknown(10000 * b + p + 1)
Err(b) == Unknown(10000 * b + 99)

---------------------------------------------------------------------------
(* The objects: n is mRequestSize, configured says mState is not Default,   *)
(* base and ext are the calls that made the base OTs of the PPRF and of the *)
(* SoftSpoken extension (0 for none), delta what the sender used for them,  *)
(* closed says that the party has met the end of the socket.                *)

Fresh ==
    [pc |-> "idle", call |-> 1, configured |-> FALSE, n |-> 0, mal |-> FALSE, type |-> "extend",
     base |-> 0, ext |-> 0, delta |-> 0, closed |-> FALSE, todo |-> << >>, points |-> << >>, baseC |-> << >>,
     baseV |-> << >>, v |-> << >>, c |-> << >>, used |-> << >>, out |-> << >>]

(* configure; mal is mMalType, a public member that the application sets      *)
(* before it calls.  A new configuration drops the base OTs of the PPRF.    *)
Configured(st, n, mal, type) ==
    [st EXCEPT !.configured = TRUE, !.n = n, !.mal = mal, !.type = type, !.base = 0]
(* clear drops the vectors, the points and the base OTs of the PPRF; mState   *)
(* is back to Default by then.                                             *)
Cleared(st) == [st EXCEPT !.base = 0, !.v = << >>, !.c = << >>, !.points = << >>]
Op(st) == conf.script[st.call]
About(p, ops) == /\ party[p].pc = "idle" /\ party[p].call <= Len(conf.script)
                 /\ Op(party[p]).op \in ops
Fails(st) == [st EXCEPT !.pc = "failed"]
Close == <<[kind |-> "close"]>>

(* silentSendInplace and silentReceiveInplace configure an object that is   *)
(* not, for SilentBaseType::BaseExtend.                                    *)
Entered(st) ==
    IF Op(st).op \in {"run", "inplace"} /\ ~st.configured
      THEN Configured(st, Op(st).n, st.mal, "extend") ELSE st
MustGenerate(st) == Op(st).op = "gen" \/ st.base = 0
Rejected(p, st) ==
    \/ Op(st).op = "gen" /\ ~st.configured
    \/ Op(st).op \in {"run", "inplace"} /\ st.n < Op(st).n
    \/ p = ReceiverP /\ MustGenerate(st) /\ st.mal /\ ~MaliciousSupported

Configure(p) ==
    /\ About(p, {"configure"})
    /\ LET st == party[p] op == Op(st) IN
       Goes(p, [Configured(st, op.n, op.mal, op.type) EXCEPT !.call = @ + 1], << >>)
Reject(p) ==
    /\ About(p, {"gen", "run", "inplace"}) /\ Rejected(p, Entered(party[p]))
    /\ Goes(p, Fails(party[p]), Close)

(* Messages of the base VOLE travel on a socket of their own when it runs   *)
(* beside the base OTs.                                                    *)
Stream(m) == IF m.kind \in {"voleOt", "vole"} THEN "vole" ELSE "main"
Arrived(p, kind) ==
    { k \in DOMAIN net[p] : /\ net[p][k].kind = kind /\ (party[p].closed => kind = "close")
                            /\ \A j \in 1..(k - 1) : Stream(net[p][j]) # Stream(net[p][k]) }
Accepts(p, k, st, ms) ==
    /\ party' = [party EXCEPT ![p] = st]
    /\ net' = [net EXCEPT ![p] = RemoveAt(@, k), ![Peer(p)] = @ \o ms]
    /\ UNCHANGED conf

(* After the base: gen returns, a run goes on to the PPRF.                 *)
BaseCount(st) == Partitions + (IF st.mal THEN 1 ELSE 0)
(* The first time that the base OTs are extended, base OTs for the other    *)
(* direction come with them, and the base VOLE waits for these.             *)
InSequence(st) == st.type = "extend" /\ st.ext = 0
WithExt(st) == IF st.type = "extend" /\ st.ext = 0 THEN [st EXCEPT !.ext = st.call] ELSE st
Awaits(p, what) == party[p].pc = "gen" /\ what \in Range(party[p].todo)
BaseSet(st) ==
    LET set == [st EXCEPT !.todo = << >>, !.base = st.call] IN
    IF Op(st).op = "gen" THEN [set EXCEPT !.pc = "idle", !.call = @ + 1] ELSE [set EXCEPT !.pc = "expand"]
DoneWith(st, what) ==
    LET left == SelectSeq(st.todo, LAMBDA t : t # what) IN
    IF left # << >> THEN [st EXCEPT !.todo = left] ELSE BaseSet(st)
(* when_all_ready hands back how each of the two protocols ended, and       *)
(* nobody looks: when both run side by side, what a closed socket left in   *)
(* the buffers is set as the base.                                         *)
Unheeded(st) == st.pc = "gen" /\ ~(st.type = "extend" /\ st.ext \in {0, st.call})

---------------------------------------------------------------------------
(* genSilentBaseOts of the sender. *)

AskVole == <<[kind |-> "voleOt"]>>
SendGenerate ==
    /\ About(SenderP, {"gen", "run", "inplace"})
    /\ LET st == Entered(party[SenderP])
           begun == [st EXCEPT !.pc = "gen", !.delta = Op(st).delta]
       IN /\ ~Rejected(SenderP, st) /\ MustGenerate(st)
          /\ IF InSequence(st)
               THEN Goes(SenderP, [begun EXCEPT !.todo = <<"ot", "vole">>], << >>)
               ELSE Goes(SenderP, [begun EXCEPT !.todo = <<"ot", "vole">>], AskVole)
SendOts ==
    /\ Awaits(SenderP, "ot")
    /\ \E k \in Arrived(SenderP, "ot") :
         LET st == party[SenderP] IN
         Accepts(SenderP, k, DoneWith(WithExt(st), "ot"),
                 <<[kind |-> "otAck"]>> \o (IF InSequence(st) THEN AskVole ELSE << >>))
(* The elements that the base VOLE makes of its OTs.                        *)
OtElems(st) ==
    [i \in 0..(VoleBits - 1) |-> [m \in 0..1 |-> [j \in 0..(BaseCount(st) - 1) |-> OtElem(st.call, i, m, j)]]]
(* NoisyVoleSender, and setSilentBaseOts which keeps -b.                    *)
KeptPositive(b) == b
Kept(b) == [j \in DOMAIN b |-> Minus(Q, ZeroElem, b[j])]
SendVole ==
    /\ Awaits(SenderP, "vole")
    /\ \E k \in Arrived(SenderP, "vole") :
         LET st == party[SenderP]
             b == NoisyB(Q, BinaryDecomposition(st.delta, VoleBits), BaseCount(st),
                         OtElems(st), net[SenderP][k].msg)
         IN Accepts(SenderP, k, DoneWith([st EXCEPT !.baseV = Kept(b)], "vole"), << >>)

---------------------------------------------------------------------------
(* genSilentBaseOts of the receiver. *)

(* sampleBaseVoleVals: what the comments call odd noise has one added when   *)
(* it is odd.                                                              *)
NoiseValue(i) ==
    IF conf.ring = "bit" THEN Scalar(Q, 1)
    ELSE IF conf.ring = "gf128" THEN NoiseVar(i)
    ELSE LET x == conf.sampled[i] IN Scalar(Q, IF x % 2 = 1 THEN x + 1 ELSE x)
PointLeafOrder(i) == (i - 1) * TreeLeaves + conf.points[i]
(* getPoints of the interleaved format.                                    *)
Point(i) ==
    LET batch == (i - 1) \div PprfBatch IN
    ((batch * TreeLeaves + conf.points[i]) * PprfBatch) + ((i - 1) % PprfBatch)
(* The value of the check: the sum of X^(s + 1) times the noise at s.       *)
CheckValue(points, noise) ==
    Sum(Q, [i \in Trees |-> Times(Q, Challenge(points[i] + 1), noise[i])], Trees)
Sampled(st) ==
    LET noise == [i \in Trees |-> NoiseValue(i)]
        points == [i \in Trees |-> Point(i)]
    IN [st EXCEPT !.points = points,
                  !.baseC = IF st.mal THEN Append(noise, CheckValue(points, noise)) ELSE noise]
ReceiveGenerate ==
    /\ About(ReceiverP, {"gen", "run", "inplace"})
    /\ LET st == Entered(party[ReceiverP]) IN
       /\ ~Rejected(ReceiverP, st) /\ MustGenerate(st)
       /\ Goes(ReceiverP, Sampled([st EXCEPT !.pc = "gen", !.todo = <<"ot", "vole">>]),
               <<[kind |-> "ot"]>>)
ReceiveOts ==
    /\ Awaits(ReceiverP, "ot")
    /\ \E k \in Arrived(ReceiverP, "otAck") :
         Accepts(ReceiverP, k, DoneWith(WithExt(party[ReceiverP]), "ot"), << >>)
(* NoisyVoleReceiver.                                                      *)
ReceiveVole ==
    /\ Awaits(ReceiverP, "vole") /\ (InSequence(party[ReceiverP]) => ~Awaits(ReceiverP, "ot"))
    /\ \E k \in Arrived(ReceiverP, "voleOt") :
         LET st == party[ReceiverP]
             size == BaseCount(st)
             ot == OtElems(st)
             c == [j \in 0..(size - 1) |-> st.baseC[j + 1]]
         IN Accepts(ReceiverP, k,
                DoneWith([st EXCEPT !.baseV = NoisyA(Q, VoleBits, size, ot)], "vole"),
                <<[kind |-> "vole", msg |-> NoisyMessage(Q, VoleBits, size, ot, c)]>>)

---------------------------------------------------------------------------
(* silentSend and silentSendInplace. *)

SendSkipGenerate ==
    /\ About(SenderP, {"run", "inplace"})
    /\ LET st == Entered(party[SenderP]) IN
       /\ ~Rejected(SenderP, st) /\ ~MustGenerate(st)
       /\ Goes(SenderP, [st EXCEPT !.pc = "expand"], << >>)

(* Compression to mRequestSize, back to State::Default; silentSend and      *)
(* silentReceive copy what was asked for and clear.                         *)
Result(st, v, c) ==
    LET size == IF Op(st).op = "inplace" THEN st.n ELSE Op(st).n IN
    [v |-> SubSeq(v, 1, size), c |-> IF c = << >> THEN c ELSE SubSeq(c, 1, size)]
Finished(st) ==
    LET v == Encode(st.n, st.v)
        c == IF st.c = << >> THEN << >> ELSE Encode(st.n, st.c)
        done == [st EXCEPT !.pc = "idle", !.call = @ + 1, !.configured = FALSE, !.v = v, !.c = c,
                           !.baseV = << >>, !.baseC = << >>,
                           !.out = Append(@, [op |-> Op(st).op, call |-> st.call] @@ Result(st, v, c))]
    IN IF Op(st).op = "inplace" THEN done ELSE Cleared(done)

Leaves(b) == [p \in Noise |-> LeafOf(b, p)]
(* The PPRF drops its base OTs at the end of expand.                        *)
AfterPprf(st) == [st EXCEPT !.used = Append(@, st.base), !.base = 0]
SendExpand ==
    /\ party[SenderP].pc = "expand" /\ ~party[SenderP].closed
    /\ LET st == party[SenderP]
           v == Leaves(st.call)
           next == AfterPprf([st EXCEPT !.v = v])
           pprf == [kind |-> "pprf", base |-> st.base, values |-> [i \in Trees |-> st.baseV[i - 1]]]
           debug == [kind |-> "debug", delta |-> Op(st).delta, v |-> v, base |-> st.baseV]
       IN Goes(SenderP, IF st.mal THEN [next EXCEPT !.pc = "challenge"] ELSE Finished(next),
               IF conf.debug THEN <<pprf, debug>> ELSE <<pprf>>)

(* ferretMalCheck: the sum of X^(i + 1) times element i, and the last of    *)
(* the base VOLE.                                                          *)
PolySum(v) == Sum(Q, [p \in Noise |-> Times(Q, Challenge(p + 1), v[p])], Noise)
CheckHash(st) == Plus(Q, PolySum(st.v), st.baseV[Partitions])
SendHash ==
    /\ party[SenderP].pc = "challenge"
    /\ \E k \in Arrived(SenderP, "seed") :
         Accepts(SenderP, k, Finished(party[SenderP]),
                 <<[kind |-> "hash", sum |-> CheckHash(party[SenderP])]>>)

---------------------------------------------------------------------------
(* silentReceive and silentReceiveInplace. *)

ReceiveSkipGenerate ==
    /\ About(ReceiverP, {"run", "inplace"})
    /\ LET st == Entered(party[ReceiverP]) IN
       /\ ~Rejected(ReceiverP, st) /\ ~MustGenerate(st)
       /\ Goes(ReceiverP, [st EXCEPT !.pc = "expand"], << >>)

(* Position p of the interleaved output: a batch of trees side by side, one *)
(* leaf after the other.                                                   *)
TreeAt(p) == (((p \div (PprfBatch * TreeLeaves)) * PprfBatch) + (p % PprfBatch)) + 1
LeafAt(p) == (p \div PprfBatch) % TreeLeaves
(* The PPRF gives the sender's leaves, and at the punctured one of a tree   *)
(* the value it was programmed with in addition; wrong with OTs of another  *)
(* base or a corrupted message.                                            *)
PprfOutput(st, m) ==
    [p \in Noise |->
        LET right == IF LeafAt(p) = conf.points[TreeAt(p)]
                       THEN Plus(Q, LeafOf(st.call, p), m.values[TreeAt(p)])
                       ELSE LeafOf(st.call, p)
        IN IF m.base # st.base \/ <<st.call, p>> \in conf.bad THEN Plus(Q, right, Err(st.call)) ELSE right]
(* The receiver puts its part of the base VOLE on the points.               *)
Populated(st, v) ==
    LET at(p) == { i \in Trees : st.points[i] = p } IN
    [st EXCEPT !.v = [p \in Noise |-> Plus(Q, v[p], Sum(Q, [i \in Trees |-> st.baseV[i - 1]], at(p)))],
               !.c = [p \in Noise |-> Sum(Q, st.baseC, at(p))]]
AfterChecks(st) ==
    IF st.mal THEN [st EXCEPT !.pc = "hash"] ELSE Finished(st)
SeedFor(st) == IF st.mal THEN <<[kind |-> "seed"]>> ELSE << >>
ReceiveExpand ==
    /\ party[ReceiverP].pc = "expand"
    /\ \E k \in Arrived(ReceiverP, "pprf") :
         LET st == party[ReceiverP]
             next == AfterPprf(Populated(st, PprfOutput(st, net[ReceiverP][k])))
         IN IF conf.debug THEN Accepts(ReceiverP, k, [next EXCEPT !.pc = "debug"], << >>)
            ELSE Accepts(ReceiverP, k, AfterChecks(next), SeedFor(next))

(* checkRT: the base VOLE, points that differ, the noise on them and nowhere *)
(* else, and the sparse correlation, for the delta the sender says it has.  *)
SparseOnly(st, m) ==
    \A p \in Noise : st.v[p] = Plus(Q, m.v[p], Times(Q, DeltaElem(m.delta), st.c[p]))
CheckRT(st, m) ==
    /\ \A j \in DOMAIN st.baseV :
         Plus(Q, m.base[j], st.baseV[j]) = Times(Q, DeltaElem(m.delta), st.baseC[j + 1])
    /\ \A i \in Trees : st.c[st.points[i]] = st.baseC[i]
    /\ \A i, j \in Trees : i # j => st.points[i] # st.points[j]
    /\ \A p \in Noise : st.c[p] = ZeroElem \/ p \in Range(st.points)
    /\ SparseOnly(st, m)
ReceiveDebug ==
    /\ party[ReceiverP].pc = "debug"
    /\ \E k \in Arrived(ReceiverP, "debug") :
         LET st == party[ReceiverP] IN
         IF CheckRT(st, net[ReceiverP][k]) THEN Accepts(ReceiverP, k, AfterChecks(st), SeedFor(st))
         ELSE Accepts(ReceiverP, k, Fails(st), Close)

HashAccepted(st, m) == TRUE
HashMatches(st, m) == m.sum = CheckHash(st)
ReceiveHash ==
    /\ party[ReceiverP].pc = "hash"
    /\ \E k \in Arrived(ReceiverP, "hash") :
         LET st == party[ReceiverP] IN
         IF HashMatches(st, net[ReceiverP][k]) THEN Accepts(ReceiverP, k, Finished(st), << >>)
         ELSE Accepts(ReceiverP, k, Fails(st), Close)

---------------------------------------------------------------------------
(* A call on a closed socket fails, unless its failure goes unheeded.      *)
SeeClosed(p) ==
    /\ party[p].pc \notin {"idle", "failed"} /\ ~Unheeded(party[p])
    /\ \E k \in Arrived(p, "close") : Accepts(p, k, Fails(party[p]), << >>)
PassClosed(p) ==
    /\ Unheeded(party[p]) /\ Arrived(p, "close") # {}
    /\ Goes(p, [BaseSet(party[p]) EXCEPT !.closed = TRUE], << >>)

VoleInit ==
    /\ conf \in VoleConfs
    /\ party = [p \in Parties |-> Fresh]
    /\ net = EmptyNet

Failed(p) == party[p].pc = "failed"
VoleEnded(p) ==
    \/ Failed(p)
    \/ party[p].pc = "idle" /\ (party[p].call > Len(conf.script) \/ Failed(Peer(p)))
VoleFinished == \A p \in Parties : VoleEnded(p)
VoleDone == VoleFinished /\ UNCHANGED vars

VoleNext ==
    \/ \E p \in Parties : Configure(p) \/ Reject(p) \/ SeeClosed(p) \/ PassClosed(p)
    \/ SendGenerate \/ SendOts \/ SendVole \/ SendSkipGenerate \/ SendExpand \/ SendHash
    \/ ReceiveGenerate \/ ReceiveOts \/ ReceiveVole \/ ReceiveSkipGenerate \/ ReceiveExpand
    \/ ReceiveDebug \/ ReceiveHash
    \/ VoleDone
VoleSpec == VoleInit /\ [][VoleNext]_vars

---------------------------------------------------------------------------
(* Properties. *)

BothOut == DOMAIN party[SenderP].out \cap DOMAIN party[ReceiverP].out
BadCall(call) == \E b \in conf.bad : b[1] = call

(* What a call gives both parties is a VOLE: a = b + c * delta in the ring,  *)
(* element for element, with the delta of the base VOLE it came from and    *)
(* the c that the code makes of the receiver's noise, whatever calls came   *)
(* before and however the base was generated.                               *)
BaseDelta(k) == conf.script[party[SenderP].used[k]].delta
VoleCorrect ==
    \A k \in BothOut :
        LET b == party[SenderP].out[k] a == party[ReceiverP].out[k] IN
        ~BadCall(a.call) =>
            /\ Len(a.v) = Len(b.v) /\ Len(a.c) = Len(a.v)
            /\ \A i \in DOMAIN a.v : a.v[i] = Plus(Q, b.v[i], Times(Q, DeltaElem(BaseDelta(k)), a.c[i]))

(* The checks: no output of a corrupted expansion under malicious security  *)
(* or debug, none from another delta than the one passed under debug; and    *)
(* without these, and but for calls the code rejects, nobody fails.         *)
OtherDelta(k) == BaseDelta(k) # conf.script[party[SenderP].out[k].call].delta
VoleChecksExact ==
    /\ \A k \in DOMAIN party[ReceiverP].out :
         (party[ReceiverP].mal \/ conf.debug) => ~BadCall(party[ReceiverP].out[k].call)
    /\ \A k \in BothOut : conf.debug => ~OtherDelta(k)
    /\ (\E p \in Parties : Failed(p)) =>
         \/ \E p \in Parties : Failed(p) /\ Rejected(p, Entered(party[p]))
         \/ BadCall(party[ReceiverP].call) /\ (party[ReceiverP].mal \/ conf.debug)
         \/ conf.debug /\ Len(party[ReceiverP].used) > 0
              /\ BaseDelta(Len(party[ReceiverP].used)) # conf.script[party[ReceiverP].call].delta
===========================================================================
