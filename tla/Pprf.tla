------------------------------- MODULE Pprf -------------------------------
(***************************************************************************)
(* The regular punctured PRF of RegularPprfSender / RegularPprfReceiver:    *)
(* `trees` GGM trees of `domain` leaves, expanded Batch at a time, with one *)
(* pair of masked sums per tree and level and one leaf message per tree.    *)
(* The receiver reconstructs every leaf but the punctured one of each tree. *)
(*                                                                         *)
(* A block is a formal sum (XorAlgebra) of                                 *)
(*   <<0, x>>, <<1, x>>     the left and right inner child of block x      *)
(*   <<4, x>>, <<5, x>>     the left and right leaf child of block x       *)
(*   <<2, t>>               the root of tree t                             *)
(*   <<3, t, j, b>>         mBaseOTs(t, j)[b]                              *)
(*   <<6, t, b, pos>>       element pos of the PRNG keyed mBaseOTs(t,0)[b] *)
(*   <<7, v>>               the v-th value of setValue                     *)
(***************************************************************************)
EXTENDS XorAlgebra, Sequences

CONSTANTS
    Confs,    \* the configurations the two parties may agree on
    Batch     \* 8, the trees expanded at a time

Formats == {"leaf", "tree", "inter", "callback"}

ASSUME PprfAssumption ==
    /\ Batch \in Nat \ {0}
    /\ \A c \in Confs :
          /\ c.domain \in Nat \ {0} /\ c.domain % 2 = 0   \* configure throws otherwise
          /\ c.trees \in Nat \ {0} /\ c.values \in Nat
          /\ c.eager \in BOOLEAN /\ c.program \in BOOLEAN
          /\ c.sFormat \in Formats /\ c.rFormat \in Formats

VARIABLES
    conf,     \* configure's arguments and those of expand
    points,   \* mBaseChoices: the punctured leaf of each tree
    sPc, sTree, sOut, sBase,
    sBuff,    \* buff: what the sender has filled and not sent
    rPc, rTree, rOut, rBase,
    rBuff,    \* buff: what the receiver has received and not used up
    chan,     \* the socket, sender to receiver
    closed,
    masked    \* history: every masked element that went into the socket

sendVars == <<sPc, sTree, sOut, sBase, sBuff>>
recvVars == <<rPc, rTree, rOut, rBase, rBuff>>
vars == <<conf, points, sendVars, recvVars, chan, closed, masked>>

---------------------------------------------------------------------------
Domain == conf.domain
Trees == conf.trees
Depth == Log2Ceil(Domain)

(* The number of parents in level d.                                       *)
Width(d) == DivCeil(Domain, 2^(Depth - d))

PathBit(t, j) == (points[t] \div 2^j) % 2
Key(t, j, b) == { <<3, t, j, b>> }
KeyHeld(t, j) == Key(t, j, PathBit(t, j))
LeafPad(t, b, pos) == { <<6, t, b, pos>> }

Inner(side, x) == { <<side, x>> }
Leaf(side, x) == { <<4 + side, x>> }

Children(level, d) == [i \in 0..(2 * Width(d) - 1) |-> Inner(i % 2, level[i \div 2])]
Leaves(level) == [i \in 0..(Domain - 1) |-> Leaf(i % 2, level[i \div 2])]
SideSum(level, side) == XorSum(level, { i \in DOMAIN level : i % 2 = side })

Rem(tree) == IF Trees - tree < Batch THEN Trees - tree ELSE Batch
NumBatches == DivCeil(Trees, Batch)

---------------------------------------------------------------------------
OutIdxNoBase(format, t, i) ==
    CASE format = "leaf" -> Trees * i + t
      [] format = "tree" -> t * Domain + i
      [] OTHER -> t * Domain + i * Batch + (t % Batch)
(* Where leaf i of tree t is put in the output: copyOut, or for interleaved *)
(* output the leaf level itself; the callback sees the interleaved layout. *)
OutIdx(format, t, i) ==
    CASE format = "leaf" -> Trees * i + t
      [] format = "tree" -> t * Domain + i
      [] OTHER -> (t - (t % Batch)) * Domain + i * Batch + (t % Batch)
OutSize(format) == Domain * (IF format = "callback" THEN RoundUpTo(Trees, Batch) ELSE Trees)

(* getPoints: the output position for the interleaved formats, the leaf     *)
(* otherwise.                                                              *)
PointsBatchwise(t) == (t \div Batch) * Domain + points[t] * Batch + (t % Batch)
Points(t) ==
    IF conf.rFormat \in {"inter", "callback"}
      THEN ((t \div Batch) * Domain + points[t]) * Batch + (t % Batch)
      ELSE points[t]

ValidFormat(format) == format = "inter" => Trees % Batch = 0
ValidValues == conf.program => conf.values \in {1, Trees}
ValueOf(t) == { <<7, IF conf.values = 1 THEN 0 ELSE t>> }

---------------------------------------------------------------------------
(* The sender's tree t: its levels, and what is sent for it.               *)

SendLevels(t) ==
    LET level[d \in 0..(Depth - 1)] ==
            IF d = 0 THEN [i \in {0} |-> { <<2, t>> }] ELSE Children(level[d - 1], d - 1)
    IN level

OtIdxShared(d) == IF d = 0 THEN Depth - 1 ELSE Depth - d
(* The base OT that serves level d.                                        *)
OtIdx(d) == Depth - 1 - d

(* The two sums of level d, each masked by the base OT message the receiver *)
(* has when the other side is active.                                      *)
EncSumSwapped(t, d) ==
    LET level == SendLevels(t)[d + 1] IN
    [side \in {0, 1} |-> Xor(SideSum(level, side), Key(t, OtIdx(d), side))]
EncSum(t, d) ==
    LET level == SendLevels(t)[d + 1] IN
    [side \in {0, 1} |-> Xor(SideSum(level, side), Key(t, OtIdx(d), 1 - side))]

SendLeaves(t) == Leaves(SendLevels(t)[Depth - 1])

(* The OT message k of the leaf level: m0 = (s0, s1 + val) and              *)
(* m1 = (s0 + val, s1) when the punctured point is programmed, else s_k.    *)
LeafMsg(t, k) ==
    LET sum == [side \in {0, 1} |-> SideSum(SendLeaves(t), side)] IN
    IF conf.program
      THEN [e \in {0, 1} |->
              Xor(IF e = k THEN sum[e] ELSE Xor(sum[e], ValueOf(t)), LeafPad(t, 1 - k, e))]
      ELSE [e \in {0} |-> Xor(sum[k], LeafPad(t, 1 - k, 0))]

(* The elements of encSums and leafMsgs of the batch that starts at tree,   *)
(* in the order they are written.                                          *)
EncSums(tree) ==
    [p \in 0..((Depth - 1) * Rem(tree) - 1) |-> EncSum(tree + (p % Rem(tree)), p \div Rem(tree))]
LeafMsgs(tree) ==
    [p \in 0..(2 * Rem(tree) - 1) |-> LeafMsg(tree + (p \div 2), p % 2)]

(* Appending one batch's part to a buffer that holds the earlier ones.      *)
Concat(f, g) ==
    [p \in 0..(Cardinality(DOMAIN f) + Cardinality(DOMAIN g) - 1) |->
        IF p \in DOMAIN f THEN f[p] ELSE g[p - Cardinality(DOMAIN f)]]
EmptyBuff == [sums |-> << >>, leaf |-> << >>]
Emitted(buff) ==
    { buff.sums[p][side] : p \in DOMAIN buff.sums, side \in {0, 1} }
    \cup UNION { { buff.leaf[p][e] : e \in DOMAIN buff.leaf[p] } : p \in DOMAIN buff.leaf }

---------------------------------------------------------------------------
(* The receiver's tree t, from the sums and the leaf message it was sent    *)
(* (theirs[d] and msg): active nodes are held as ZeroBlock, and the sum     *)
(* starts at the child of ZeroBlock so that their children cancel.         *)

SumStart(side) == Inner(side, ZeroBlock)
LeafSumStart(side) == Leaf(side, ZeroBlock)

RecvLevels(t, theirs) ==
    LET level[d \in 1..(Depth - 1)] ==
            IF d = 1
              THEN LET active == PathBit(t, Depth - 1) IN
                   [i \in {0, 1} |->
                       IF i = active THEN ZeroBlock ELSE Xor(KeyHeld(t, Depth - 1), theirs[0][i])]
              ELSE LET raw == Children(level[d - 1], d - 1)
                       missing == points[t] \div 2^(Depth - d)
                       notAi == 1 - (missing % 2)
                       sibling == missing - (missing % 2) + notAi
                   IN [i \in DOMAIN raw |->
                         CASE i = sibling -> Xor(Xor(theirs[d - 1][notAi],
                                                     Xor(SideSum(raw, notAi), SumStart(notAi))),
                                                 KeyHeld(t, OtIdx(d - 1)))
                           [] i = missing -> ZeroBlock
                           [] OTHER -> raw[i]]
    IN level

(* For a tree of depth 1 no leaf is known before the leaf message.         *)
RecvRaw(t, theirs) ==
    IF Depth > 1 THEN Leaves(RecvLevels(t, theirs)[Depth - 1])
                 ELSE [i \in 0..(Domain - 1) |-> ZeroBlock]
RecvLeafSum(raw, side) ==
    IF Depth > 1 THEN Xor(SideSum(raw, side), LeafSumStart(side)) ELSE ZeroBlock

RecvLeaves(t, theirs, msgs) ==
    LET raw == RecvRaw(t, theirs)
        active == points[t]
        notAi == 1 - (active % 2)
        msg == msgs[notAi]
        held(e) == Xor(msg[e], LeafPad(t, PathBit(t, 0), e))
        base == active - (active % 2)
    IN IF conf.program
         THEN [raw EXCEPT ![base]     = Xor(held(0), RecvLeafSum(raw, 0)),
                          ![base + 1] = Xor(held(1), RecvLeafSum(raw, 1))]
         ELSE [raw EXCEPT ![base + notAi] = Xor(held(0), RecvLeafSum(raw, notAi)),
                          ![active] = ZeroBlock]

---------------------------------------------------------------------------
BlankOut(format) == [p \in 0..(OutSize(format) - 1) |-> ZeroBlock]

PointSpaceRounded == 0..(2^Depth - 1)
(* sampleChoiceBits: prng.get() % mDomain                                  *)
PointSpace == 0..(Domain - 1)

(* Both parties have configured and set their base OTs for the points the   *)
(* receiver sampled, and call expand.                                      *)
Init ==
    /\ conf \in Confs
    /\ points \in [0..(Trees - 1) -> PointSpace]
    /\ sPc = "start" /\ rPc = "start"
    /\ sTree = 0 /\ rTree = 0
    /\ sBase = TRUE /\ rBase = TRUE
    /\ sOut = BlankOut(conf.sFormat) /\ rOut = BlankOut(conf.rFormat)
    /\ sBuff = EmptyBuff /\ rBuff = EmptyBuff
    /\ chan = << >> /\ closed = FALSE /\ masked = << >>

(* Writing the leaves of the batch that starts at tree to the output.      *)
CopyOut(out, format, tree, leaves) ==
    LET written == (tree..(tree + Rem(tree) - 1)) \X (0..(Domain - 1)) IN
    [p \in DOMAIN out |->
        IF \E ti \in written : OutIdx(format, ti[1], ti[2]) = p
          THEN LET ti == CHOOSE ti \in written : OutIdx(format, ti[1], ti[2]) = p
               IN leaves[ti[1]][ti[2]]
          ELSE out[p]]

SendStart ==
    /\ sPc = "start"
    /\ IF ValidValues /\ ValidFormat(conf.sFormat)
         THEN sPc' = "run" /\ UNCHANGED closed
         ELSE sPc' = "failed" /\ closed' = TRUE
    /\ UNCHANGED <<conf, points, sTree, sOut, sBase, sBuff, recvVars, chan, masked>>

(* One turn of expand's loop.                                              *)
SendBatch ==
    /\ sPc = "run" /\ sTree < Trees
    /\ LET part == [sums |-> EncSums(sTree), leaf |-> LeafMsgs(sTree)]
           buff == [sums |-> Concat(sBuff.sums, part.sums), leaf |-> Concat(sBuff.leaf, part.leaf)]
       IN IF conf.eager
            THEN /\ ~closed
                 /\ chan' = Append(chan, part)
                 /\ masked' = Append(masked, Emitted(part))
                 /\ UNCHANGED sBuff
            ELSE sBuff' = buff /\ UNCHANGED <<chan, masked>>
    /\ sOut' = CopyOut(sOut, conf.sFormat, sTree, [t \in sTree..(sTree + Rem(sTree) - 1) |-> SendLeaves(t)])
    /\ sTree' = sTree + Batch
    /\ UNCHANGED <<conf, points, sPc, sBase, recvVars, closed>>

(* The end of expand: the one message of the lazy mode, and the base OTs    *)
(* are gone.                                                               *)
SendEnd ==
    /\ sPc = "run" /\ sTree >= Trees
    /\ IF conf.eager THEN UNCHANGED <<chan, masked, sBuff>>
         ELSE /\ ~closed
              /\ chan' = Append(chan, sBuff) /\ masked' = Append(masked, Emitted(sBuff))
              /\ sBuff' = EmptyBuff
    /\ sBase' = FALSE
    /\ sPc' = "done"
    /\ UNCHANGED <<conf, points, sTree, sOut, recvVars, closed>>

(* A send on a socket the receiver has closed throws.                      *)
SendClosed ==
    /\ sPc = "run" /\ closed
    /\ conf.eager <=> sTree < Trees
    /\ sPc' = "failed"
    /\ UNCHANGED <<conf, points, sTree, sOut, sBase, sBuff, recvVars, chan, closed, masked>>

RecvStart ==
    /\ rPc = "start"
    /\ IF ValidFormat(conf.rFormat)
         THEN /\ rPc' = IF conf.eager THEN "run" ELSE "wait"
              /\ UNCHANGED closed
         ELSE rPc' = "failed" /\ closed' = TRUE
    /\ UNCHANGED <<conf, points, sendVars, rTree, rOut, rBase, rBuff, chan, masked>>

(* The lazy mode receives everything before the first tree.                *)
RecvAll ==
    /\ rPc = "wait" /\ chan # << >>
    /\ rBuff' = Head(chan)
    /\ chan' = Tail(chan)
    /\ rPc' = "run"
    /\ UNCHANGED <<conf, points, sendVars, rTree, rOut, rBase, closed, masked>>

EncOffsetStuck(tree) == 0
(* The running encOffset and leafOffset when the batch that starts at tree  *)
(* is expanded.                                                            *)
EncOffset(tree) == IF conf.eager THEN 0 ELSE tree * (Depth - 1)
LeafOffset(tree) == IF conf.eager THEN 0 ELSE tree * 2

RecvBatch ==
    /\ rPc = "run" /\ rTree < Trees
    /\ conf.eager => chan # << >>
    /\ LET buff == IF conf.eager THEN Head(chan) ELSE rBuff
           lanes == 0..(Rem(rTree) - 1)
           theirs(j) == [d \in 0..(Depth - 2) |-> buff.sums[EncOffset(rTree) + d * Rem(rTree) + j]]
           msgs(j) == [k \in {0, 1} |-> buff.leaf[LeafOffset(rTree) + 2 * j + k]]
       IN rOut' = CopyOut(rOut, conf.rFormat, rTree,
                     [t \in rTree..(rTree + Rem(rTree) - 1) |->
                         RecvLeaves(t, theirs(t - rTree), msgs(t - rTree))])
    /\ chan' = IF conf.eager THEN Tail(chan) ELSE chan
    /\ rTree' = rTree + Batch
    /\ UNCHANGED <<conf, points, sendVars, rPc, rBase, rBuff, closed, masked>>

RecvEnd ==
    /\ rPc = "run" /\ rTree >= Trees
    /\ rBase' = FALSE /\ rBuff' = EmptyBuff
    /\ rPc' = "done"
    /\ UNCHANGED <<conf, points, sendVars, rTree, rOut, chan, closed, masked>>

RecvClosedLazy ==
    /\ rPc = "wait" /\ closed /\ chan = << >>
    /\ rPc' = "failed"
    /\ UNCHANGED <<conf, points, sendVars, rTree, rOut, rBase, rBuff, chan, closed, masked>>
(* So does a receive on a closed socket that has nothing left.             *)
RecvClosed ==
    /\ rPc \in {"wait", "run"} /\ closed /\ chan = << >>
    /\ rPc = "wait" \/ (conf.eager /\ rTree < Trees)
    /\ rPc' = "failed"
    /\ UNCHANGED <<conf, points, sendVars, rTree, rOut, rBase, rBuff, chan, closed, masked>>

Finished == sPc \in {"done", "failed"} /\ rPc \in {"done", "failed"}
Done == Finished /\ UNCHANGED vars

SendNext == SendStart \/ SendBatch \/ SendEnd \/ SendClosed
RecvNext == RecvStart \/ RecvAll \/ RecvBatch \/ RecvEnd \/ RecvClosed
Next == SendNext \/ RecvNext \/ Done

Spec == Init /\ [][Next]_vars
FairSpec == Spec /\ WF_vars(SendNext) /\ WF_vars(RecvNext)

---------------------------------------------------------------------------
(* Properties. *)

TypeOK ==
    /\ conf \in Confs /\ points \in [0..(Trees - 1) -> 0..(Domain - 1)]
    /\ sPc \in {"start", "run", "done", "failed"}
    /\ rPc \in {"start", "wait", "run", "done", "failed"}
    /\ sTree \in 0..RoundUpTo(Trees, Batch) /\ rTree \in 0..RoundUpTo(Trees, Batch)
    /\ DOMAIN sOut = 0..(OutSize(conf.sFormat) - 1)
    /\ DOMAIN rOut = 0..(OutSize(conf.rFormat) - 1)
    /\ Len(chan) <= NumBatches /\ Len(masked) <= NumBatches
    /\ {sBase, rBase, closed} \subseteq BOOLEAN

(* The trees both parties have written.                                    *)
Common == { t \in 0..(Trees - 1) : t < sTree /\ t < rTree }

(* Whatever the domain, the number of trees, the order in which the parties *)
(* run and the way the messages are framed: the receiver's output is the    *)
(* sender's at every position but the punctured one of each tree, where it  *)
(* is off by the programmed value, or zero.                                *)
Punctured(t) ==
    IF conf.program THEN Xor(sOut[OutIdx(conf.sFormat, t, points[t])], ValueOf(t)) ELSE ZeroBlock
PprfCorrect ==
    \A t \in Common : \A i \in 0..(Domain - 1) :
        rOut[OutIdx(conf.rFormat, t, i)] =
            IF i = points[t] THEN Punctured(t) ELSE sOut[OutIdx(conf.sFormat, t, i)]

(* In the interleaved formats getPoints says where the outputs differ.      *)
PointsLocateDifference ==
    (conf.sFormat = conf.rFormat /\ conf.rFormat \in {"inter", "callback"}
        /\ sPc = "done" /\ rPc = "done") =>
        { p \in DOMAIN sOut : sOut[p] # rOut[p] } = { Points(t) : t \in 0..(Trees - 1) }

(* No two leaves share an output position: at the end the sender's output   *)
(* holds all the leaves of all the trees.                                  *)
NoLeafLost ==
    sPc = "done" =>
        { sOut[p] : p \in DOMAIN sOut } \ {ZeroBlock} =
            UNION { { SendLeaves(t)[i] : i \in 0..(Domain - 1) } : t \in 0..(Trees - 1) }

(* Every masked element is hidden by one pad, and no pad hides two: of      *)
(* each pair of base OT messages the receiver has one, so it opens one sum  *)
(* of each level and never the one with the active node.                   *)
Pads(x) == { a \in x : a[1] \in {3, 6} }
Opened ==
    { <<3, t, j, PathBit(t, j)>> : t \in 0..(Trees - 1), j \in 0..(Depth - 1) }
    \cup { <<6, t, PathBit(t, 0), e>> : t \in 0..(Trees - 1), e \in {0, 1} }
MasksUsedOnce ==
    LET All == UNION { masked[k] : k \in 1..Len(masked) } IN
    /\ \A x \in All : Cardinality(Pads(x)) = 1
    /\ \A x, y \in All : x # y => Pads(x) \cap Pads(y) = {}

(* The sums the receiver can open hold no node of an active path, and the   *)
(* punctured leaf only together with the programmed value.                 *)
ActiveNode(t, d) == SendLevels(t)[d][points[t] \div 2^(Depth - d)]
ActivePathHidden ==
    \A k \in 1..Len(masked) : \A x \in masked[k] :
        Pads(x) \subseteq Opened =>
            \A t \in 0..(Trees - 1) :
                /\ \A d \in 1..(Depth - 1) : ActiveNode(t, d) \cap x = {}
                /\ SendLeaves(t)[points[t]] \subseteq x => ValueOf(t) \subseteq x

(* Expansion always ends for both parties: in both having used up their     *)
(* base OTs when every argument is accepted, and otherwise without one      *)
(* waiting for ever for the party that threw.                              *)
Accepted == ValidValues /\ ValidFormat(conf.sFormat) /\ ValidFormat(conf.rFormat)
Terminates ==
    <>[](Finished /\ (Accepted => sPc = "done" /\ rPc = "done" /\ ~sBase /\ ~rBase))
===========================================================================
