----------------------------- MODULE RegularDpf -----------------------------
(***************************************************************************)
(* The distributed point function of RegularDpf.h: two symmetric parties hold shares of a point per tree and  *)
(* expand shares of a vector that is zero but at the point; or they make    *)
(* keys, together or from a dealer, and expand those alone.                *)
(*                                                                         *)
(* All randomness is symbolic (Gf2Poly): seeds, shares, the base OTs and    *)
(* their choice bits. Only the points are concrete.                        *)
(***************************************************************************)
EXTENDS DpfMult, TwoParty, TLC

CONSTANT RegularConfs

RegularAssumption ==
    \A c \in RegularConfs :
        /\ c.domain \in Nat \ {0, 1} /\ c.values \in BOOLEAN
        /\ c.points # << >> /\ \A k \in DOMAIN c.points : c.points[k] \in 0..(c.domain - 1)
        /\ \A k \in DOMAIN c.script : c.script[k] \in {"base", "expand", "keygen", "deal", "open"}

Trees == DOMAIN conf.points
mDomain == conf.domain
mDepth == Log2Ceil(mDomain)
Pow2 == 2^mDepth
TotalMults == Len(conf.points) * mDepth

---------------------------------------------------------------------------
(* What the parties are given. *)

(* Shares of bit j of the point of tree k, in XOR.                          *)
PointShare(p, k, j) ==
    LET mask == BitVar(<<1, k, j, 0, 0>>) IN
    IF p = 0 THEN mask ELSE Xor(mask, PBit(BitOf(conf.points[k], j)))
ValueShare(p, k) == Fresh(<<2, p, k, 0, 0>>)
Value(k) == BXor(ValueShare(0, k), ValueShare(1, k))

(* The PRNG of the seed of party p in its call number c.                    *)
RootSeed(p, c, k, child) == Fresh(<<5, p, c, k, child>>)

(* The two children of a node, and the value of a leaf.                    *)
Child(c, seed) == Hash(<<6, c, 0, 0, 0>>, seed)
LeafValue(seed) == Hash(<<7, 0, 0, 0, 0>>, seed)
TagOf(seed) == AllSame(seed.lo)

---------------------------------------------------------------------------
(* The multiplier: one product per tree and level. *)

Ot(st, k) == st.otIdx + k - 1
NextOtIdxSame(st) == st.otIdx
NextOtIdx(st) == st.otIdx + Len(conf.points)
CanMultiply(st) == st.base > 0 /\ st.otIdx + Len(conf.points) <= TotalMults
(* The base OTs that mask what a multiplication sends are noted.            *)
Multiplying(st) ==
    [st EXCEPT !.pc = "mult", !.used = @ \o [k \in Trees |-> <<st.base, Ot(st, k)>>]]

---------------------------------------------------------------------------
(* The levels of the trees, in three matrices by turns. *)

MatrixRows == [m \in 0..2 |->
    IF m = mDepth % 3 THEN Pow2 ELSE IF m = (mDepth + 2) % 3 THEN Pow2 \div 2 ELSE Pow2 \div 4]
Uninit == Fresh(<<0, 0, 0, 0, 0>>)

(* Writing rows; a row past the matrix would make it larger.               *)
Write(s, m, rows) == [s EXCEPT ![m] = rows @@ @]

RootLevel(p, call) ==
    LET blank == [m \in 0..2 |-> [row \in 0..(MatrixRows[m] - 1) |-> [k \in Trees |-> Uninit]]]
        seeds == Write(blank, 1, [row \in 0..1 |-> [k \in Trees |-> RootSeed(p, call, k, row)]])
    IN Write(seeds, 0, [row \in {0} |-> [k \in Trees |-> AllSame(PBit(p))]])
RootSums(p, call) == [j \in 0..1 |-> [k \in Trees |-> RootSeed(p, call, k, j)]]

UncorrectedSeed(s, iter, sigma, row, k) == s[iter % 3][row][k]
(* The seed of a node with the correction its parent's tag calls for.      *)
Corrected(s, iter, sigma, row, k) ==
    BXor(s[iter % 3][row][k], BAnd(s[(iter - 1) % 3][row \div 2][k], sigma[row % 2][k]))

(* Correcting level iter and expanding it; the seeds become tags.          *)
Descend(s, iter, sigma) ==
    LET size == 2^iter
        seed == [row \in 0..(size - 1) |-> [k \in Trees |-> Corrected(s, iter, sigma, row, k)]]
        tags == Write(s, iter % 3, [row \in 0..(size - 1) |-> [k \in Trees |-> TagOf(seed[row][k])]])
    IN Write(tags, (iter + 1) % 3,
             [row \in 0..(2 * size - 1) |-> [k \in Trees |-> Child(row % 2, seed[row \div 2][k])]])
ChildSums(s, iter) ==
    [j \in 0..1 |-> [k \in Trees |->
        BSum([row \in 0..(2^(iter + 1) - 1) |-> s[(iter + 1) % 3][row][k]],
             { row \in 0..(2^(iter + 1) - 1) : row % 2 = j })]]

(* The last layer, of which an odd domain uses one row more than it has.    *)
LastRows == 0..(RoundUpTo(mDomain, 2) - 1)
LastSeeds(s, sigma) == [row \in LastRows |-> [k \in Trees |-> Corrected(s, mDepth, sigma, row, k)]]
Leaves(s, sigma) ==
    LET seed == LastSeeds(s, sigma) IN
    [row \in LastRows |-> [k \in Trees |-> [val |-> LeafValue(seed[row][k]), tag |-> TagOf(seed[row][k])]]]
LeafSum(leaves, k) == BSum([row \in LastRows |-> leaves[row][k].val], LastRows)

(* What output is called with: the leaves, with gamma where the tag is set. *)
Output(leaves, gamma) ==
    [i \in 0..(mDomain - 1) |-> [k \in Trees |->
        [val |-> BXor(leaves[i][k].val, BAnd(leaves[i][k].tag, gamma[k])), tag |-> leaves[i][k].tag]]]
NoGamma == [k \in Trees |-> Zero]

---------------------------------------------------------------------------
(* Keys. *)

NoKey == [from |-> << >>, words |-> << >>, leafVals |-> << >>]
(* sigma[1] is sigma[0] with the bit of its own.                            *)
Sigma(word, bit) == <<word, Blk(word.hi, bit)>>
SigmaOf(words) == [j \in 0..1 |-> [k \in Trees |-> Sigma(words[k][1], words[k][2])[j + 1]]]

(* expand of a key, by one party alone: level after level with its words.   *)
KeyLevels(p, key) ==
    LET f[iter \in 1..mDepth] ==
            IF iter = 1 THEN RootLevel(p, key.from[2])
            ELSE Descend(f[iter - 1], iter - 1, SigmaOf(key.words[iter - 1]))
    IN f[mDepth]
ExpandKey(p, key) ==
    Output(Leaves(KeyLevels(p, key), SigmaOf(key.words[mDepth])),
           IF key.leafVals = << >> THEN NoGamma ELSE key.leafVals[1])

(* The static keyGen: a dealer who knows point and value walks down both    *)
(* trees along the path. `at` is the two siblings of both parties at level  *)
(* iter, with the tags of their parents.                                   *)
DealerStep(at, k, iter) ==
    LET a == BitOf(conf.points[k], mDepth - iter)
        na == 1 - a
        diff == BXor(at.seed[0][na], at.seed[1][na])
        tau == [j \in 0..1 |-> Xor(Xor(at.seed[0][j].lo, at.seed[1][j].lo), PBit(IF j = a THEN 1 ELSE 0))]
        word == Blk(diff.hi, tau[0])
        seed == [p \in Parties |-> [j \in 0..1 |->
                    BXor(at.seed[p][j], BAnd(at.tag[p], Sigma(word, tau[1])[j + 1]))]]
    IN [word |-> <<word, tau[1]>>, seed |-> seed, tag |-> [p \in Parties |-> TagOf(seed[p][a])]]
DealerPath(call, k) ==
    LET a(iter) == BitOf(conf.points[k], mDepth - iter)
        f[iter \in 1..mDepth] ==
            DealerStep(IF iter = 1
                         THEN [seed |-> [p \in Parties |-> [j \in 0..1 |-> RootSeed(p, call, k, j)]],
                               tag |-> [p \in Parties |-> AllSame(PBit(p))]]
                         ELSE [seed |-> [p \in Parties |-> [j \in 0..1 |-> Child(j, f[iter - 1].seed[p][a(iter - 1)])]],
                               tag |-> f[iter - 1].tag],
                       k, iter)
    IN f
DealtKey(p, call) ==
    LET path == [k \in Trees |-> DealerPath(call, k)]
        end(k, q) == LeafValue(path[k][mDepth].seed[q][BitOf(conf.points[k], 0)])
    IN [from |-> <<p, call>>,
        words |-> [iter \in 1..mDepth |-> [k \in Trees |-> path[k][iter].word]],
        leafVals |-> << [k \in Trees |-> BXor(BXor(end(k, 0), end(k, 1)), Value(k))] >>]

---------------------------------------------------------------------------
(* The protocol. *)

Call(st) == Len(st.out) + 1
About(st, op) == st.pc = "idle" /\ Call(st) <= Len(conf.script) /\ conf.script[Call(st)] = op
Return(st, result) == [st EXCEPT !.pc = "idle", !.out = Append(@, result), !.s = << >>, !.y = << >>]

Idle ==
    [pc |-> "idle", out |-> << >>, base |-> 0, otIdx |-> 0, used |-> << >>, iter |-> 0, s |-> << >>,
     z |-> << >>, y |-> << >>, sigma |-> << >>, words |-> << >>, leaves |-> << >>, key |-> NoKey]
RegularInit ==
    /\ conf \in RegularConfs
    /\ party = [p \in Parties |-> Idle]
    /\ net = EmptyNet

SetBaseOts(p) ==
    /\ About(party[p], "base")
    /\ Goes(p, Return([party[p] EXCEPT !.base = @ + 1, !.otIdx = 0], << >>), << >>)

(* A level begins: multiply sends its masked inputs, not alpha and the      *)
(* difference of the two sums without its last bit.                        *)
NotAlpha(p, iter) == [k \in Trees |-> Xor(PointShare(p, k, mDepth - iter), PBit(p))]
SumDiff(z) == [k \in Trees |-> Blk(Xor(z[0][k].hi, z[1][k].hi), PZero)]
LevelMessage(p, st) ==
    [kind |-> "mult",
     theta |-> [k \in Trees |-> Theta(p, st.base, Ot(st, k), SumDiff(st.z)[k])],
     phi |-> [k \in Trees |-> Phi(p, st.base, Ot(st, k), NotAlpha(p, st.iter)[k])]]
BeginLevel(p, st) ==
    IF CanMultiply(st) THEN Goes(p, Multiplying(st), <<LevelMessage(p, st)>>)
    ELSE Goes(p, [st EXCEPT !.pc = "failed"], << >>)

Expand(p) ==
    /\ About(party[p], "expand") \/ About(party[p], "keygen")
    /\ LET call == Call(party[p]) IN
       BeginLevel(p, [party[p] EXCEPT !.iter = 1, !.s = RootLevel(p, call), !.z = RootSums(p, call),
                                      !.words = << >>])

(* The product gives a share of sigma; with the tag bits it is revealed.    *)
FinishMultiply(p) ==
    /\ party[p].pc = "mult" /\ HasMessage(p)
    /\ LET st == party[p]
           mine == LevelMessage(p, st)
           m == Message(p)
           xy == [k \in Trees |-> Product(p, st.base, Ot(st, k),
                                      BXor(mine.theta[k], m.theta[k]), Xor(mine.phi[k], m.phi[k]))]
           alpha == [k \in Trees |-> PointShare(p, k, mDepth - st.iter)]
           word == [k \in Trees |->
                       BXor(BXor(xy[k], st.z[0][k]), Blk(PZero, Xor(PBit(p), alpha[k])))]
           bit == [k \in Trees |-> Xor(st.z[1][k].lo, alpha[k])]
       IN Takes(p, [st EXCEPT !.pc = "reveal", !.otIdx = NextOtIdx(st),
                              !.y = [k \in Trees |-> <<word[k], bit[k]>>]],
                <<[kind |-> "sigma", y |-> [k \in Trees |-> <<word[k], bit[k]>>]]>>)

Reveal(st, m) ==
    [k \in Trees |-> <<BXor(m.y[k][1], st.y[k][1]), Xor(m.y[k][2], st.y[k][2])>>]

CorrectLevel(p) ==
    /\ party[p].pc = "reveal" /\ HasMessage(p) /\ party[p].iter < mDepth
    /\ LET st == party[p]
           words == Reveal(st, Message(p))
           s == Descend(st.s, st.iter, SigmaOf(words))
           next == [st EXCEPT !.iter = @ + 1, !.s = s, !.z = ChildSums(s, st.iter),
                              !.words = Append(@, words)]
       IN IF CanMultiply(next)
            THEN Takes(p, Multiplying(next), <<LevelMessage(p, next)>>)
            ELSE Takes(p, [next EXCEPT !.pc = "failed"], << >>)

KeyOf(p, st, leafVals) == [from |-> <<p, Call(st)>>, words |-> st.words, leafVals |-> leafVals]
MakesKey(st) == conf.script[Call(st)] = "keygen"

(* The last level: without values the call is over, with values the sum of  *)
(* the leaves and the value is revealed.                                   *)
GammaShare(p, st, k) == BXor(LeafSum(st.leaves, k), ValueShare(p, k))
CorrectLeaves(p) ==
    /\ party[p].pc = "reveal" /\ HasMessage(p) /\ party[p].iter = mDepth
    /\ LET words == Reveal(party[p], Message(p))
           st == [party[p] EXCEPT !.words = Append(@, words),
                                   !.leaves = Leaves(party[p].s, SigmaOf(words))]
       IN IF conf.values
            THEN Takes(p, [st EXCEPT !.pc = "gamma"],
                       <<[kind |-> "gamma", g |-> [k \in Trees |-> GammaShare(p, st, k)]]>>)
            ELSE IF MakesKey(st)
            THEN Takes(p, Return([st EXCEPT !.key = KeyOf(p, st, << >>)], << >>), << >>)
            ELSE Takes(p, Return(st, Output(st.leaves, NoGamma)), << >>)

Gamma(p) ==
    /\ party[p].pc = "gamma" /\ HasMessage(p)
    /\ LET st == party[p]
           gamma == [k \in Trees |-> BXor(Message(p).g[k], GammaShare(p, st, k))]
       IN IF MakesKey(st)
            THEN Takes(p, Return([st EXCEPT !.key = KeyOf(p, st, Append(@.leafVals, gamma))], << >>), << >>)
            ELSE Takes(p, Return(st, Output(st.leaves, gamma)), << >>)

(* A dealer makes both keys and hands each party its own.                  *)
Deal(p) ==
    /\ About(party[p], "deal")
    /\ Goes(p, Return([party[p] EXCEPT !.key = DealtKey(p, Call(party[p]))], << >>), << >>)

(* The static expand of the key.                                           *)
Open(p) ==
    /\ About(party[p], "open")
    /\ Goes(p, Return(party[p], ExpandKey(p, party[p].key)), << >>)

Ended(st) == st.pc = "failed" \/ (st.pc = "idle" /\ Call(st) > Len(conf.script))
RegularDone == (\A p \in Parties : Ended(party[p])) /\ UNCHANGED vars

PartyNext(p) ==
    SetBaseOts(p) \/ Expand(p) \/ FinishMultiply(p) \/ CorrectLevel(p) \/ CorrectLeaves(p)
    \/ Gamma(p) \/ Deal(p) \/ Open(p)
RegularNext == (\E p \in Parties : PartyNext(p)) \/ RegularDone
RegularSpec == RegularInit /\ [][RegularNext]_vars

---------------------------------------------------------------------------
(* Properties. *)

(* No write left the matrix of its level; the parties run in step, a party  *)
(* is at most one message ahead, and gets the kind of message it waits for. *)
RegularTypeOK ==
    \A p \in Parties :
        /\ party[p].pc \in {"idle", "mult", "reveal", "gamma", "failed"}
        /\ party[p].otIdx \in 0..TotalMults
        /\ Len(net[p]) <= 2
        /\ (HasMessage(p) /\ party[p].pc # "failed") =>
              Message(p).kind = IF party[p].pc = "reveal" THEN "sigma"
                                ELSE IF party[p].pc = "gamma" THEN "gamma" ELSE "mult"
        /\ party[p].s # << >> =>
              \A m \in 0..2 : DOMAIN party[p].s[m] = 0..(MatrixRows[m] - 1)

Both == { c \in DOMAIN conf.script :
            /\ conf.script[c] \in {"expand", "open"}
            /\ \A p \in Parties : c <= Len(party[p].out) }

(* The two outputs of a call are shares of the vector that is zero at every *)
(* leaf but the point, and there the value; the tags are shares of the      *)
(* indicator of the point.                                                 *)
PointFunction ==
    \A c \in Both : \A i \in 0..(mDomain - 1), k \in Trees :
        LET a == party[0].out[c][i][k] b == party[1].out[c][i][k] IN
        /\ BXor(a.tag, b.tag) = AllSame(PBit(IF i = conf.points[k] THEN 1 ELSE 0))
        /\ i # conf.points[k] => BXor(a.val, b.val) = Zero
        /\ (i = conf.points[k] /\ conf.values) => BXor(a.val, b.val) = Value(k)

(* The two parties make the same public part of a key, level by level and   *)
(* in the leaf values: what each computes from its own half of the messages *)
(* is what the other computes.                                             *)
KeysAgree ==
    \A p, q \in Parties :
        (party[p].key # NoKey /\ party[q].key # NoKey /\ Len(party[p].out) = Len(party[q].out)) =>
            /\ party[p].key.words = party[q].key.words
            /\ party[p].key.leafVals = party[q].key.leafVals

(* A base OT masks the inputs of one product, over all the calls on one set  *)
(* of them; and a call that finds too few fails, on both sides.            *)
OtsSuffice ==
    \A p, q \in Parties :
        /\ \A i, j \in DOMAIN party[p].used : i # j => party[p].used[i] # party[p].used[j]
        /\ party[p].pc = "failed" =>
            /\ party[p].otIdx = IF party[p].base = 0 THEN 0 ELSE TotalMults
            /\ Len(party[q].out) <= Len(party[p].out)
===========================================================================
