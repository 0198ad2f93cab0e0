----------------------------- MODULE TernaryDpf -----------------------------
(***************************************************************************)
(* TernaryDpf.h: the distributed point function whose trees have three      *)
(* children per node and whose points are shared in Z_3, digit by digit.    *)
(* The correction of a level is made by one-out-of-three OTs in both        *)
(* directions at once, each from two base OTs: a sender and a receiver      *)
(* coroutine per party, on the socket and on a fork of it.                 *)
(*                                                                         *)
(* Seeds and base OTs are symbolic (Gf2Poly), the shares of the points are  *)
(* concrete. Values are added where the code adds them, which is right in   *)
(* the fields of characteristic two it is used with.                       *)
(***************************************************************************)
EXTENDS Gf2Poly, TwoParty, TLC

CONSTANT TernaryConfs

(* share is party 0's share of the points; script is what the applications  *)
(* do: "init", "base" and "expand".                                        *)
TernaryAssumption ==
    \A c \in TernaryConfs :
        /\ c.domain \in Nat \ {0} /\ c.values \in BOOLEAN
        /\ DOMAIN c.share = DOMAIN c.points
        /\ \A k \in DOMAIN c.points : c.points[k] \in 0..(c.domain - 1) /\ c.share[k] \in Nat

Trees == DOMAIN conf.points
mDomain == conf.domain
mDepth == CHOOSE d \in 0..mDomain : 3^d >= mDomain /\ \A e \in 0..(d - 1) : 3^e < mDomain
Pow3 == 3^mDepth
BaseOtCount == mDepth * Len(conf.points) * 2
Coord == 0..2

Digit(x, j) == (x \div 3^j) % 3
(* A digit of a party's share of the point of tree k.                      *)
PointShare(p, k, j) ==
    IF p = 0 THEN Digit(conf.share[k], j)
    ELSE (3 + Digit(conf.points[k], j) - Digit(conf.share[k], j)) % 3
ValueShare(p, k) == Fresh(<<2, p, k, 0, 0>>)
Value(k) == BXor(ValueShare(0, k), ValueShare(1, k))

OtMessage(p, b, j, c) == Fresh(<<3, p, b, j, c>>)
OtChoice(p, b, j) == BitVar(<<4, p, b, j, 0>>)
(* keys[bit] for a bit that is not known.                                  *)
Select(p, b, j, bit) ==
    BXor(OtMessage(p, b, j, 0), BTimes(bit, BXor(OtMessage(p, b, j, 0), OtMessage(p, b, j, 1))))
OtReceived(p, b, j) == Select(Peer(p), b, j, OtChoice(p, b, j))

RootSeed(p, c, k, child) == Fresh(<<5, p, c, k, child>>)
Child(c, seed) == Hash(<<6, c, 0, 0, 0>>, seed)
LeafValue(seed) == Hash(<<7, 0, 0, 0, 0>>, seed)
Mask(p, c, k, iter) == [Fresh(<<8, p, c, k, iter>>) EXCEPT !.lo = PBit(p)]
(* A block drawn by a party when the domain is one leaf.                   *)
Drawn(p, c, k) == Fresh(<<9, p, c, k, 0>>)

---------------------------------------------------------------------------
(* correctionWord: one-out-of-three OT of a unit vector times a block. *)

Expand3(key) == [c \in Coord |-> Hash(<<10, c, 0, 0, 0>>, key)]
OtOf(st, k, bit) == st.otIdx + (k - 1) * 2 + bit

(* The receiver's correction: its digit's two bits against its choices.     *)
CorrectionBit(p, st, k, bit) ==
    Xor(PBit(BitOf(PointShare(p, k, mDepth - st.iter), bit)), OtChoice(p, st.base, OtOf(st, k, bit)))
(* The sender's key for digit j, given that correction.                    *)
KeyFor(p, st, k, j, cor) ==
    BXor(Select(p, st.base, OtOf(st, k, 0), Xor(PBit(BitOf(j, 0)), cor[k][1])),
         Select(p, st.base, OtOf(st, k, 1), Xor(PBit(BitOf(j, 1)), cor[k][2])))

AddAt(v, c, b) == [v EXCEPT ![c] = BXor(@, b)]
VXor(v, w) == [c \in Coord |-> BXor(v[c], w[c])]
(* The sender keeps the vector for digit 0 and sends, for 1 and 2, what     *)
(* turns it into the vector with the block moved by the digit.             *)
KeptVector(p, st, k, cor) ==
    AddAt(Expand3(KeyFor(p, st, k, 0, cor)), PointShare(p, k, mDepth - st.iter), Mask(p, st.call, k, st.iter))
SentVectorUnmoved(p, st, k, cor, j) ==
    AddAt(VXor(Expand3(KeyFor(p, st, k, j, cor)), KeptVector(p, st, k, cor)),
          PointShare(p, k, mDepth - st.iter), Mask(p, st.call, k, st.iter))
SentVector(p, st, k, cor, j) ==
    AddAt(VXor(Expand3(KeyFor(p, st, k, j, cor)), KeptVector(p, st, k, cor)),
          (j + PointShare(p, k, mDepth - st.iter)) % 3, Mask(p, st.call, k, st.iter))

SigmaShare(p, st, k) ==
    LET a == PointShare(p, k, mDepth - st.iter)
        key == BXor(OtReceived(p, st.base, OtOf(st, k, 0)), OtReceived(p, st.base, OtOf(st, k, 1)))
        own == VXor(VXor(Expand3(key), st.kept[k]), [c \in Coord |-> st.z[c][k]])
    IN IF a = 0 THEN own ELSE VXor(own, st.got[k][a])

---------------------------------------------------------------------------
(* The levels of the trees, in three matrices by turns. *)

MatrixRows == [m \in 0..2 |->
    IF m = mDepth % 3 THEN Pow3 ELSE IF m = (mDepth + 2) % 3 THEN Pow3 \div 3 ELSE Pow3 \div 9]
Uninit == Fresh(<<0, 0, 0, 0, 0>>)
(* Writing rows; a row past the matrix would make it larger.               *)
Write(s, m, rows) == [s EXCEPT ![m] = rows @@ @]

RootLevel(p, call) ==
    LET blank == [m \in 0..2 |-> [row \in 0..(MatrixRows[m] - 1) |-> [k \in Trees |-> Uninit]]]
        seeds == Write(blank, 1, [row \in Coord |-> [k \in Trees |-> RootSeed(p, call, k, row)]])
    IN Write(seeds, 0, [row \in {0} |-> [k \in Trees |-> AllSame(PBit(p))]])
RootSums(p, call) == [j \in Coord |-> [k \in Trees |-> RootSeed(p, call, k, j)]]

Corrected(s, iter, sigma, row, k) ==
    BXor(s[iter % 3][row][k], BAnd(s[(iter - 1) % 3][row \div 3][k], sigma[k][row % 3]))
Descend(s, iter, sigma) ==
    LET size == 3^iter
        seed == [row \in 0..(size - 1) |-> [k \in Trees |-> Corrected(s, iter, sigma, row, k)]]
        tags == Write(s, iter % 3, [row \in 0..(size - 1) |-> [k \in Trees |-> AllSame(seed[row][k].lo)]])
    IN Write(tags, (iter + 1) % 3,
             [row \in 0..(3 * size - 1) |-> [k \in Trees |-> Child(row % 3, seed[row \div 3][k])]])
ChildSums(s, iter) ==
    [j \in Coord |-> [k \in Trees |->
        BSum([row \in 0..(3^(iter + 1) - 1) |-> s[(iter + 1) % 3][row][k]],
             { row \in 0..(3^(iter + 1) - 1) : row % 3 = j })]]

(* The last layer stops at the domain, in the middle of three siblings.     *)
Leaves(s, sigma) ==
    [row \in 0..(mDomain - 1) |-> [k \in Trees |->
        LET seed == Corrected(s, mDepth, sigma, row, k) IN [val |-> LeafValue(seed), tag |-> seed.lo]]]
LeafSum(leaves, k) == BSum([row \in DOMAIN leaves |-> leaves[row][k].val], DOMAIN leaves)
Output(leaves, gamma) ==
    [i \in 0..(mDomain - 1) |-> [k \in Trees |->
        [val |-> BXor(leaves[i][k].val, BTimes(leaves[i][k].tag, gamma[k])), tag |-> leaves[i][k].tag]]]
OneLeaf(p, st, call) ==
    [i \in {0} |-> [k \in Trees |->
        [val |-> IF conf.values THEN ValueShare(p, k) ELSE Drawn(p, call, k), tag |-> PBit(p)]]]
---------------------------------------------------------------------------
(* The protocol. *)

About(st, op) == st.pc = "idle" /\ st.call <= Len(conf.script) /\ conf.script[st.call] = op
Return(st) == [st EXCEPT !.pc = "idle", !.call = @ + 1, !.s = << >>, !.z = << >>]

TernaryInit ==
    /\ conf \in TernaryConfs
    /\ party = [p \in Parties |->
            [pc |-> "idle", call |-> 1, out |-> << >>, base |-> 0, otIdx |-> 0, used |-> << >>, iter |-> 0,
             s |-> << >>, z |-> << >>, sender |-> "idle", recver |-> "idle",
             kept |-> << >>, got |-> << >>, sigma |-> << >>, leaves |-> << >>]]
    /\ net = EmptyNet

(* init sets mOtIdx back, setBaseOts does not.                             *)
InitDpf(p) ==
    /\ About(party[p], "init")
    /\ Goes(p, Return([party[p] EXCEPT !.otIdx = 0]), << >>)
SetBaseOts(p) ==
    /\ About(party[p], "base")
    /\ Goes(p, Return([party[p] EXCEPT !.base = party[p].call]), << >>)

(* A party's sender runs on the socket, party 1's on the fork: messages of  *)
(* the two are received independently.                                     *)
SenderSocket(p) == p
RecverSocket(p) == Peer(p)

BaseOtsLeft(st) == st.base > 0 /\ st.otIdx + 2 * Len(conf.points) <= BaseOtCount
(* Both coroutines start; the receiver sends its corrections. Base OTs past *)
(* the last are read from beyond the vector: the party is lost.            *)
BeginLevel(p, st) ==
    IF BaseOtsLeft(st)
      THEN <<[st EXCEPT !.pc = "level", !.sender = "wait", !.recver = "wait",
                        !.used = @ \o [i \in 1..(2 * Len(conf.points)) |-> <<st.base, st.otIdx + i - 1>>]],
             <<[chan |-> RecverSocket(p), kind |-> "correction",
                cor |-> [k \in Trees |-> <<CorrectionBit(p, st, k, 0), CorrectionBit(p, st, k, 1)>>]]>> >>
      ELSE <<[st EXCEPT !.pc = "undefined"], << >> >>

Expand(p) ==
    /\ About(party[p], "expand")
    /\ LET st == party[p]
           begun == BeginLevel(p, [st EXCEPT !.iter = 1, !.s = RootLevel(p, st.call), !.z = RootSums(p, st.call)])
       IN IF mDomain = 1
            THEN Goes(p, Return([st EXCEPT !.out = Append(@, OneLeaf(p, st, st.call))]), << >>)
            ELSE Goes(p, begun[1], begun[2])

SenderAnswers(p) ==
    /\ party[p].pc = "level" /\ party[p].sender = "wait" /\ Available(p, SenderSocket(p))
    /\ LET st == party[p] cor == First(p, SenderSocket(p)).cor IN
       TakesOn(p, SenderSocket(p),
               [st EXCEPT !.sender = "done", !.kept = [k \in Trees |-> KeptVector(p, st, k, cor)]],
               <<[chan |-> SenderSocket(p), kind |-> "vectors",
                  v |-> [k \in Trees |-> [j \in 1..2 |-> SentVector(p, st, k, cor, j)]]]>>)
RecverGets(p) ==
    /\ party[p].pc = "level" /\ party[p].recver = "wait" /\ Available(p, RecverSocket(p))
    /\ TakesOn(p, RecverSocket(p),
               [party[p] EXCEPT !.recver = "done", !.got = First(p, RecverSocket(p)).v], << >>)

(* Both are done: the share of sigma is revealed, on the socket.           *)
RevealSigma(p) ==
    /\ party[p].pc = "level" /\ party[p].sender = "done" /\ party[p].recver = "done"
    /\ LET sigma == [k \in Trees |-> SigmaShare(p, party[p], k)] IN
       Goes(p, [party[p] EXCEPT !.pc = "reveal", !.sigma = sigma],
            <<[chan |-> 0, kind |-> "sigma", sigma |-> sigma]>>)

NextOtIdxOne(st) == st.otIdx + Len(conf.points)
NextOtIdx(st) == st.otIdx + 2 * Len(conf.points)
Revealed(p) == [k \in Trees |-> VXor(party[p].sigma[k], First(p, 0).sigma[k])]

CorrectLevel(p) ==
    /\ party[p].pc = "reveal" /\ Available(p, 0) /\ party[p].iter < mDepth
    /\ LET st == party[p]
           s == Descend(st.s, st.iter, Revealed(p))
           begun == BeginLevel(p, [st EXCEPT !.iter = @ + 1, !.s = s, !.z = ChildSums(s, st.iter),
                                             !.otIdx = NextOtIdx(st)])
       IN TakesOn(p, 0, begun[1], begun[2])

GammaShare(p, leaves, k) == BXor(ValueShare(p, k), LeafSum(leaves, k))
CorrectLeaves(p) ==
    /\ party[p].pc = "reveal" /\ Available(p, 0) /\ party[p].iter = mDepth
    /\ LET st == [party[p] EXCEPT !.otIdx = NextOtIdx(party[p])]
           leaves == Leaves(st.s, Revealed(p))
       IN IF conf.values
            THEN TakesOn(p, 0, [st EXCEPT !.pc = "gamma", !.leaves = leaves],
                         <<[chan |-> 0, kind |-> "gamma", g |-> [k \in Trees |-> GammaShare(p, leaves, k)]]>>)
            ELSE TakesOn(p, 0, Return([st EXCEPT !.out = Append(@, Output(leaves, [k \in Trees |-> Zero]))]),
                         << >>)
Gamma(p) ==
    /\ party[p].pc = "gamma" /\ Available(p, 0)
    /\ LET st == party[p]
           gamma == [k \in Trees |-> BXor(First(p, 0).g[k], GammaShare(p, st.leaves, k))]
       IN TakesOn(p, 0, Return([st EXCEPT !.out = Append(@, Output(st.leaves, gamma))]), << >>)

Ended(st) == st.pc = "undefined" \/ (st.pc = "idle" /\ st.call > Len(conf.script))
TernaryDone == (\A p \in Parties : Ended(party[p])) /\ UNCHANGED vars
PartyNext(p) ==
    InitDpf(p) \/ SetBaseOts(p) \/ Expand(p) \/ SenderAnswers(p) \/ RecverGets(p) \/ RevealSigma(p)
    \/ CorrectLevel(p) \/ CorrectLeaves(p) \/ Gamma(p)
TernaryNext == (\E p \in Parties : PartyNext(p)) \/ TernaryDone
TernarySpec == TernaryInit /\ [][TernaryNext]_vars

---------------------------------------------------------------------------
(* Properties. *)

(* The outputs are shares of the vector that is the value at the point and  *)
(* zero elsewhere, the tags of its indicator, for every sharing of the      *)
(* point and also where the domain ends between siblings.                  *)
TernaryPointFunction ==
    \A c \in DOMAIN party[0].out \cap DOMAIN party[1].out : \A i \in 0..(mDomain - 1), k \in Trees :
        LET a == party[0].out[c][i][k] b == party[1].out[c][i][k] IN
        /\ Xor(a.tag, b.tag) = PBit(IF i = conf.points[k] THEN 1 ELSE 0)
        /\ i # conf.points[k] => BXor(a.val, b.val) = Zero
        /\ (i = conf.points[k] /\ conf.values) => BXor(a.val, b.val) = Value(k)

(* What waits on a socket is what the coroutine that reads it expects,      *)
(* though two coroutines of each party send at the same time; writes stay   *)
(* in the matrix of their level, and no base OT serves two levels or calls.  *)
SocketsKeptApart ==
    \A p \in Parties :
        LET st == party[p] IN
        /\ st.pc = "undefined" => st.base = 0
        /\ \A i, j \in DOMAIN st.used : i # j => st.used[i] # st.used[j]
        /\ (st.pc = "level" /\ st.sender = "wait" /\ Available(p, SenderSocket(p))) =>
              First(p, SenderSocket(p)).kind = "correction"
        /\ (st.pc = "level" /\ st.recver = "wait" /\ Available(p, RecverSocket(p))) =>
              First(p, RecverSocket(p)).kind = "vectors"
        /\ (st.pc \in {"reveal", "gamma"} /\ Available(p, 0)) =>
              First(p, 0).kind = IF st.pc = "reveal" THEN "sigma" ELSE "gamma"
        /\ st.s # << >> => \A m \in 0..2 : DOMAIN st.s[m] = 0..(MatrixRows[m] - 1)
===========================================================================
