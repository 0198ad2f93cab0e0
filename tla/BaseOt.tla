------------------------------- MODULE BaseOt -------------------------------
(***************************************************************************)
(* The base OTs of libOTe/Base, sender (party 0) and receiver (party 1):    *)
(* SimplestOT and its assembly variant, MasnyRindal, its Kyber variant,     *)
(* McRosRoy and McRosRoyTwist over the programmable functions of Popf, and  *)
(* the insecure mock.                                                      *)
(*                                                                         *)
(* The sender's secret, the receiver's secrets and its random points are    *)
(* unknowns (Popf). A message of an OT is what the code hashes into it,     *)
(* <<point, number, seed, point>>.                                         *)
(***************************************************************************)
EXTENDS Popf, TwoParty

CONSTANTS
    BaseConfs,  \* the protocol, its popf, the choices, and both parties' settings
    MrStep,     \* step of MasnyRindal, 16
    AsmStep     \* the OTs that the assembly variant computes at once, 4

BaseAssumption ==
    /\ MrStep \in Nat \ {0} /\ AsmStep \in Nat \ {0}
    /\ \A c \in BaseConfs :
          /\ c.proto \in {"simplest", "asm", "masnyRindal", "kyber", "mcRosRoy", "twist", "mock"}
          /\ c.proto = "mcRosRoy" => c.popf \in {"rist", "ristMul"}
          /\ c.proto = "twist" => c.popf \in {"feistel", "feistelMul", "eke", "mr"}
          /\ c.choices \in Seq({0, 1}) /\ c.choices # << >>
          /\ c.curve \in Seq({0, 1}) /\ Len(c.curve) >= Len(c.choices)
          /\ c.uniform \in Seq(BOOLEAN) /\ Len(c.uniform) = 2

SenderP == 0
ReceiverP == 1
Fresh == [pc |-> "start", got |-> << >>, out |-> << >>]

N == Len(conf.choices)
Choice(i) == conf.choices[i]
Proto(S) == conf.proto \in S
Uniform(p) == Proto({"simplest"}) /\ conf.uniform[p + 1]
Msg(point, k, seed, about) == <<point, k, seed, about>>
Least(a, b) == IF a < b THEN a ELSE b

(* The OTs of a message: all, or the next few.                              *)
GroupSize(done) ==
    Least(N - done, IF Proto({"asm"}) THEN AsmStep ELSE IF Proto({"masnyRindal"}) THEN MrStep ELSE N)
Group(done) == [j \in 1..GroupSize(done) |-> done + j]

(* The seed a uniform SimplestOT hashes along.                             *)
Seed(p, seed) == IF Uniform(p) THEN seed ELSE 0

---------------------------------------------------------------------------
(* The first message about OT i. *)

A == BySender(Generator(0))
ReceiverPoint(i) == ByReceiver(Generator(0), i)
(* The receiver of the assembly variant has 8S, and secrets that are         *)
(* multiples of 8.                                                         *)
AsmPoint(i) ==
    LET x == Times(8, ReceiverPoint(i)) IN
    IF Choice(i) = 1 THEN Sub(Times(8, A), x) ELSE x

(* MasnyRindal: the point that is not chosen is random, and its hash is      *)
(* taken from the other. For Kyber the points are public keys.              *)
Pair(i, own) ==
    LET other == RandomPoint(i) IN
    [j \in {0, 1} |-> IF j = Choice(i) THEN Sub(own, HashedPoint(0, Bytes(other, 0))) ELSE other]
PairKey(r, j) == Add(r[j], HashedPoint(0, Bytes(r[1 - j], 0)))

TwistPoint(i) == ByReceiver(Generator(conf.curve[i]), i)

SimplestPoint(i) == IF Choice(i) = 1 THEN Add(A, ReceiverPoint(i)) ELSE ReceiverPoint(i)
ProgramPoint(i) == Program(conf.popf, i, Choice(i), ReceiverPoint(i))
ProgramBytes(i) == Program(conf.popf, i, Choice(i), Bytes(TwistPoint(i), conf.curve[i]))

FirstMessage(i) ==
    CASE Proto({"simplest"}) -> SimplestPoint(i)
      [] Proto({"asm"}) -> AsmPoint(i)
      [] Proto({"masnyRindal", "kyber"}) -> Pair(i, ReceiverPoint(i))
      [] Proto({"mcRosRoy"}) -> ProgramPoint(i)
      [] Proto({"twist"}) -> ProgramBytes(i)
      [] Proto({"mock"}) -> Zero

(* The receiver's message, from what the sender's answer holds.             *)
SimplestOutput(i, m) == Msg(ByReceiver(A, i), i, Seed(ReceiverP, m.seed), Zero)
AsmOutput(i) == Msg(Times(64, ByReceiver(A, i)), 0, 0, Times(8, AsmPoint(i)))
MrOutput(i) == Msg(ByReceiver(A, i), 2 * i + Choice(i), 0, Zero)
KyberOutput(i, m) ==
    LET c == m.ctxts[i][Choice(i)] IN
    IF c.key = ReceiverPoint(i) THEN c.plain ELSE Msg(c.key, -1, 0, Zero)
PopfOutput(i) == Msg(ByReceiver(A, i), i, Choice(i), Zero)
TwistOutput(i, m) == Msg(ByReceiver(m.points[conf.curve[i]], i), i, Choice(i), Zero)
MockOutput(i) == Msg(Zero, 2 * i + Choice(i), 0, Zero)

ReceiverOutput(i, m) ==
    CASE Proto({"simplest"}) -> SimplestOutput(i, m)
      [] Proto({"asm"}) -> AsmOutput(i)
      [] Proto({"masnyRindal"}) -> MrOutput(i)
      [] Proto({"kyber"}) -> KyberOutput(i, m)
      [] Proto({"mcRosRoy"}) -> PopfOutput(i)
      [] Proto({"twist"}) -> TwistOutput(i, m)
      [] Proto({"mock"}) -> MockOutput(i)

(* The sender's two messages, from the receiver's message about OT i.       *)
SimplestKeyNoSub(b, j) == BySender(b)
SimplestKey(b, j) == IF j = 0 THEN BySender(b) ELSE Sub(BySender(b), BySender(A))
AsmKey(b, j) ==
    LET p == BySender(Times(8, b)) IN IF j = 0 THEN p ELSE Sub(Times(64, BySender(A)), p)
SimplestPair(i, b, j) == Msg(SimplestKey(b, j), i, Seed(SenderP, 1), Zero)
AsmPair(b, j) == Msg(AsmKey(b, j), 0, 0, Times(8, b))
MrPair(i, b, j) == Msg(BySender(PairKey(b, j)), 2 * i + j, 0, Zero)
PopfPair(i, b, j) == Msg(BySender(Eval(conf.popf, i, j, b)), i, j, Zero)
TwistPair(i, b, j) == Msg(BySender(PointOf(Eval(conf.popf, i, j, b))), i, j, Zero)
KyberPair(i, j) == Msg(Zero, 2 * i + j, 0, Zero)
MockPair(i, j) == Msg(Zero, 2 * i + j, 0, Zero)

SenderOutput(i, b, j) ==
    CASE Proto({"simplest"}) -> SimplestPair(i, b, j)
      [] Proto({"asm"}) -> AsmPair(b, j)
      [] Proto({"masnyRindal"}) -> MrPair(i, b, j)
      [] Proto({"kyber"}) -> KyberPair(i, j)
      [] Proto({"mock"}) -> MockPair(i, j)
      [] Proto({"mcRosRoy"}) -> PopfPair(i, b, j)
      [] Proto({"twist"}) -> TwistPair(i, b, j)

---------------------------------------------------------------------------
(* The sender. *)

(* It starts with its public point, or two on the curve and its twist; in    *)
(* SimplestOT, when its messages have to be uniform, with a commitment. A    *)
(* sender that lies opens another seed.                                    *)
SenderPoint ==
    /\ party[SenderP].pc = "start" /\ ~Proto({"kyber", "mock"})
    /\ Goes(SenderP, [party[SenderP] EXCEPT !.pc = "points"],
            <<[kind |-> "A", committed |-> Uniform(SenderP), commit |-> 1,
               points |-> [c \in {0, 1} |-> BySender(Generator(c))]]>>)

Opening == <<[kind |-> "seed", seed |-> IF conf.lies THEN 2 ELSE 1]>>
Ciphertexts(st) ==
    <<[kind |-> "ctxts", ctxts |-> [i \in 1..N |-> [j \in {0, 1} |->
          [key |-> PairKey(st.got[i], j), plain |-> SenderOutput(i, st.got[i], j)]]]]>>
Answer(st) ==
    CASE Uniform(SenderP) -> Opening
      [] Proto({"kyber"}) -> Ciphertexts(st)
      [] OTHER -> << >>
SenderTakesPoints ==
    /\ HasMessage(SenderP) /\ Message(SenderP).kind = "points"
    /\ party[SenderP].pc = (IF Proto({"kyber", "mock"}) THEN "start" ELSE "points")
    /\ LET st == party[SenderP]
           got == st.got \o Message(SenderP).points
           new == [k \in 1..(Len(got) - Len(st.out)) |->
                      [j \in {0, 1} |-> SenderOutput(Len(st.out) + k, got[Len(st.out) + k], j)]]
           next == [st EXCEPT !.got = got, !.out = @ \o new,
                              !.pc = IF Len(got) = N THEN "done" ELSE @]
       IN Takes(SenderP, next, IF next.pc = "done" THEN Answer(next) ELSE << >>)

---------------------------------------------------------------------------
(* The receiver. *)

(* SimplestOT waits for the public point first: a message of another size    *)
(* than its own setting asks for cannot be received.                        *)
Closed == <<[kind |-> "closed"]>>
ReceiverTakesPoint ==
    /\ Proto({"simplest", "asm"}) /\ party[ReceiverP].pc = "start"
    /\ HasMessage(ReceiverP) /\ Message(ReceiverP).kind = "A"
    /\ IF Message(ReceiverP).committed = Uniform(ReceiverP)
         THEN Takes(ReceiverP, [party[ReceiverP] EXCEPT !.pc = "groups", !.got = <<Message(ReceiverP).commit>>], << >>)
         ELSE Takes(ReceiverP, [party[ReceiverP] EXCEPT !.pc = "failed"], Closed)

Waits == Uniform(ReceiverP) \/ Proto({"masnyRindal", "kyber", "mcRosRoy", "twist"})
NoAnswer == [kind |-> "none", seed |-> 0]
(* The next group of OTs. The protocols with no answer to wait for have the  *)
(* messages of the group, or all, at once.                                 *)
ReceiverSends ==
    /\ party[ReceiverP].pc = (IF Proto({"simplest", "asm"}) THEN "groups" ELSE "start")
    /\ LET st == party[ReceiverP]
           sent == Len(st.out)
           group == Group(sent)
           out == [k \in DOMAIN group |-> IF Waits THEN Msg(Zero, 0, 0, Zero) ELSE ReceiverOutput(group[k], NoAnswer)]
           pc == IF sent + Len(group) < N THEN st.pc ELSE IF Waits THEN "answer" ELSE "done"
       IN Goes(ReceiverP, [st EXCEPT !.out = @ \o out, !.pc = pc],
               <<[kind |-> "points", points |-> [k \in DOMAIN group |-> FirstMessage(group[k])]]>>)

DecommitsAny(commit, m) == TRUE
Decommits(commit, m) == m.kind = "seed" => m.seed = commit
ReceiverTakesAnswer ==
    /\ party[ReceiverP].pc = "answer" /\ HasMessage(ReceiverP)
    /\ Message(ReceiverP).kind # "closed"
    /\ LET st == party[ReceiverP] m == Message(ReceiverP) IN
       IF m.kind = "seed" /\ ~Decommits(st.got[1], m)
         THEN Takes(ReceiverP, [st EXCEPT !.pc = "failed"], Closed)
         ELSE Takes(ReceiverP, [st EXCEPT !.pc = "done", !.out = [i \in 1..N |-> ReceiverOutput(i, m)]], << >>)

SenderSeesClosed ==
    /\ party[SenderP].pc = "points" /\ HasMessage(SenderP) /\ Message(SenderP).kind = "closed"
    /\ Takes(SenderP, [party[SenderP] EXCEPT !.pc = "failed"], << >>)

---------------------------------------------------------------------------

BaseInit ==
    /\ conf \in BaseConfs
    /\ party = [p \in Parties |-> Fresh]
    /\ net = EmptyNet
BaseFinished == \A p \in Parties : party[p].pc \in {"done", "failed"}
BaseDone == BaseFinished /\ UNCHANGED vars
BaseNext ==
    \/ SenderPoint \/ SenderTakesPoints \/ SenderSeesClosed
    \/ ReceiverTakesPoint \/ ReceiverSends \/ ReceiverTakesAnswer
    \/ BaseDone
BaseSpec == BaseInit /\ [][BaseNext]_vars

---------------------------------------------------------------------------
(* Properties. *)

(* When both parties have finished, the receiver has the sender's message of *)
(* every choice, and all the sender's messages differ, those of different    *)
(* OTs too.                                                                *)
BaseOtCorrect ==
    (\A p \in Parties : party[p].pc = "done") =>
        LET s == party[SenderP].out r == party[ReceiverP].out IN
        /\ Len(s) = N /\ Len(r) = N
        /\ \A i \in 1..N : r[i] = s[i][Choice(i)]
        /\ Cardinality({ s[i][j] : i \in 1..N, j \in {0, 1} }) = 2 * N

(* A receiver that asks for uniform messages fails exactly when the sender   *)
(* opens another seed than it committed to before it saw the points, or was  *)
(* not asked to commit; nobody gets messages when the settings differ.       *)
DecommitExact ==
    LET agreed == Uniform(SenderP) = Uniform(ReceiverP) IN
    /\ party[ReceiverP].pc = "failed" => ~agreed \/ (Uniform(SenderP) /\ conf.lies)
    /\ party[ReceiverP].pc = "done" => agreed /\ ~(Uniform(SenderP) /\ conf.lies)
    /\ party[SenderP].pc = "done" => agreed
===========================================================================
