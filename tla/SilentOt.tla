------------------------------ MODULE SilentOt ------------------------------
(***************************************************************************)
(* The silent OT extension of SilentOtExtSender / SilentOtExtReceiver: the  *)
(* life of one sender object and one receiver object whose applications     *)
(* make the same sequence of calls, from configure through base OTs, the    *)
(* PPRF, the malicious check and compression to the outputs and clear.     *)
(*                                                                         *)
(* A block is a formal sum (XorAlgebra) of unknowns, the least significant  *)
(* bit kept apart because it carries the choice bit:                       *)
(*   <<"hi", e, p>>, <<"lo", e, p>>   leaf p of the sender's e-th expand    *)
(*   <<"hi", e, -1>>, <<"lo", e, -1>>   the delta of that expand            *)
(*   <<"hi", e, -2>>   what the receiver gets in addition when corrupted    *)
(*   <<"lo", 0, -3>>   the constant with only the least significant bit     *)
(* The fixed-key hash is injective on blocks: a hashed message is           *)
(* represented by what was hashed.                                         *)
(***************************************************************************)
EXTENDS XorAlgebra, Sequences

CONSTANTS
    Scripts,     \* the call sequences the two applications may make
    SizePer,     \* mSizePer
    Partitions,  \* mNumPartitions
    Code,        \* Code[n][i]: the noise positions output i of n sums up
    MaxCorrupt,  \* bound: leaves corrupted on the way
    FailScripts  \* the sequences during which the base OT protocol may throw

Noise == 0..(SizePer * Partitions - 1)
Types == {"random", "chosen", "correlated", "inplace"}

ASSUME SilentOtAssumption ==
    /\ SizePer \in Nat \ {0} /\ Partitions \in Nat \ {0} /\ MaxCorrupt \in Nat
    /\ FailScripts \subseteq Scripts
    /\ \A n \in DOMAIN Code : n \in Nat \ {0} /\ Code[n] \in [0..(n - 1) -> SUBSET Noise]
    /\ \A sc \in Scripts : Len(sc) \in Nat
    /\ \A sc \in Scripts : \A k \in 1..Len(sc) :
          \/ sc[k].op = "configure" /\ sc[k].n \in DOMAIN Code /\ sc[k].mal \in BOOLEAN
          \/ sc[k].op = "gen"
          \/ sc[k].op = "run" /\ sc[k].n \in DOMAIN Code /\ sc[k].type \in Types

VARIABLES
    script,
    s,        \* the sender: pc, call, and its members n, mal, base, malOts, delta, B
    r,        \* the receiver: pc, call, and n, mal, base, malOts, S, X, A, C
    want,     \* the choice bits the receiver's application brings to receive
    sOut,     \* what each finished call gave the sender's application
    rOut,     \* what each finished call gave the receiver's application
    toS, toR, \* the socket
    closed,
    batches,  \* base OT batches made so far; a batch's name is its number
    sUsed,    \* history: the batch of each expand of the sender
    rUsed,    \* history: and of the receiver
    bad       \* the corrupted leaves: pairs of an expand and a position

vars == <<script, s, r, want, sOut, rOut, toS, toR, closed, batches, sUsed, rUsed, bad>>

---------------------------------------------------------------------------
(* Blocks. *)

One == <<"lo", 0, -3>>
Lsb(x) == { a \in x : a[1] = "lo" }
NoLsb(x) == x \ Lsb(x)
Delta(e) == { <<"hi", e, -1>>, <<"lo", e, -1>> }
LeafOf(e, p) == { <<"hi", e, p>>, <<"lo", e, p>> }
Leaves(e) == [p \in Noise |-> LeafOf(e, p)]
Err(e) == { <<"hi", e, -2>> }

Encode(n, v) == [i \in 0..(n - 1) |-> XorSum(v, Code[n][i])]

(* sum of v[p] * X^(p + 1), the X of the check being an unknown: a product  *)
(* is kept as the pair of its factors.                                     *)
PolySum(v) == UNION { { <<a, p + 1>> : a \in v[p] } : p \in Noise }
DeltaTimes(e, X) == { <<a, k>> : a \in Delta(e), k \in X }
VoleOf(e) == { <<<<"vole", e, 0>>, 0>> }

Calls == Len(script)
Call(party) == script[party.call]
NoOut == << >>
Ready(chan, kind) == chan # << >> /\ Head(chan).kind = kind

---------------------------------------------------------------------------
ChoiceBits(n) == SUBSET (0..(n - 1))
Chooses(call) == call.op = "run" /\ call.type = "chosen"

FreshSender == [pc |-> "idle", call |-> 1, n |-> 0, mal |-> FALSE, base |-> 0, malOts |-> 0,
                delta |-> 0, B |-> << >>]
FreshReceiver == [pc |-> "idle", call |-> 1, n |-> 0, mal |-> FALSE, base |-> 0, malOts |-> 0,
                  S |-> {}, X |-> {}, A |-> << >>, C |-> {}]

Init ==
    /\ script \in Scripts
    /\ want \in [1..Calls -> UNION { ChoiceBits(n) : n \in DOMAIN Code }]
    /\ \A k \in 1..Calls : want[k] \in IF Chooses(script[k]) THEN ChoiceBits(script[k].n) ELSE {{}}
    /\ s = FreshSender /\ r = FreshReceiver
    /\ sOut = [k \in 1..Calls |-> NoOut] /\ rOut = [k \in 1..Calls |-> NoOut]
    /\ toS = << >> /\ toR = << >> /\ closed = FALSE
    /\ batches = 0 /\ sUsed = << >> /\ rUsed = << >> /\ bad = {}

ConfiguredBaseKept(party, n, mal) == [party EXCEPT !.n = n, !.mal = mal]
(* configure; the PPRF's configure drops the base OTs it has.              *)
Configured(party, n, mal) == [party EXCEPT !.n = n, !.mal = mal, !.base = 0]

(* silentSendInplace and silentReceiveInplace configure for n themselves    *)
(* when the application has not.                                           *)
Entered(party, n) == IF party.n = 0 THEN Configured(party, n, party.mal) ELSE party

ClearedSender(p) == [p EXCEPT !.n = 0, !.base = 0, !.delta = 0, !.B = << >>]
ClearedReceiver(p) == [p EXCEPT !.n = 0, !.base = 0, !.S = {}, !.A = << >>, !.C = {}]
Returned(p) == [p EXCEPT !.pc = "idle", !.call = p.call + 1]
Failed(p) == [p EXCEPT !.pc = "failed"]

Busy(p) == p.pc = "idle" /\ p.call <= Calls

---------------------------------------------------------------------------
(* The sender. *)

sendFrame == <<script, r, want, rOut, batches, rUsed, bad>>

SendConfigure ==
    /\ Busy(s) /\ Call(s).op = "configure"
    /\ s' = Returned(Configured(s, Call(s).n, Call(s).mal))
    /\ UNCHANGED <<sendFrame, sOut, toS, toR, closed, sUsed>>

(* genSilentBaseOts of a sender that is not configured throws, and so does  *)
(* silentSendInplace for another number of OTs.                            *)
Rejected(p) ==
    \/ Call(p).op = "gen" /\ p.n = 0
    \/ Call(p).op = "run" /\ Entered(p, Call(p).n).n # Call(p).n
SendReject ==
    /\ Busy(s) /\ Rejected(s)
    /\ s' = Failed(s) /\ closed' = TRUE
    /\ UNCHANGED <<sendFrame, sOut, toS, toR, sUsed>>

(* Up to the first co_await of gen or of a run.                            *)
SendEnter ==
    /\ Busy(s) /\ Call(s).op \in {"gen", "run"} /\ ~Rejected(s)
    /\ LET p == IF Call(s).op = "run" THEN Entered(s, Call(s).n) ELSE s IN
       s' = [p EXCEPT !.pc = IF Call(s).op = "gen" \/ p.base = 0 THEN "gen" ELSE "expand"]
    /\ UNCHANGED <<sendFrame, sOut, toS, toR, closed, sUsed>>

(* The base OT protocol (external) gives the sender both messages of every  *)
(* OT of a batch; setSilentBaseOts splits them.                            *)
SendBase ==
    /\ s.pc = "gen" /\ Ready(toS, "ot") /\ ~closed
    /\ LET b == Head(toS).batch
           p == [s EXCEPT !.base = b, !.malOts = IF s.mal THEN b ELSE 0]
       IN s' = IF Call(s).op = "gen" THEN Returned(p) ELSE [p EXCEPT !.pc = "expand"]
    /\ toS' = Tail(toS)
    /\ toR' = Append(toR, [kind |-> "otAck"])
    /\ UNCHANGED <<sendFrame, sOut, closed, sUsed>>

(* The base OT protocol throws.                                            *)
SendBaseFails ==
    /\ script \in FailScripts /\ s.pc = "gen" /\ Ready(toS, "ot") /\ ~closed
    /\ s' = Failed(s) /\ closed' = TRUE
    /\ UNCHANGED <<sendFrame, sOut, toS, toR, sUsed>>

ExpandedKeepsBase(p) == p
(* RegularPprf expand ends with mBaseOTs = {}.                             *)
Expanded(p) == [p EXCEPT !.base = 0]

(* hash: the message without the bit that would tell the choice.           *)
Hash(x) == NoLsb(x)

SenderResult(p, B) ==
    LET n == p.n IN
    IF Call(p).type \in {"random", "chosen"}
      THEN [i \in 0..(n - 1) |-> <<Hash(B[i]), Hash(Xor(B[i], Delta(p.delta)))>>]
      ELSE [i \in 0..(n - 1) |-> <<B[i], Xor(B[i], Delta(p.delta))>>]

(* compress, then what the entry point called does with mB.  send, after    *)
(* silentSend has cleared, still waits for the correction.                 *)
SendFinish(p) ==
    LET B == Encode(p.n, p.B)
        kept == [p EXCEPT !.B = B]
        done == IF Call(p).type = "inplace" THEN kept ELSE ClearedSender(kept)
    IN /\ sOut' = [sOut EXCEPT ![p.call] = SenderResult(p, B)]
       /\ s' = IF Call(p).type = "chosen" THEN [done EXCEPT !.pc = "correct"] ELSE Returned(done)

SendExpand ==
    /\ s.pc = "expand" /\ ~closed
    /\ LET e == Len(sUsed) + 1
           p == Expanded([s EXCEPT !.delta = e, !.B = Leaves(e)])
       IN /\ toR' = Append(toR, [kind |-> "pprf", e |-> e, batch |-> s.base])
          /\ sUsed' = Append(sUsed, s.base)
          /\ IF s.mal THEN s' = [p EXCEPT !.pc = "check"] /\ UNCHANGED sOut ELSE SendFinish(p)
    /\ UNCHANGED <<sendFrame, toS, closed>>

(* ferretMalCheck: the seed of X arrives; the VOLE message and the hash     *)
(* leave.  The sender does not learn the outcome.                          *)
SendCheck ==
    /\ s.pc = "check" /\ Ready(toS, "seed") /\ ~closed
    /\ toS' = Tail(toS)
    /\ toR' = toR \o << [kind |-> "vole", ots |-> s.malOts],
                        [kind |-> "hash", sum |-> PolySum(s.B), e |-> s.delta] >>
    /\ SendFinish(s)
    /\ UNCHANGED <<sendFrame, closed, sUsed>>

(* send: swap the messages of the OTs whose correction bit is one.         *)
Swap(m, bits) == [i \in DOMAIN m |-> IF i \in bits THEN <<m[i][2], m[i][1]>> ELSE m[i]]
SendCorrect ==
    /\ s.pc = "correct" /\ Ready(toS, "correction")
    /\ sOut' = [sOut EXCEPT ![s.call] = Swap(@, Head(toS).bits)]
    /\ toS' = Tail(toS)
    /\ s' = Returned(s)
    /\ UNCHANGED <<sendFrame, toR, closed, sUsed>>

SendClosedSending ==
    /\ closed
    /\ s.pc \in {"gen", "expand", "check"}
    /\ s' = Failed(s)
    /\ UNCHANGED <<sendFrame, sOut, toS, toR, closed, sUsed>>
(* A send on a closed socket throws, and so does a receive when nothing is  *)
(* left in it.  The steps gen, expand and check of the sender all send.    *)
SendClosed ==
    /\ closed
    /\ s.pc \in {"gen", "expand", "check"} \/ (s.pc = "correct" /\ toS = << >>)
    /\ s' = Failed(s)
    /\ UNCHANGED <<sendFrame, sOut, toS, toR, closed, sUsed>>

---------------------------------------------------------------------------
(* The receiver. *)

recvFrame == <<script, s, want, sOut, sUsed, bad>>

RecvConfigure ==
    /\ Busy(r) /\ Call(r).op = "configure"
    /\ r' = Returned(Configured(r, Call(r).n, Call(r).mal))
    /\ UNCHANGED <<recvFrame, rOut, toS, toR, closed, batches, rUsed>>

RecvReject ==
    /\ Busy(r) /\ Rejected(r)
    /\ r' = Failed(r) /\ closed' = TRUE
    /\ UNCHANGED <<recvFrame, rOut, toS, toR, batches, rUsed>>

(* sampleBaseChoiceBits: one point per tree, and for the malicious check    *)
(* the powers of X that belong to them.                                    *)
Positions == { S \in SUBSET Noise : \A j \in 0..(Partitions - 1) :
                 Cardinality(S \cap ((j * SizePer)..(j * SizePer + SizePer - 1))) = 1 }
PowersShort(S) == S
Powers(S) == { p + 1 : p \in S }

RecvSample(S) ==
    /\ Busy(r) /\ Call(r).op \in {"gen", "run"} /\ ~Rejected(r) /\ ~closed
    /\ LET p == IF Call(r).op = "run" THEN Entered(r, Call(r).n) ELSE r IN
       /\ Call(r).op = "gen" \/ p.base = 0
       /\ r' = [p EXCEPT !.pc = "gen", !.S = S, !.X = IF p.mal THEN Powers(S) ELSE @]
    /\ toS' = Append(toS, [kind |-> "ot", batch |-> batches + 1])
    /\ batches' = batches + 1
    /\ UNCHANGED <<recvFrame, rOut, toR, closed, rUsed>>

RecvEnter ==
    /\ Busy(r) /\ Call(r).op = "run" /\ ~Rejected(r)
    /\ Entered(r, Call(r).n).base # 0
    /\ r' = [Entered(r, Call(r).n) EXCEPT !.pc = "expand"]
    /\ UNCHANGED <<recvFrame, rOut, toS, toR, closed, batches, rUsed>>

RecvBase ==
    /\ r.pc = "gen" /\ Ready(toR, "otAck")
    /\ LET p == [r EXCEPT !.base = batches, !.malOts = IF r.mal THEN batches ELSE @]
       IN r' = IF Call(r).op = "gen" THEN Returned(p) ELSE [p EXCEPT !.pc = "expand"]
    /\ toR' = Tail(toR)
    /\ UNCHANGED <<recvFrame, rOut, toS, closed, batches, rUsed>>

RecvBaseFails ==
    /\ script \in FailScripts /\ r.pc = "gen" /\ Ready(toR, "otAck") /\ ~closed
    /\ r' = Failed(r) /\ closed' = TRUE
    /\ UNCHANGED <<recvFrame, rOut, toS, toR, batches, rUsed>>

(* silentReceive asks for packed choice bits when it will hash: the lsb of  *)
(* the noise vector is overwritten by the choice vector.  Otherwise mC is  *)
(* the choice vector.                                                      *)
Packs(p) == Call(p).type \in {"random", "chosen"}
PackUncleared(A, S) == [q \in Noise |-> IF q \in S THEN Xor(A[q], {One}) ELSE A[q]]
Pack(A, S) == [q \in Noise |-> NoLsb(A[q]) \cup (IF q \in S THEN {One} ELSE {})]

(* compress: the noise vector's leaves through the code, and mC likewise.   *)
Compressed(p) == Encode(p.n, IF Packs(p) THEN Pack(p.A, p.S) ELSE p.A)
NoiseBits(p) == { i \in 0..(p.n - 1) : Cardinality(Code[p.n][i] \cap p.S) % 2 = 1 }

(* hash takes the choice bits from the packed blocks.                      *)
PackedBits(A) == { i \in DOMAIN A : Lsb(A[i]) = {One} }

RecvFinish(p) ==
    LET A == Compressed(p)
        bits == IF Packs(p) THEN PackedBits(A) ELSE NoiseBits(p)
        kept == [p EXCEPT !.A = A, !.C = IF Packs(p) THEN {} ELSE bits]
    IN /\ r' = Returned(IF Call(p).type = "inplace" THEN kept ELSE ClearedReceiver(kept))
       /\ rOut' = [rOut EXCEPT ![p.call] =
             [c |-> IF Call(p).type = "chosen" THEN want[p.call] ELSE bits,
              m |-> [i \in 0..(p.n - 1) |-> IF Packs(p) THEN Hash(A[i]) ELSE A[i]]]]
       /\ toS' = IF Call(p).type = "chosen"
                   THEN Append(toS, [kind |-> "correction", bits |-> Xor(bits, want[p.call])])
                   ELSE toS

(* The leaves: the sender's, off by delta at the points, and by an error    *)
(* at the leaf the corrupted message spoils.  The parties' batches must be  *)
(* the same for the pads to cancel.                                        *)
Received(m) ==
    [q \in Noise |->
        Xor(Xor(LeafOf(m.e, q), BitTimes(q \in r.S, Delta(m.e))),
            BitTimes(<<m.e, q>> \in bad \/ m.batch # r.base, Err(m.e)))]

RecvExpand ==
    /\ r.pc = "expand" /\ Ready(toR, "pprf")
    /\ closed => ~r.mal /\ ~Chooses(Call(r))
    /\ toR' = Tail(toR)
    /\ rUsed' = Append(rUsed, r.base)
    /\ LET p == Expanded([r EXCEPT !.A = Received(Head(toR)), !.C = {}]) IN
       IF r.mal
         THEN /\ r' = [p EXCEPT !.pc = "check"]
              /\ toS' = Append(toS, [kind |-> "seed"])
              /\ UNCHANGED rOut
         ELSE RecvFinish(p)
    /\ UNCHANGED <<recvFrame, closed, batches>>

(* The VOLE gives the sender b + delta * X for the receiver's b, if both    *)
(* use the malicious check's OTs of one batch.                             *)
CheckSkipped(p, vole, hash) == TRUE
CheckHolds(p, vole, hash) ==
    /\ vole.ots = p.malOts
    /\ Xor(PolySum(p.A), VoleOf(hash.e))
         = Xor(hash.sum, Xor(VoleOf(hash.e), DeltaTimes(hash.e, p.X)))

RecvCheck ==
    /\ r.pc = "check" /\ Len(toR) >= 2 /\ toR[1].kind = "vole" /\ toR[2].kind = "hash"
    /\ closed => ~Chooses(Call(r))
    /\ toR' = Tail(Tail(toR))
    /\ IF CheckHolds(r, toR[1], toR[2])
         THEN RecvFinish(r) /\ UNCHANGED closed
         ELSE r' = Failed(r) /\ closed' = TRUE /\ UNCHANGED <<rOut, toS>>
    /\ UNCHANGED <<recvFrame, batches, rUsed>>

(* Where the receiver's next step uses the socket in vain.                 *)
RecvStuck ==
    \/ r.pc \in {"gen", "expand", "check"} /\ toR = << >>
    \/ r.pc = "expand" /\ (r.mal \/ Chooses(Call(r)))
    \/ r.pc = "check" /\ Chooses(Call(r))
    \/ Busy(r) /\ ~Rejected(r) /\ Call(r).op = "gen"
    \/ Busy(r) /\ ~Rejected(r) /\ Call(r).op = "run" /\ Entered(r, Call(r).n).base = 0
RecvClosed ==
    /\ closed /\ RecvStuck
    /\ r' = Failed(r)
    /\ UNCHANGED <<recvFrame, rOut, toS, toR, closed, batches, rUsed>>

---------------------------------------------------------------------------
(* A sender that deviates in the PPRF, or a corrupted message.             *)
Corrupt ==
    /\ Cardinality(bad) < MaxCorrupt
    /\ \E k \in 1..Len(toR), q \in Noise :
          /\ toR[k].kind = "pprf" /\ <<toR[k].e, q>> \notin bad
          /\ bad' = bad \cup {<<toR[k].e, q>>}
    /\ UNCHANGED <<script, s, r, want, sOut, rOut, toS, toR, closed, batches, sUsed, rUsed>>

Ended(p) == p.pc = "failed" \/ (p.pc = "idle" /\ p.call > Calls)
Finished == Ended(s) /\ Ended(r)
Done == Finished /\ UNCHANGED vars

SendNext ==
    SendConfigure \/ SendReject \/ SendEnter \/ SendBase \/ SendBaseFails \/ SendExpand \/ SendCheck
    \/ SendCorrect \/ SendClosed
RecvNext ==
    \/ RecvConfigure \/ RecvReject \/ RecvEnter \/ RecvBase \/ RecvBaseFails \/ RecvExpand \/ RecvCheck
    \/ RecvClosed
    \/ \E S \in Positions : RecvSample(S)
Next == SendNext \/ RecvNext \/ Corrupt \/ Done

Spec == Init /\ [][Next]_vars
FairSpec == Spec /\ WF_vars(SendNext) /\ WF_vars(RecvNext)

---------------------------------------------------------------------------
(* Properties. *)

Phases == {"idle", "gen", "expand", "check", "failed"}

(* The shape of the two objects, of the outputs and of the socket.         *)
TypeOK ==
    /\ script \in Scripts /\ closed \in BOOLEAN /\ batches \in 0..Calls
    /\ s.pc \in Phases \cup {"correct"} /\ r.pc \in Phases
    /\ \A p \in {s, r} :
          /\ p.call \in 1..(Calls + 1) /\ p.n \in DOMAIN Code \cup {0} /\ p.mal \in BOOLEAN
          /\ p.base \in 0..batches /\ p.malOts \in 0..batches
    /\ s.delta \in 0..Len(sUsed) /\ Len(sUsed) <= Calls /\ Len(rUsed) <= Len(sUsed)
    /\ r.S \subseteq Noise /\ r.X \subseteq { p + 1 : p \in Noise }
    /\ Len(toS) <= 2 /\ Len(toR) <= 3 /\ bad \subseteq (1..Len(sUsed)) \X Noise

RunIdx(k) == Cardinality({ j \in 1..k : script[j].op = "run" })
Corrupted(k) == \E q \in Noise : <<RunIdx(k), q>> \in bad
(* The security a call runs under: that of the last configure before it.   *)
MalAt(k) ==
    LET cfgs == { j \in 1..k : script[j].op = "configure" }
    IN cfgs # {} /\ script[Max(cfgs)].mal
RunDone(p, k) == script[k].op = "run" /\ p.call > k

(* When both applications have an output for a call, the receiver's message *)
(* is the sender's message at the receiver's choice bit and not the other   *)
(* one, for every way of calling and whatever calls came before.           *)
OtCorrect ==
    \A k \in 1..Calls : (RunDone(s, k) /\ RunDone(r, k) /\ ~Corrupted(k)) =>
        \A i \in 0..(script[k].n - 1) :
            LET chosen == IF i \in rOut[k].c THEN 2 ELSE 1 IN
            /\ rOut[k].m[i] = sOut[k][i][chosen]
            /\ rOut[k].m[i] # sOut[k][i][3 - chosen]

(* A receiver configured for malicious security gets no output from an      *)
(* expansion that was corrupted.                                           *)
CorruptionCaught ==
    \A k \in 1..Calls : (RunDone(r, k) /\ MalAt(k)) => ~Corrupted(k)

(* Without corruption nobody fails, but for a call the code rejects: the    *)
(* malicious check accepts honest parties, also when the objects are        *)
(* configured again, with or without base OTs, and used again.  (Nothing is *)
(* promised when the base OT protocol itself may throw.)                   *)
HonestNeverFails ==
    (script \notin FailScripts /\ bad = {} /\ (closed \/ "failed" \in {s.pc, r.pc})) =>
        \E p \in {s, r} : p.pc = "failed" /\ p.call <= Calls /\ Rejected(p)

(* A batch of base OTs serves one expansion, the same one on both sides.   *)
FreshBase ==
    /\ \A d, e \in 1..Len(sUsed) : sUsed[d] = sUsed[e] => d = e
    /\ \A e \in 1..Len(rUsed) : rUsed[e] = sUsed[e]
    /\ \A e \in 1..Len(sUsed) : sUsed[e] # 0

(* Every sequence of calls ends for both parties, failed or not.           *)
Terminates == <>[]Finished
===========================================================================
