----------------------------- MODULE SoftSpokenOt -----------------------------
(***************************************************************************)
(* SoftSpoken OT extension: SubspaceVole with the repetition code over      *)
(* SmallFieldVole, the semi-honest SoftSpokenShOt and SoftSpokenMalOt with  *)
(* its consistency check. Party 0 is the OT sender (the VOLE receiver),     *)
(* party 1 the OT receiver. Both make the calls of one script, on an        *)
(* object and on those split off it.                                       *)
(*                                                                         *)
(* Chunk stands for the 128 OTs of a block and Chunk \div 2 for the 64 of    *)
(* the check; CommSize, MaxAesUse, KeyBatch and MaxHashUse for commSize,    *)
(* maxAESKeyUsage, AESStream::chunkSize and maxHashKeyUsage.               *)
(***************************************************************************)
EXTENDS SmallFieldVole, TwoParty, SequencesExt

CONSTANTS SoftConfs, Chunk, CommSize, MaxAesUse, KeyBatch, MaxHashUse

(* delta: a field element per VOLE; pad: the blocks that vPadded adds to a  *)
(* chunk; wrong: <<call, VOLE>> where the receiver's first choice differs   *)
(* from what it chose; badLeaf: the leaves the VOLE sender gets wrong.      *)
SoftAssumption ==
    /\ Chunk \in Nat \ {0, 1} /\ Chunk % 2 = 0 /\ CommSize \in Nat \ {0}
    /\ MaxAesUse \in Nat /\ KeyBatch \in Nat \ {0} /\ MaxHashUse \in Nat \ {0}
    /\ \A c \in SoftConfs :
         /\ \A i \in DOMAIN c.delta : c.delta[i] \in 0..(2^c.fieldBits - 1)
         /\ c.pad \in 0..(Chunk - 1)
         /\ c.malicious \in BOOLEAN /\ c.random \in BOOLEAN

SenderP == 0
ReceiverP == 1

mFieldBits == conf.fieldBits
mNumVoles == Len(conf.delta)
Voles == 0..(mNumVoles - 1)
FieldBits == 0..(mFieldBits - 1)
(* The choice bits of the base OTs that were set in a call.                 *)
DeltaOf(base) ==
    [i \in 0..(VolesPadded(mFieldBits, mNumVoles) - 1) |->
        IF i \notin Voles THEN 0
        ELSE IF base % 2 = 1 THEN conf.delta[i + 1] ELSE 2^mFieldBits - 1 - conf.delta[i + 1]]

---------------------------------------------------------------------------
(* AESStream and AESRekeyManager: key KeyBatch * n + i of a stream is the   *)
(* ith of those made by the nth refill.                                    *)

NoKeys == [stream |-> 0, index |-> 0, filled |-> 0, count |-> -1]
KeysFrom(stream) == [stream |-> stream, index |-> 0, filled |-> 0, count |-> 0]
NextKey(k) ==
    [k EXCEPT !.index = @ + 1, !.filled = IF (k.index + 1) % KeyBatch = 0 THEN k.index + 1 ELSE @]
UseAes(k, n) ==
    IF k.count + n > MaxAesUse THEN [NextKey(k) EXCEPT !.count = 0] ELSE [k EXCEPT !.count = @ + n]
KeyOf(k) == <<k.stream, k.filled + (k.index % KeyBatch)>>
(* A split takes an index and does not refill.                             *)
SplitStream(k) == 10 * k.stream + k.index + 1
KeysLeft(k) == [k EXCEPT !.index = @ + 1]

---------------------------------------------------------------------------
(* The objects. Base OTs, and the seeds expanded from them, are named by    *)
(* the call that set them; 0 is none.                                      *)

NewObject == [base |-> 0, seeds |-> 0, delta |-> 0, blockIdx |-> 0, keys |-> NoKeys]
HasBaseOts(o) == o.seeds # 0 \/ o.base # 0
HasSeed(o) == o.seeds # 0

WithBaseOts(o, call) == [o EXCEPT !.base = call, !.delta = call, !.blockIdx = 0]
SplitOffSameKeys(o) ==
    [NewObject EXCEPT !.seeds = o.seeds, !.delta = o.delta, !.keys = o.keys]
(* copy leaves the PPRF and its base OTs behind.                           *)
SplitOff(o) == [NewObject EXCEPT !.seeds = o.seeds, !.delta = o.delta,
                                 !.keys = KeysFrom(SplitStream(o.keys))]
Expanded(o) == [o EXCEPT !.seeds = o.base, !.base = 0]

Seed(base, i, x) == <<3, base, i, x>>
ReceivedSeed(base, i, x) == IF <<i, x>> \in conf.badLeaf THEN <<4, base, i, x>> ELSE Seed(base, i, x)
(* The malicious variant goes on with the second part of the PRG.           *)
Final(seed) == IF conf.malicious THEN Refreshed(seed) ELSE seed
Prg(seed, o, j) == { Final(seed) \o KeyOf(o.keys) \o <<o.blockIdx, j>> }

UsedFor(o) == [o EXCEPT !.keys = UseAes(@, mNumVoles)]
AfterChunk(o) == [o EXCEPT !.blockIdx = @ + 1]
(* What the blocks of a chunk are a function of.                           *)
Pad(o) == [seeds |-> o.seeds, key |-> KeyOf(o.keys), blockIdx |-> o.blockIdx]

---------------------------------------------------------------------------
(* One chunk: the rows of its OTs, and the correction of u to the codeword  *)
(* of the choices. o has taken its key.                                    *)

One == {<<1>>}
SenderVole(o, j) ==
    SenderGenerate(mFieldBits, mNumVoles,
        [i \in 0..(VolesPadded(mFieldBits, mNumVoles) - 1) |->
            [x \in 0..(2^mFieldBits - 1) |-> Prg(Seed(o.seeds, i, x), o, j)]])
RowV(o, j) == LET g == SenderVole(o, j) IN [i \in Voles |-> g[i].v]
Correction(o, j, choice) ==
    LET g == SenderVole(o, j) IN [i \in Voles |-> Xor(g[i].u, BitTimes(choice[i], One))]

(* Position x of the receiver's seeds: the leaves, reordered when they were *)
(* expanded with the delta of that time.                                   *)
Leaves(base, i) == [x \in 0..(2^mFieldBits - 1) |-> ReceivedSeed(base, i, x)]
LeavesInOrder(base, i) == Leaves(base, i)
SeedsAt(base, i) == Reorder(Leaves(base, i), mFieldBits, DeltaOf(base)[i])
RowW(o, j, correction) ==
    ReceiverGenerate(mFieldBits, mNumVoles,
        [i \in Voles |-> [x \in 0..(2^mFieldBits - 1) |-> Prg(SeedsAt(o.seeds, i)[x], o, j)]],
                     DeltaOf(o.delta), correction)
PlusDelta(row, o) ==
    [i \in Voles |-> [b \in FieldBits |->
        Xor(row[i][b], BitTimes(BitAt(DeltaOf(o.delta)[i], b) = 1, One))]]

---------------------------------------------------------------------------
(* The calls. *)

Op(st) == conf.script[st.call]
About(p, op) == /\ party[p].pc = "idle" /\ party[p].call <= Len(conf.script)
                /\ Op(party[p]).op = op
Object(st) == st.objs[Op(st).obj]
SetObject(st, o) == [st EXCEPT !.objs[Op(st).obj] = o]
Returns(st, result) ==
    [st EXCEPT !.pc = "idle", !.call = @ + 1, !.out = Append(@, result),
               !.rows = << >>, !.extra = << >>]

NumOts(st) == Op(st).n
FullChunks(st) == NumOts(st) \div Chunk
NumChunks(st) == DivCeil(NumOts(st) + Chunk \div 2, Chunk)
NumExtra(st) == NumChunks(st) - FullChunks(st)

(* What is processed chunk by chunk: all the OTs of a semi-honest call, the *)
(* full chunks of a malicious one, and then its extra chunks.               *)
Instances(st) ==
    IF ~conf.malicious THEN NumOts(st)
    ELSE IF st.phase = "full" THEN FullChunks(st) * Chunk ELSE NumExtra(st) * Chunk
MinInstances == Chunk + conf.pad
BatchSize(st) == LET left == DivCeil(Instances(st), Chunk) - st.chunk IN
                 IF left < CommSize THEN left ELSE CommSize

(* The choice bit of OT m (from 0) of a call; behind the last come the      *)
(* random ones of the check.                                               *)
ChoiceOf(call, m) == (call + m + m \div Chunk) % 2 = 1
Wrong(st, m, i) == m = 0 /\ <<st.call, i>> \in conf.wrong
FirstOt(st) == (IF st.phase = "extra" THEN FullChunks(st) + st.chunk ELSE st.chunk) * Chunk
Claimed(st, m) ==
    IF ~conf.malicious \/ m < NumOts(st) + Chunk \div 2 THEN ChoiceOf(st.call, m) ELSE FALSE

BaseOts(p) ==
    /\ About(p, "base")
    /\ Goes(p, Returns(SetObject(party[p], WithBaseOts(Object(party[p]), party[p].call)), << >>), << >>)

Split(p) ==
    /\ About(p, "split")
    /\ LET st == party[p] o == Object(st)
           left == SetObject(st, [o EXCEPT !.keys = KeysLeft(@)])
       IN Goes(p, Returns([left EXCEPT !.objs = Append(@, SplitOff(o))], << >>), << >>)

(* genBaseOts gives new base OTs to an object without.                     *)
Ready(st) == LET o == Object(st) IN
    IF HasBaseOts(o) THEN o ELSE [o EXCEPT !.base = st.call, !.delta = st.call, !.blockIdx = 0]
StartChunks(st, phase) ==
    [st EXCEPT !.pc = "chunks", !.phase = phase, !.chunk = 0, !.buf = << >>,
               !.tail = MinInstances > Instances([st EXCEPT !.phase = phase])]

Fails(st) == [st EXCEPT !.pc = "failed"]
Close == <<[kind |-> "close"]>>

---------------------------------------------------------------------------
(* SoftSpokenShOtReceiver and SoftSpokenMalOtReceiver. *)

Receive ==
    /\ About(ReceiverP, "ext")
    /\ LET st == SetObject(party[ReceiverP], Ready(party[ReceiverP])) IN
       Goes(ReceiverP, IF HasSeed(Object(st)) THEN StartChunks(st, "full") ELSE [st EXCEPT !.pc = "seed"],
            << >>)

(* The PPRF and, for malicious security, the proof of every VOLE.           *)
SeedsOf(base, i) == [x \in 0..(2^mFieldBits - 1) |-> Seed(base, i, x)]
PprfMessage(base) == [kind |-> "pprf", proof |-> [i \in Voles |-> SeedProof(SeedsOf(base, i))]]
ExpandAsSender ==
    /\ party[ReceiverP].pc = "seed" /\ HasMessage(ReceiverP) /\ Message(ReceiverP).kind = "seed"
    /\ LET st == party[ReceiverP] o == Object(st) IN
       Takes(ReceiverP,
             StartChunks(SetObject(st, [Expanded(o) EXCEPT !.keys = KeysFrom(Message(ReceiverP).seed)]), "full"),
             <<PprfMessage(o.base)>>)

Flush(st, buf) == IF buf = << >> THEN << >> ELSE <<[kind |-> "correction", chunks |-> buf]>>

(* generateChosen of the next chunk.                                       *)
MakeChunk(st) ==
    LET o == UsedFor(Object(st))
        m(j) == FirstOt(st) + j - 1
        chunk == [j \in 1..Chunk |->
                    Correction(o, j, [i \in Voles |-> Claimed(st, m(j)) # Wrong(st, m(j), i)])]
        rows == [row |-> [j \in 1..Chunk |-> RowV(o, j)], key |-> KeyOf(o.keys)]
        made == [SetObject(st, AfterChunk(o)) EXCEPT !.chunk = @ + 1, !.buf = Append(@, chunk),
                                                   !.pads = Append(@, Pad(o))]
    IN IF st.phase = "full" THEN [made EXCEPT !.rows = Append(@, rows)]
       ELSE [made EXCEPT !.extra = Append(@, rows)]

(* The loop that works in place sends behind a chunk, unless it was its     *)
(* last; the loop with the temporary sends before the next.                *)
MakeInPlace ==
    /\ party[ReceiverP].pc = "chunks" /\ ~party[ReceiverP].tail
    /\ \E st \in {MakeChunk(party[ReceiverP])} :
         LET last == st.chunk * Chunk + MinInstances > Instances(st) IN
         IF ~last /\ st.chunk % CommSize = 0
           THEN Goes(ReceiverP, [st EXCEPT !.buf = << >>], Flush(st, st.buf))
           ELSE Goes(ReceiverP, [st EXCEPT !.tail = last], << >>)
MakeTemporary ==
    /\ party[ReceiverP].pc = "chunks" /\ party[ReceiverP].tail
    /\ party[ReceiverP].chunk * Chunk < Instances(party[ReceiverP])
    /\ LET st == party[ReceiverP]
           full == st.chunk % CommSize = 0
       IN Goes(ReceiverP, MakeChunk(IF full THEN [st EXCEPT !.buf = << >>] ELSE st),
               IF full THEN Flush(st, st.buf) ELSE << >>)

(* The chunk among rows that has OT m, and where.                          *)
Used(rows, m) == rows[(m - 1) \div Chunk + 1]
At(m) == ((m - 1) % Chunk) + 1
HashKey(row) == IF conf.random THEN row.key ELSE << >>
ReceivedMessages(st) ==
    [m \in 1..NumOts(st) |-> [key |-> HashKey(Used(st.rows, m)), msg |-> Used(st.rows, m).row[At(m)]]]
EndChunks ==
    /\ party[ReceiverP].pc = "chunks" /\ party[ReceiverP].tail
    /\ party[ReceiverP].chunk * Chunk >= Instances(party[ReceiverP])
    /\ LET st == party[ReceiverP] IN
       Goes(ReceiverP,
            IF ~conf.malicious THEN Returns(st, ReceivedMessages(st))
            ELSE IF st.phase = "full" THEN StartChunks(st, "extra")
            ELSE [st EXCEPT !.pc = "challenge"],
            Flush(st, st.buf))

---------------------------------------------------------------------------
(* The consistency check. *)

(* The chunks that are hashed: the full ones, one that is partly used, and  *)
(* the last extra one unless it was that.                                  *)
Hashed(st) ==
    st.rows
    \o (IF NumOts(st) % Chunk # 0 THEN <<st.extra[1]>> ELSE << >>)
    \o (IF NumExtra(st) = 2 \/ NumOts(st) % Chunk = 0 THEN <<st.extra[NumExtra(st)]>> ELSE << >>)

(* The universal hash of a sequence of chunks: chunk n is multiplied by a   *)
(* power of the hash key, which is replaced after MaxHashUse chunks; then   *)
(* the hash is added to the subtotal.                                      *)
Weigh(key, n, bits) == UNION { { <<key, n, j>> \o a : a \in bits[j] } : j \in DOMAIN bits }
HashNoRest(hash, subtotal) == subtotal
HashTotal(hash, subtotal) == Xor(subtotal, hash)
UniversalHash(chunks) ==
    LET f[n \in 0..Len(chunks)] ==
            IF n = 0 THEN [hash |-> ZeroBlock, sub |-> ZeroBlock, key |-> 1, uses |-> 0]
            ELSE LET h == Xor(f[n - 1].hash, Weigh(f[n - 1].key, n, chunks[n])) IN
                 IF f[n - 1].uses + 1 < MaxHashUse THEN [f[n - 1] EXCEPT !.hash = h, !.uses = @ + 1]
                 ELSE [hash |-> ZeroBlock, sub |-> Xor(f[n - 1].sub, h), key |-> f[n - 1].key + 1, uses |-> 0]
    IN HashTotal(f[Len(chunks)].hash, f[Len(chunks)].sub)
RowsHash(st) ==
    [i \in Voles |-> [b \in FieldBits |->
        UniversalHash([n \in DOMAIN Hashed(st) |-> [j \in 1..Chunk |-> Hashed(st)[n].row[j][i][b]]])]]
ChoicesHash(st) ==
    UniversalHash([n \in DOMAIN Hashed(st) |->
        [j \in 1..Chunk |-> BitTimes(Claimed(st, (n - 1) * Chunk + j - 1), One)]])

(* xorAndHashMessages with a tweak per message, from the last of a chunk to *)
(* the first; the key is the hasher's, which counts its uses as well.       *)
ChunkLen(st, n) == IF n * Chunk <= NumOts(st) THEN Chunk ELSE NumOts(st) - (n - 1) * Chunk
HasherKeys(st, hasher, n) ==
    LET f[k \in 0..n] == IF k = 0 THEN KeysFrom(hasher) ELSE UseAes(f[k - 1], ChunkLen(st, k)) IN f[n]
HasherKey(st, hasher, m) ==
    LET n == (m - 1) \div Chunk + 1 IN
    IF ~conf.random THEN << >>
    ELSE KeyOf(HasherKeys(st, hasher, n)) \o <<(n - 1) * Chunk + ChunkLen(st, n) - At(m)>>

Finished(st, hasher) ==
    [m \in 1..NumOts(st) |->
        [key |-> HasherKey(st, hasher, m), msg |-> Used(Hashed(st), m).row[At(m)]]]
Respond ==
    /\ party[ReceiverP].pc = "challenge" /\ HasMessage(ReceiverP)
    /\ Message(ReceiverP).kind = "challenge"
    /\ LET st == party[ReceiverP] IN
       Takes(ReceiverP, Returns(st, Finished(st, Message(ReceiverP).hasher)),
             <<[kind |-> "response", u |-> ChoicesHash(st), v |-> RowsHash(st)]>>)

---------------------------------------------------------------------------
(* SoftSpokenShOtSender and SoftSpokenMalOtSender. *)

Send ==
    /\ About(SenderP, "ext")
    /\ LET st == SetObject(party[SenderP], Ready(party[SenderP])) IN
       IF HasSeed(Object(st)) THEN Goes(SenderP, StartChunks(st, "full"), << >>)
       ELSE Goes(SenderP, SetObject([st EXCEPT !.pc = "pprf"], [Object(st) EXCEPT !.keys = KeysFrom(st.call)]),
                 <<[kind |-> "seed", seed |-> st.call]>>)

ExpandAsReceiver ==
    /\ party[SenderP].pc = "pprf" /\ HasMessage(SenderP) /\ Message(SenderP).kind = "pprf"
    /\ LET st == party[SenderP] o == Object(st)
           holds == \A i \in Voles :
               ProofHolds(Leaves(o.base, i), DeltaOf(o.base)[i], Message(SenderP).proof[i])
       IN IF conf.malicious /\ ~holds THEN Takes(SenderP, Fails(st), Close)
          ELSE Takes(SenderP, StartChunks(SetObject(st, Expanded(o)), "full"), << >>)

(* generateChosen of the next chunk, with its correction.                  *)
TakeChunk(st) ==
    LET o == UsedFor(Object(st))
        rows == [row |-> [j \in 1..Chunk |-> RowW(o, j, Head(st.buf)[j])], key |-> KeyOf(o.keys)]
        made == [SetObject(st, AfterChunk(o)) EXCEPT !.chunk = @ + 1, !.buf = Tail(@)]
    IN IF st.phase = "full" THEN [made EXCEPT !.rows = Append(@, rows)]
       ELSE [made EXCEPT !.extra = Append(@, rows)]
InChunks(st) == st.pc = "chunks" /\ st.chunk * Chunk < Instances(st)

(* recv takes the corrections of a batch when those before are used up.     *)
TakeBatch ==
    /\ InChunks(party[SenderP]) /\ party[SenderP].chunk % CommSize = 0
    /\ HasMessage(SenderP) /\ Message(SenderP).kind = "correction"
    /\ LET st == party[SenderP] m == Message(SenderP) IN
       IF Len(m.chunks) = BatchSize(st) /\ st.buf = << >>
         THEN Takes(SenderP, TakeChunk([st EXCEPT !.buf = m.chunks]), << >>)
         ELSE Takes(SenderP, Fails(st), Close)
TakeNext ==
    /\ InChunks(party[SenderP]) /\ party[SenderP].chunk % CommSize # 0
    /\ Goes(SenderP, TakeChunk(party[SenderP]), << >>)

SentMessages(st) ==
    [m \in 1..NumOts(st) |-> LET row == Used(st.rows, m).row[At(m)] IN
        [key |-> HashKey(Used(st.rows, m)), msg |-> <<row, PlusDelta(row, Object(st))>>]]
FinishedSends(st, hasher) ==
    [m \in 1..NumOts(st) |-> LET row == Used(Hashed(st), m).row[At(m)] IN
        [key |-> HasherKey(st, hasher, m), msg |-> <<row, PlusDelta(row, Object(st))>>]]
EndBatches ==
    /\ party[SenderP].pc = "chunks" /\ ~InChunks(party[SenderP])
    /\ LET st == party[SenderP] IN
       IF ~conf.malicious THEN Goes(SenderP, Returns(st, SentMessages(st)), << >>)
       ELSE IF st.phase = "full" THEN Goes(SenderP, StartChunks(st, "extra"), << >>)
       ELSE Goes(SenderP, [st EXCEPT !.pc = "response"], <<[kind |-> "challenge", hasher |-> 1000 + st.call]>>)

CheckFirstVole(st, m) ==
    \A b \in FieldBits :
        RowsHash(st)[0][b] = Xor(m.v[0][b], BitTimes(BitAt(DeltaOf(Object(st).delta)[0], b) = 1, m.u))
(* checkResponse: w = v + u * delta of the hashes, in every VOLE.           *)
CheckPasses(st, m) ==
    \A i \in Voles, b \in FieldBits :
        RowsHash(st)[i][b] = Xor(m.v[i][b], BitTimes(BitAt(DeltaOf(Object(st).delta)[i], b) = 1, m.u))
CheckResponse ==
    /\ party[SenderP].pc = "response" /\ HasMessage(SenderP) /\ Message(SenderP).kind = "response"
    /\ LET st == party[SenderP] IN
       IF CheckPasses(st, Message(SenderP))
         THEN Takes(SenderP, Returns(st, FinishedSends(st, 1000 + st.call)), << >>)
         ELSE Takes(SenderP, Fails(st), Close)

(* A party that waits on a closed socket fails.                            *)
SeeClosed(p) ==
    /\ party[p].pc \notin {"idle", "failed"} /\ HasMessage(p) /\ Message(p).kind = "close"
    /\ Takes(p, Fails(party[p]), << >>)

---------------------------------------------------------------------------

Idle == [pc |-> "idle", call |-> 1, objs |-> <<NewObject>>, phase |-> "full", chunk |-> 0,
         tail |-> FALSE, buf |-> << >>, rows |-> << >>, extra |-> << >>, pads |-> << >>, out |-> << >>]
SoftInit ==
    /\ conf \in SoftConfs
    /\ party = [p \in Parties |-> Idle]
    /\ net = EmptyNet

SoftEnded(p) ==
    \/ party[p].pc = "failed"
    \/ party[p].pc = "idle" /\ (party[p].call > Len(conf.script) \/ party[1 - p].pc = "failed")
SoftDone == (\A p \in Parties : SoftEnded(p)) /\ UNCHANGED vars

SoftNext ==
    \/ \E p \in Parties : BaseOts(p) \/ Split(p) \/ SeeClosed(p)
    \/ Receive \/ ExpandAsSender \/ MakeInPlace \/ MakeTemporary \/ EndChunks \/ Respond
    \/ Send \/ ExpandAsReceiver \/ TakeBatch \/ TakeNext \/ EndBatches \/ CheckResponse
    \/ SoftDone
SoftSpec == SoftInit /\ [][SoftNext]_vars

---------------------------------------------------------------------------
(* Properties. *)

IsExt(c) == conf.script[c].op = "ext"

(* A call that returned on both sides is an OT: what the receiver holds is  *)
(* the sender's message of its choice, hashed with the same key, and with   *)
(* the same tweak in the malicious variant.                                *)
SoftOtCorrect ==
    \A c \in DOMAIN party[SenderP].out \cap DOMAIN party[ReceiverP].out : IsExt(c) =>
        \A m \in 1..conf.script[c].n :
            LET r == party[ReceiverP].out[c][m] s == party[SenderP].out[c][m] IN
            /\ r.key = s.key
            /\ r.msg = s.msg[IF ChoiceOf(c, m - 1) THEN 2 ELSE 1]

(* No two chunks of the receiver, of one object or of objects split off it, *)
(* come from the same seeds, AES key and block index: the corrections of    *)
(* two chunks that did would give the difference of their choices away.     *)
SoftPadsFresh ==
    \A k, n \in DOMAIN party[ReceiverP].pads :
        k # n => party[ReceiverP].pads[k] # party[ReceiverP].pads[n]

(* The checks reject exactly the deviations that reach the sender: a choice *)
(* that differs in a VOLE with a nonzero delta, a leaf it does receive. A   *)
(* choice is checked before the call returns, a leaf before it is used.     *)
DeltaIn(c, i) == DeltaOf(party[SenderP].objs[conf.script[c].obj].delta)[i]
WrongChoice(c) == \E d \in conf.wrong : d[1] = c /\ DeltaIn(c, d[2]) # 0
Received(base, l) == DeltaOf(base)[l[1]] # l[2]
WrongLeaf(c) ==
    \E l \in conf.badLeaf : Received(party[SenderP].objs[conf.script[c].obj].delta, l)
SoftChecksExact ==
    LET st == party[SenderP] IN
    /\ \A c \in DOMAIN st.out : (IsExt(c) /\ conf.malicious) => ~WrongChoice(c)
    /\ \A o \in DOMAIN st.objs : (conf.malicious /\ HasSeed(st.objs[o])) =>
          \A l \in conf.badLeaf : ~Received(st.objs[o].seeds, l)
    /\ st.pc = "failed" => WrongChoice(st.call) \/ WrongLeaf(st.call)
===========================================================================
