--------------------------- MODULE SilentOtTriple ---------------------------
(***************************************************************************)
(* SilentOtTriple: OLEs and Beaver triples over F2 from the correlation of   *)
(* a silent OT, by hashing each OT to one bit and packing the bits. Party 1  *)
(* is the silent OT sender, party 0 the receiver.                          *)
(*                                                                         *)
(* The silent OT is what SilentOt shows of it: B and delta for the sender,   *)
(* A = B + c delta with c in its low bit for the receiver. The packing is    *)
(* that of the build with vector instructions.                             *)
(***************************************************************************)
EXTENDS TwoParty, FiniteSets

CONSTANT TripleConfs

(* n outputs of type "ole" or "triple"; script is what the applications do:  *)
(* "init", "base", "ole" and "triple".                                     *)
TripleAssumption ==
    \A x \in TripleConfs : x.n \in Nat \ {0} /\ x.type \in {"ole", "triple"}

Word == 16  \* bits of a block, 128 in the code
RoundUp(n) == ((n + Word - 1) \div Word) * Word
mN == IF conf.type = "triple" THEN 2 * RoundUp(conf.n) ELSE RoundUp(conf.n)

SymDiff(S, T) == (S \ T) \cup (T \ S)

---------------------------------------------------------------------------
(* The bytes of a block, each the set of its bits. *)

(* The shuffle that puts the first byte in place k and zero elsewhere.       *)
shuffle_epi8(byte, k) ==
    [x \in 0..15 |-> IF x = k THEN byte ELSE {}]
slli_epi16(v, s) ==
    [x \in 0..15 |->
        { b \in 0..7 : LET from == b + 8 * (x % 2) - s IN
              from >= 0 /\ (from % 8) \in v[x - (x % 2) + (from \div 8)] }]
movemask_epi8(v) == { x \in 0..15 : 7 \in v[x] }

(* Sixteen blocks, of which the first bytes matter: their low bits are moved  *)
(* to a byte each, added up, and packed.                                   *)
Lanes(bytes) ==
    LET moved == [k \in 0..15 |-> shuffle_epi8(bytes[k], k)] IN
    slli_epi16([x \in 0..15 |-> { b \in 0..7 : Cardinality({ k \in 0..15 : b \in moved[k][x] }) % 2 = 1 }], 7)
Packed(bytes) == movemask_epi8(Lanes(bytes))

---------------------------------------------------------------------------
(* compressSender and compressRecver. *)

(* The first byte of the hash of B[i], plus delta if d, with low bit low.    *)
HashByte(call, i, d, low) ==
    { b \in 0..7 : (((i + 3) * (7 * b + 5 * d + 11 * call) + (b + d + low) * (b + 2 * i + 1) + low) \div 4) % 2 = 1 }
ChoiceBit(call, i) == (((i + call) * (i + 5)) \div 3) % 2

Groups == 0..((mN \div 16) - 1)
(* Sender and receiver clear the low bit before they hash.                  *)
SenderBits(call, g, d) == [k \in 0..15 |-> HashByte(call, 16 * g + k, d, 0)]
RecvBits(call, g) == [k \in 0..15 |-> HashByte(call, 16 * g + k, ChoiceBit(call, 16 * g + k), 0)]
Choices(call, g) == { k \in 0..15 : ChoiceBit(call, 16 * g + k) = 1 }

LowHalf(S) == { k \in S : k < 8 }
HighHalf(S) == { k - 8 : k \in { x \in S : x >= 8 } }
At(g, width, S) == { g * width + k : k \in S }

(* Of a group of OTs, a and c of an OLE, or a, b and c of a triple: the       *)
(* receiver's choices of one half meet the sender's differences of it.      *)
OfSender(call, g, triple) ==
    LET ap == Packed(SenderBits(call, g, 0))
        x == SymDiff(ap, Packed(SenderBits(call, g, 1)))
        both == LowHalf(x) \cap HighHalf(x)
    IN IF triple
         THEN [a |-> LowHalf(x), b |-> HighHalf(x), c |-> SymDiff(both, SymDiff(LowHalf(ap), HighHalf(ap)))]
         ELSE [a |-> x, b |-> {}, c |-> ap]
OfRecver(call, g, triple) ==
    LET ap == Packed(RecvBits(call, g))
        y == Choices(call, g)
        both == LowHalf(y) \cap HighHalf(y)
    IN IF triple
         THEN [a |-> HighHalf(y), b |-> LowHalf(y), c |-> SymDiff(both, SymDiff(LowHalf(ap), HighHalf(ap)))]
         ELSE [a |-> y, b |-> {}, c |-> ap]
Compress(p, call, triple) ==
    LET of == [g \in Groups |-> IF p = 1 THEN OfSender(call, g, triple) ELSE OfRecver(call, g, triple)]
        width == IF triple THEN 8 ELSE 16
    IN [triple |-> triple,
        a |-> UNION { At(g, width, of[g].a) : g \in Groups },
        b |-> UNION { At(g, width, of[g].b) : g \in Groups },
        c |-> UNION { At(g, width, of[g].c) : g \in Groups }]

---------------------------------------------------------------------------
(* The protocol. *)

About(st, ops) == st.pc = "idle" /\ st.call <= Len(conf.script) /\ conf.script[st.call] \in ops
Return(st) == [st EXCEPT !.pc = "idle", !.call = @ + 1]

TripleInit ==
    /\ conf \in TripleConfs
    /\ party = [p \in Parties |->
            [pc |-> "idle", call |-> 1, configured |-> FALSE, base |-> FALSE, out |-> << >>]]
    /\ net = EmptyNet

(* init makes a new silent OT sender or receiver, without base OTs.          *)
InitTriple(p) ==
    /\ About(party[p], {"init"})
    /\ Goes(p, Return([party[p] EXCEPT !.configured = TRUE, !.base = FALSE]), << >>)
SetBaseOts(p) ==
    /\ About(party[p], {"base"})
    /\ Goes(p, Return([party[p] EXCEPT !.base = TRUE]), << >>)

(* The buffers of a call hold what mN gives: blocks of OLEs, or half of      *)
(* that in triples.                                                        *)
Expand(p) ==
    /\ About(party[p], {"ole", "triple"}) /\ party[p].configured
    /\ Goes(p, [party[p] EXCEPT !.pc = "silent"], <<[n |-> mN, gen |-> ~party[p].base]>>)

(* The silent OT is done and its base OTs are used up. Compressing triples   *)
(* takes blocks in pairs, and refuses an odd number of them.               *)
SizesFit(triple) == triple => mN % (2 * Word) = 0
Compressed(p) ==
    /\ party[p].pc = "silent" /\ HasMessage(p)
    /\ LET st == [party[p] EXCEPT !.base = FALSE]
           triple == conf.script[st.call] = "triple"
       IN IF Message(p) # [n |-> mN, gen |-> ~party[p].base] \/ ~SizesFit(triple)
            THEN Takes(p, [st EXCEPT !.pc = "failed"], << >>)
            ELSE Takes(p, Return([st EXCEPT !.out = Append(@, Compress(p, st.call, triple))]), << >>)

Ended(st) == st.pc = "failed" \/ (st.pc = "idle" /\ st.call > Len(conf.script))
TripleDone == (\A p \in Parties : Ended(party[p])) /\ UNCHANGED vars
PartyNext(p) == InitTriple(p) \/ SetBaseOts(p) \/ Expand(p) \/ Compressed(p)
TripleNext == (\E p \in Parties : PartyNext(p)) \/ TripleDone
TripleSpec == TripleInit /\ [][TripleNext]_vars

---------------------------------------------------------------------------
(* Properties. *)

(* The outputs of a call are OLEs, or Beaver triples, bit by bit; only a      *)
(* call that was initialised for the other type fails.                     *)
BitTriplesCorrect ==
    /\ \A p \in Parties : party[p].pc = "failed" => conf.type = "ole"
    /\ \A k \in DOMAIN party[0].out \cap DOMAIN party[1].out :
          LET x == party[0].out[k] y == party[1].out[k] IN
          SymDiff(x.c, y.c) =
              IF x.triple THEN SymDiff(x.a, y.a) \cap SymDiff(x.b, y.b) ELSE x.a \cap y.a
===========================================================================
