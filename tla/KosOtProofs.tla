---------------------------- MODULE KosOtProofs ----------------------------
(***************************************************************************)
(* PadsFresh, PartiesInStep, OtCorrect and CheckIsExact of KosOt for every  *)
(* value of the constants.                                                 *)
(*                                                                         *)
(* First the blocks the receivers draw, which is what PadsFresh is about:   *)
(* that proof follows conf and r for every script of calls and splits, and  *)
(* leaves the senders, the sockets and the check aside. Then the two        *)
(* parties: where one stands between two calls follows from the script      *)
(* alone (Timeline); so does every row and message, up to what the receiver *)
(* got wrong. The proof says so of the two parties and of what is on its    *)
(* way between them, of the instance the applications set up.               *)
(***************************************************************************)
EXTENDS KosOt, XorTheorems

---------------------------------------------------------------------------
(* No block of a PRNG serves twice.                                         *)

(* A receiver's row block is drawn from one PRNG per column.                *)
RowsAt(ks, pos) == [row \in Rows |-> [c \in Cols |-> Bit(ks[c], pos, row)]]
Key == Seq(Int)
PadBlocks == { RowsAt(ks, pos) : ks \in [Cols -> Key], pos \in Nat }

PartyFields == {"pc", "out", "base", "keys", "idx", "cfg", "blk", "t", "seen"}
ReceiverType(p) ==
    /\ DOMAIN p = PartyFields
    /\ p.out \in Seq(Seq(PadBlocks)) /\ p.t \in Seq(PadBlocks)
    /\ p.base \in BOOLEAN /\ p.idx \in Nat
    /\ p.base => p.keys \in [Cols -> [{0, 1} -> Key]]

(* What a receiver has drawn: row block b of its call k.                    *)
CallRows(p, k) == IF k <= Len(p.out) THEN p.out[k] ELSE p.t
DrawnOf(p) == UNION { { <<k, b>> : b \in 1..Len(CallRows(p, k)) } : k \in 1..(Len(p.out) + 1) }
Pads(blk) == UNION { { <<a[2], a[3]>> : a \in blk[0][c] } : c \in Cols }
PadsOf(p, d) == Pads(CallRows(p, d[1])[d[2]])
AllPads(p) == UNION { PadsOf(p, d) : d \in DrawnOf(p) }

(* The keys of its base OTs, and those it has drawn from.                   *)
Held(p) == IF p.base THEN { p.keys[c][b] : c \in Cols, b \in {0, 1} } ELSE {}
KeysOf(p) == Held(p) \cup { a[1] : a \in AllPads(p) }

(* The last call whose base OTs may be known.                               *)
Made(p) == IF p.pc = "idle" THEN Len(p.out) ELSE Len(p.out) + 1

(* f[i] is the receiver of instance i. A split key is of a call up to the   *)
(* current one of the instance it comes from, and of a position behind.     *)
Spent(f, key) ==
    /\ key[2] \in 1..Made(f[Root])
    /\ \A h \in Held(f[Root]) : key = Append(h, key[5]) => key[5] < f[Root].idx
Own(f, i, key) ==
    /\ key \in Key
    /\ \/ Len(key) = 4 /\ key[1] = i /\ key[2] \in 1..Made(f[i])
       \/ i # Root /\ Len(key) = 4 /\ key[1] = -1 /\ key[2] = i
       \/ i # Root /\ Len(key) = 5 /\ key[1] = Root /\ Spent(f, key)

Lives(f) ==
    /\ Root \in DOMAIN f /\ DOMAIN f \subseteq Nat
    /\ f[Root].pc # "unborn"
    /\ \A i \in DOMAIN f :
          /\ ReceiverType(f[i])
          /\ f[i].pc \in {"idle", "unborn"} => f[i].t = << >>
          /\ f[i].pc = "ext" => f[i].base
          /\ i # Root /\ f[i].pc # "unborn" => f[i].base
OwnKeys(f) == \A i \in DOMAIN f : \A key \in KeysOf(f[i]) : Own(f, i, key)
KeysApart(f) == \A i, j \in DOMAIN f : i # j => KeysOf(f[i]) \cap KeysOf(f[j]) = {}
Behind(f) == \A i \in DOMAIN f : \A a \in AllPads(f[i]) : a[1] \in Held(f[i]) => a[2] < f[i].idx
RowsApart(f) ==
    \A i \in DOMAIN f : \A d, e \in DrawnOf(f[i]) : d # e => PadsOf(f[i], d) \cap PadsOf(f[i], e) = {}
Reserved(f) ==
    \A i, j \in DOMAIN f : i # Root => \A a \in AllPads(f[j]) : Append(a[1], a[2]) \notin Held(f[i])

Apart(f) == OwnKeys(f) /\ KeysApart(f) /\ Behind(f) /\ RowsApart(f) /\ Reserved(f)
(* A receiver in the middle of a call has blocks left.                      *)
InCall(i) ==
    /\ r[i].cfg.mal \in BOOLEAN
    /\ r[i].pc = "ext" =>
          /\ Call(r[i]) \in 1..NumCalls(i) /\ Op(i, r[i]).op = "ext"
          /\ r[i].blk \in Nat /\ r[i].blk < RecvBlocks(Op(i, r[i]).n, r[i].cfg.mal)
InCalls == \A i \in Insts : InCall(i)

PadInv == conf \in Confs /\ DOMAIN r = Insts /\ Lives(r) /\ InCalls /\ Apart(r)

---------------------------------------------------------------------------
(* Keys: those made in a call and those derived by a split.                 *)

LEMMA MadeKey ==
    ASSUME NEW i \in Int, NEW k \in Int, NEW c \in Int, NEW b \in Int
    PROVE  /\ <<i, k, c, b>> \in Key /\ Len(<<i, k, c, b>>) = 4
           /\ <<i, k, c, b>>[1] = i /\ <<i, k, c, b>>[2] = k
  BY DEF Key

LEMMA KeyParts ==
    ASSUME NEW key \in Key, NEW n \in 1..Len(key)
    PROVE  key[n] \in Int
  BY DEF Key

LEMMA SplitKey ==
    ASSUME NEW key \in Key, NEW n \in Nat, Len(key) = n, NEW p \in Int
    PROVE  /\ Append(key, p) \in Key /\ Len(Append(key, p)) = n + 1
           /\ Append(key, p)[n + 1] = p
           /\ \A m \in 1..n : Append(key, p)[m] = key[m]
  BY DEF Key

LEMMA SplitMadeKey ==
    ASSUME NEW key \in Key, Len(key) = 4, NEW p \in Int
    PROVE  /\ Append(key, p) \in Key /\ Len(Append(key, p)) = 5 /\ Append(key, p)[5] = p
           /\ Append(key, p)[1] = key[1] /\ Append(key, p)[2] = key[2]
<1>1. ASSUME NEW n \in Nat, Len(key) = n
      PROVE  /\ Append(key, p) \in Key /\ Len(Append(key, p)) = n + 1 /\ Append(key, p)[n + 1] = p
             /\ \A m \in 1..n : Append(key, p)[m] = key[m]
  BY <1>1, SplitKey, Zenon, SMTT(30)
<1>2. 4 \in Nat /\ 4 + 1 = 5 /\ 1 \in 1..4 /\ 2 \in 1..4
  BY SMT
<1>3. QED
  BY <1>1, <1>2, Zenon

LEMMA SplitKeyApart ==
    ASSUME NEW f \in Key, NEW g \in Key, NEW p \in Int, NEW q \in Int, Append(f, p) = Append(g, q)
    PROVE  f = g /\ p = q
<1>1. Len(f) = Len(g)
  BY DEF Key
<1>2. p = q
  BY <1>1 DEF Key
<1>3. ASSUME NEW m \in 1..Len(f) PROVE f[m] = g[m]
  <2>1. Append(f, p)[m] = f[m] /\ Append(g, q)[m] = g[m]
    BY <1>1, SplitKey, SMTT(30) DEF Key
  <2>2. QED
    BY <2>1
<1>4. QED
  BY <1>1, <1>2, <1>3, SMTT(30) DEF Key

(* The assumption on the scripts, for the settings of a behaviour.          *)
LEMMA ScriptFacts ==
    ASSUME conf \in Confs
    PROVE  /\ Root \in Insts /\ Insts \subseteq Nat
           /\ \A i \in Insts : NumCalls(i) \in Nat
           /\ \A i \in Insts : \A k \in 1..NumCalls(i) :
                 LET op == conf.script[i][k] IN
                 \/ op.op = "base"
                 \/ op.op = "split" /\ op.child \in Insts \ {Root} /\ i = Root
                 \/ op.op = "ext" /\ op.n \in Nat \ {0} /\ op.payload \in BOOLEAN
  BY KosAssumption DEF Insts, NumCalls

---------------------------------------------------------------------------
(* What a call that returns, and one that draws, leave of the rows.         *)

SameDrawn(p, q) ==
    /\ DrawnOf(q) = DrawnOf(p)
    /\ \A d \in DrawnOf(p) : PadsOf(q, d) = PadsOf(p, d)

LEMMA InDrawnOf ==
    ASSUME NEW p, Len(p.out) \in Nat, NEW d
    PROVE  d \in DrawnOf(p) <=> \E k \in 1..(Len(p.out) + 1) : \E b \in 1..Len(CallRows(p, k)) : d = <<k, b>>
  BY DEF DrawnOf

LEMMA SamePads ==
    ASSUME NEW p, NEW q, SameDrawn(p, q)
    PROVE  AllPads(q) = AllPads(p)
  BY DEF SameDrawn, AllPads

LEMMA SameRows ==
    ASSUME NEW p, ReceiverType(p), NEW q, q.out = p.out, q.t = p.t
    PROVE  SameDrawn(p, q)
  BY DEF SameDrawn, DrawnOf, PadsOf, CallRows

LEMMA ReturnedRows ==
    ASSUME NEW p, ReceiverType(p), NEW q, q.out = Append(p.out, p.t), q.t = << >>
    PROVE  SameDrawn(p, q)
<1> DEFINE n == Len(p.out)
<1>1. n \in Nat /\ Len(q.out) = n + 1
  BY DEF ReceiverType
<1>2. \A k \in 1..(n + 1) : CallRows(q, k) = CallRows(p, k)
  BY <1>1 DEF CallRows, ReceiverType
<1>3. Len(CallRows(q, n + 2)) = 0
  BY <1>1 DEF CallRows
<1>4. ASSUME NEW d PROVE d \in DrawnOf(q) <=> d \in DrawnOf(p)
  <2>1. d \in DrawnOf(q) <=> \E k \in 1..(n + 2) : \E b \in 1..Len(CallRows(q, k)) : d = <<k, b>>
    BY <1>1, InDrawnOf, SMTT(30)
  <2>2. d \in DrawnOf(p) <=> \E k \in 1..(n + 1) : \E b \in 1..Len(CallRows(p, k)) : d = <<k, b>>
    BY <1>1, InDrawnOf
  <2> HIDE DEF n
  <2>3. QED
    BY <1>1, <1>2, <1>3, <2>1, <2>2, SMTT(30)
<1>5. DrawnOf(q) = DrawnOf(p)
  BY <1>4
<1>6. ASSUME NEW d \in DrawnOf(p) PROVE PadsOf(q, d) = PadsOf(p, d)
  BY <1>1, <1>2, InDrawnOf DEF PadsOf
<1>7. QED
  BY <1>5, <1>6 DEF SameDrawn

(* The pads of a receiver are pairs of a key and a position.                *)
LEMMA PadTypes ==
    ASSUME NEW p, ReceiverType(p)
    PROVE  /\ \A d \in DrawnOf(p) : CallRows(p, d[1])[d[2]] \in PadBlocks
           /\ AllPads(p) \subseteq Key \X Nat
           /\ \A a \in AllPads(p) : a[1] \in KeysOf(p)
           /\ \A d \in DrawnOf(p) : PadsOf(p, d) \subseteq AllPads(p)
           /\ Held(p) \subseteq Key
           /\ Held(p) \subseteq KeysOf(p)
           /\ Len(p.out) \in Nat
<1>1. Len(p.out) \in Nat /\ \A k \in 1..(Len(p.out) + 1) : CallRows(p, k) \in Seq(PadBlocks)
  BY DEF ReceiverType, CallRows
<1>2. ASSUME NEW d \in DrawnOf(p) PROVE CallRows(p, d[1])[d[2]] \in PadBlocks
  <2>1. PICK k \in 1..(Len(p.out) + 1) : \E b \in 1..Len(CallRows(p, k)) : d = <<k, b>>
    BY <1>1, InDrawnOf
  <2>2. QED
    BY <1>1, <2>1
<1>3. ASSUME NEW B \in PadBlocks PROVE Pads(B) \subseteq Key \X Nat
  <2>1. PICK ks \in [Cols -> Key], pos \in Nat : B = RowsAt(ks, pos)
    BY <1>3 DEF PadBlocks
  <2>2. 0 \in Rows
    BY KosAssumption DEF Rows
  <2>3. \A c \in Cols : B[0][c] = { <<1, ks[c], pos, 0>> }
    BY <2>1, <2>2 DEF RowsAt, Bit
  <2>4. QED
    BY <2>1, <2>3 DEF Pads
<1>4. AllPads(p) \subseteq Key \X Nat
  BY <1>2, <1>3 DEF AllPads, PadsOf
<1>5. Held(p) \subseteq Key
  BY DEF Held, ReceiverType
<1>6. QED
  BY <1>1, <1>2, <1>4, <1>5 DEF AllPads, KeysOf

---------------------------------------------------------------------------
(* Steps of one receiver: it draws from the keys it holds, from its index    *)
(* on, or leaves the rows as they are.                                      *)

Draws(p, q) ==
    /\ Held(q) = Held(p) /\ q.idx >= p.idx /\ Made(q) >= Made(p)
    /\ DrawnOf(p) \subseteq DrawnOf(q)
    /\ \A d \in DrawnOf(p) : PadsOf(q, d) = PadsOf(p, d)
    /\ \A d \in DrawnOf(q) \ DrawnOf(p) :
          \E pos \in p.idx..(q.idx - 1) : PadsOf(q, d) \subseteq Held(p) \X {pos}
    /\ \A d, e \in DrawnOf(q) \ DrawnOf(p) : d # e => PadsOf(q, d) \cap PadsOf(q, e) = {}

LEMMA MadeType ==
    ASSUME NEW p, ReceiverType(p)
    PROVE  Made(p) \in Nat
  BY DEF Made, ReceiverType

LEMMA OwnGrows ==
    ASSUME NEW f, Lives(f), NEW g, Lives(g), DOMAIN g = DOMAIN f, NEW i \in DOMAIN f,
           \A j \in DOMAIN f : Made(g[j]) >= Made(f[j]),
           Held(g[Root]) = Held(f[Root]), g[Root].idx >= f[Root].idx,
           NEW key, Own(f, i, key)
    PROVE  Own(g, i, key)
<1>1. \A j \in DOMAIN f : Made(f[j]) \in Nat /\ Made(g[j]) \in Nat
  BY MadeType DEF Lives
<1>2. f[Root].idx \in Nat /\ g[Root].idx \in Nat /\ Root \in DOMAIN f
  BY DEF Lives, ReceiverType
<1>3. CASE i # Root /\ Len(key) = 5 /\ key[1] = Root /\ Spent(f, key)
  <2>1. key[2] \in 1..Made(g[Root])
    BY <1>1, <1>2, <1>3 DEF Spent
  <2>2. key[5] \in Int
    <3>1. key \in Key /\ 5 \in 1..Len(key)
      BY <1>3 DEF Own
    <3>2. QED
      BY <3>1, KeyParts
  <2>3. \A h \in Held(g[Root]) : key = Append(h, key[5]) => key[5] < g[Root].idx
    BY <1>2, <1>3, <2>2, SMTT(30) DEF Spent
  <2>4. QED
    BY <1>3, <2>1, <2>3 DEF Spent, Own
<1>4. CASE Len(key) = 4 /\ key[1] = i /\ key[2] \in 1..Made(f[i])
  BY <1>1, <1>4 DEF Own
<1>5. QED
  BY <1>3, <1>4 DEF Own

LEMMA DrawsKeep ==
    ASSUME NEW f, Lives(f), Apart(f), NEW g, Lives(g), DOMAIN g = DOMAIN f,
           NEW i \in DOMAIN f, \A j \in DOMAIN f \ {i} : g[j] = f[j], Draws(f[i], g[i])
    PROVE  Apart(g)
<1>1. \A j \in DOMAIN f : ReceiverType(f[j]) /\ ReceiverType(g[j])
  BY DEF Lives
<1>2. \A j \in DOMAIN f : f[j].idx \in Nat /\ g[j].idx \in Nat /\ Made(f[j]) \in Nat
  BY <1>1, MadeType DEF ReceiverType
<1>3. \A j \in DOMAIN f : Made(g[j]) >= Made(f[j]) /\ Held(g[j]) = Held(f[j]) /\ g[j].idx >= f[j].idx
  BY <1>2 DEF Draws
<1>4. ASSUME NEW a \in AllPads(g[i])
      PROVE  \/ a \in AllPads(f[i])
             \/ a[1] \in Held(f[i]) /\ a[2] \in (f[i].idx)..(g[i].idx - 1)
  BY DEF AllPads, Draws
<1>5. \A j \in DOMAIN f : KeysOf(g[j]) \subseteq KeysOf(f[j])
  <2>1. KeysOf(g[i]) \subseteq KeysOf(f[i])
    BY <1>3, <1>4 DEF KeysOf
  <2>2. QED
    BY <2>1
<1>6. \A j \in DOMAIN f : \A a \in AllPads(f[j]) : a \in Key \X Nat /\ a[1] \in KeysOf(f[j])
  BY <1>1, PadTypes
<1>7. \A j \in DOMAIN f : Held(f[j]) \subseteq Key /\ Held(f[j]) \subseteq KeysOf(f[j])
  BY <1>1, PadTypes
<1>8. OwnKeys(g)
  <2>1. \A j \in DOMAIN f : \A key : Own(f, j, key) => Own(g, j, key)
    BY <1>3, OwnGrows DEF Lives
  <2>2. QED
    BY <1>5, <2>1 DEF OwnKeys, Apart
<1>9. KeysApart(g)
  BY <1>5 DEF KeysApart, Apart
<1>10. Behind(g)
  <2>1. ASSUME NEW a \in AllPads(g[i]), a[1] \in Held(g[i]) PROVE a[2] < g[i].idx
    <3>1. CASE a \in AllPads(f[i])
      BY <1>2, <1>3, <1>6, <2>1, <3>1 DEF Behind, Apart
    <3>2. CASE a[2] \in (f[i].idx)..(g[i].idx - 1)
      BY <1>2, <3>2
    <3>3. QED
      BY <1>4, <3>1, <3>2
  <2>2. QED
    BY <2>1 DEF Behind, Apart
<1>11. RowsApart(g)
  <2>1. ASSUME NEW d \in DrawnOf(g[i]), NEW e \in DrawnOf(g[i]), d # e, d \notin DrawnOf(f[i])
        PROVE  PadsOf(g[i], d) \cap PadsOf(g[i], e) = {}
    <3>1. CASE e \notin DrawnOf(f[i])
      BY <2>1, <3>1 DEF Draws
    <3>2. CASE e \in DrawnOf(f[i])
      <4>1. PICK pos \in (f[i].idx)..(g[i].idx - 1) : PadsOf(g[i], d) \subseteq Held(f[i]) \X {pos}
        BY <2>1 DEF Draws
      <4>2. PadsOf(g[i], e) \subseteq AllPads(f[i])
        BY <1>1, <3>2, PadTypes DEF Draws
      <4>3. SUFFICES ASSUME NEW a \in PadsOf(g[i], d), a \in PadsOf(g[i], e) PROVE FALSE
        OBVIOUS
      <4>4. a[1] \in Held(f[i]) /\ a[2] = pos
        BY <4>1, <4>3
      <4>5. pos < f[i].idx
        BY <4>2, <4>3, <4>4 DEF Behind, Apart
      <4>6. QED
        BY <1>2, <4>5
    <3>3. QED
      BY <3>1, <3>2
  <2>2. ASSUME NEW d \in DrawnOf(f[i]), NEW e \in DrawnOf(f[i]), d # e
        PROVE  PadsOf(g[i], d) \cap PadsOf(g[i], e) = {}
    BY <2>2 DEF Draws, RowsApart, Apart
  <2>3. \A d, e \in DrawnOf(g[i]) : d # e => PadsOf(g[i], d) \cap PadsOf(g[i], e) = {}
    BY <2>1, <2>2
  <2>4. QED
    BY <2>3 DEF RowsApart, Apart
<1>12. Reserved(g)
  <2>1. SUFFICES ASSUME NEW k \in DOMAIN f, NEW j \in DOMAIN f, k # Root, NEW a \in AllPads(g[j]),
                        Append(a[1], a[2]) \in Held(f[k])
                 PROVE  FALSE
    BY <1>3 DEF Reserved
  <2>2. a \notin AllPads(f[j])
    BY <2>1 DEF Reserved, Apart
  <2>3. j = i /\ a[1] \in Held(f[i]) /\ a[2] \in (f[i].idx)..(g[i].idx - 1)
    BY <1>4, <2>1, <2>2
  <2>4. a[1] \in Key /\ a[2] \in Nat
    BY <1>2, <1>7, <2>3
  <2>5. Own(f, i, a[1]) /\ Own(f, k, Append(a[1], a[2]))
    BY <1>7, <2>1, <2>3 DEF OwnKeys, Apart
  <2>6. PICK n \in {4, 5} : Len(a[1]) = n
    BY <2>5 DEF Own
  <2>7. n = 4
    <3>1. Len(Append(a[1], a[2])) = n + 1
      BY <2>4, <2>6, SplitKey
    <3>2. QED
      BY <2>5, <3>1 DEF Own
  <2>8. /\ Len(Append(a[1], a[2])) = 5 /\ Append(a[1], a[2])[5] = a[2] /\ Append(a[1], a[2])[1] = a[1][1]
    BY <2>4, <2>6, <2>7, SplitMadeKey
  <2>9. a[1][1] = Root /\ Spent(f, Append(a[1], a[2]))
    BY <2>5, <2>8 DEF Own
  <2>10. i = Root
    BY <2>5, <2>6, <2>7, <2>9 DEF Own, Root
  <2>11. a[2] < f[Root].idx
    BY <2>3, <2>8, <2>9, <2>10 DEF Spent
  <2>12. QED
    BY <1>2, <2>3, <2>10, <2>11
<1>13. QED
  BY <1>8, <1>9, <1>10, <1>11, <1>12 DEF Apart

(* New base OTs, made in the call that comes next: nobody knows their keys.  *)
MadeKeys(i, k) == { <<i, k, c, b>> : c \in Cols, b \in {0, 1} }

Rebases(i, p, q) ==
    /\ p.pc = "idle" /\ SameDrawn(p, q)
    /\ Held(q) = MadeKeys(i, Len(p.out) + 1) /\ Made(q) > Len(p.out)

LEMMA RebaseKeeps ==
    ASSUME NEW f, Lives(f), Apart(f), NEW g, Lives(g), DOMAIN g = DOMAIN f,
           NEW i \in DOMAIN f, \A j \in DOMAIN f \ {i} : g[j] = f[j], Rebases(i, f[i], g[i])
    PROVE  Apart(g)
<1> DEFINE n == Len(f[i].out)
<1>1. \A j \in DOMAIN f : ReceiverType(f[j]) /\ ReceiverType(g[j])
  BY DEF Lives
<1>2. /\ n \in Nat /\ i \in Nat /\ Made(f[i]) = n
      /\ \A j \in DOMAIN f : Made(f[j]) \in Nat /\ Made(g[j]) \in Nat
  BY <1>1, MadeType DEF Lives, Rebases, ReceiverType, Made
<1>3. ASSUME NEW key \in MadeKeys(i, n + 1)
      PROVE  key \in Key /\ Len(key) = 4 /\ key[1] = i /\ key[2] = n + 1
  <2>1. PICK c \in Cols, b \in {0, 1} : key = <<i, n + 1, c, b>>
    BY <1>3 DEF MadeKeys
  <2>2. i \in Int /\ n + 1 \in Int /\ c \in Int /\ b \in Int
    BY <1>2, KosAssumption DEF Cols
  <2> HIDE DEF n
  <2>3. QED
    BY <2>1, <2>2, MadeKey
<1> HIDE DEF n
<1>4. ASSUME NEW j \in DOMAIN f, NEW key \in MadeKeys(i, n + 1) PROVE ~Own(f, j, key)
  <2>1. i # -1 /\ n + 1 \notin 1..Made(f[i]) /\ 4 # 5
    BY <1>2
  <2>2. QED
    BY <1>3, <2>1 DEF Own
<1>5. ASSUME NEW j \in DOMAIN f, NEW key \in KeysOf(f[j]) PROVE key \notin MadeKeys(i, n + 1)
  BY <1>4 DEF OwnKeys, Apart
<1>6. Held(g[i]) = MadeKeys(i, n + 1)
  BY DEF Rebases, n
<1>7. \A j \in DOMAIN f : AllPads(g[j]) = AllPads(f[j]) /\ DrawnOf(g[j]) = DrawnOf(f[j])
  BY SamePads DEF Rebases, SameDrawn
<1>8. KeysOf(g[i]) \subseteq KeysOf(f[i]) \cup MadeKeys(i, n + 1)
  BY <1>6, <1>7 DEF KeysOf
<1>9. \A j \in DOMAIN f : Made(g[j]) >= Made(f[j])
  BY <1>2 DEF Rebases, n
<1>10. ASSUME NEW key, key \in Key, Len(key) = 5, Spent(f, key) PROVE Spent(g, key)
  <2>1. Root \in DOMAIN f
    BY DEF Lives
  <2>2. key[2] \in 1..Made(g[Root])
    BY <1>2, <1>9, <1>10, <2>1 DEF Spent
  <2>3. CASE i = Root
    <3>1. ASSUME NEW h \in Held(g[Root]) PROVE key # Append(h, key[5])
      <4>1. h \in Key /\ Len(h) = 4 /\ h[2] = n + 1
        BY <1>3, <1>6, <2>3, <3>1
      <4>2. key[5] \in Int
        <5>1. 5 \in 1..Len(key)
          BY <1>10
        <5>2. QED
          BY <1>10, <5>1, KeyParts
      <4>3. Append(h, key[5])[2] = n + 1
        BY <4>1, <4>2, SplitMadeKey
      <4>4. key[2] # n + 1
        BY <1>2, <1>10, <2>3 DEF Spent
      <4>5. QED
        BY <4>3, <4>4
    <3>2. QED
      BY <2>2, <3>1 DEF Spent
  <2>4. CASE i # Root
    BY <1>10, <2>1, <2>2, <2>4 DEF Spent
  <2>5. QED
    BY <2>3, <2>4
<1>11. ASSUME NEW j \in DOMAIN f, NEW key, Own(f, j, key) PROVE Own(g, j, key)
  <2>1. CASE j # Root /\ Len(key) = 5 /\ key[1] = Root /\ Spent(f, key)
    BY <1>10, <1>11, <2>1 DEF Own
  <2>2. CASE Len(key) = 4 /\ key[1] = j /\ key[2] \in 1..Made(f[j])
    BY <1>2, <1>9, <1>11, <2>2 DEF Own
  <2>3. QED
    BY <1>11, <2>1, <2>2 DEF Own
<1>12. ASSUME NEW key \in MadeKeys(i, n + 1) PROVE Own(g, i, key)
  <2>1. key[2] \in 1..Made(g[i])
    BY <1>2, <1>3, <1>12 DEF Rebases, n
  <2>2. QED
    BY <1>3, <1>12, <2>1 DEF Own
<1>13. OwnKeys(g)
  BY <1>8, <1>11, <1>12 DEF OwnKeys, Apart
<1>14. KeysApart(g)
  BY <1>5, <1>8 DEF KeysApart, Apart
<1>15. Behind(g)
  <2>1. \A a \in AllPads(g[i]) : a[1] \notin Held(g[i])
    BY <1>1, <1>5, <1>6, <1>7, PadTypes
  <2>2. QED
    BY <1>7, <2>1 DEF Behind, Apart
<1>16. RowsApart(g)
  <2>1. \A d \in DrawnOf(f[i]) : PadsOf(g[i], d) = PadsOf(f[i], d)
    BY DEF Rebases, SameDrawn
  <2>2. QED
    BY <1>7, <2>1 DEF RowsApart, Apart
<1>17. Reserved(g)
  <2>1. ASSUME NEW j \in DOMAIN f, NEW a \in AllPads(f[j]) PROVE Append(a[1], a[2]) \notin MadeKeys(i, n + 1)
    <3>1. a[1] \in Key /\ a[2] \in Nat /\ a[1] \in KeysOf(f[j])
      BY <1>1, PadTypes
    <3>2. PICK l \in {4, 5} : Len(a[1]) = l
      BY <3>1 DEF OwnKeys, Apart, Own
    <3>3. Len(Append(a[1], a[2])) = l + 1
      BY <3>1, <3>2, SplitKey
    <3>4. l + 1 # 4
      BY <3>2
    <3>5. QED
      BY <1>3, <3>3, <3>4
  <2>2. QED
    BY <1>6, <1>7, <2>1 DEF Reserved, Apart
<1>18. QED
  BY <1>13, <1>14, <1>15, <1>16, <1>17 DEF Apart

(* A split instance is born with keys of its own, which no row has drawn.   *)
LEMMA BornKeeps ==
    ASSUME NEW f, Lives(f), Apart(f), NEW g, Lives(g), DOMAIN g = DOMAIN f,
           NEW i \in DOMAIN f \ {Root}, \A j \in DOMAIN f \ {i} : g[j] = f[j],
           DrawnOf(g[i]) = {},
           \A key \in Held(g[i]) : key[1] # i /\ Own(f, i, key),
           \A j \in DOMAIN f \ {i} : KeysOf(f[j]) \cap Held(g[i]) = {},
           \A j \in DOMAIN f \ {i} : \A a \in AllPads(f[j]) : Append(a[1], a[2]) \notin Held(g[i])
    PROVE  Apart(g)
<1>1. AllPads(g[i]) = {} /\ KeysOf(g[i]) = Held(g[i])
  BY DEF AllPads, KeysOf
<1>2. g[Root] = f[Root]
  BY DEF Lives
<1>3. ASSUME NEW j \in DOMAIN f \ {i}, NEW key, Own(f, j, key) PROVE Own(g, j, key)
  BY <1>2, <1>3 DEF Own, Spent
<1>4. ASSUME NEW key \in Held(g[i]) PROVE Own(g, i, key)
  BY <1>2, <1>4 DEF Own, Spent
<1>5. OwnKeys(g)
  BY <1>1, <1>3, <1>4 DEF OwnKeys, Apart
<1>6. KeysApart(g)
  BY <1>1 DEF KeysApart, Apart
<1>7. Behind(g) /\ RowsApart(g) /\ Reserved(g)
  BY <1>1 DEF Behind, RowsApart, Reserved, Apart
<1>8. QED
  BY <1>5, <1>6, <1>7 DEF Apart

---------------------------------------------------------------------------
(* The actions.                                                            *)

LEMMA DivCeilType ==
    ASSUME NEW n \in Nat
    PROVE  /\ DivCeil(n, K) \in Nat /\ (n # 0 => DivCeil(n, K) >= 1)
<1>1. K \in Nat /\ K >= 1
  BY KosAssumption
<1>2. n + K - 1 \in Nat /\ (n # 0 => n + K - 1 >= K)
  BY <1>1
<1>3. ASSUME NEW m \in Nat, NEW k \in Nat, k >= 1
      PROVE  m \div k \in Nat /\ (m >= k => m \div k >= 1)
  BY <1>3, SMTT(30)
<1>4. QED
  BY <1>1, <1>2, <1>3 DEF DivCeil

LEMMA BlocksType ==
    ASSUME NEW n \in Nat \ {0}, NEW mal \in BOOLEAN
    PROVE  RecvBlocks(n, mal) \in Nat /\ RecvBlocks(n, mal) >= 1
<1>1. (IF mal THEN K ELSE 0) \in Nat
  BY KosAssumption
<1>2. QED
  BY <1>1, DivCeilType DEF RecvBlocks

LEMMA RootKeysHeld ==
    ASSUME NEW i \in Nat, NEW k \in Nat
    PROVE  /\ RecvRootKeys(i, k) \in [Cols -> [{0, 1} -> Key]]
           /\ { RecvRootKeys(i, k)[c][b] : c \in Cols, b \in {0, 1} } = MadeKeys(i, k)
<1>1. ASSUME NEW c \in Cols, NEW b \in {0, 1}
      PROVE  <<i, k, c, b>> \in Key /\ RecvRootKeys(i, k)[c][b] = <<i, k, c, b>>
  <2>1. c \in Int
    BY KosAssumption DEF Cols
  <2>2. QED
    BY <2>1, MadeKey DEF RecvRootKeys
<1>2. RecvRootKeys(i, k) \in [Cols -> [{0, 1} -> Key]]
  BY <1>1 DEF RecvRootKeys
<1> DEFINE keys == RecvRootKeys(i, k)
<1> HIDE DEF keys
<1>3. ASSUME NEW x
      PROVE  x \in { keys[c][b] : c \in Cols, b \in {0, 1} } <=> x \in MadeKeys(i, k)
  <2>1. \A c \in Cols, b \in {0, 1} : keys[c][b] = <<i, k, c, b>>
    BY <1>1 DEF keys
  <2>2. ASSUME NEW c \in Cols, NEW b \in {0, 1}
        PROVE  x = keys[c][b] <=> x = <<i, k, c, b>>
    BY <2>1
  <2>3. x \in { keys[c][b] : c \in Cols, b \in {0, 1} } <=> \E c \in Cols, b \in {0, 1} : x = keys[c][b]
    OBVIOUS
  <2>4. x \in MadeKeys(i, k) <=> \E c \in Cols, b \in {0, 1} : x = <<i, k, c, b>>
    BY DEF MadeKeys
  <2>5. QED
    BY <2>2, <2>3, <2>4
<1>4. { keys[c][b] : c \in Cols, b \in {0, 1} } = MadeKeys(i, k)
  BY <1>3
<1>5. QED
  BY <1>2, <1>4 DEF keys

LEMMA StepOfOne ==
    ASSUME PadInv, conf' = conf, NEW i \in Insts, NEW q, r' = [r EXCEPT ![i] = q],
           r[i].pc # "unborn", ReceiverType(q), q.pc # "unborn", q.pc = "idle" => q.t = << >>,
           q.pc = "ext" => q.base, q.base \/ ~r[i].base, InCall(i)',
           Draws(r[i], q) \/ Rebases(i, r[i], q)
    PROVE  PadInv'
<1>1. DOMAIN r' = Insts /\ r'[i] = q /\ \A j \in Insts \ {i} : r'[j] = r[j]
  BY DEF PadInv
<1>2. Insts' = Insts /\ DOMAIN r = Insts
  BY DEF Insts, PadInv
<1>3. i # Root => q.base
  BY DEF PadInv, Lives
<1>4. Lives(r')
  BY <1>1, <1>2, <1>3 DEF PadInv, Lives
<1>5. Apart(r')
  <2>1. PICK f : f = r
    OBVIOUS
  <2>2. PICK g : g = r'
    OBVIOUS
  <2>3. /\ Lives(f) /\ Apart(f) /\ Lives(g) /\ DOMAIN g = DOMAIN f /\ i \in DOMAIN f
        /\ \A j \in DOMAIN f \ {i} : g[j] = f[j]
    BY <1>1, <1>2, <1>4, <2>1, <2>2 DEF PadInv
  <2>4. ASSUME Draws(f[i], g[i]) PROVE Apart(g)
    BY <2>3, <2>4, DrawsKeep
  <2>5. ASSUME Rebases(i, f[i], g[i]) PROVE Apart(g)
    BY <2>3, <2>5, RebaseKeeps
  <2>6. Apart(g)
    BY <1>1, <2>1, <2>2, <2>4, <2>5
  <2>7. QED
    BY <2>2, <2>6
<1>6. InCalls'
  <2>1. ASSUME NEW j \in Insts \ {i} PROVE InCall(j)'
    <3>1. InCall(j) /\ r'[j] = r[j]
      BY <1>1 DEF PadInv, InCalls
    <3>2. QED
      BY <3>1 DEF InCall, Call, Op, NumCalls
  <2>2. QED
    BY <1>2, <2>1 DEF InCalls
<1>7. QED
  BY <1>1, <1>2, <1>4, <1>5, <1>6 DEF PadInv

(* A step that draws nothing, on its own and after one that does.           *)
Keeps(p, q) ==
    SameDrawn(p, q) /\ Held(q) = Held(p) /\ q.idx >= p.idx /\ Made(q) >= Made(p)

LEMMA KeepsDraws ==
    ASSUME NEW p, NEW q, Keeps(p, q)
    PROVE  Draws(p, q)
  BY DEF Keeps, Draws, SameDrawn

LEMMA DrawsThenKeeps ==
    ASSUME NEW p, NEW o, NEW q, ReceiverType(p), ReceiverType(o), ReceiverType(q), Draws(p, o), Keeps(o, q)
    PROVE  Draws(p, q)
<1>1. /\ p.idx \in Nat /\ o.idx \in Nat /\ q.idx \in Nat /\ q.idx >= o.idx /\ o.idx >= p.idx
      /\ Made(p) \in Nat /\ Made(o) \in Nat /\ Made(q) \in Nat
  BY MadeType DEF ReceiverType, Draws, Keeps
<1>2. q.idx >= p.idx /\ Made(q) >= Made(p) /\ Held(q) = Held(p)
  BY <1>1 DEF Draws, Keeps
<1>3. DrawnOf(q) = DrawnOf(o) /\ \A d \in DrawnOf(o) : PadsOf(q, d) = PadsOf(o, d)
  BY DEF Keeps, SameDrawn
<1>4. (p.idx)..(o.idx - 1) \subseteq (p.idx)..(q.idx - 1)
  BY <1>1
<1>5. ASSUME NEW d \in DrawnOf(q) \ DrawnOf(p)
      PROVE  \E pos \in (p.idx)..(q.idx - 1) : PadsOf(q, d) \subseteq Held(p) \X {pos}
  BY <1>3, <1>4 DEF Draws
<1>6. QED
  BY <1>2, <1>3, <1>5 DEF Draws

(* What a call returns is what it has drawn.                                *)
LEMMA ReturnStep ==
    ASSUME NEW p, ReceiverType(p), p.pc # "idle", NEW q, DOMAIN q = PartyFields,
           q.out = Append(p.out, p.t), q.t = << >>, q.pc = "idle",
           q.base = p.base, q.keys = p.keys, q.idx = p.idx
    PROVE  ReceiverType(q) /\ Keeps(p, q)
<1>1. ReceiverType(q)
  BY DEF ReceiverType
<1>2. SameDrawn(p, q)
  BY ReturnedRows
<1>3. Held(q) = Held(p)
  BY DEF Held
<1>4. Len(q.out) = Len(p.out) + 1 /\ Len(p.out) \in Nat /\ p.idx \in Nat
  BY DEF ReceiverType
<1>5. Made(q) >= Made(p)
  BY <1>4 DEF Made
<1>6. QED
  BY <1>1, <1>2, <1>3, <1>4, <1>5 DEF Keeps

(* So does a step that leaves the rows and the keys alone.                  *)
LEMMA IdleStep ==
    ASSUME NEW p, ReceiverType(p), NEW q, DOMAIN q = PartyFields, q.out = p.out, q.t = p.t,
           q.base = p.base, q.keys = p.keys, q.idx \in Nat, q.idx >= p.idx,
           q.pc = "idle" => p.pc = "idle"
    PROVE  ReceiverType(q) /\ Keeps(p, q)
<1>1. ReceiverType(q) /\ Len(p.out) \in Nat
  BY DEF ReceiverType
<1>2. SameDrawn(p, q)
  BY SameRows
<1>3. Held(q) = Held(p)
  BY DEF Held
<1>4. Made(q) >= Made(p)
  BY <1>1 DEF Made
<1>5. QED
  BY <1>1, <1>2, <1>3, <1>4 DEF Keeps

LEMMA SetBaseStep ==
    ASSUME PadInv, NEW i \in Insts, RecvSetBase(i)
    PROVE  PadInv'
<1> DEFINE p == r[i]
           keys == RecvRootKeys(i, Len(p.out) + 1)
           q == Return(SetBase(p, keys), << >>)
<1>1. /\ conf' = conf /\ p.pc = "idle" /\ ReceiverType(p) /\ p.t = << >> /\ i \in Nat /\ InCall(i)
  BY DEF RecvSetBase, About, PadInv, Lives, InCalls
<1>2. r' = [r EXCEPT ![i] = q]
  BY DEF RecvSetBase, Call
<1>3. /\ DOMAIN q = PartyFields /\ q.pc = "idle" /\ q.base /\ q.base \in BOOLEAN /\ q.keys = keys /\ q.idx = 0
      /\ q.t = << >> /\ q.out = Append(p.out, << >>) /\ q.cfg = p.cfg
  BY <1>1 DEF Return, SetBase, ReceiverType, PartyFields
<1> HIDE DEF q
<1>4. ReceiverType(q)
  <2>1. keys \in [Cols -> [{0, 1} -> Key]]
    BY <1>1, RootKeysHeld DEF ReceiverType
  <2> HIDE DEF keys
  <2>2. << >> \in Seq(PadBlocks)
    OBVIOUS
  <2>3. p.out \in Seq(Seq(PadBlocks))
    BY <1>1 DEF ReceiverType
  <2>4. Append(p.out, << >>) \in Seq(Seq(PadBlocks))
    BY <2>2, <2>3
  <2>5. q.out \in Seq(Seq(PadBlocks)) /\ q.t \in Seq(PadBlocks)
    BY <1>3, <2>2, <2>4
  <2>6. QED
    BY <1>3, <2>1, <2>5 DEF ReceiverType
<1>5. Rebases(i, p, q)
  <2>1. SameDrawn(p, q)
    BY <1>1, <1>3, ReturnedRows
  <2>2. Held(q) = MadeKeys(i, Len(p.out) + 1)
    <3>1. Len(p.out) + 1 \in Nat
      BY <1>1 DEF ReceiverType
    <3>2. { keys[c][b] : c \in Cols, b \in {0, 1} } = MadeKeys(i, Len(p.out) + 1)
      BY <1>1, <3>1, RootKeysHeld
    <3> HIDE DEF keys
    <3>3. QED
      BY <1>3, <3>2 DEF Held
  <2>3. Made(q) > Len(p.out)
    BY <1>1, <1>3 DEF Made, ReceiverType
  <2>4. QED
    BY <1>1, <2>1, <2>2, <2>3 DEF Rebases
<1>6. r'[i] = q
  BY <1>2 DEF PadInv
<1>7. InCall(i)'
  BY <1>1, <1>3, <1>6 DEF InCall
<1>8. QED
  BY <1>1, <1>2, <1>3, <1>4, <1>5, <1>7, StepOfOne DEF p

LEMMA ClosedStep ==
    ASSUME PadInv, NEW i \in Insts, RecvFails(i), conf' = conf, r[i].pc # "unborn"
    PROVE  PadInv'
<1> DEFINE q == [r[i] EXCEPT !.pc = "failed"]
<1>1. ReceiverType(r[i]) /\ InCall(i)
  BY DEF PadInv, Lives, InCalls
<1>2. r' = [r EXCEPT ![i] = q]
  BY DEF RecvFails
<1>3. /\ DOMAIN q = PartyFields /\ q.pc = "failed" /\ q.base = r[i].base /\ q.keys = r[i].keys
      /\ q.idx = r[i].idx /\ q.t = r[i].t /\ q.out = r[i].out /\ q.cfg = r[i].cfg
  BY <1>1 DEF ReceiverType, PartyFields
<1> HIDE DEF q
<1>4. ReceiverType(q) /\ Draws(r[i], q)
  <2>1. q.idx \in Nat /\ q.idx >= r[i].idx /\ q.pc # "idle"
    BY <1>1, <1>3 DEF ReceiverType
  <2>2. QED
    BY <1>1, <1>3, <2>1, IdleStep, KeepsDraws
<1>5. r'[i] = q
  BY <1>2 DEF PadInv
<1>6. InCall(i)'
  BY <1>1, <1>3, <1>5 DEF InCall
<1>7. q.base \/ ~r[i].base
  BY <1>1, <1>3 DEF ReceiverType
<1>8. QED
  BY <1>2, <1>3, <1>4, <1>6, <1>7, StepOfOne

LEMMA AfterRowsStep ==
    ASSUME NEW i, NEW p, ReceiverType(p), p.pc # "idle", NEW q, q = AfterRows(i, p)
    PROVE  /\ ReceiverType(q) /\ Keeps(p, q) /\ q.pc \in {"idle", "payload"}
           /\ q.pc = "idle" => q.t = << >>
           /\ q.base = p.base /\ q.cfg = p.cfg
<1>1. CASE q = [p EXCEPT !.pc = "payload"]
  <2>1. /\ DOMAIN q = PartyFields /\ q.pc = "payload" /\ q.base = p.base /\ q.keys = p.keys
        /\ q.idx = p.idx /\ q.t = p.t /\ q.out = p.out /\ q.cfg = p.cfg
    BY <1>1 DEF ReceiverType, PartyFields
  <2>2. q.idx \in Nat /\ q.idx >= p.idx
    BY <2>1 DEF ReceiverType
  <2>3. QED
    BY <2>1, <2>2, IdleStep
<1>2. CASE q = Return(p, p.t)
  <2>1. /\ DOMAIN q = PartyFields /\ q.pc = "idle" /\ q.base = p.base /\ q.keys = p.keys
        /\ q.idx = p.idx /\ q.t = << >> /\ q.out = Append(p.out, p.t) /\ q.cfg = p.cfg
    BY <1>2 DEF Return, ReceiverType, PartyFields
  <2>2. QED
    BY <2>1, ReturnStep
<1>3. QED
  BY <1>1, <1>2 DEF AfterRows

LEMMA StartStep ==
    ASSUME PadInv, NEW i \in Insts, RecvStart(i)
    PROVE  PadInv'
<1> DEFINE p == r[i]
           keys == RecvRootKeys(i, Len(p.out) + 1)
           g == RecvGenBase(i, p)
           q == Begin(g)
<1>1. /\ conf' = conf /\ p.pc = "idle" /\ ReceiverType(p) /\ p.t = << >> /\ i \in Nat /\ InCall(i)
      /\ Call(p) <= NumCalls(i) /\ Op(i, p).op = "ext"
  BY DEF RecvStart, About, PadInv, Lives, InCalls
<1>2. CASE RecvFails(i)
  BY <1>1, <1>2, ClosedStep
<1>3. CASE r' = [r EXCEPT ![i] = q]
  <2>1. /\ DOMAIN q = PartyFields /\ q.pc = "ext" /\ q.blk = 0 /\ q.t = p.t /\ q.out = p.out /\ q.cfg = p.cfg
        /\ q.base /\ q.base \in BOOLEAN
        /\ p.base => q.keys = p.keys /\ q.idx = p.idx
        /\ ~p.base => q.keys = keys /\ q.idx = 0
    <3>1. CASE p.base
      BY <1>1, <3>1 DEF RecvGenBase, Begin, ReceiverType, PartyFields
    <3>2. CASE ~p.base
      BY <1>1, <3>2 DEF RecvGenBase, Begin, SetBase, ReceiverType, PartyFields, Call
    <3>3. QED
      BY <3>1, <3>2
  <2> HIDE DEF q
  <2>2. Len(p.out) \in Nat
    BY <1>1 DEF ReceiverType
  <2>3. ReceiverType(q) /\ (Draws(p, q) \/ Rebases(i, p, q))
    <3>1. CASE p.base
      <4>1. q.idx \in Nat /\ q.idx >= p.idx
        BY <1>1, <2>1, <3>1 DEF ReceiverType
      <4>2. q.base = p.base /\ q.keys = p.keys
        BY <1>1, <2>1, <3>1 DEF ReceiverType
      <4>3. QED
        BY <1>1, <2>1, <4>1, <4>2, IdleStep, KeepsDraws
    <3>2. CASE ~p.base
      <4>1. keys \in [Cols -> [{0, 1} -> Key]]
        BY <1>1, <2>2, RootKeysHeld, SMTT(30)
      <4>2. { keys[c][b] : c \in Cols, b \in {0, 1} } = MadeKeys(i, Len(p.out) + 1)
        BY <1>1, <2>2, RootKeysHeld, SMTT(30)
      <4> HIDE DEF keys
      <4>3. ReceiverType(q)
        BY <1>1, <2>1, <3>2, <4>1 DEF ReceiverType
      <4>4. Held(q) = MadeKeys(i, Len(p.out) + 1)
        BY <2>1, <3>2, <4>2 DEF Held
      <4>5. Made(q) > Len(p.out)
        BY <2>1, <2>2 DEF Made
      <4>6. SameDrawn(p, q)
        BY <1>1, <2>1, SameRows
      <4>7. QED
        BY <1>1, <4>3, <4>4, <4>5, <4>6 DEF Rebases
    <3>3. QED
      BY <3>1, <3>2
  <2>4. r'[i] = q
    BY <1>3 DEF PadInv
  <2>5. InCall(i)'
    <3>1. Call(q) = Call(p) /\ Call(p) \in 1..NumCalls(i)
      <4>1. NumCalls(i) \in Nat
        BY ScriptFacts DEF PadInv
      <4>2. QED
        BY <1>1, <2>1, <2>2, <4>1 DEF Call
    <3>2. Op(i, p).n \in Nat \ {0} /\ Op(i, q) = Op(i, p)
      BY <1>1, <3>1, ScriptFacts DEF PadInv, Op
    <3>3. q.cfg.mal \in BOOLEAN
      BY <1>1, <2>1 DEF InCall
    <3>4. q.blk \in Nat /\ q.blk < RecvBlocks(Op(i, q).n, q.cfg.mal)
      BY <2>1, <3>2, <3>3, BlocksType
    <3>5. QED
      BY <1>1, <2>4, <3>1, <3>2, <3>3, <3>4 DEF InCall, Call, Op, NumCalls
  <2>6. QED
    BY <1>1, <1>3, <2>1, <2>3, <2>5, StepOfOne
<1>4. QED
  BY <1>2, <1>3 DEF RecvStart

LEMMA Concatenated ==
    ASSUME NEW S, NEW a \in Seq(S), NEW b \in Seq(S)
    PROVE  /\ a \o b \in Seq(S) /\ Len(a \o b) = Len(a) + Len(b)
           /\ \A m \in 1..(Len(a) + Len(b)) : (a \o b)[m] = IF m <= Len(a) THEN a[m] ELSE b[m - Len(a)]
  OBVIOUS

(* Blocks of rows are drawn from the index on, one position each.           *)
LEMMA DrawnBlocks ==
    ASSUME NEW p, ReceiverType(p), p.base, NEW step \in Nat
    PROVE  /\ T0(p, step) \in Seq(PadBlocks) /\ Len(T0(p, step)) = step
           /\ \A j \in 1..step : Pads(T0(p, step)[j]) \subseteq Held(p) \X {p.idx + j - 1}
<1> DEFINE ks == [c \in Cols |-> p.keys[c][0]]
<1>1. ks \in [Cols -> Key] /\ p.idx \in Nat /\ \A c \in Cols : ks[c] \in Held(p)
  BY DEF ReceiverType, Held
<1>2. T0(p, step) = [j \in 1..step |-> RowsAt(ks, p.idx + j - 1)]
  BY DEF T0, RowsAt
<1> HIDE DEF ks
<1>3. ASSUME NEW j \in 1..step
      PROVE  RowsAt(ks, p.idx + j - 1) \in PadBlocks /\ Pads(RowsAt(ks, p.idx + j - 1)) \subseteq Held(p) \X {p.idx + j - 1}
  <2>1. p.idx + j - 1 \in Nat
    BY <1>1
  <2>2. PICK pos \in Nat : pos = p.idx + j - 1
    BY <2>1
  <2>3. RowsAt(ks, pos) \in PadBlocks
    BY <1>1 DEF PadBlocks
  <2>4. 0 \in Rows
    BY KosAssumption DEF Rows
  <2>5. \A c \in Cols : RowsAt(ks, pos)[0][c] = { <<1, ks[c], pos, 0>> }
    BY <2>4 DEF RowsAt, Bit
  <2>6. Pads(RowsAt(ks, pos)) \subseteq Held(p) \X {pos}
    BY <1>1, <2>5 DEF Pads
  <2>7. QED
    BY <2>2, <2>3, <2>6
<1>4. QED
  BY <1>2, <1>3

LEMMA DrawStep ==
    ASSUME NEW p, ReceiverType(p), p.base, p.pc = "ext", NEW step \in Nat,
           NEW q, DOMAIN q = PartyFields, q.pc = "ext", q.out = p.out, q.t = p.t \o T0(p, step),
           q.base = p.base, q.keys = p.keys, q.idx = p.idx + step
    PROVE  ReceiverType(q) /\ Draws(p, q)
<1> DEFINE n == Len(p.out)
           l == Len(p.t)
           new == T0(p, step)
<1>0. n \in Nat /\ l \in Nat /\ p.idx \in Nat /\ p.t \in Seq(PadBlocks)
  BY DEF ReceiverType
<1>1. /\ n \in Nat /\ l \in Nat /\ p.idx \in Nat /\ p.t \in Seq(PadBlocks)
      /\ new \in Seq(PadBlocks) /\ Len(new) = step
      /\ \A j \in 1..step : Pads(new[j]) \subseteq Held(p) \X {p.idx + j - 1}
  BY <1>0, DrawnBlocks
<1>2. /\ q.t \in Seq(PadBlocks) /\ Len(q.t) = l + step
      /\ \A b \in 1..l : q.t[b] = p.t[b]
      /\ \A b \in (l + 1)..(l + step) : q.t[b] = new[b - l]
  <2>1. q.t = p.t \o new
    OBVIOUS
  <2>2. PICK a : a = p.t
    OBVIOUS
  <2>3. PICK b : b = new
    OBVIOUS
  <2>4. /\ a \o b \in Seq(PadBlocks) /\ Len(a \o b) = Len(a) + Len(b)
        /\ \A m \in 1..(Len(a) + Len(b)) : (a \o b)[m] = IF m <= Len(a) THEN a[m] ELSE b[m - Len(a)]
    BY <1>1, <2>2, <2>3, Concatenated
  <2> HIDE DEF new
  <2>5. /\ q.t \in Seq(PadBlocks) /\ Len(q.t) = l + step
        /\ \A m \in 1..(l + step) : q.t[m] = IF m <= l THEN p.t[m] ELSE new[m - l]
    BY <1>1, <2>1, <2>2, <2>3, <2>4
  <2>6. QED
    BY <1>1, <2>5
<1> HIDE DEF new
<1>3. ReceiverType(q)
  BY <1>1, <1>2 DEF ReceiverType
<1>4. Held(q) = Held(p) /\ q.idx >= p.idx /\ Made(q) >= Made(p)
  BY <1>1 DEF Held, Made
<1>5. CallRows(q, n + 1) = q.t /\ CallRows(p, n + 1) = p.t /\ \A k \in 1..n : CallRows(q, k) = CallRows(p, k)
  BY <1>1 DEF CallRows
<1>6. Len(q.out) = n
  OBVIOUS
<1> HIDE DEF n, l
<1>7. ASSUME NEW d \in DrawnOf(p) PROVE d \in DrawnOf(q) /\ PadsOf(q, d) = PadsOf(p, d)
  <2>1. PICK k \in 1..(n + 1) : \E b \in 1..Len(CallRows(p, k)) : d = <<k, b>>
    BY <1>1, InDrawnOf DEF n
  <2>2. PICK b \in 1..Len(CallRows(p, k)) : d = <<k, b>>
    BY <2>1
  <2>3. CASE k = n + 1
    <3>1. b \in 1..l /\ b \in 1..Len(q.t)
      BY <1>1, <1>2, <1>5, <2>2, <2>3 DEF l
    <3>2. d \in DrawnOf(q)
      BY <1>1, <1>5, <1>6, <2>2, <2>3, <3>1, InDrawnOf
    <3>3. QED
      BY <1>2, <1>5, <2>2, <2>3, <3>1, <3>2 DEF PadsOf
  <2>4. CASE k # n + 1
    <3>1. k \in 1..n
      BY <1>1, <2>4
    <3>2. d \in DrawnOf(q)
      BY <1>1, <1>5, <1>6, <2>2, <3>1, InDrawnOf
    <3>3. QED
      BY <1>5, <2>2, <3>1, <3>2 DEF PadsOf
  <2>5. QED
    BY <2>3, <2>4
<1>8. ASSUME NEW d \in DrawnOf(q) \ DrawnOf(p)
      PROVE  \E j \in 1..step : d = <<n + 1, l + j>> /\ PadsOf(q, d) = Pads(new[j])
  <2>1. PICK k \in 1..(n + 1) : \E b \in 1..Len(CallRows(q, k)) : d = <<k, b>>
    BY <1>1, <1>6, InDrawnOf, SMTT(30)
  <2>2. PICK b \in 1..Len(CallRows(q, k)) : d = <<k, b>>
    BY <2>1
  <2>3. d \in DrawnOf(p) <=> \E m \in 1..(n + 1) : \E e \in 1..Len(CallRows(p, m)) : d = <<m, e>>
    BY <1>1, InDrawnOf DEF n
  <2>4. k = n + 1
    <3>1. SUFFICES ASSUME k # n + 1 PROVE FALSE
      OBVIOUS
    <3>2. k \in 1..n
      BY <1>1, <3>1
    <3>3. QED
      BY <1>5, <1>8, <2>2, <2>3, <3>2
  <2>5. b \in (l + 1)..(l + step)
    <3>1. b \in 1..(l + step)
      BY <1>2, <1>5, <2>2, <2>4
    <3>2. b \notin 1..l
      BY <1>5, <1>8, <2>2, <2>3, <2>4 DEF l
    <3>3. QED
      BY <1>1, <3>1, <3>2
  <2>6. PICK j \in 1..step : b = l + j
    <3>1. b - l \in 1..step /\ b = l + (b - l)
      BY <1>1, <2>5
    <3>2. QED
      BY <3>1
  <2>7. q.t[b] = new[j]
    <3>1. b - l = j
      BY <1>1, <2>6
    <3>2. QED
      BY <1>2, <2>5, <3>1
  <2>8. QED
    BY <1>5, <2>2, <2>4, <2>6, <2>7 DEF PadsOf
<1>9. ASSUME NEW d \in DrawnOf(q) \ DrawnOf(p)
      PROVE  \E pos \in (p.idx)..(q.idx - 1) : PadsOf(q, d) \subseteq Held(p) \X {pos}
  <2>1. PICK j \in 1..step : PadsOf(q, d) = Pads(new[j])
    BY <1>8
  <2>2. p.idx + j - 1 \in (p.idx)..(q.idx - 1)
    BY <1>1
  <2>3. QED
    BY <1>1, <2>1, <2>2
<1>10. ASSUME NEW d \in DrawnOf(q) \ DrawnOf(p), NEW e \in DrawnOf(q) \ DrawnOf(p), d # e
       PROVE  PadsOf(q, d) \cap PadsOf(q, e) = {}
  <2>1. PICK j \in 1..step : d = <<n + 1, l + j>> /\ PadsOf(q, d) = Pads(new[j])
    BY <1>8
  <2>2. PICK k \in 1..step : e = <<n + 1, l + k>> /\ PadsOf(q, e) = Pads(new[k])
    BY <1>8
  <2>3. j # k
    BY <1>10, <2>1, <2>2
  <2>4. p.idx + j - 1 # p.idx + k - 1
    BY <1>1, <2>3
  <2>5. PadsOf(q, d) \subseteq Held(p) \X {p.idx + j - 1} /\ PadsOf(q, e) \subseteq Held(p) \X {p.idx + k - 1}
    BY <1>1, <2>1, <2>2
  <2>6. QED
    BY <2>4, <2>5
<1>11. QED
  BY <1>3, <1>4, <1>7, <1>9, <1>10 DEF Draws

LEMMA SendUStep ==
    ASSUME PadInv, NEW i \in Insts, RecvSendU(i)
    PROVE  PadInv'
<1> DEFINE p == r[i]
           n == Op(i, p).n
           step == RecvStep(p, n)
<1>1. /\ conf' = conf /\ p.pc = "ext" /\ ReceiverType(p) /\ i \in Nat /\ InCall(i) /\ p.base
  BY DEF RecvSendU, PadInv, Lives, InCalls
<1>2. n \in Nat \ {0} /\ p.blk \in Nat /\ p.cfg.mal \in BOOLEAN /\ p.blk < RecvBlocks(n, p.cfg.mal)
  BY <1>1, ScriptFacts DEF InCall, PadInv, Op
<1>3. step \in Nat
  <2>1. RecvBlocks(n, p.cfg.mal) \in Nat
    BY <1>2, BlocksType
  <2>2. QED
    BY <1>2, <2>1, KosAssumption DEF RecvStep, MinOf
<1>4. PICK err : r' = [r EXCEPT ![i] = RecvAfter(i, Took(p, step, T0(p, step), U(i, Call(p), p, step, err)))]
  BY DEF RecvSendU
<1> DEFINE o == Took(p, step, T0(p, step), U(i, Call(p), p, step, err))
           q == RecvAfter(i, o)
<1>5. /\ DOMAIN o = PartyFields /\ o.pc = "ext" /\ o.out = p.out /\ o.t = p.t \o T0(p, step)
      /\ o.base = p.base /\ o.keys = p.keys /\ o.idx = p.idx + step /\ o.cfg = p.cfg
      /\ o.blk = p.blk + step
  BY <1>1 DEF ReceiverType, PartyFields, Took
<1>6. /\ r' = [r EXCEPT ![i] = q]
      /\ q = IF o.blk < RecvBlocks(n, o.cfg.mal) THEN o
             ELSE IF o.cfg.mal THEN [o EXCEPT !.pc = "check"] ELSE AfterRows(i, o)
  <2>1. Op(i, o) = Op(i, p)
    BY <1>5 DEF Op, Call
  <2> HIDE DEF o
  <2>2. QED
    BY <1>4, <2>1 DEF RecvAfter, o
<1> HIDE DEF step, o, q
<1>7. ReceiverType(o) /\ Draws(p, o)
  BY <1>1, <1>3, <1>5, DrawStep
<1>8. /\ ReceiverType(q) /\ Keeps(o, q) /\ q.pc # "unborn" /\ q.base = p.base /\ q.cfg = p.cfg
      /\ q.pc = "idle" => q.t = << >>
      /\ q.pc = "ext" => q = o /\ o.blk < RecvBlocks(n, o.cfg.mal)
  <2>1. CASE q = o /\ o.blk < RecvBlocks(n, o.cfg.mal)
    <3>1. o.idx \in Nat /\ o.idx >= o.idx
      BY <1>7 DEF ReceiverType
    <3>2. Keeps(o, o)
      BY <1>5, <1>7, <3>1, IdleStep
    <3>3. QED
      BY <1>5, <1>7, <2>1, <3>2
  <2>2. CASE q = [o EXCEPT !.pc = "check"]
    <3>1. /\ DOMAIN q = PartyFields /\ q.pc = "check" /\ q.out = o.out /\ q.t = o.t
          /\ q.base = o.base /\ q.keys = o.keys /\ q.idx = o.idx /\ q.cfg = o.cfg
      BY <1>5, <2>2 DEF PartyFields
    <3>2. q.idx \in Nat /\ q.idx >= o.idx
      BY <1>7, <3>1 DEF ReceiverType
    <3>3. QED
      BY <1>5, <1>7, <3>1, <3>2, IdleStep
  <2>3. CASE q = AfterRows(i, o)
    BY <1>5, <1>7, <2>3, AfterRowsStep
  <2>4. QED
    BY <1>6, <2>1, <2>2, <2>3
<1>9. Draws(p, q)
  BY <1>1, <1>7, <1>8, DrawsThenKeeps
<1>10. r'[i] = q /\ r' = [r EXCEPT ![i] = q]
  BY <1>6 DEF PadInv
<1>11. InCall(i)'
  <2>1. CASE q.pc = "ext"
    <3>1. Call(q) = Call(p) /\ Op(i, q) = Op(i, p)
      BY <1>5, <1>8, <2>1 DEF Call, Op
    <3>2. q.blk \in Nat /\ q.blk < RecvBlocks(Op(i, q).n, q.cfg.mal)
      BY <1>2, <1>3, <1>5, <1>8, <2>1, <3>1
    <3>3. QED
      BY <1>1, <1>2, <1>8, <1>10, <3>1, <3>2 DEF InCall, Call, Op, NumCalls
  <2>2. CASE q.pc # "ext"
    BY <1>1, <1>2, <1>8, <1>10, <2>2 DEF InCall
  <2>3. QED
    BY <2>1, <2>2
<1>12. q.base
  BY <1>1, <1>8
<1>13. QED
  BY <1>1, <1>8, <1>9, <1>10, <1>11, <1>12, StepOfOne

LEMMA ReturnsStep ==
    ASSUME PadInv, NEW i \in Insts, conf' = conf, r[i].pc \in {"check", "payload"},
           r' = [r EXCEPT ![i] = AfterRows(i, r[i])] \/ r' = [r EXCEPT ![i] = Return(r[i], r[i].t)]
    PROVE  PadInv'
<1>1. ReceiverType(r[i]) /\ InCall(i)
  BY DEF PadInv, Lives, InCalls
<1>2. PICK q : /\ r' = [r EXCEPT ![i] = q] /\ (q = AfterRows(i, r[i]) \/ q = Return(r[i], r[i].t))
  OBVIOUS
<1>3. /\ ReceiverType(q) /\ Keeps(r[i], q) /\ q.pc \in {"idle", "payload"}
      /\ q.pc = "idle" => q.t = << >>
      /\ q.base = r[i].base /\ q.cfg = r[i].cfg
  <2>1. CASE q = AfterRows(i, r[i])
    BY <1>1, <2>1, AfterRowsStep
  <2>2. CASE q = Return(r[i], r[i].t)
    <3>1. /\ DOMAIN q = PartyFields /\ q.pc = "idle" /\ q.base = r[i].base /\ q.keys = r[i].keys
          /\ q.idx = r[i].idx /\ q.t = << >> /\ q.out = Append(r[i].out, r[i].t) /\ q.cfg = r[i].cfg
      BY <1>1, <2>2 DEF Return, ReceiverType, PartyFields
    <3>2. QED
      BY <1>1, <3>1, ReturnStep
  <2>3. QED
    BY <1>2, <2>1, <2>2
<1>4. r'[i] = q
  BY <1>2 DEF PadInv
<1>5. InCall(i)'
  BY <1>1, <1>3, <1>4 DEF InCall
<1>6. q.base \/ ~r[i].base
  BY <1>1, <1>3 DEF ReceiverType
<1>7. r[i].pc # "unborn" /\ q.pc # "unborn" /\ q.pc # "ext" /\ Draws(r[i], q)
  BY <1>3, KeepsDraws
<1>8. QED
  BY <1>1, <1>2, <1>3, <1>5, <1>6, <1>7, StepOfOne

LEMMA ProveStep ==
    ASSUME PadInv, NEW i \in Insts, RecvProve(i)
    PROVE  PadInv'
<1>1. r' = [r EXCEPT ![i] = AfterRows(i, r[i])] /\ conf' = conf /\ r[i].pc = "check"
  BY DEF RecvProve
<1>2. QED
  BY <1>1, ReturnsStep

LEMMA PayloadStep ==
    ASSUME PadInv, NEW i \in Insts, RecvPayload(i)
    PROVE  PadInv'
<1>1. r' = [r EXCEPT ![i] = Return(r[i], r[i].t)] /\ conf' = conf /\ r[i].pc = "payload"
  BY DEF RecvPayload
<1>2. QED
  BY <1>1, ReturnsStep

LEMMA RecvClosedStep ==
    ASSUME PadInv, NEW i \in Insts, RecvClosed(i)
    PROVE  PadInv'
<1>1. RecvFails(i) /\ conf' = conf /\ r[i].pc # "unborn"
  BY DEF RecvClosed
<1>2. QED
  BY <1>1, ClosedStep

(* A split: the key of an instance it gives birth to is of the position     *)
(* the index passes over, or never made by anyone.                          *)
LEMMA SplitKeeps ==
    ASSUME NEW f, Lives(f), Apart(f), NEW g, Lives(g), DOMAIN g = DOMAIN f,
           Keeps(f[Root], g[Root]), g[Root].idx = f[Root].idx + 1,
           NEW child \in DOMAIN f \ {Root}, \A j \in DOMAIN f \ {Root, child} : g[j] = f[j],
           DrawnOf(g[child]) = {},
           \A key \in Held(g[child]) :
              \/ \E h \in Held(f[Root]) : key = Append(h, f[Root].idx)
              \/ \E c \in Cols, b \in {0, 1} : key = Uninitialised(child, c, b)
    PROVE  Apart(g)
<1> DEFINE idx == f[Root].idx
           e == [f EXCEPT ![Root] = g[Root]]
<1>1. /\ Root \in DOMAIN f /\ idx \in Nat /\ child \in Nat /\ DOMAIN f \subseteq Nat
      /\ \A j \in DOMAIN f : ReceiverType(f[j])
  BY DEF Lives, ReceiverType
<1>2. /\ DOMAIN e = DOMAIN f /\ e[Root] = g[Root] /\ \A j \in DOMAIN f \ {Root} : e[j] = f[j]
      /\ e[child] = f[child]
  BY <1>1
<1> HIDE DEF e, idx
<1>3. Lives(e)
  BY <1>1, <1>2 DEF Lives
<1>4. Apart(e)
  BY <1>1, <1>2, <1>3, KeepsDraws, DrawsKeep
<1>5. /\ AllPads(e[Root]) = AllPads(f[Root]) /\ Held(e[Root]) = Held(f[Root]) /\ KeysOf(e[Root]) = KeysOf(f[Root])
      /\ Made(e[Root]) >= Made(f[Root]) /\ e[Root].idx = idx + 1
  BY <1>2, SamePads DEF Keeps, KeysOf, idx
<1>6. \A j \in DOMAIN f : KeysOf(e[j]) = KeysOf(f[j]) /\ AllPads(e[j]) = AllPads(f[j])
  BY <1>2, <1>5
<1>7. ASSUME NEW h \in Held(f[Root]), NEW key, key = Append(h, idx)
      PROVE  /\ h \in Key /\ key \in Key /\ Len(key) = 5 /\ key[5] = idx /\ key[1] = Root
             /\ key[2] \in 1..Made(f[Root])
  <2>1. h \in Key /\ h \in KeysOf(f[Root])
    BY <1>1, <1>7, PadTypes
  <2>2. Len(h) = 4 /\ h[1] = Root /\ h[2] \in 1..Made(f[Root])
    BY <1>1, <2>1 DEF Apart, OwnKeys, Own
  <2>3. idx \in Int
    BY <1>1
  <2>4. QED
    BY <1>7, <2>1, <2>2, <2>3, SplitMadeKey
<1>8. ASSUME NEW c \in Cols, NEW b \in {0, 1}, NEW key, key = Uninitialised(child, c, b)
      PROVE  key \in Key /\ Len(key) = 4 /\ key[1] = -1 /\ key[2] = child
  <2>1. c \in Int /\ b \in Int /\ -1 \in Int /\ child \in Int
    BY <1>1, KosAssumption DEF Cols
  <2>2. QED
    BY <1>8, <2>1, MadeKey DEF Uninitialised
<1>9. Made(f[Root]) \in Nat /\ Made(e[Root]) \in Nat
  BY <1>1, <1>2, <1>3, MadeType DEF Lives
<1>10. ASSUME NEW key \in Held(g[child])
       PROVE  /\ key[1] # child /\ Own(e, child, key)
              /\ \A j \in DOMAIN f \ {child} : key \notin KeysOf(e[j])
              /\ \A j \in DOMAIN f \ {child} : \A a \in AllPads(e[j]) : Append(a[1], a[2]) # key
  <2>1. CASE \E h \in Held(f[Root]) : key = Append(h, idx)
    <3>1. PICK h \in Held(f[Root]) : key = Append(h, idx)
      BY <2>1
    <3>2. /\ h \in Key /\ key \in Key /\ Len(key) = 5 /\ key[5] = idx /\ key[1] = Root
          /\ key[2] \in 1..Made(f[Root])
      BY <1>7, <3>1
    <3>3. key[1] # child
      BY <3>2
    <3>4. Own(e, child, key)
      <4>1. key[2] \in 1..Made(e[Root]) /\ key[5] < e[Root].idx
        BY <1>1, <1>5, <1>9, <3>2
      <4>2. QED
        BY <3>2, <4>1 DEF Own, Spent
    <3>5. ASSUME NEW j \in DOMAIN f \ {child} PROVE key \notin KeysOf(e[j])
      <4>1. SUFFICES ASSUME key \in KeysOf(f[j]) PROVE FALSE
        BY <1>6
      <4>2. Own(f, j, key)
        BY <4>1 DEF Apart, OwnKeys
      <4>3. Len(key) # 4
        BY <3>2
      <4>4. Spent(f, key)
        BY <4>2, <4>3 DEF Own
      <4>5. idx < idx
        BY <3>1, <3>2, <4>4 DEF Spent, idx
      <4>6. QED
        BY <1>1, <4>5
    <3>6. ASSUME NEW j \in DOMAIN f \ {child}, NEW a \in AllPads(f[j]), Append(a[1], a[2]) = key PROVE FALSE
      <4>1. a[1] \in Key /\ a[2] \in Nat /\ a[1] \in KeysOf(f[j])
        BY <1>1, <3>6, PadTypes
      <4>2. a[1] = h /\ a[2] = idx
        <5>1. PICK k \in Key : k = a[1]
          BY <4>1
        <5>2. PICK m \in Nat : m = a[2]
          BY <4>1
        <5>3. Append(k, m) = Append(h, idx) /\ m \in Int /\ idx \in Int
          BY <1>1, <3>1, <3>6, <5>1, <5>2
        <5>4. k = h /\ m = idx
          BY <3>2, <5>3, SplitKeyApart
        <5>5. QED
          BY <5>1, <5>2, <5>4
      <4>3. j = Root
        <5>1. h \in KeysOf(f[Root])
          BY <1>1, <3>1, PadTypes
        <5>2. QED
          BY <1>1, <4>1, <4>2, <5>1 DEF Apart, KeysApart
      <4>4. a[2] < idx
        BY <1>1, <3>1, <3>6, <4>2, <4>3 DEF Apart, Behind, idx
      <4>5. QED
        BY <1>1, <4>2, <4>4
    <3>7. QED
      BY <1>6, <3>3, <3>4, <3>5, <3>6
  <2>2. CASE \E c \in Cols, b \in {0, 1} : key = Uninitialised(child, c, b)
    <3>1. key \in Key /\ Len(key) = 4 /\ key[1] = -1 /\ key[2] = child
      BY <1>8, <2>2
    <3>2. key[1] # child
      BY <1>1, <3>1
    <3>3. Own(e, child, key)
      BY <3>1 DEF Own
    <3>4. ASSUME NEW j \in DOMAIN f \ {child} PROVE key \notin KeysOf(e[j])
      <4>1. Own(e, j, key) => FALSE
        <5>1. j # -1 /\ Len(key) # 5
          BY <1>1, <3>1
        <5>2. QED
          BY <3>1, <5>1 DEF Own
      <4>2. QED
        BY <1>2, <1>4, <4>1 DEF Apart, OwnKeys
    <3>5. ASSUME NEW j \in DOMAIN f \ {child}, NEW a \in AllPads(f[j]), Append(a[1], a[2]) = key PROVE FALSE
      <4>1. a[1] \in Key /\ a[2] \in Nat /\ a[1] \in KeysOf(f[j])
        BY <1>1, <3>5, PadTypes
      <4>2. PICK l \in {4, 5} : Len(a[1]) = l
        BY <4>1 DEF OwnKeys, Apart, Own
      <4>3. Len(Append(a[1], a[2])) = l + 1
        BY <4>1, <4>2, SplitKey
      <4>4. l + 1 # 4
        BY <4>2
      <4>5. QED
        BY <3>1, <3>5, <4>3, <4>4
    <3>6. QED
      BY <1>6, <3>2, <3>3, <3>4, <3>5
  <2>3. QED
    BY <2>1, <2>2 DEF idx
<1>11. \A j \in DOMAIN e \ {child} : g[j] = e[j]
  BY <1>2
<1>12. QED
  BY <1>2, <1>3, <1>4, <1>10, <1>11, BornKeeps

LEMMA SplitStep ==
    ASSUME PadInv, NEW i \in Insts, RecvSplit(i)
    PROVE  PadInv'
<1> DEFINE p == r[i]
           child == Op(i, p).child
           q == [Return(p, << >>) EXCEPT !.idx = RecvNextIdx(@)]
           b == NewParty("idle", TRUE, RecvSplitKeys(child, p.keys, p.idx), RecvSplitCfg)
<1>1. /\ conf' = conf /\ p.pc = "idle" /\ ReceiverType(p) /\ p.t = << >> /\ InCall(i)
      /\ Call(p) <= NumCalls(i) /\ Op(i, p).op = "split" /\ p.base /\ Len(p.out) \in Nat
      /\ p.idx \in Nat /\ p.keys \in [Cols -> [{0, 1} -> Key]]
  BY DEF RecvSplit, About, PadInv, Lives, InCalls, ReceiverType
<1>2. i = Root /\ child \in Insts \ {Root}
  <2>1. Call(p) \in 1..NumCalls(i)
    BY <1>1, ScriptFacts DEF PadInv, Call
  <2>2. QED
    BY <1>1, <2>1, ScriptFacts DEF PadInv, Op
<1>3. r' = [r EXCEPT ![i] = q, ![child] = b]
  BY DEF RecvSplit
<1>4. /\ DOMAIN q = PartyFields /\ q.pc = "idle" /\ q.base = p.base /\ q.keys = p.keys
      /\ q.idx = p.idx + 1 /\ q.t = << >> /\ q.out = Append(p.out, << >>) /\ q.cfg = p.cfg
  BY <1>1 DEF Return, RecvNextIdx, ReceiverType, PartyFields
<1> HIDE DEF q
<1>5. ReceiverType(q)
  <2>1. << >> \in Seq(PadBlocks) /\ p.out \in Seq(Seq(PadBlocks))
    BY <1>1 DEF ReceiverType
  <2>2. Append(p.out, << >>) \in Seq(Seq(PadBlocks))
    BY <2>1
  <2>3. q.idx \in Nat
    BY <1>1, <1>4
  <2>4. QED
    BY <1>1, <1>4, <2>1, <2>2, <2>3 DEF ReceiverType
<1>6. Keeps(p, q)
  <2>1. SameDrawn(p, q)
    BY <1>1, <1>4, ReturnedRows
  <2>2. Held(q) = Held(p)
    BY <1>1, <1>4 DEF Held
  <2>3. Len(q.out) = Len(p.out) + 1
    BY <1>1, <1>4
  <2>4. Made(q) >= Made(p) /\ q.idx >= p.idx
    BY <1>1, <1>4, <2>3 DEF Made
  <2>5. QED
    BY <2>1, <2>2, <2>4 DEF Keeps
<1>7. RecvSplitKeys(child, p.keys, p.idx) \in [Cols -> [{0, 1} -> Key]]
  <2>1. ASSUME NEW c \in Cols, NEW x \in {0, 1}
        PROVE  Append(p.keys[c][x], p.idx) \in Key /\ Uninitialised(child, c, x) \in Key
    <3>1. p.idx \in Int /\ p.keys[c][x] \in Seq(Int)
      BY <1>1 DEF Key
    <3>2. c \in Int /\ x \in Int /\ child \in Int /\ -1 \in Int
      BY <1>2, KosAssumption, ScriptFacts DEF Cols, PadInv
    <3> HIDE DEF p, child
    <3>3. QED
      BY <3>1, <3>2, MadeKey DEF Key, Uninitialised
  <2> HIDE DEF child, p
  <2>2. QED
    BY <2>1 DEF RecvSplitKeys
<1>8. /\ DOMAIN b = PartyFields /\ b.pc = "idle" /\ b.out = << >> /\ b.t = << >> /\ b.base /\ b.base \in BOOLEAN
      /\ b.keys = RecvSplitKeys(child, p.keys, p.idx) /\ b.idx = 0 /\ b.cfg = RecvSplitCfg
  BY DEF NewParty, PartyFields
<1> HIDE DEF b, child
<1>9. RecvSplitCfg.mal \in BOOLEAN
  BY KosAssumption DEF RecvSplitCfg, DefaultCfg, PadInv
<1>10. ASSUME NEW key \in Held(b)
       PROVE  \/ \E h \in Held(p) : key = Append(h, p.idx)
              \/ \E c \in Cols, x \in {0, 1} : key = Uninitialised(child, c, x)
  <2>1. PICK c \in Cols, x \in {0, 1} : key = RecvSplitKeys(child, p.keys, p.idx)[c][x]
    BY <1>8, <1>10 DEF Held
  <2>2. p.keys[c][x] \in Held(p)
    BY <1>1 DEF Held
  <2> HIDE DEF p
  <2>3. QED
    BY <2>1, <2>2 DEF RecvSplitKeys
<1>11. ReceiverType(b)
  <2>1. << >> \in Seq(PadBlocks) /\ << >> \in Seq(Seq(PadBlocks))
    OBVIOUS
  <2>2. QED
    BY <1>7, <1>8, <2>1 DEF ReceiverType
<1>12. DrawnOf(b) = {}
  <2>1. ASSUME NEW d PROVE d \notin DrawnOf(b)
    <3>1. Len(b.out) = 0 /\ Len(b.t) = 0 /\ 0 \in Nat
      BY <1>8
    <3>2. \A k \in 1..1 : CallRows(b, k) = b.t
      BY <1>8, <3>1 DEF CallRows
    <3>3. d \in DrawnOf(b) <=> \E k \in 1..(0 + 1) : \E m \in 1..Len(CallRows(b, k)) : d = <<k, m>>
      BY <3>1, InDrawnOf
    <3>4. QED
      BY <3>1, <3>2, <3>3
  <2>2. QED
    BY <2>1
<1>13. /\ DOMAIN r' = Insts /\ DOMAIN r = Insts /\ r'[Root] = q /\ r'[child] = b /\ Insts' = Insts
       /\ \A j \in Insts \ {Root, child} : r'[j] = r[j]
  BY <1>1, <1>2, <1>3 DEF PadInv, Insts
<1>14. Lives(r')
  <2>1. \A j \in Insts : j = Root \/ j = child \/ r'[j] = r[j]
    BY <1>13
  <2>2. q.base
    BY <1>1, <1>4
  <2>3. QED
    BY <1>2, <1>4, <1>5, <1>8, <1>11, <1>13, <2>1, <2>2 DEF PadInv, Lives
<1>15. InCalls'
  <2>1. ASSUME NEW j \in Insts PROVE InCall(j)'
    <3>1. CASE j = Root
      BY <1>1, <1>2, <1>4, <1>13, <3>1 DEF InCall
    <3>2. CASE j = child
      BY <1>8, <1>9, <1>13, <3>2 DEF InCall
    <3>3. CASE j \notin {Root, child}
      <4>1. InCall(j) /\ r'[j] = r[j]
        BY <1>13, <3>3 DEF PadInv, InCalls
      <4>2. QED
        BY <1>1, <4>1 DEF InCall, Call, Op, NumCalls
    <3>4. QED
      BY <3>1, <3>2, <3>3
  <2>2. QED
    BY <1>13, <2>1 DEF InCalls
<1>16. Apart(r')
  <2>1. PICK f : f = r
    OBVIOUS
  <2>2. PICK g : g = r'
    OBVIOUS
  <2>3. /\ Lives(f) /\ Apart(f) /\ Lives(g) /\ DOMAIN g = DOMAIN f /\ g[Root] = q /\ f[Root] = p
        /\ child \in DOMAIN f \ {Root} /\ g[child] = b
        /\ \A j \in DOMAIN f \ {Root, child} : g[j] = f[j]
    BY <1>2, <1>13, <1>14, <2>1, <2>2 DEF PadInv
  <2> HIDE DEF p
  <2>4. Apart(g)
    BY <1>4, <1>6, <1>10, <1>12, <2>3, SplitKeeps
  <2>5. QED
    BY <2>2, <2>4
<1>17. QED
  BY <1>1, <1>13, <1>14, <1>15, <1>16 DEF PadInv

LEMMA NothingDrawn ==
    ASSUME NEW p, p.out = << >>, p.t = << >>, ~p.base
    PROVE  DrawnOf(p) = {} /\ AllPads(p) = {} /\ Held(p) = {} /\ KeysOf(p) = {}
<1>1. ASSUME NEW d PROVE d \notin DrawnOf(p)
  <2>1. Len(p.out) = 0 /\ Len(p.t) = 0 /\ 0 \in Nat
    OBVIOUS
  <2>2. \A k \in 1..1 : CallRows(p, k) = p.t
    BY <2>1 DEF CallRows
  <2>3. d \in DrawnOf(p) <=> \E k \in 1..(0 + 1) : \E m \in 1..Len(CallRows(p, k)) : d = <<k, m>>
    BY <2>1, InDrawnOf
  <2>4. QED
    BY <2>1, <2>2, <2>3
<1>2. DrawnOf(p) = {} /\ Held(p) = {}
  BY <1>1 DEF Held
<1>3. QED
  BY <1>2 DEF AllPads, KeysOf

LEMMA PadInit ==
    ASSUME Init
    PROVE  PadInv
<1>1. conf \in Confs /\ DOMAIN r = Insts
  BY DEF Init
<1>2. ASSUME NEW i \in Insts
      PROVE  /\ DOMAIN r[i] = PartyFields /\ r[i].out = << >> /\ r[i].t = << >>
             /\ ~r[i].base /\ r[i].base \in BOOLEAN
             /\ r[i].idx = 0 /\ r[i].pc = (IF i = Root THEN "idle" ELSE "unborn") /\ r[i].cfg = RootCfg
  BY DEF Init, NewParty, PartyFields
<1>3. ASSUME NEW i \in Insts PROVE ReceiverType(r[i])
  <2>1. << >> \in Seq(PadBlocks) /\ << >> \in Seq(Seq(PadBlocks))
    OBVIOUS
  <2>2. r[i].out \in Seq(Seq(PadBlocks))
    BY <1>2, <2>1
  <2>3. r[i].t \in Seq(PadBlocks)
    BY <1>2, <2>1
  <2>4. r[i].base \in BOOLEAN
    BY <1>2
  <2>5. r[i].idx \in Nat
    BY <1>2
  <2>6. DOMAIN r[i] = PartyFields
    BY <1>2
  <2>7. ~r[i].base
    BY <1>2
  <2>8. QED
    BY <2>2, <2>3, <2>4, <2>5, <2>6, <2>7 DEF ReceiverType
<1>4. Lives(r)
  BY <1>1, <1>2, <1>3, ScriptFacts DEF Lives
<1>5. RootCfg.mal \in BOOLEAN
  BY <1>1, KosAssumption DEF RootCfg
<1>6. InCalls
  BY <1>2, <1>5 DEF InCalls, InCall
<1>7. \A i \in Insts : DrawnOf(r[i]) = {} /\ AllPads(r[i]) = {} /\ Held(r[i]) = {} /\ KeysOf(r[i]) = {}
  BY <1>2, NothingDrawn
<1>8. Apart(r)
  BY <1>1, <1>7 DEF Apart, OwnKeys, KeysApart, Behind, RowsApart, Reserved
<1>9. QED
  BY <1>1, <1>4, <1>6, <1>8 DEF PadInv

LEMMA PadStep ==
    ASSUME PadInv, [Next]_vars
    PROVE  PadInv'
<1>1. ASSUME UNCHANGED <<conf, r>> PROVE PadInv'
  <2>1. Insts' = Insts /\ Lives(r') /\ Apart(r') /\ DOMAIN r' = Insts
    BY <1>1 DEF PadInv, Insts
  <2>2. ASSUME NEW i \in Insts PROVE InCall(i)'
    BY <1>1 DEF PadInv, InCalls, InCall, Call, Op, NumCalls
  <2>3. QED
    BY <1>1, <2>1, <2>2 DEF PadInv, InCalls
<1>2. CASE UNCHANGED vars
  BY <1>1, <1>2 DEF vars
<1>3. ASSUME NEW i \in Insts, RecvNext(i) PROVE PadInv'
  BY <1>3, SetBaseStep, SplitStep, StartStep, SendUStep, ProveStep, PayloadStep, RecvClosedStep
  DEF RecvNext
<1>4. ASSUME NEW i \in Insts, SendNext(i) PROVE PadInv'
  <2>1. UNCHANGED <<conf, r>>
    BY <1>4 DEF SendNext, SendSetBase, SendSplit, SendStart, SendRecvU, SendBadSize, SendSeed, SendVerify, SendPayload
  <2>2. QED
    BY <1>1, <2>1
<1>5. QED
  BY <1>2, <1>3, <1>4 DEF Next, Done

LEMMA PadsFreshFollows ==
    ASSUME PadInv
    PROVE  PadsFresh
<1>1. /\ DOMAIN r = Insts /\ Apart(r)
      /\ \A i \in Insts : ReceiverType(r[i]) /\ Len(r[i].out) \in Nat
      /\ \A i \in Insts \ {Root} : r[i].pc # "unborn" => r[i].base
  BY DEF PadInv, Lives, ReceiverType
<1>2. ASSUME NEW d \in AllDrawn
      PROVE  \E i \in Insts, k \in Nat, b \in Nat :
                /\ d = <<i, k, b>> /\ <<k, b>> \in DrawnOf(r[i])
                /\ PrngBlocks(d) = PadsOf(r[i], <<k, b>>)
  <2>1. \E i \in Insts, k \in Nat, b \in Nat :
           d = <<i, k, b>> /\ k \in 1..(Len(r[i].out) + 1) /\ b \in 1..Len(CallRows(r[i], k))
    <3>1. CASE \E i \in Insts : \E k \in 1..Len(r[i].out) : \E b \in 1..Len(r[i].out[k]) : d = <<i, k, b>>
      <4>1. PICK i \in Insts : \E k \in 1..Len(r[i].out) : \E b \in 1..Len(r[i].out[k]) : d = <<i, k, b>>
        BY <3>1
      <4>2. PICK k \in 1..Len(r[i].out) : \E b \in 1..Len(r[i].out[k]) : d = <<i, k, b>>
        BY <4>1
      <4>3. k \in Nat /\ k \in 1..(Len(r[i].out) + 1) /\ CallRows(r[i], k) = r[i].out[k]
        BY <1>1 DEF CallRows
      <4>4. PICK b \in 1..Len(r[i].out[k]) : d = <<i, k, b>>
        BY <4>2
      <4>5. b \in Nat
        BY <1>1 DEF ReceiverType
      <4>6. QED
        BY <4>3, <4>4, <4>5
    <3>2. CASE \E i \in Insts : \E b \in 1..Len(r[i].t) : d = <<i, Call(r[i]), b>>
      <4>1. PICK i \in Insts : \E b \in 1..Len(r[i].t) : d = <<i, Call(r[i]), b>>
        BY <3>2
      <4>2. Call(r[i]) \in Nat /\ Call(r[i]) \in 1..(Len(r[i].out) + 1) /\ CallRows(r[i], Call(r[i])) = r[i].t
        BY <1>1 DEF CallRows, Call
      <4>3. PICK b \in 1..Len(r[i].t) : d = <<i, Call(r[i]), b>>
        BY <4>1
      <4>4. b \in Nat
        BY <1>1 DEF ReceiverType
      <4>5. QED
        BY <4>2, <4>3, <4>4
    <3> DEFINE Returned(i) == UNION { { <<i, k, b>> : b \in 1..Len(r[i].out[k]) } : k \in 1..Len(r[i].out) }
               Current(i) == { <<i, Call(r[i]), b>> : b \in 1..Len(r[i].t) }
    <3>3. \/ \E i \in Insts : d \in Returned(i)
          \/ \E i \in Insts : d \in Current(i)
      <4> DEFINE A == UNION { Returned(i) : i \in Insts }
                 B == UNION { Current(i) : i \in Insts }
      <4>1. AllDrawn = A \cup B
        BY DEF AllDrawn
      <4> HIDE DEF A, B
      <4>2. d \in A \/ d \in B
        BY <4>1
      <4> HIDE DEF Returned, Current
      <4>3. d \in A => \E i \in Insts : d \in Returned(i)
        BY DEF A
      <4>4. d \in B => \E i \in Insts : d \in Current(i)
        BY DEF B
      <4>5. QED
        BY <4>2, <4>3, <4>4
    <3>4. QED
      BY <3>1, <3>2, <3>3
  <2>2. PICK i \in Insts, k \in Nat, b \in Nat :
           d = <<i, k, b>> /\ k \in 1..(Len(r[i].out) + 1) /\ b \in 1..Len(CallRows(r[i], k))
    BY <2>1
  <2>3. <<k, b>> \in DrawnOf(r[i])
    BY <1>1, <2>2, InDrawnOf
  <2>4. PrngBlocks(d) = PadsOf(r[i], <<k, b>>)
    BY <2>2 DEF PrngBlocks, BlockOf, PadsOf, CallRows, Pads
  <2>5. QED
    BY <2>2, <2>3, <2>4
<1>3. ASSUME NEW d \in AllDrawn, NEW e \in AllDrawn, d # e
      PROVE  PrngBlocks(d) \cap PrngBlocks(e) = {}
  <2>1. PICK i \in Insts, k \in Nat, b \in Nat :
           /\ d = <<i, k, b>> /\ <<k, b>> \in DrawnOf(r[i])
           /\ PrngBlocks(d) = PadsOf(r[i], <<k, b>>)
    BY <1>2
  <2>2. PICK j \in Insts, l \in Nat, m \in Nat :
           /\ e = <<j, l, m>> /\ <<l, m>> \in DrawnOf(r[j])
           /\ PrngBlocks(e) = PadsOf(r[j], <<l, m>>)
    BY <1>2
  <2>3. CASE i = j
    <3>1. <<k, b>> # <<l, m>>
      BY <1>3, <2>1, <2>2, <2>3
    <3>2. QED
      BY <1>1, <2>1, <2>2, <2>3, <3>1 DEF Apart, RowsApart
  <2>4. CASE i # j
    <3>1. SUFFICES ASSUME NEW a \in PrngBlocks(d), a \in PrngBlocks(e) PROVE FALSE
      OBVIOUS
    <3>2. a \in AllPads(r[i]) /\ a \in AllPads(r[j])
      BY <1>1, <2>1, <2>2, <3>1, PadTypes
    <3>3. a[1] \in KeysOf(r[i]) /\ a[1] \in KeysOf(r[j])
      BY <1>1, <3>2, PadTypes
    <3>4. QED
      BY <1>1, <2>4, <3>3 DEF Apart, KeysApart
  <2>5. QED
    BY <2>3, <2>4
<1>4. ASSUME NEW i \in Insts \ {Root}, r[i].pc # "unborn", NEW d \in AllDrawn, NEW a \in PrngBlocks(d),
             NEW c \in Cols, NEW b \in {0, 1}, r[i].keys[c][b] = Append(a[1], a[2])
      PROVE  FALSE
  <2>1. PICK j \in Insts, k \in Nat, m \in Nat :
           <<k, m>> \in DrawnOf(r[j]) /\ PrngBlocks(d) = PadsOf(r[j], <<k, m>>)
    BY <1>2
  <2>2. a \in AllPads(r[j])
    BY <1>1, <2>1, PadTypes
  <2>3. i \in Insts /\ i # Root /\ r[i].base
    BY <1>1, <1>4
  <2>4. r[i].keys[c][b] \in Held(r[i])
    BY <2>3 DEF Held
  <2>5. Append(a[1], a[2]) \notin Held(r[i])
    BY <1>1, <2>2, <2>3 DEF Apart, Reserved
  <2>6. QED
    BY <1>4, <2>4, <2>5
<1>5. QED
  BY <1>3, <1>4 DEF PadsFresh

(* No block of a base OT's PRNG serves twice, over every sequence of calls, *)
(* new base OTs and splits (KosOtExtReceiver::receive and splitBase).       *)
THEOREM NoPadTwice == Spec => []PadsFresh
<1>1. Init => PadInv
  BY PadInit
<1>2. PadInv /\ [Next]_vars => PadInv'
  BY PadStep
<1>3. PadInv => PadsFresh
  BY PadsFreshFollows
<1>4. QED
  BY <1>1, <1>2, <1>3, PTL DEF Spec

---------------------------------------------------------------------------
(* A setting cf, as the applications chose it, and the calls of its script. *)

N(cf) == Len(cf.script[Root])
OpOf(cf, k) == cf.script[Root][k]
IsExt(cf, k) == k \in 1..N(cf) /\ OpOf(cf, k).op = "ext"
CfgOf(cf) == [mal |-> ~cf.iknp, fs |-> cf.fs, hash |-> cf.hash]
Blocks(cf, k) == RecvBlocks(OpOf(cf, k).n, CfgOf(cf).mal)
(* The calls whose sender keeps every block it writes.                      *)
Whole(cf, k) == ~(cf.hash = "NoHash" /\ OpOf(cf, k).n > K)
(* The place of a message is counted in the blocks, and the proofs, sent    *)
(* before it.                                                              *)
Size(cf, k) == Blocks(cf, k) + (IF CfgOf(cf).mal THEN 1 ELSE 0)

(* Where a party stands: whether it has base OTs, the call they were made   *)
(* in, its position in the PRNGs, and the place of its next message.        *)
Fresh == [base |-> FALSE, gen |-> 0, idx |-> 0, start |-> 0]
WithBase(e, k) == IF e.base THEN e ELSE [e EXCEPT !.base = TRUE, !.gen = k, !.idx = 0]
AfterCall(cf, k, e) ==
    IF OpOf(cf, k).op = "base" THEN [e EXCEPT !.base = TRUE, !.gen = k, !.idx = 0]
    ELSE IF OpOf(cf, k).op = "split" THEN [e EXCEPT !.idx = @ + 1]
    ELSE [WithBase(e, k) EXCEPT !.idx = @ + Blocks(cf, k), !.start = @ + Size(cf, k)]
Timeline(cf) ==
    LET after[k \in 0..N(cf)] == IF k = 0 THEN Fresh ELSE AfterCall(cf, k, after[k - 1])
    IN  after
(* In call k, its base OTs made.                                            *)
During(cf, k) == WithBase(Timeline(cf)[k - 1], k)

---------------------------------------------------------------------------
(* The rows and messages of a call, block by block: bd is where the         *)
(* receiver cheats, dl the sender's delta.                                  *)

T0At(cf, k, b) ==
    [row \in Rows |-> [c \in Cols |-> Bit(<<Root, During(cf, k).gen, c, 0>>, During(cf, k).idx + b, row)]]
T1At(cf, k, b) ==
    [row \in Rows |-> [c \in Cols |-> Bit(<<Root, During(cf, k).gen, c, 1>>, During(cf, k).idx + b, row)]]
UAt(cf, bd, k, b) ==
    [row \in Rows |-> [c \in Cols |->
        Xor(Xor(Xor(T0At(cf, k, b)[row][c], T1At(cf, k, b)[row][c]), ChoiceBit(Root, k, b, row)),
            IF <<Root, k, b, row, c>> \in bd THEN One ELSE ZeroBlock)]]
QAt(cf, dl, bd, k, b) ==
    [row \in Rows |-> [c \in Cols |->
        Xor(IF c \in dl THEN T1At(cf, k, b)[row][c] ELSE T0At(cf, k, b)[row][c],
            BitTimes(c \in dl, UAt(cf, bd, k, b)[row][c]))]]

RecvRows(cf) ==
    [k \in 1..N(cf) |-> IF IsExt(cf, k) THEN [b \in 1..Blocks(cf, k) |-> T0At(cf, k, b - 1)] ELSE << >>]
SentU(cf, bd) ==
    [k \in 1..N(cf) |-> IF IsExt(cf, k) THEN [b \in 1..Blocks(cf, k) |-> UAt(cf, bd, k, b - 1)] ELSE << >>]
SendRows(cf, dl, bd) ==
    [k \in 1..N(cf) |-> IF IsExt(cf, k) THEN [b \in 1..Blocks(cf, k) |-> QAt(cf, dl, bd, k, b - 1)] ELSE << >>]
RecvKeys(cf) == [k \in 1..N(cf) |-> RecvRootKeys(Root, k)]
SendKeys(cf, dl) ==
    [k \in 1..N(cf) |-> [c \in Cols |-> <<Root, k, c, IF c \in dl THEN 1 ELSE 0>>]]

Upto(f, n) == [k \in 1..n |-> f[k]]

---------------------------------------------------------------------------
(* A party: ks are its base OTs, rs the rows of its calls, us the u of them.*)

Busy == {"ext", "check", "seed", "verify", "payload"}
Returned(p) == Len(p.out)

(* What it has returned, where it stands between calls, and during one: the *)
(* rows only of the calls in which no block is lost.                        *)
OutOk(cf, rs, p) ==
    /\ DOMAIN p = PartyFields /\ p.cfg = CfgOf(cf)
    /\ Returned(p) \in 0..N(cf) /\ p.out = Upto(p.out, Returned(p))
    /\ \A k \in 1..Returned(p) : Whole(cf, k) => p.out[k] = rs[k]
IdleOk(cf, ks, p) ==
    LET e == Timeline(cf)[Returned(p)] IN
    /\ p.base = e.base /\ p.idx = e.idx /\ (e.base => p.keys = ks[e.gen])
    /\ p.t = << >> /\ p.seen = << >>
BusyOk(cf, ks, rs, us, p) ==
    LET k == Returned(p) + 1
        e == During(cf, k)
    IN  /\ IsExt(cf, k) /\ ~Rejected(CfgOf(cf))
        /\ p.base = TRUE /\ p.keys = ks[e.gen] /\ p.idx = e.idx + p.blk
        /\ p.blk \in 0..Blocks(cf, k)
        /\ Whole(cf, k) => p.t = Upto(rs[k], p.blk)
        /\ p.seen = IF cf.fs THEN Upto(us[k], p.blk) ELSE << >>

PartyOk(cf, ks, rs, us, p) ==
    /\ OutOk(cf, rs, p)
    /\ p.pc \in {"idle", "failed", "rejected"} \cup Busy
    /\ p.pc = "idle" => IdleOk(cf, ks, p)
    /\ p.pc \in Busy =>
          LET k == Returned(p) + 1 IN
          /\ BusyOk(cf, ks, rs, us, p)
          /\ p.pc = "ext" <=> p.blk # Blocks(cf, k)
          /\ p.pc \in {"check", "seed", "verify"} => CfgOf(cf).mal
          /\ p.pc = "seed" => ~cf.fs
          /\ p.pc = "payload" => OpOf(cf, k).payload

(* The place of the next message of a party.                                *)
Place(cf, p) ==
    Timeline(cf)[Returned(p)].start
        + (IF p.pc \in Busy THEN p.blk + (IF p.pc = "payload" /\ CfgOf(cf).mal THEN 1 ELSE 0) ELSE 0)

ProofAt(cf, bd, k) ==
    [kind |-> "proof", seed |-> IF cf.fs THEN SentU(cf, bd)[k] ELSE << >>,
     x |-> ChoiceSum(Root, k, RecvRows(cf)[k]), t |-> [c \in Cols |-> ColumnSum(RecvRows(cf)[k], c)]]

(* The u of the next step blocks after the first b of call k.               *)
UMessage(cf, bd, k, b, step) == [kind |-> "u", u |-> [j \in 1..step |-> SentU(cf, bd)[k][b + j]]]

IsUBlocks(cf, bd, m, lo, hi) ==
    \E k \in 1..N(cf) : IsExt(cf, k) /\ \E b \in 0..(Blocks(cf, k) - 1) :
        /\ lo = Timeline(cf)[k - 1].start + b
        /\ hi = lo + MinOf(Blocks(cf, k) - b, CommStep)
        /\ m = [kind |-> "u", u |-> [j \in 1..(hi - lo) |-> SentU(cf, bd)[k][b + j]]]
IsProof(cf, bd, m, lo, hi) ==
    \E k \in 1..N(cf) :
        /\ IsExt(cf, k) /\ CfgOf(cf).mal
        /\ lo = Timeline(cf)[k - 1].start + Blocks(cf, k) /\ hi = lo + 1
        /\ m = ProofAt(cf, bd, k)

IsMessage(cf, bd, m, lo, hi) == IsUBlocks(cf, bd, m, lo, hi) \/ IsProof(cf, bd, m, lo, hi)

IsSeq(f) == f \in Seq({ f[k] : k \in DOMAIN f })

(* The messages q on their way are those of the places lo to hi; at is the  *)
(* place of each.                                                          *)
ChainAt(cf, bd, q, lo, hi, at) ==
    /\ at \in [1..(Len(q) + 1) -> Nat] /\ at[1] = lo /\ at[Len(q) + 1] = hi
    /\ \A a, b \in 1..(Len(q) + 1) : a < b => at[a] < at[b]
    /\ \A m \in 1..Len(q) : IsMessage(cf, bd, q[m], at[m], at[m + 1])
Chain(cf, bd, q, lo, hi) == IsSeq(q) /\ \E at : ChainAt(cf, bd, q, lo, hi, at)

(* The sender's replies: a seed to a receiver that waits for it, or the     *)
(* chosen messages. No receiver passes one that has not been sent.          *)
Awaited(cf, p, q, replies) ==
    \/ replies = << >>
    \/ /\ replies = << [kind |-> "seed", seed |-> << >>] >> /\ Returned(p) = Returned(q)
       /\ p.pc = "check" /\ ~cf.fs /\ q.pc = "verify"
    \/ replies = << [kind |-> "payload"] >> /\ p.pc = "payload" /\ Returned(q) > Returned(p)
NotAhead(cf, p, q) ==
    \A k \in 1..N(cf) : IsExt(cf, k) =>
        /\ (CfgOf(cf).mal /\ ~cf.fs /\ (Returned(p) >= k \/ (Returned(p) = k - 1 /\ p.pc = "payload"))) =>
              Returned(q) >= k \/ (Returned(q) = k - 1 /\ q.pc \in {"verify", "payload"})
        /\ OpOf(cf, k).payload /\ Returned(p) >= k => Returned(q) >= k

(* Cheating is getting a bit of u wrong, in a block that has been sent.     *)
BadAt(cf, e) ==
    \E k \in 1..N(cf), b \in Nat, row \in Rows, c \in Cols :
        IsExt(cf, k) /\ b < Blocks(cf, k) /\ e = <<Root, k, b, row, c>>
BadOk(cf, bd, p) ==
    \A e \in bd : e[1] = Root =>
        /\ CfgOf(cf).mal /\ BadAt(cf, e)
        /\ e[2] <= Returned(p) \/ (p.pc # "idle" /\ e[2] = Returned(p) + 1 /\ e[3] < p.blk)
Hit(dl, bd, k) == \E e \in bd : e[1] = Root /\ e[2] = k /\ e[5] \in dl
Passed(p) == Returned(p) + (IF p.pc = "payload" THEN 1 ELSE 0)

RecvOk(cf, bd, p) ==
    /\ PartyOk(cf, RecvKeys(cf), RecvRows(cf), SentU(cf, bd), p)
    /\ p.pc \in {"idle", "ext", "check", "payload", "failed"}
SendOk(cf, dl, bd, q) ==
    /\ PartyOk(cf, SendKeys(cf, dl), SendRows(cf, dl, bd), SentU(cf, bd), q)
    /\ q.pc \in {"idle", "ext", "seed", "verify", "payload", "failed", "rejected"}

PairOk(cf, dl, bd, p, q, messages, replies, shut) ==
    /\ RecvOk(cf, bd, p) /\ SendOk(cf, dl, bd, q)
    /\ BadOk(cf, bd, p)
    /\ \A k \in 1..Passed(q) : ~Hit(dl, bd, k)
    /\ q.pc = "rejected" => Hit(dl, bd, Returned(q) + 1) /\ shut
    /\ shut => q.pc = "rejected" \/ Rejected(CfgOf(cf))
    /\ p.pc = "failed" => shut
    /\ q.pc = "failed" => Rejected(CfgOf(cf))
    /\ q.pc # "rejected" =>
          /\ Chain(cf, bd, messages, Place(cf, q), Place(cf, p))
          /\ Awaited(cf, p, q, replies) /\ NotAhead(cf, p, q)

(* The other instances: enough to see that they never split.                *)
Counted(p) == DOMAIN p = PartyFields /\ IsSeq(p.out)

KosInv ==
    /\ conf \in Confs /\ delta \subseteq Cols
    /\ DOMAIN r = Insts /\ DOMAIN s = Insts /\ DOMAIN toS = Insts /\ DOMAIN toR = Insts
    /\ DOMAIN closed = Insts /\ \A i \in Insts : Counted(r[i]) /\ Counted(s[i])
    /\ closed[Root] \in BOOLEAN
    /\ PairOk(conf, delta, bad, r[Root], s[Root], toS[Root], toR[Root], closed[Root])

---------------------------------------------------------------------------
(* Scripts and timelines. *)

LEMMA CallFacts ==
    ASSUME NEW cf \in Confs
    PROVE  /\ N(cf) \in Nat /\ CfgOf(cf).mal \in BOOLEAN /\ cf.fs \in BOOLEAN
           /\ CfgOf(cf).fs = cf.fs
           /\ \A k \in 1..N(cf) :
                 \/ OpOf(cf, k).op = "base"
                 \/ OpOf(cf, k).op = "split" /\ OpOf(cf, k).child # Root
                 \/ IsExt(cf, k) /\ OpOf(cf, k).payload \in BOOLEAN /\ OpOf(cf, k).n \in Nat \ {0}
           /\ \A k \in 1..N(cf) : IsExt(cf, k) =>
                 Blocks(cf, k) \in Nat /\ Blocks(cf, k) >= 1 /\ Size(cf, k) \in Nat /\ Size(cf, k) >= Blocks(cf, k)
<1>1. /\ N(cf) \in Nat /\ cf.iknp \in BOOLEAN /\ cf.fs \in BOOLEAN
      /\ \A k \in 1..N(cf) :
            LET op == cf.script[Root][k] IN
            \/ op.op = "base"
            \/ op.op = "split" /\ op.child \in DOMAIN cf.script \ {Root}
            \/ op.op = "ext" /\ op.n \in Nat \ {0} /\ op.payload \in BOOLEAN
  BY KosAssumption DEF N
<1>2. CfgOf(cf).mal \in BOOLEAN /\ CfgOf(cf).fs = cf.fs
  BY <1>1 DEF CfgOf
<1>3. ASSUME NEW k \in 1..N(cf), IsExt(cf, k)
      PROVE  Blocks(cf, k) \in Nat /\ Blocks(cf, k) >= 1 /\ Size(cf, k) \in Nat /\ Size(cf, k) >= Blocks(cf, k)
  <2>1. OpOf(cf, k).n \in Nat \ {0}
    BY <1>1, <1>3 DEF OpOf, IsExt
  <2>2. Blocks(cf, k) \in Nat /\ Blocks(cf, k) >= 1
    BY <1>2, <2>1, BlocksType DEF Blocks
  <2>3. QED
    BY <2>2 DEF Size
<1>4. QED
  BY <1>1, <1>2, <1>3 DEF OpOf, IsExt

Entry == [base : BOOLEAN, gen : Nat, idx : Nat, start : Nat]

LEMMA AfterCallFacts ==
    ASSUME NEW cf \in Confs, NEW k \in 1..N(cf), NEW e \in Entry
    PROVE  /\ AfterCall(cf, k, e) \in Entry
           /\ WithBase(e, k) \in Entry /\ WithBase(e, k).base /\ WithBase(e, k).start = e.start
           /\ OpOf(cf, k).op = "base" =>
                 AfterCall(cf, k, e) = [base |-> TRUE, gen |-> k, idx |-> 0, start |-> e.start]
           /\ OpOf(cf, k).op = "split" =>
                 AfterCall(cf, k, e) = [base |-> e.base, gen |-> e.gen, idx |-> e.idx + 1, start |-> e.start]
           /\ IsExt(cf, k) =>
                 AfterCall(cf, k, e) = [base |-> TRUE, gen |-> WithBase(e, k).gen,
                                        idx |-> WithBase(e, k).idx + Blocks(cf, k),
                                        start |-> e.start + Size(cf, k)]
<1>1. N(cf) \in Nat /\ k \in Nat
  BY CallFacts
<1>2. /\ WithBase(e, k) \in Entry /\ WithBase(e, k).base /\ WithBase(e, k).start = e.start
      /\ WithBase(e, k) = [base |-> TRUE, gen |-> WithBase(e, k).gen, idx |-> WithBase(e, k).idx, start |-> e.start]
  <2>1. CASE e.base
    BY <2>1 DEF WithBase, Entry
  <2>2. CASE ~e.base
    BY <1>1, <2>2 DEF WithBase, Entry
  <2>3. QED
    BY <2>1, <2>2 DEF Entry
<1>3. CASE OpOf(cf, k).op = "base"
  BY <1>1, <1>2, <1>3 DEF AfterCall, Entry, IsExt
<1>4. CASE OpOf(cf, k).op = "split"
  BY <1>1, <1>2, <1>4 DEF AfterCall, Entry, IsExt
<1>5. CASE IsExt(cf, k)
  <2>1. Blocks(cf, k) \in Nat /\ Size(cf, k) \in Nat
    BY <1>5, CallFacts
  <2> DEFINE w == WithBase(e, k)
  <2>2. w \in Entry /\ w.base /\ w.start = e.start
    BY <1>2
  <2>3. AfterCall(cf, k, e) = [w EXCEPT !.idx = @ + Blocks(cf, k), !.start = @ + Size(cf, k)]
    BY <1>5 DEF AfterCall, IsExt
  <2> HIDE DEF w
  <2>4. AfterCall(cf, k, e) = [base |-> TRUE, gen |-> w.gen, idx |-> w.idx + Blocks(cf, k), start |-> e.start + Size(cf, k)]
    BY <2>2, <2>3 DEF Entry
  <2>5. AfterCall(cf, k, e) \in Entry
    BY <2>1, <2>2, <2>4 DEF Entry
  <2>6. OpOf(cf, k).op = "ext"
    BY <1>5 DEF IsExt
  <2>7. QED
    BY <1>2, <2>4, <2>5, <2>6 DEF w
<1>6. QED
  BY <1>3, <1>4, <1>5, CallFacts

LEMMA TimelineFacts ==
    ASSUME NEW cf \in Confs
    PROVE  /\ Timeline(cf) \in [0..N(cf) -> Entry] /\ Timeline(cf)[0] = Fresh
           /\ \A k \in 1..N(cf) : Timeline(cf)[k] = AfterCall(cf, k, Timeline(cf)[k - 1])
<1> DEFINE n == N(cf)
           Body(g) == [k \in 0..n |-> IF k = 0 THEN Fresh ELSE AfterCall(cf, k, g[k - 1])]
           IsTo(m, f) == /\ f \in [0..m -> Entry] /\ f[0] = Fresh
                         /\ \A k \in 1..m : f[k] = AfterCall(cf, k, f[k - 1])
           S == { m \in 0..n : \E f : IsTo(m, f) }
<1>1. n \in Nat
  BY CallFacts
<1>2. 0 \in S
  <2>1. IsTo(0, [k \in 0..0 |-> Fresh])
    BY DEF Fresh, Entry
  <2>2. 0 \in 0..n
    BY <1>1
  <2> HIDE DEF IsTo, n
  <2>3. QED
    BY <2>1, <2>2
<1>3. ASSUME NEW m \in 1..n, m - 1 \in S PROVE m \in S
  <2>1. PICK f : IsTo(m - 1, f)
    BY <1>3
  <2> DEFINE g == [k \in 0..m |-> IF k = m THEN AfterCall(cf, m, f[m - 1]) ELSE f[k]]
  <2>2. m - 1 \in 0..(m - 1) /\ f[m - 1] \in Entry
    BY <1>1, <2>1
  <2>3. AfterCall(cf, m, f[m - 1]) \in Entry
    BY <2>2, AfterCallFacts
  <2>4. g \in [0..m -> Entry] /\ g[0] = Fresh
    BY <1>1, <2>1, <2>3
  <2>5. ASSUME NEW k \in 1..m PROVE g[k] = AfterCall(cf, k, g[k - 1])
    <3>1. k - 1 \in 0..m /\ k - 1 # m
      BY <1>1
    <3>2. CASE k = m
      BY <3>1, <3>2
    <3>3. CASE k # m
      <4>1. k \in 1..(m - 1)
        BY <1>1, <3>3
      <4>2. f[k] = AfterCall(cf, k, f[k - 1])
        BY <2>1, <4>1
      <4>3. QED
        BY <3>1, <3>3, <4>2
    <3>4. QED
      BY <3>2, <3>3
  <2>6. IsTo(m, g)
    BY <2>4, <2>5
  <2>7. m \in 0..n
    BY <1>1
  <2> HIDE DEF IsTo, g, n
  <2>8. QED
    BY <2>6, <2>7
<1>4. n \in S
  <2> HIDE DEF S, n
  <2>1. 0..n \subseteq S
    BY <1>1, <1>2, <1>3, IntervalInduction
  <2>2. QED
    BY <1>1, <2>1
<1>5. PICK f : IsTo(n, f)
  BY <1>4
<1>6. f = Body(f)
  BY <1>1, <1>5
<1>7. Timeline(cf) = CHOOSE g : g = Body(g)
  BY DEF Timeline
<1>8. Timeline(cf) = Body(Timeline(cf))
  BY <1>6, <1>7
<1>9. ASSUME NEW g, g = Body(g)
      PROVE  \A k \in 0..n : g[k] = f[k]
  <2> DEFINE T == { k \in 0..n : g[k] = f[k] }
  <2>1. 0 \in T
    BY <1>1, <1>5, <1>9
  <2>2. ASSUME NEW k \in 1..n, k - 1 \in T PROVE k \in T
    BY <1>1, <1>5, <1>9, <2>2
  <2> HIDE DEF T, n
  <2>3. 0..n \subseteq T
    BY <1>1, <2>1, <2>2, IntervalInduction
  <2>4. QED
    BY <2>3 DEF T
<1>10. \A k \in 0..n : Timeline(cf)[k] = f[k]
  BY <1>8, <1>9
<1>11. DOMAIN Timeline(cf) = 0..n /\ Timeline(cf) = [k \in 0..n |-> Timeline(cf)[k]]
  BY <1>8
<1>12. QED
  BY <1>1, <1>5, <1>10, <1>11

LEMMA StartStep1 ==
    ASSUME NEW cf \in Confs, NEW k \in 1..N(cf)
    PROVE  /\ Timeline(cf)[k - 1] \in Entry /\ Timeline(cf)[k] \in Entry
           /\ Timeline(cf)[k].start = Timeline(cf)[k - 1].start + (IF IsExt(cf, k) THEN Size(cf, k) ELSE 0)
           /\ Timeline(cf)[k] = AfterCall(cf, k, Timeline(cf)[k - 1])
<1>1. Timeline(cf)[k - 1] \in Entry /\ Timeline(cf)[k] \in Entry
  <2>1. k - 1 \in 0..N(cf) /\ k \in 0..N(cf)
    BY CallFacts
  <2>2. QED
    BY <2>1, TimelineFacts
<1>2. Timeline(cf)[k] = AfterCall(cf, k, Timeline(cf)[k - 1])
  BY TimelineFacts
<1>3. Timeline(cf)[k - 1].start \in Nat
  BY <1>1 DEF Entry
<1>4. IsExt(cf, k) => OpOf(cf, k).op = "ext"
  BY DEF IsExt
<1>5. QED
  BY <1>1, <1>2, <1>3, <1>4, AfterCallFacts, CallFacts

(* The places of a call come before those of a later one.                   *)
LEMMA StartOrder ==
    ASSUME NEW cf \in Confs, NEW j \in 0..N(cf), NEW k \in 0..N(cf), j < k
    PROVE  /\ Timeline(cf)[j].start <= Timeline(cf)[k].start
           /\ IsExt(cf, j + 1) => Timeline(cf)[j].start + Size(cf, j + 1) <= Timeline(cf)[k].start
<1> DEFINE st(m) == Timeline(cf)[m].start
           extra == IF IsExt(cf, j + 1) THEN Size(cf, j + 1) ELSE 0
           S == { m \in 0..N(cf) : m > j => st(j) + extra <= st(m) }
<1>1. N(cf) \in Nat /\ \A m \in 0..N(cf) : st(m) \in Nat
  BY CallFacts, TimelineFacts DEF Entry
<1>2. extra \in Nat
  <2>1. j + 1 \in 1..N(cf)
    BY <1>1
  <2>2. QED
    BY <2>1, CallFacts
<1>3. ASSUME NEW m \in 1..N(cf) PROVE st(m) >= st(m - 1) /\ (m = j + 1 => st(m) = st(j) + extra)
  <2>1. IsExt(cf, m) => Size(cf, m) \in Nat
    BY CallFacts
  <2>2. m - 1 \in 0..N(cf) /\ m \in 0..N(cf)
    BY <1>1
  <2>3. st(m) = st(m - 1) + (IF IsExt(cf, m) THEN Size(cf, m) ELSE 0)
    BY StartStep1
  <2>4. st(m) >= st(m - 1)
    BY <1>1, <2>1, <2>2, <2>3
  <2>5. ASSUME m = j + 1 PROVE st(m) = st(j) + extra
    <3>1. m - 1 = j
      BY <1>1, <2>5
    <3>2. QED
      BY <2>3, <2>5, <3>1
  <2>6. QED
    BY <2>4, <2>5
<1> HIDE DEF st, extra
<1>4. 0 \in S
  BY <1>1
<1>5. ASSUME NEW m \in 1..N(cf), m - 1 \in S PROVE m \in S
  <2>1. m \in 0..N(cf) /\ m - 1 \in 0..N(cf) /\ (m > j => m - 1 > j \/ m = j + 1)
    BY <1>1
  <2>2. QED
    BY <1>1, <1>2, <1>3, <1>5, <2>1
<1>6. k \in S
  <2> HIDE DEF S
  <2>1. 0..N(cf) \subseteq S
    BY <1>1, <1>4, <1>5, IntervalInduction
  <2>2. QED
    BY <2>1
<1>7. st(j) + extra <= st(k)
  BY <1>6
<1>8. QED
  BY <1>1, <1>2, <1>7 DEF st, extra

(* A place belongs to one call and one block of it.                         *)
LEMMA PlaceUnique ==
    ASSUME NEW cf \in Confs, NEW j \in 1..N(cf), NEW k \in 1..N(cf), IsExt(cf, j), IsExt(cf, k),
           NEW a \in Nat, NEW b \in Nat, a < Size(cf, j), b < Size(cf, k),
           Timeline(cf)[j - 1].start + a = Timeline(cf)[k - 1].start + b
    PROVE  j = k /\ a = b
<1>1. N(cf) \in Nat /\ j - 1 \in 0..N(cf) /\ k - 1 \in 0..N(cf) /\ Size(cf, j) \in Nat /\ Size(cf, k) \in Nat
  BY CallFacts
<1>2. Timeline(cf)[j - 1].start \in Nat /\ Timeline(cf)[k - 1].start \in Nat
  BY <1>1, TimelineFacts DEF Entry
<1>3. ASSUME j < k PROVE FALSE
  <2>1. j - 1 < k - 1 /\ j - 1 + 1 = j
    BY <1>1, <1>3
  <2>2. Timeline(cf)[j - 1].start + Size(cf, j) <= Timeline(cf)[k - 1].start
    BY <1>1, <2>1, StartOrder
  <2>3. QED
    BY <1>1, <1>2, <2>2
<1>4. ASSUME k < j PROVE FALSE
  <2>1. k - 1 < j - 1 /\ k - 1 + 1 = k
    BY <1>1, <1>4
  <2>2. Timeline(cf)[k - 1].start + Size(cf, k) <= Timeline(cf)[j - 1].start
    BY <1>1, <2>1, StartOrder
  <2>3. QED
    BY <1>1, <1>2, <2>2
<1>5. QED
  BY <1>1, <1>2, <1>3, <1>4

---------------------------------------------------------------------------
(* Sequences that grow by what comes next.                                  *)

LEMMA Appended ==
    ASSUME NEW S, NEW a \in Seq(S), NEW x
    PROVE  /\ Append(a, x) \in Seq(S \cup {x}) /\ Len(Append(a, x)) = Len(a) + 1 /\ Len(a) \in Nat
           /\ \A k \in 1..Len(a) : Append(a, x)[k] = a[k]
           /\ Append(a, x)[Len(a) + 1] = x
<1>1. PICK T : T = S \cup {x}
  OBVIOUS
<1>2. a \in Seq(T) /\ x \in T
  BY <1>1
<1>3. Append(a, x) \in Seq(T)
  BY <1>2
<1>4. QED
  BY <1>1, <1>3

LEMMA UptoFacts ==
    ASSUME NEW f, NEW n \in Nat
    PROVE  /\ Upto(f, n) \in Seq({ f[k] : k \in 1..n }) /\ Len(Upto(f, n)) = n
           /\ \A k \in 1..n : Upto(f, n)[k] = f[k]
           /\ Upto(f, 0) = << >>
           /\ Append(Upto(f, n), f[n + 1]) = Upto(f, n + 1)
<1>1. Upto(f, n) \in [1..n -> { f[k] : k \in 1..n }]
  BY DEF Upto
<1>2. Upto(f, n) \in Seq({ f[k] : k \in 1..n }) /\ Len(Upto(f, n)) = n
  <2>1. ASSUME NEW S, NEW g \in [1..n -> S] PROVE g \in Seq(S) /\ Len(g) = n
    BY <2>1
  <2>2. QED
    BY <1>1, <2>1, Zenon
<1>3. Upto(f, 0) = << >>
  BY DEF Upto
<1>4. Append(Upto(f, n), f[n + 1]) = Upto(f, n + 1)
  <2>1. PICK g : g = Upto(f, n)
    OBVIOUS
  <2>2. PICK x : x = f[n + 1]
    OBVIOUS
  <2>3. g \in Seq({ f[k] : k \in 1..n }) /\ Len(g) = n /\ \A k \in 1..n : g[k] = f[k]
    BY <1>2, <2>1 DEF Upto
  <2>4. /\ Append(g, x) \in Seq({ f[k] : k \in 1..n } \cup {x}) /\ Len(Append(g, x)) = n + 1
        /\ \A k \in 1..n : Append(g, x)[k] = g[k]
        /\ Append(g, x)[n + 1] = x
    BY <2>3, Appended
  <2>5. PICK h, S : h = Append(g, x) /\ S = { f[k] : k \in 1..n } \cup {x}
    OBVIOUS
  <2>6. h \in Seq(S) /\ Len(h) = n + 1 /\ \A k \in 1..(n + 1) : h[k] = f[k]
    <3>1. ASSUME NEW k \in 1..(n + 1) PROVE k = n + 1 \/ k \in 1..n
      OBVIOUS
    <3>2. QED
      BY <2>2, <2>3, <2>4, <2>5, <3>1
  <2>7. h = [k \in 1..(n + 1) |-> f[k]]
    BY <2>6
  <2>8. QED
    BY <2>1, <2>2, <2>5, <2>7 DEF Upto
<1>5. QED
  BY <1>2, <1>3, <1>4 DEF Upto

LEMMA UptoConcat ==
    ASSUME NEW f, NEW m \in Nat, NEW n \in Nat
    PROVE  Upto(f, m) \o [j \in 1..n |-> f[m + j]] = Upto(f, m + n)
<1> DEFINE S == { f[k] : k \in 1..(m + n) }
<1>1. PICK a : a = Upto(f, m)
  OBVIOUS
<1>2. PICK b : b = [j \in 1..n |-> f[m + j]]
  OBVIOUS
<1>3. a \in [1..m -> S] /\ b \in [1..n -> S]
  BY <1>1, <1>2 DEF Upto
<1> HIDE DEF S
<1>4. a \in Seq(S) /\ b \in Seq(S) /\ Len(a) = m /\ Len(b) = n
  BY <1>3
<1>5. /\ a \o b \in Seq(S) /\ Len(a \o b) = m + n
      /\ \A k \in 1..(m + n) : (a \o b)[k] = IF k <= m THEN a[k] ELSE b[k - m]
  BY <1>4, Concatenated
<1>6. \A k \in 1..m : a[k] = f[k]
  BY <1>1 DEF Upto
<1>7. \A j \in 1..n : b[j] = f[m + j]
  BY <1>2
<1>8. ASSUME NEW k \in 1..(m + n) PROVE (a \o b)[k] = f[k]
  <2>1. CASE k <= m
    BY <1>5, <1>6, <2>1
  <2>2. CASE k > m
    <3>1. k - m \in 1..n /\ m + (k - m) = k
      BY <2>2
    <3>2. QED
      BY <1>5, <1>7, <2>2, <3>1
  <2>3. k <= m \/ k > m
    OBVIOUS
  <2>4. QED
    BY <2>1, <2>2, <2>3
<1>9. a \o b = [k \in 1..(m + n) |-> f[k]]
  <2>1. PICK g : g = a \o b
    OBVIOUS
  <2>2. g \in Seq(S) /\ Len(g) = m + n /\ \A k \in 1..(m + n) : g[k] = f[k]
    BY <1>5, <1>8, <2>1
  <2>3. g = [k \in 1..(m + n) |-> f[k]]
    BY <2>2
  <2>4. QED
    BY <2>1, <2>3
<1>10. QED
  BY <1>1, <1>2, <1>9 DEF Upto

LEMMA UptoAll ==
    ASSUME NEW f, NEW n \in Nat, NEW S, f \in [1..n -> S]
    PROVE  Upto(f, n) = f
  BY DEF Upto

---------------------------------------------------------------------------
(* Steps of a party, whichever it is: ks, rs and us are what it should have.*)

RowsOk(cf, rs) ==
    \A k \in 1..N(cf) : rs[k] = IF IsExt(cf, k) THEN Upto(rs[k], Blocks(cf, k)) ELSE << >>

LEMMA PlaceType ==
    ASSUME NEW cf \in Confs, NEW rs, NEW p, OutOk(cf, rs, p)
    PROVE  /\ Returned(p) \in Nat /\ N(cf) \in Nat
           /\ Timeline(cf)[Returned(p)] \in Entry /\ Timeline(cf)[Returned(p)].start \in Nat
           /\ p.pc \notin Busy => Place(cf, p) = Timeline(cf)[Returned(p)].start
           /\ p.pc \in Busy \ {"payload"} /\ p.blk \in Nat =>
                 Place(cf, p) = Timeline(cf)[Returned(p)].start + p.blk
<1>1. Returned(p) \in Nat /\ N(cf) \in Nat /\ Returned(p) \in 0..N(cf)
  BY CallFacts DEF OutOk
<1>2. Timeline(cf)[Returned(p)] \in Entry
  BY <1>1, TimelineFacts
<1>3. Timeline(cf)[Returned(p)].start \in Nat
  BY <1>2 DEF Entry
<1>4. QED
  BY <1>1, <1>2, <1>3 DEF Place

LEMMA PartyReturns ==
    ASSUME NEW cf \in Confs, NEW rs, NEW p, OutOk(cf, rs, p), Returned(p) + 1 \in 1..N(cf),
           NEW rows, Whole(cf, Returned(p) + 1) => rows = rs[Returned(p) + 1],
           NEW q, DOMAIN q = PartyFields, q.cfg = p.cfg, q.out = Append(p.out, rows)
    PROVE  OutOk(cf, rs, q) /\ Returned(q) = Returned(p) + 1
<1> DEFINE l == Returned(p)
<1>1. l \in Nat /\ p.out = Upto(p.out, l) /\ p.cfg = CfgOf(cf) /\ N(cf) \in Nat /\ l + 1 <= N(cf)
      /\ \A k \in 1..l : Whole(cf, k) => p.out[k] = rs[k]
  BY CallFacts DEF OutOk
<1> HIDE DEF l
<1>2. l + 1 \in Nat /\ l + 1 \in 0..N(cf)
  BY <1>1
<1>3. PICK f : f = [k \in 1..(l + 1) |-> IF k <= l THEN p.out[k] ELSE rows]
  OBVIOUS
<1>4. q.out = Upto(f, l + 1)
  <2>1. Upto(f, l) = p.out
    <3>1. Upto(f, l) = Upto(p.out, l)
      BY <1>1, <1>3 DEF Upto
    <3>2. QED
      BY <1>1, <3>1
  <2>2. f[l + 1] = rows
    BY <1>1, <1>3
  <2>3. Append(Upto(f, l), f[l + 1]) = Upto(f, l + 1)
    BY <1>1, UptoFacts
  <2>4. QED
    BY <2>1, <2>2, <2>3
<1>5. Len(q.out) = l + 1 /\ \A k \in 1..(l + 1) : q.out[k] = f[k]
  BY <1>2, <1>4, UptoFacts
<1>6. q.out = Upto(q.out, l + 1)
  BY <1>4, <1>5 DEF Upto
<1>7. ASSUME NEW k \in 1..(l + 1), Whole(cf, k) PROVE q.out[k] = rs[k]
  <2>1. CASE k = l + 1
    BY <1>1, <1>3, <1>5, <1>7, <2>1 DEF l
  <2>2. CASE k # l + 1
    <3>1. k \in 1..l
      BY <1>1, <2>2
    <3>2. q.out[k] = p.out[k]
      BY <1>1, <1>3, <1>5, <3>1
    <3>3. QED
      BY <1>1, <1>7, <3>1, <3>2
  <2>3. QED
    BY <2>1, <2>2
<1>8. Returned(q) = l + 1
  BY <1>5 DEF Returned
<1>9. OutOk(cf, rs, q)
  BY <1>1, <1>2, <1>6, <1>7, <1>8 DEF OutOk
<1>10. QED
  BY <1>8, <1>9 DEF l

LEMMA ReturnsNothing ==
    ASSUME NEW cf \in Confs, NEW rs, NEW p, OutOk(cf, rs, p), Returned(p) + 1 \in 1..N(cf),
           rs[Returned(p) + 1] = << >>,
           NEW q, DOMAIN q = PartyFields, q.cfg = p.cfg, q.out = Append(p.out, << >>)
    PROVE  OutOk(cf, rs, q) /\ Returned(q) = Returned(p) + 1
<1>1. PICK rows : rows = << >>
  OBVIOUS
<1>2. q.out = Append(p.out, rows)
  BY <1>1
<1>3. Whole(cf, Returned(p) + 1) => rows = rs[Returned(p) + 1]
  BY <1>1
<1>4. QED
  BY <1>2, <1>3, PartyReturns

LEMMA PartySetBase ==
    ASSUME NEW cf \in Confs, NEW ks, NEW rs, NEW us, RowsOk(cf, rs), NEW p, PartyOk(cf, ks, rs, us, p),
           p.pc = "idle", Returned(p) + 1 \in 1..N(cf), OpOf(cf, Returned(p) + 1).op = "base",
           NEW q, q = Return(SetBase(p, ks[Returned(p) + 1]), << >>)
    PROVE  /\ PartyOk(cf, ks, rs, us, q) /\ q.pc = "idle" /\ Returned(q) = Returned(p) + 1
           /\ Place(cf, q) = Place(cf, p)
<1> DEFINE k == Returned(p) + 1
           e == Timeline(cf)[k - 1]
<1>1. OutOk(cf, rs, p) /\ p.t = << >> /\ p.seen = << >> /\ k \in 1..N(cf) /\ k - 1 = Returned(p)
  BY PlaceType DEF PartyOk, IdleOk
<1>2. /\ DOMAIN q = PartyFields /\ q.pc = "idle" /\ q.cfg = p.cfg /\ q.out = Append(p.out, << >>)
      /\ q.t = << >> /\ q.seen = << >> /\ q.base = TRUE /\ q.keys = ks[k] /\ q.idx = 0
  BY <1>1 DEF Return, SetBase, OutOk, PartyFields
<1>3. rs[k] = << >>
  BY DEF RowsOk, IsExt
<1>4. OutOk(cf, rs, q) /\ Returned(q) = k
  BY <1>1, <1>2, <1>3, ReturnsNothing
<1>5. Timeline(cf)[k] = [base |-> TRUE, gen |-> k, idx |-> 0, start |-> e.start]
  BY <1>1, StartStep1, AfterCallFacts, ZenonT(40)
<1>6. IdleOk(cf, ks, q)
  <2> HIDE DEF k, e
  <2>1. PICK f : f = Timeline(cf)[k]
    OBVIOUS
  <2>2. f.base = TRUE /\ f.gen = k /\ f.idx = 0
    BY <1>5, <2>1
  <2>3. Timeline(cf)[Returned(q)] = f
    BY <1>4, <2>1
  <2>4. QED
    BY <1>2, <2>2, <2>3 DEF IdleOk
<1>7. PartyOk(cf, ks, rs, us, q)
  BY <1>2, <1>4, <1>6 DEF PartyOk, Busy
<1>8. Place(cf, q) = Place(cf, p)
  <2>1. Timeline(cf)[k].start = Timeline(cf)[k - 1].start
    BY <1>5
  <2>2. Place(cf, p) = Timeline(cf)[k - 1].start /\ Place(cf, q) = Timeline(cf)[k].start
    BY <1>1, <1>2, <1>4, PlaceType DEF Busy
  <2>3. QED
    BY <2>1, <2>2
<1>9. QED
  BY <1>2, <1>4, <1>7, <1>8

Splits(p) == [Return(p, << >>) EXCEPT !.idx = @ + 1]

LEMMA PartySplit ==
    ASSUME NEW cf \in Confs, NEW ks, NEW rs, NEW us, RowsOk(cf, rs), NEW p, PartyOk(cf, ks, rs, us, p),
           p.pc = "idle", Returned(p) + 1 \in 1..N(cf), OpOf(cf, Returned(p) + 1).op = "split",
           NEW q, q = Splits(p)
    PROVE  /\ PartyOk(cf, ks, rs, us, q) /\ q.pc = "idle" /\ Returned(q) = Returned(p) + 1
           /\ Place(cf, q) = Place(cf, p)
<1> DEFINE k == Returned(p) + 1
           e == Timeline(cf)[k - 1]
<1>1. /\ OutOk(cf, rs, p) /\ p.t = << >> /\ p.seen = << >> /\ k \in 1..N(cf) /\ k - 1 = Returned(p)
      /\ p.base = e.base /\ p.idx = e.idx /\ (e.base => p.keys = ks[e.gen])
  BY PlaceType DEF PartyOk, IdleOk
<1>2. /\ DOMAIN q = PartyFields /\ q.pc = "idle" /\ q.cfg = p.cfg /\ q.out = Append(p.out, << >>)
      /\ q.t = << >> /\ q.seen = << >> /\ q.base = p.base /\ q.keys = p.keys /\ q.idx = p.idx + 1
  BY <1>1 DEF Splits, Return, OutOk, PartyFields
<1>3. rs[k] = << >>
  BY DEF RowsOk, IsExt
<1>4. OutOk(cf, rs, q) /\ Returned(q) = k
  BY <1>1, <1>2, <1>3, ReturnsNothing
<1>5. Timeline(cf)[k] = [base |-> e.base, gen |-> e.gen, idx |-> e.idx + 1, start |-> e.start]
  BY <1>1, StartStep1, AfterCallFacts
<1>6. IdleOk(cf, ks, q)
  BY <1>1, <1>2, <1>4, <1>5 DEF IdleOk
<1>7. PartyOk(cf, ks, rs, us, q)
  BY <1>2, <1>4, <1>6 DEF PartyOk, Busy
<1>8. Place(cf, q) = Place(cf, p)
  <2>1. Timeline(cf)[k].start = Timeline(cf)[k - 1].start
    BY <1>5
  <2>2. Place(cf, p) = Timeline(cf)[k - 1].start /\ Place(cf, q) = Timeline(cf)[k].start
    <3>1. p.pc \notin Busy /\ q.pc \notin Busy
      BY <1>2 DEF Busy
    <3>2. Place(cf, p) = Timeline(cf)[Returned(p)].start
      BY <1>1, <3>1, PlaceType
    <3>3. Place(cf, q) = Timeline(cf)[Returned(q)].start
      BY <1>4, <3>1, PlaceType
    <3>4. QED
      BY <1>1, <1>4, <3>2, <3>3
  <2>3. QED
    BY <2>1, <2>2
<1>9. QED
  BY <1>2, <1>4, <1>7, <1>8

LEMMA PartyStart ==
    ASSUME NEW cf \in Confs, NEW ks, NEW rs, NEW us, NEW p, PartyOk(cf, ks, rs, us, p),
           p.pc = "idle", IsExt(cf, Returned(p) + 1), ~Rejected(CfgOf(cf)),
           NEW q, q = Begin(IF p.base THEN p ELSE SetBase(p, ks[Returned(p) + 1]))
    PROVE  /\ PartyOk(cf, ks, rs, us, q) /\ q.pc = "ext" /\ Returned(q) = Returned(p)
           /\ Place(cf, q) = Place(cf, p)
<1> DEFINE k == Returned(p) + 1
           e == Timeline(cf)[k - 1]
           w == During(cf, k)
<1>1. /\ OutOk(cf, rs, p) /\ p.t = << >> /\ p.seen = << >> /\ k \in 1..N(cf) /\ k - 1 = Returned(p)
      /\ p.base = e.base /\ p.idx = e.idx /\ (e.base => p.keys = ks[e.gen]) /\ e \in Entry
  BY PlaceType DEF PartyOk, IdleOk, IsExt
<1>2. /\ DOMAIN q = PartyFields /\ q.pc = "ext" /\ q.cfg = p.cfg /\ q.out = p.out /\ q.blk = 0
      /\ q.t = << >> /\ q.seen = << >> /\ q.base = TRUE /\ q.keys = ks[w.gen] /\ q.idx = w.idx
  <2>1. CASE p.base
    <3>1. w = e /\ e.base /\ e.base = TRUE
      BY <1>1, <2>1 DEF During, WithBase, Entry
    <3>2. q = Begin(p)
      BY <2>1
    <3>3. QED
      BY <1>1, <3>1, <3>2 DEF Begin, OutOk, PartyFields
  <2>2. CASE ~p.base
    <3>1. w.gen = k /\ w.idx = 0
      BY <1>1, <2>2 DEF During, WithBase, Entry
    <3>2. q = Begin(SetBase(p, ks[k]))
      BY <2>2
    <3>3. QED
      BY <1>1, <3>1, <3>2, ZenonT(60) DEF Begin, SetBase, OutOk, PartyFields
  <2>3. QED
    BY <2>1, <2>2
<1>3. OutOk(cf, rs, q) /\ Returned(q) = Returned(p)
  BY <1>1, <1>2 DEF OutOk, Returned
<1>4. Blocks(cf, k) \in Nat /\ Blocks(cf, k) >= 1 /\ w.idx \in Nat
  <2>1. w \in Entry
    BY <1>1, AfterCallFacts DEF During
  <2>2. QED
    BY <1>1, <2>1, CallFacts DEF Entry
<1>5. BusyOk(cf, ks, rs, us, q)
  <2>1. Upto(rs[k], 0) = << >> /\ Upto(us[k], 0) = << >>
    BY UptoFacts
  <2>2. q.idx = w.idx + q.blk /\ q.blk \in 0..Blocks(cf, k)
    BY <1>2, <1>4
  <2>3. /\ Whole(cf, k) => q.t = Upto(rs[k], q.blk)
        /\ q.seen = IF cf.fs THEN Upto(us[k], q.blk) ELSE << >>
    BY <1>2, <2>1
  <2> HIDE DEF w
  <2>4. QED
    BY <1>2, <1>3, <2>2, <2>3 DEF BusyOk, w
<1>6. PartyOk(cf, ks, rs, us, q)
  BY <1>2, <1>3, <1>4, <1>5 DEF PartyOk, Busy
<1>7. Place(cf, q) = Place(cf, p)
  <2>1. Place(cf, p) = Timeline(cf)[Returned(p)].start /\ Timeline(cf)[Returned(p)].start \in Nat
    BY <1>1, PlaceType DEF Busy
  <2>2. Place(cf, q) = Timeline(cf)[Returned(q)].start + 0
    BY <1>2, <1>3, PlaceType DEF Busy
  <2>3. QED
    BY <1>3, <2>1, <2>2
<1>8. QED
  BY <1>2, <1>3, <1>6, <1>7

(* The next blocks of a call.                                               *)
Slice(f, from, step) == [j \in 1..step |-> f[from + j]]
Joined(t, rows) == t \o rows
TookAs(p, step, rows, u, t) == [Took(p, step, rows, u) EXCEPT !.t = t]

LEMMA PartyTook ==
    ASSUME NEW cf \in Confs, NEW ks, NEW rs, NEW us, NEW p, PartyOk(cf, ks, rs, us, p), p.pc = "ext",
           NEW step, step = MinOf(Blocks(cf, Returned(p) + 1) - p.blk, CommStep),
           NEW rows, rows = Slice(rs[Returned(p) + 1], p.blk, step),
           NEW u, u = Slice(us[Returned(p) + 1], p.blk, step),
           NEW t, Whole(cf, Returned(p) + 1) => t = Joined(p.t, rows),
           NEW q, q = TookAs(p, step, rows, u, t)
    PROVE  /\ OutOk(cf, rs, q) /\ BusyOk(cf, ks, rs, us, q) /\ q.pc = "ext" /\ Returned(q) = Returned(p)
           /\ step \in Nat /\ step >= 1 /\ p.blk \in Nat /\ q.blk = p.blk + step
<1> DEFINE k == Returned(p) + 1
<1>1. /\ OutOk(cf, rs, p) /\ BusyOk(cf, ks, rs, us, p) /\ p.blk # Blocks(cf, k)
  BY DEF PartyOk, Busy
<1>2. /\ DOMAIN p = PartyFields /\ p.cfg = CfgOf(cf) /\ IsExt(cf, k) /\ ~Rejected(CfgOf(cf))
      /\ p.base = TRUE /\ p.keys = ks[During(cf, k).gen] /\ p.idx = During(cf, k).idx + p.blk
      /\ p.blk \in 0..Blocks(cf, k)
      /\ Whole(cf, k) => p.t = Upto(rs[k], p.blk)
      /\ p.seen = IF cf.fs THEN Upto(us[k], p.blk) ELSE << >>
  BY <1>1 DEF OutOk, BusyOk
<1>3. /\ Blocks(cf, k) \in Nat /\ k \in 1..N(cf) /\ N(cf) \in Nat /\ p.cfg.fs = cf.fs /\ cf.fs \in BOOLEAN
      /\ During(cf, k).idx \in Nat
  <2>1. k \in 1..N(cf)
    BY <1>2 DEF IsExt
  <2>2. During(cf, k) \in Entry
    BY <2>1, StartStep1, AfterCallFacts DEF During
  <2>3. QED
    BY <1>2, <2>1, <2>2, CallFacts DEF Entry
<1> HIDE DEF k
<1>4. step \in Nat /\ step >= 1 /\ p.blk \in Nat /\ p.blk + step \in 0..Blocks(cf, k)
  BY <1>1, <1>2, <1>3, KosAssumption DEF MinOf, k
<1>5. /\ DOMAIN q = PartyFields /\ q.pc = "ext" /\ q.cfg = p.cfg /\ q.out = p.out /\ q.base = TRUE
      /\ q.keys = p.keys /\ q.blk = p.blk + step /\ q.idx = p.idx + step
      /\ q.t = t /\ q.seen = IF cf.fs THEN p.seen \o u ELSE p.seen
  BY <1>2, <1>3 DEF TookAs, Took, PartyFields
<1>6. Whole(cf, k) => q.t = Upto(rs[k], q.blk)
  <2>1. rows = [j \in 1..step |-> rs[k][p.blk + j]]
    BY DEF k, Slice
  <2>2. Upto(rs[k], p.blk) \o [j \in 1..step |-> rs[k][p.blk + j]] = Upto(rs[k], p.blk + step)
    BY <1>4, UptoConcat, Zenon
  <2>3. Whole(cf, k) => t = p.t \o rows
    BY DEF k, Joined
  <2>4. QED
    BY <1>2, <1>5, <2>1, <2>2, <2>3
<1>7. q.seen = IF cf.fs THEN Upto(us[k], q.blk) ELSE << >>
  <2>1. u = [j \in 1..step |-> us[k][p.blk + j]]
    BY DEF k, Slice
  <2>2. Upto(us[k], p.blk) \o [j \in 1..step |-> us[k][p.blk + j]] = Upto(us[k], p.blk + step)
    BY <1>4, UptoConcat, Zenon
  <2>3. CASE cf.fs
    BY <1>2, <1>5, <2>1, <2>2, <2>3
  <2>4. CASE ~cf.fs
    BY <1>2, <1>5, <2>4
  <2>5. QED
    BY <2>3, <2>4
<1>8. Returned(q) = Returned(p) /\ OutOk(cf, rs, q)
  BY <1>1, <1>5 DEF OutOk, Returned
<1>9. q.idx = During(cf, k).idx + q.blk
  <2>1. p.idx = During(cf, k).idx + p.blk /\ q.idx = p.idx + step /\ q.blk = p.blk + step
    BY <1>2, <1>5
  <2>2. QED
    BY <1>3, <1>4, <2>1
<1>10. BusyOk(cf, ks, rs, us, q)
  <2>1. q.blk \in 0..Blocks(cf, k) /\ q.keys = ks[During(cf, k).gen] /\ q.base = TRUE
    BY <1>2, <1>4, <1>5
  <2>2. k = Returned(q) + 1
    BY <1>8 DEF k
  <2>3. QED
    BY <1>2, <1>6, <1>7, <1>9, <2>1, <2>2 DEF BusyOk
<1>11. QED
  BY <1>4, <1>5, <1>8, <1>10

LEMMA PartyTookAll ==
    ASSUME NEW cf \in Confs, NEW ks, NEW rs, NEW us, NEW p, PartyOk(cf, ks, rs, us, p), p.pc = "ext",
           NEW step, step = MinOf(Blocks(cf, Returned(p) + 1) - p.blk, CommStep),
           NEW rows, rows = Slice(rs[Returned(p) + 1], p.blk, step),
           NEW u, u = Slice(us[Returned(p) + 1], p.blk, step),
           NEW q, q = Took(p, step, rows, u)
    PROVE  /\ OutOk(cf, rs, q) /\ BusyOk(cf, ks, rs, us, q) /\ q.pc = "ext" /\ Returned(q) = Returned(p)
           /\ step \in Nat /\ step >= 1 /\ p.blk \in Nat /\ q.blk = p.blk + step
<1>1. PICK t : t = Joined(p.t, rows)
  OBVIOUS
<1>2. q = TookAs(p, step, rows, u, t)
  <2>1. DOMAIN p = PartyFields
    BY DEF PartyOk, OutOk
  <2>2. QED
    BY <1>1, <2>1 DEF TookAs, Took, PartyFields, Joined
<1>3. Whole(cf, Returned(p) + 1) => t = Joined(p.t, rows)
  BY <1>1
<1>4. QED
  BY <1>2, <1>3, PartyTook

LEMMA DivMore ==
    ASSUME NEW a \in Nat, NEW k \in Nat, k >= 1
    PROVE  (a + k) \div k = a \div k + 1 /\ (a < k => a \div k = 0)
  OBVIOUS

(* In such a call the sender without a hash has one block to write.         *)
LEMMA WrittenWhole ==
    ASSUME NEW cf \in Confs, NEW ks, NEW rs, NEW us, NEW p, PartyOk(cf, ks, rs, us, p), p.pc = "ext",
           Whole(cf, Returned(p) + 1),
           NEW step, step = MinOf(Blocks(cf, Returned(p) + 1) - p.blk, CommStep),
           NEW rows, rows = Slice(rs[Returned(p) + 1], p.blk, step), NEW i
    PROVE  Written(i, p, step, rows) = Joined(p.t, rows)
<1> DEFINE k == Returned(p) + 1
<1>1. OutOk(cf, rs, p) /\ BusyOk(cf, ks, rs, us, p) /\ p.blk # Blocks(cf, k)
  BY DEF PartyOk, Busy
<1>2. /\ p.cfg = CfgOf(cf) /\ IsExt(cf, k) /\ ~Rejected(CfgOf(cf)) /\ p.blk \in 0..Blocks(cf, k)
      /\ p.t = Upto(rs[k], p.blk)
  BY <1>1 DEF OutOk, BusyOk
<1>3. k \in 1..N(cf) /\ OpOf(cf, k).n \in Nat \ {0} /\ CfgOf(cf).mal \in BOOLEAN
  <2>1. k \in 1..N(cf)
    BY <1>2 DEF IsExt
  <2>2. QED
    BY <1>2, <2>1, CallFacts DEF IsExt
<1>4. CASE p.cfg.hash # "NoHash"
  BY <1>4 DEF Written, Joined
<1>5. CASE p.cfg.hash = "NoHash"
  <2>1. ~CfgOf(cf).mal /\ OpOf(cf, k).n <= K
    <3>1. CfgOf(cf).hash = "NoHash" /\ CfgOf(cf).hash = cf.hash
      BY <1>2, <1>5 DEF CfgOf
    <3>2. ~(OpOf(cf, k).n > K)
      BY <3>1 DEF Whole
    <3>3. K \in Nat /\ OpOf(cf, k).n \in Nat
      BY <1>3, KosAssumption
    <3> HIDE DEF k
    <3>4. OpOf(cf, k).n <= K
      BY <3>2, <3>3
    <3>5. QED
      BY <1>2, <3>1, <3>4 DEF Rejected
  <2>2. Blocks(cf, k) = 1
    <3>1. PICK n : n = OpOf(cf, k).n
      OBVIOUS
    <3>2. n \in Nat \ {0} /\ K \in Nat \ {0} /\ n <= K
      BY <1>3, <2>1, <3>1, KosAssumption
    <3>3. n + K - 1 = (n - 1) + K /\ n - 1 \in Nat /\ n - 1 < K
      BY <3>2
    <3>4. (n + K - 1) \div K = 1
      BY <3>2, <3>3, DivMore
    <3>5. K - 1 \in Nat /\ K - 1 < K /\ 0 + K - 1 = K - 1
      BY <3>2
    <3>6. (0 + K - 1) \div K = 0
      BY <3>2, <3>5, DivMore
    <3>7. RecvBlocks(n, CfgOf(cf).mal) = 1
      BY <2>1, <3>4, <3>6 DEF RecvBlocks, DivCeil
    <3>8. QED
      BY <3>1, <3>7 DEF Blocks
  <2>3. p.blk = 0 /\ step = 1
    <3>1. p.blk = 0
      BY <1>1, <1>2, <2>2
    <3>2. QED
      BY <2>2, <3>1, KosAssumption DEF MinOf
  <2>4. p.t = << >>
    BY <1>2, <2>3, UptoFacts
  <2>5. PICK x : x = rs[k][p.blk + 1]
    OBVIOUS
  <2>6. rows = << x >> /\ rows[1] = x
    BY <2>3, <2>5 DEF Slice
  <2>7. Written(i, p, step, rows) = [b \in 1..1 |-> IF b = 1 THEN rows[1] ELSE Unwritten(i, Call(p), b - 1)]
    BY <1>5, <2>3 DEF Written
  <2>8. [b \in 1..1 |-> IF b = 1 THEN rows[1] ELSE Unwritten(i, Call(p), b - 1)] = [b \in 1..1 |-> x]
    BY <2>6
  <2>9. << >> \o << x >> = << x >> /\ [b \in 1..1 |-> x] = << x >>
    OBVIOUS
  <2>10. QED
    BY <2>4, <2>6, <2>7, <2>8, <2>9 DEF Joined
<1>6. QED
  BY <1>4, <1>5

LEMMA PartyWrote ==
    ASSUME NEW cf \in Confs, NEW ks, NEW rs, NEW us, NEW p, PartyOk(cf, ks, rs, us, p), p.pc = "ext",
           NEW step, step = MinOf(Blocks(cf, Returned(p) + 1) - p.blk, CommStep),
           NEW rows, rows = Slice(rs[Returned(p) + 1], p.blk, step),
           NEW u, u = Slice(us[Returned(p) + 1], p.blk, step),
           NEW i, NEW q, q = SendTook(i, p, step, rows, u)
    PROVE  /\ OutOk(cf, rs, q) /\ BusyOk(cf, ks, rs, us, q) /\ q.pc = "ext" /\ Returned(q) = Returned(p)
           /\ step \in Nat /\ step >= 1 /\ p.blk \in Nat /\ q.blk = p.blk + step
<1>1. PICK t : t = Written(i, p, step, rows)
  OBVIOUS
<1>2. q = TookAs(p, step, rows, u, t)
  BY <1>1 DEF SendTook, TookAs
<1>3. Whole(cf, Returned(p) + 1) => t = Joined(p.t, rows)
  <2>1. ASSUME Whole(cf, Returned(p) + 1) PROVE Written(i, p, step, rows) = Joined(p.t, rows)
    BY <2>1, WrittenWhole
  <2>2. QED
    BY <1>1, <2>1
<1>4. QED
  BY <1>2, <1>3, PartyTook

(* A party goes on to another part of the same call.                        *)
LEMMA PartyMoves ==
    ASSUME NEW cf \in Confs, NEW ks, NEW rs, NEW us, NEW p, OutOk(cf, rs, p), BusyOk(cf, ks, rs, us, p),
           NEW pc \in Busy,
           pc = "ext" <=> p.blk # Blocks(cf, Returned(p) + 1),
           pc \in {"check", "seed", "verify"} => CfgOf(cf).mal,
           pc = "seed" => ~cf.fs, pc = "payload" => OpOf(cf, Returned(p) + 1).payload,
           NEW q, q = [p EXCEPT !.pc = pc]
    PROVE  /\ PartyOk(cf, ks, rs, us, q) /\ q.pc = pc /\ Returned(q) = Returned(p) /\ q.blk = p.blk
           /\ pc # "payload" => Place(cf, q) = Timeline(cf)[Returned(p)].start + p.blk
           /\ pc = "payload" => Place(cf, q) = Timeline(cf)[Returned(p)].start + Size(cf, Returned(p) + 1)
<1>1. DOMAIN p = PartyFields /\ IsExt(cf, Returned(p) + 1) /\ p.blk \in 0..Blocks(cf, Returned(p) + 1)
  BY DEF OutOk, BusyOk
<1>2. /\ DOMAIN q = PartyFields /\ q.pc = pc /\ q.cfg = p.cfg /\ q.out = p.out /\ q.base = p.base
      /\ q.keys = p.keys /\ q.blk = p.blk /\ q.idx = p.idx /\ q.t = p.t /\ q.seen = p.seen
  BY <1>1 DEF PartyFields
<1>3. Returned(q) = Returned(p) /\ OutOk(cf, rs, q)
  BY <1>2 DEF OutOk, Returned
<1>4. BusyOk(cf, ks, rs, us, q)
  BY <1>2, <1>3 DEF BusyOk
<1>5. PartyOk(cf, ks, rs, us, q)
  BY <1>2, <1>3, <1>4 DEF PartyOk, Busy
<1>6. Blocks(cf, Returned(p) + 1) \in Nat /\ p.blk \in Nat /\ Timeline(cf)[Returned(p)].start \in Nat
  <2>1. Returned(p) + 1 \in 1..N(cf) /\ Timeline(cf)[Returned(p)].start \in Nat
    BY <1>1, PlaceType DEF IsExt
  <2>2. QED
    BY <1>1, <2>1, CallFacts
<1>7. pc # "payload" => Place(cf, q) = Timeline(cf)[Returned(p)].start + p.blk
  BY <1>2, <1>3, <1>6 DEF Place, Busy
<1>8. pc = "payload" => Place(cf, q) = Timeline(cf)[Returned(p)].start + Size(cf, Returned(p) + 1)
  BY <1>2, <1>3, <1>6 DEF Place, Busy, Size
<1>9. QED
  BY <1>2, <1>3, <1>5, <1>7, <1>8

(* A call that has all its rows returns them.                               *)
LEMMA PartyEnds ==
    ASSUME NEW cf \in Confs, NEW ks, NEW rs, NEW us, RowsOk(cf, rs), NEW p,
           OutOk(cf, rs, p), BusyOk(cf, ks, rs, us, p), p.blk = Blocks(cf, Returned(p) + 1),
           NEW q, q = Return(p, p.t)
    PROVE  /\ PartyOk(cf, ks, rs, us, q) /\ q.pc = "idle" /\ Returned(q) = Returned(p) + 1
           /\ Place(cf, q) = Timeline(cf)[Returned(p)].start + Size(cf, Returned(p) + 1)
<1> DEFINE k == Returned(p) + 1
           e == During(cf, k)
<1>1. /\ DOMAIN p = PartyFields /\ IsExt(cf, k) /\ p.base = TRUE /\ p.keys = ks[e.gen]
      /\ p.idx = e.idx + p.blk /\ (Whole(cf, k) => p.t = Upto(rs[k], p.blk)) /\ p.cfg = CfgOf(cf)
  BY DEF OutOk, BusyOk
<1>2. k \in 1..N(cf) /\ k - 1 = Returned(p) /\ k \in Nat
  BY <1>1, PlaceType DEF IsExt
<1>3. Whole(cf, k) => p.t = rs[k]
  BY <1>1, <1>2 DEF RowsOk
<1>4. /\ DOMAIN q = PartyFields /\ q.pc = "idle" /\ q.cfg = p.cfg /\ q.out = Append(p.out, p.t)
      /\ q.t = << >> /\ q.seen = << >> /\ q.base = TRUE /\ q.keys = p.keys /\ q.idx = p.idx
  BY <1>1 DEF Return, PartyFields
<1>5. OutOk(cf, rs, q) /\ Returned(q) = k
  <2>1. q.out = Append(p.out, p.t) /\ (Whole(cf, Returned(p) + 1) => p.t = rs[Returned(p) + 1])
    BY <1>3, <1>4
  <2>2. Returned(p) + 1 \in 1..N(cf)
    BY <1>2
  <2>3. QED
    BY <1>4, <2>1, <2>2, PartyReturns
<1> DEFINE b == Timeline(cf)[k - 1]
<1>6. Timeline(cf)[k] = [base |-> TRUE, gen |-> e.gen, idx |-> e.idx + Blocks(cf, k), start |-> b.start + Size(cf, k)]
  <2>1. b \in Entry /\ Timeline(cf)[k] = AfterCall(cf, k, b) /\ e = WithBase(b, k)
    BY <1>2, StartStep1 DEF During
  <2> HIDE DEF b, e, k
  <2>2. QED
    BY <1>1, <1>2, <2>1, AfterCallFacts
<1>7. IdleOk(cf, ks, q)
  <2> HIDE DEF k, e, b
  <2>1. PICK f : f = Timeline(cf)[k]
    OBVIOUS
  <2>2. f.base = TRUE /\ f.gen = e.gen /\ f.idx = e.idx + Blocks(cf, k)
    BY <1>6, <2>1
  <2>3. Timeline(cf)[Returned(q)] = f
    BY <1>5, <2>1
  <2>4. q.idx = f.idx
    BY <1>1, <1>4, <2>2 DEF k
  <2>5. QED
    BY <1>1, <1>4, <2>2, <2>3, <2>4 DEF IdleOk
<1>8. PartyOk(cf, ks, rs, us, q)
  BY <1>4, <1>5, <1>7 DEF PartyOk, Busy
<1>9. Place(cf, q) = b.start + Size(cf, k)
  <2>1. q.pc \notin Busy
    BY <1>4 DEF Busy
  <2>2. Place(cf, q) = Timeline(cf)[Returned(q)].start
    BY <1>5, <2>1, PlaceType
  <2>3. Timeline(cf)[k].start = b.start + Size(cf, k)
    BY <1>6
  <2>4. QED
    BY <1>5, <2>2, <2>3
<1>10. QED
  BY <1>2, <1>4, <1>5, <1>8, <1>9

(* A party that stops.                                                     *)
LEMMA PartyStops ==
    ASSUME NEW cf \in Confs, NEW ks, NEW rs, NEW us, NEW p, PartyOk(cf, ks, rs, us, p),
           NEW pc \in {"failed", "rejected"}, NEW q, q = [p EXCEPT !.pc = pc]
    PROVE  PartyOk(cf, ks, rs, us, q) /\ q.pc = pc /\ Returned(q) = Returned(p)
<1>1. OutOk(cf, rs, p) /\ DOMAIN p = PartyFields
  BY DEF PartyOk, OutOk
<1>2. DOMAIN q = PartyFields /\ q.pc = pc /\ q.cfg = p.cfg /\ q.out = p.out
  BY <1>1 DEF PartyFields
<1>3. QED
  BY <1>1, <1>2 DEF PartyOk, OutOk, Returned, Busy

---------------------------------------------------------------------------
(* The parties agree on the blocks of a call.                               *)

LEMMA SameBlocks ==
    ASSUME NEW n \in Nat, NEW mal \in BOOLEAN
    PROVE  SendBlocks(n, mal) = RecvBlocks(n, mal)
<1>1. K \in Nat /\ K >= 1
  BY KosAssumption
<1>2. DivCeil(n + K, K) = DivCeil(n, K) + 1
  <2>1. n + K - 1 \in Nat /\ (n + K) + K - 1 = (n + K - 1) + K
    BY <1>1
  <2>2. QED
    BY <1>1, <2>1, DivMore DEF DivCeil
<1>3. DivCeil(0, K) = 0 /\ DivCeil(K, K) = 1
  <2>1. K - 1 \in Nat /\ K - 1 < K /\ 0 + K - 1 = K - 1 /\ K + K - 1 = (K - 1) + K
    BY <1>1
  <2>2. QED
    BY <1>1, <2>1, DivMore DEF DivCeil
<1>4. DivCeil(n, K) \in Nat /\ n + 0 = n
  BY DivCeilType
<1>5. QED
  BY <1>2, <1>3, <1>4 DEF SendBlocks, RecvBlocks

(* An OT is a row of one of the blocks of its call.                         *)
LEMMA RowOfOt ==
    ASSUME NEW n \in Nat, NEW mal \in BOOLEAN, NEW m \in 0..(n - 1)
    PROVE  m \div K + 1 \in 1..RecvBlocks(n, mal) /\ m % K \in Rows
<1>1. K \in Nat /\ K >= 1 /\ m \in Nat /\ m + K <= n + K - 1
  BY KosAssumption
<1>2. m % K \in Rows
  BY <1>1 DEF Rows
<1>3. ASSUME NEW a \in Nat, NEW b \in Nat, NEW k \in Nat, k >= 1, a <= b
      PROVE  a \div k <= b \div k /\ a \div k \in Nat /\ b \div k \in Nat
  BY <1>3, SMTT(30)
<1>4. m \div K + 1 <= DivCeil(n, K) /\ m \div K \in Nat /\ DivCeil(n, K) \in Nat
  <2>1. (m + K) \div K = m \div K + 1
    BY <1>1, DivMore
  <2>2. (m + K) \div K <= (n + K - 1) \div K
    BY <1>1, <1>3
  <2>3. m \div K \in Nat
    BY <1>1, <1>3
  <2>4. QED
    BY <2>1, <2>2, <2>3, DivCeilType DEF DivCeil
<1>5. DivCeil(IF mal THEN K ELSE 0, K) \in Nat
  BY <1>1, DivCeilType
<1>6. QED
  BY <1>2, <1>4, <1>5 DEF RecvBlocks

---------------------------------------------------------------------------
(* The rows and messages of a call.                                         *)

LEMMA RowsOfCall ==
    ASSUME NEW cf \in Confs, NEW dl, NEW bd, NEW k \in 1..N(cf)
    PROVE  /\ IsExt(cf, k) =>
                 /\ RecvRows(cf)[k] = [b \in 1..Blocks(cf, k) |-> T0At(cf, k, b - 1)]
                 /\ SentU(cf, bd)[k] = [b \in 1..Blocks(cf, k) |-> UAt(cf, bd, k, b - 1)]
                 /\ SendRows(cf, dl, bd)[k] = [b \in 1..Blocks(cf, k) |-> QAt(cf, dl, bd, k, b - 1)]
           /\ ~IsExt(cf, k) =>
                 RecvRows(cf)[k] = << >> /\ SentU(cf, bd)[k] = << >> /\ SendRows(cf, dl, bd)[k] = << >>
  BY DEF RecvRows, SentU, SendRows

LEMMA AllRowsOk ==
    ASSUME NEW cf \in Confs, NEW dl, NEW bd
    PROVE  RowsOk(cf, RecvRows(cf)) /\ RowsOk(cf, SentU(cf, bd)) /\ RowsOk(cf, SendRows(cf, dl, bd))
<1>1. ASSUME NEW f, NEW n, f = [b \in 1..n |-> f[b]] PROVE f = Upto(f, n)
  BY <1>1 DEF Upto
<1>2. ASSUME NEW k \in 1..N(cf), NEW f,
             IsExt(cf, k) => f = [b \in 1..Blocks(cf, k) |-> f[b]], ~IsExt(cf, k) => f = << >>
      PROVE  f = IF IsExt(cf, k) THEN Upto(f, Blocks(cf, k)) ELSE << >>
  BY <1>1, <1>2
<1>3. RowsOk(cf, RecvRows(cf))
  <2>1. ASSUME NEW k \in 1..N(cf)
        PROVE  /\ IsExt(cf, k) => RecvRows(cf)[k] = [b \in 1..Blocks(cf, k) |-> RecvRows(cf)[k][b]]
               /\ ~IsExt(cf, k) => RecvRows(cf)[k] = << >>
    BY DEF RecvRows
  <2>2. QED
    BY <1>2, <2>1, Zenon DEF RowsOk
<1>4. RowsOk(cf, SentU(cf, bd))
  <2>1. ASSUME NEW k \in 1..N(cf)
        PROVE  /\ IsExt(cf, k) => SentU(cf, bd)[k] = [b \in 1..Blocks(cf, k) |-> SentU(cf, bd)[k][b]]
               /\ ~IsExt(cf, k) => SentU(cf, bd)[k] = << >>
    BY DEF SentU
  <2>2. QED
    BY <1>2, <2>1, Zenon DEF RowsOk
<1>5. RowsOk(cf, SendRows(cf, dl, bd))
  <2>1. ASSUME NEW k \in 1..N(cf)
        PROVE  /\ IsExt(cf, k) =>
                     SendRows(cf, dl, bd)[k] = [b \in 1..Blocks(cf, k) |-> SendRows(cf, dl, bd)[k][b]]
               /\ ~IsExt(cf, k) => SendRows(cf, dl, bd)[k] = << >>
    BY DEF SendRows
  <2>2. QED
    BY <1>2, <2>1, Zenon DEF RowsOk
<1>6. QED
  BY <1>3, <1>4, <1>5

(* The base OTs of a party were made in one of its calls.                   *)
LEMMA GenRange ==
    ASSUME NEW cf \in Confs, NEW k \in 1..N(cf)
    PROVE  During(cf, k) \in Entry /\ During(cf, k).gen \in 1..N(cf) /\ During(cf, k).idx \in Nat
<1> DEFINE T == Timeline(cf)
           S == { m \in 0..N(cf) : T[m].base => T[m].gen \in 1..N(cf) }
<1>1. N(cf) \in Nat
  BY CallFacts
<1>2. 0 \in S
  BY <1>1, TimelineFacts DEF Fresh
<1>3. ASSUME NEW m \in 1..N(cf), m - 1 \in S PROVE m \in S
  <2> DEFINE e == T[m - 1]
  <2>1. e \in Entry /\ T[m] = AfterCall(cf, m, e) /\ (e.base => e.gen \in 1..N(cf))
    BY <1>3, StartStep1
  <2> HIDE DEF e
  <2>2. WithBase(e, m).gen \in 1..N(cf)
    BY <2>1 DEF WithBase, Entry
  <2>3. AfterCall(cf, m, e).base => AfterCall(cf, m, e).gen \in 1..N(cf)
    BY <1>3, <2>1, <2>2, AfterCallFacts, CallFacts
  <2>4. m \in 0..N(cf)
    BY <1>1
  <2>5. QED
    BY <2>1, <2>3, <2>4
<1>4. k - 1 \in S
  <2> HIDE DEF S
  <2>1. 0..N(cf) \subseteq S
    BY <1>1, <1>2, <1>3, IntervalInduction
  <2>2. QED
    BY <1>1, <2>1
<1> DEFINE e == T[k - 1]
<1>5. e \in Entry /\ (e.base => e.gen \in 1..N(cf)) /\ During(cf, k) = WithBase(e, k)
  BY <1>4, StartStep1 DEF During
<1> HIDE DEF e
<1>6. WithBase(e, k) \in Entry /\ WithBase(e, k).gen \in 1..N(cf)
  BY <1>5, AfterCallFacts DEF WithBase, Entry
<1>7. QED
  BY <1>5, <1>6 DEF Entry

(* What the receiver and the sender compute is a part of them.              *)
LEMMA ReceiverRows ==
    ASSUME NEW cf \in Confs, NEW us, NEW p, BusyOk(cf, RecvKeys(cf), RecvRows(cf), us, p),
           NEW step \in Nat, p.blk + step <= Blocks(cf, Returned(p) + 1)
    PROVE  T0(p, step) = [j \in 1..step |-> RecvRows(cf)[Returned(p) + 1][p.blk + j]]
<1> DEFINE k == Returned(p) + 1
           e == During(cf, k)
<1>1. /\ IsExt(cf, k) /\ k \in 1..N(cf) /\ p.keys = RecvKeys(cf)[e.gen] /\ p.idx = e.idx + p.blk
      /\ p.blk \in Nat /\ Blocks(cf, k) \in Nat
  BY CallFacts DEF BusyOk, IsExt
<1>2. e.gen \in 1..N(cf) /\ e.idx \in Nat
  BY <1>1, GenRange
<1>3. RecvRows(cf)[k] = [b \in 1..Blocks(cf, k) |-> T0At(cf, k, b - 1)]
  BY <1>1, RowsOfCall
<1>4. \A c \in Cols : p.keys[c][0] = <<Root, e.gen, c, 0>>
  BY <1>1, <1>2 DEF RecvKeys, RecvRootKeys
<1> HIDE DEF k
<1>5. ASSUME NEW j \in 1..step
      PROVE  [row \in Rows |-> [c \in Cols |-> Bit(p.keys[c][0], p.idx + j - 1, row)]]
                = RecvRows(cf)[k][p.blk + j]
  <2>1. p.blk + j \in 1..Blocks(cf, k) 
    BY <1>1 DEF k
  <2>2. RecvRows(cf)[k][p.blk + j] = T0At(cf, k, (p.blk + j) - 1)
    <3>1. \A b \in 1..Blocks(cf, k) : RecvRows(cf)[k][b] = T0At(cf, k, b - 1)
      BY <1>3
    <3>2. QED
      BY <2>1, <3>1, Zenon
  <2>3. p.idx + j - 1 = e.idx + ((p.blk + j) - 1)
    BY <1>1, <1>2
  <2>4. QED
    BY <1>4, <2>2, <2>3 DEF T0At
<1>6. QED
  BY <1>5 DEF T0, k

LEMMA ReceiverU ==
    ASSUME NEW cf \in Confs, NEW us, NEW p, BusyOk(cf, RecvKeys(cf), RecvRows(cf), us, p),
           NEW step \in Nat, p.blk + step <= Blocks(cf, Returned(p) + 1), NEW err, NEW bd,
           \A b \in Nat, row \in Rows, c \in Cols : b >= p.blk =>
               (<<Root, Returned(p) + 1, b, row, c>> \in err <=> <<Root, Returned(p) + 1, b, row, c>> \in bd)
    PROVE  U(Root, Returned(p) + 1, p, step, err)
               = [j \in 1..step |-> SentU(cf, bd)[Returned(p) + 1][p.blk + j]]
<1> DEFINE k == Returned(p) + 1
           e == During(cf, k)
<1>1. /\ IsExt(cf, k) /\ k \in 1..N(cf) /\ p.keys = RecvKeys(cf)[e.gen] /\ p.idx = e.idx + p.blk
      /\ p.blk \in Nat /\ Blocks(cf, k) \in Nat
  BY CallFacts DEF BusyOk, IsExt
<1>2. e.gen \in 1..N(cf) /\ e.idx \in Nat
  BY <1>1, GenRange
<1>3. \A b \in 1..Blocks(cf, k) : SentU(cf, bd)[k][b] = UAt(cf, bd, k, b - 1)
  BY <1>1 DEF SentU
<1>4. \A c \in Cols : p.keys[c][0] = <<Root, e.gen, c, 0>> /\ p.keys[c][1] = <<Root, e.gen, c, 1>>
  BY <1>1, <1>2 DEF RecvKeys, RecvRootKeys
<1>5. \A b \in Nat, row \in Rows, c \in Cols :
          b >= p.blk => (<<Root, k, b, row, c>> \in err <=> <<Root, k, b, row, c>> \in bd)
  OBVIOUS
<1> HIDE DEF k
<1> DEFINE Sent(j) == [row \in Rows |-> [c \in Cols |->
               Xor(Xor(Xor(Bit(p.keys[c][0], p.idx + j - 1, row), Bit(p.keys[c][1], p.idx + j - 1, row)),
                       ChoiceBit(Root, k, p.blk + j - 1, row)),
                   IF <<Root, k, p.blk + j - 1, row, c>> \in err THEN One ELSE ZeroBlock)]]
<1>6. ASSUME NEW j \in 1..step
      PROVE  Sent(j) = SentU(cf, bd)[k][p.blk + j]
  <2>1. p.blk + j \in 1..Blocks(cf, k)
    BY <1>1 DEF k
  <2>2. SentU(cf, bd)[k][p.blk + j] = UAt(cf, bd, k, (p.blk + j) - 1)
    BY <1>3, <2>1, Zenon
  <2>3. PICK b : b = p.blk + j - 1
    OBVIOUS
  <2>4. (p.blk + j) - 1 = b /\ p.idx + j - 1 = e.idx + b /\ b \in Nat /\ b >= p.blk
    BY <1>1, <1>2, <2>3
  <2>5. ASSUME NEW row \in Rows, NEW c \in Cols
        PROVE  /\ Bit(p.keys[c][0], p.idx + j - 1, row) = T0At(cf, k, b)[row][c]
               /\ Bit(p.keys[c][1], p.idx + j - 1, row) = T1At(cf, k, b)[row][c]
               /\ <<Root, k, b, row, c>> \in err <=> <<Root, k, b, row, c>> \in bd
    BY <1>4, <1>5, <2>4 DEF T0At, T1At
  <2>6. Sent(j) = UAt(cf, bd, k, b)
    BY <2>3, <2>5 DEF UAt
  <2>7. QED
    BY <2>2, <2>4, <2>6
<1>7. QED
  BY <1>6, Zenon DEF U, k

LEMMA SenderRows ==
    ASSUME NEW cf \in Confs, NEW us, NEW bd, NEW p,
           BusyOk(cf, SendKeys(cf, delta), SendRows(cf, delta, bd), us, p),
           NEW step \in Nat, p.blk + step <= Blocks(cf, Returned(p) + 1),
           NEW u, u = UMessage(cf, bd, Returned(p) + 1, p.blk, step).u
    PROVE  Q(p, u) = [j \in 1..step |-> SendRows(cf, delta, bd)[Returned(p) + 1][p.blk + j]] /\ Len(u) = step
<1> DEFINE k == Returned(p) + 1
           e == During(cf, k)
<1>1. /\ IsExt(cf, k) /\ k \in 1..N(cf) /\ p.keys = SendKeys(cf, delta)[e.gen] /\ p.idx = e.idx + p.blk
      /\ p.blk \in Nat /\ Blocks(cf, k) \in Nat
  BY CallFacts DEF BusyOk, IsExt
<1>2. e.gen \in 1..N(cf) /\ e.idx \in Nat
  BY <1>1, GenRange
<1>3. \A b \in 1..Blocks(cf, k) : /\ SentU(cf, bd)[k][b] = UAt(cf, bd, k, b - 1)
                                  /\ SendRows(cf, delta, bd)[k][b] = QAt(cf, delta, bd, k, b - 1)
  BY <1>1 DEF SentU, SendRows
<1>4. \A c \in Cols : p.keys[c] = <<Root, e.gen, c, IF c \in delta THEN 1 ELSE 0>>
  BY <1>1, <1>2 DEF SendKeys
<1>5. u = [j \in 1..step |-> SentU(cf, bd)[k][p.blk + j]]
  BY DEF UMessage
<1>6. Len(u) = step
  BY <1>5
<1> HIDE DEF k
<1> DEFINE Got(j) == [row \in Rows |-> [c \in Cols |->
               Xor(Bit(p.keys[c], p.idx + j - 1, row), BitTimes(c \in delta, u[j][row][c]))]]
<1>7. ASSUME NEW j \in 1..step
      PROVE  Got(j) = SendRows(cf, delta, bd)[k][p.blk + j]
  <2>1. p.blk + j \in 1..Blocks(cf, k)
    BY <1>1 DEF k
  <2>2. /\ SentU(cf, bd)[k][p.blk + j] = UAt(cf, bd, k, (p.blk + j) - 1)
        /\ SendRows(cf, delta, bd)[k][p.blk + j] = QAt(cf, delta, bd, k, (p.blk + j) - 1)
    BY <1>3, <2>1, Zenon
  <2>3. PICK b : b = p.blk + j - 1
    OBVIOUS
  <2>4. (p.blk + j) - 1 = b /\ p.idx + j - 1 = e.idx + b
    BY <1>1, <1>2, <2>3
  <2>5. u[j] = UAt(cf, bd, k, b)
    BY <1>5, <2>2, <2>4
  <2>6. ASSUME NEW row \in Rows, NEW c \in Cols
        PROVE  Bit(p.keys[c], p.idx + j - 1, row)
                  = IF c \in delta THEN T1At(cf, k, b)[row][c] ELSE T0At(cf, k, b)[row][c]
    BY <1>4, <2>4 DEF T0At, T1At
  <2>7. Got(j) = QAt(cf, delta, bd, k, b)
    BY <2>5, <2>6 DEF QAt
  <2>8. QED
    BY <2>2, <2>4, <2>7
<1>8. QED
  BY <1>6, <1>7, Zenon DEF Q, k

---------------------------------------------------------------------------
(* The algebra of the check.                                                *)

(* One bit: t0 and t1 of the receiver, its choice x, and w where it cheats; *)
(* h says whether the sender's base choice is 1 in that column.             *)
LEMMA OneBit ==
    ASSUME NEW t0, NEW t1, NEW x, NEW w, NEW h \in BOOLEAN,
           NEW q, q = Xor(IF h THEN t1 ELSE t0, BitTimes(h, Xor(Xor(Xor(t0, t1), x), w)))
    PROVE  /\ Xor(q, BitTimes(h, x)) = t0 <=> (h => w = {})
           /\ (h => w = {}) => Xor(q, t0) = BitTimes(h, x)
<1>1. CASE ~h
  <2>1. q = t0 /\ BitTimes(h, x) = {}
    BY <1>1, XorNothing DEF BitTimes, ZeroBlock
  <2>2. Xor(t0, t0) = {}
    <3>1. \A a : ~(a \in Xor(t0, t0))
      BY InXor
    <3>2. QED
      BY <3>1
  <2>3. QED
    BY <1>1, <2>1, <2>2, XorNothing
<1>2. CASE h
  <2>1. BitTimes(h, x) = x /\ q = Xor(t1, Xor(Xor(Xor(t0, t1), x), w))
    BY <1>2 DEF BitTimes
  <2>2. \A a : a \in q <=> ~(a \in t1 <=> ~(~(~(a \in t0 <=> a \in t1) <=> a \in x) <=> a \in w))
    BY <2>1, InXor
  <2>3. \A a : (a \in Xor(q, x) <=> a \in t0) <=> ~(a \in w)
    BY <2>2, InXor
  <2>4. Xor(q, x) = t0 <=> w = {}
    <3>1. ASSUME Xor(q, x) = t0 PROVE w = {}
      BY <2>3, <3>1
    <3>2. ASSUME w = {} PROVE Xor(q, x) = t0
      BY <2>3, <3>2
    <3>3. QED
      BY <3>1, <3>2
  <2>5. ASSUME w = {} PROVE Xor(q, t0) = x
    <3>1. \A a : a \in Xor(q, t0) <=> a \in x
      BY <2>2, <2>5, InXor
    <3>2. QED
      BY <3>1
  <2>6. QED
    BY <1>2, <2>1, <2>4, <2>5
<1>3. QED
  BY <1>1, <1>2

LEMMA BitOfCall ==
    ASSUME NEW cf, NEW dl, NEW bd, NEW k, NEW b, NEW row \in Rows, NEW c \in Cols,
           NEW q, q = QAt(cf, dl, bd, k, b)[row][c], NEW t, t = T0At(cf, k, b)[row][c],
           NEW x, x = ChoiceBit(Root, k, b, row)
    PROVE  /\ Xor(q, BitTimes(c \in dl, x)) = t <=> ~(c \in dl /\ <<Root, k, b, row, c>> \in bd)
           /\ ~(c \in dl /\ <<Root, k, b, row, c>> \in bd) => Xor(q, t) = BitTimes(c \in dl, x)
<1> DEFINE h == c \in dl
           hit == <<Root, k, b, row, c>> \in bd
           t1 == T1At(cf, k, b)[row][c]
           w == IF hit THEN One ELSE ZeroBlock
<1>1. UAt(cf, bd, k, b)[row][c] = Xor(Xor(Xor(t, t1), x), w)
  BY DEF UAt
<1>2. q = Xor(IF h THEN t1 ELSE t, BitTimes(h, Xor(Xor(Xor(t, t1), x), w)))
  BY <1>1 DEF QAt
<1>3. w = {} <=> ~hit
  BY DEF One, ZeroBlock
<1>4. h \in BOOLEAN
  OBVIOUS
<1> HIDE DEF h, hit, t1, w
<1>5. /\ Xor(q, BitTimes(h, x)) = t <=> (h => w = {})
      /\ (h => w = {}) => Xor(q, t) = BitTimes(h, x)
  BY <1>2, <1>4, OneBit
<1>6. QED
  BY <1>3, <1>5 DEF h, hit

(* A sum with challenges, as the sums of its blocks side by side.           *)
Tag(n, b) == IF b = n THEN 0 ELSE b
Tagged(F, n) == UNION { { <<Tag(n, b), row, a>> : a \in F[b][row] } : b \in 1..n, row \in Rows }

LEMMA InTagged ==
    ASSUME NEW F, NEW n \in Nat
    PROVE  /\ \A b \in 1..n, row \in Rows : \A a : <<Tag(n, b), row, a>> \in Tagged(F, n) <=> a \in F[b][row]
           /\ \A z \in Tagged(F, n) : \E b \in 1..n, row \in Rows : \E a \in F[b][row] : z = <<Tag(n, b), row, a>>
<1>1. \A z : z \in Tagged(F, n) <=>
          \E b \in 1..n, row \in Rows : \E a \in F[b][row] : z = <<Tag(n, b), row, a>>
  <2> DEFINE Part(b, row) == { <<Tag(n, b), row, a>> : a \in F[b][row] }
  <2>1. \A z : z \in Tagged(F, n) <=> \E b \in 1..n, row \in Rows : z \in Part(b, row)
    <3>1. Tagged(F, n) = UNION { Part(b, row) : b \in 1..n, row \in Rows }
      BY DEF Tagged
    <3> HIDE DEF Part
    <3>2. QED
      BY <3>1
  <2>2. \A z, b, row : z \in Part(b, row) <=> \E a \in F[b][row] : z = <<Tag(n, b), row, a>>
    OBVIOUS
  <2> HIDE DEF Part
  <2>3. QED
    BY <2>1, <2>2
<1>2. \A b, c \in 1..n : Tag(n, b) = Tag(n, c) => b = c
  BY DEF Tag
<1>3. QED
  BY <1>1, <1>2

LEMMA TaggedXor ==
    ASSUME NEW n \in Nat, NEW F, NEW G, NEW H,
           \A b \in 1..n, row \in Rows : H[b][row] = Xor(F[b][row], G[b][row])
    PROVE  Xor(Tagged(F, n), Tagged(G, n)) = Tagged(H, n)
<1>1. ASSUME NEW z PROVE z \in Xor(Tagged(F, n), Tagged(G, n)) <=> z \in Tagged(H, n)
  <2>1. CASE \E b \in 1..n, row \in Rows : \E a : z = <<Tag(n, b), row, a>>
    <3>1. PICK b \in 1..n, row \in Rows : \E a : z = <<Tag(n, b), row, a>>
      BY <2>1
    <3>2. PICK a : z = <<Tag(n, b), row, a>>
      BY <3>1
    <3>3. /\ z \in Tagged(F, n) <=> a \in F[b][row]
          /\ z \in Tagged(G, n) <=> a \in G[b][row]
          /\ z \in Tagged(H, n) <=> a \in H[b][row]
      BY <3>2, InTagged
    <3>4. QED
      BY <3>3, InXor
  <2>2. CASE ~ \E b \in 1..n, row \in Rows : \E a : z = <<Tag(n, b), row, a>>
    <3>1. z \notin Tagged(F, n) /\ z \notin Tagged(G, n) /\ z \notin Tagged(H, n)
      BY <2>2, InTagged
    <3>2. QED
      BY <3>1, InXor
  <2>3. QED
    BY <2>1, <2>2
<1>2. QED
  BY <1>1

LEMMA TaggedEqual ==
    ASSUME NEW n \in Nat, NEW F, NEW G
    PROVE  Tagged(F, n) = Tagged(G, n) <=> \A b \in 1..n, row \in Rows : \A a : a \in F[b][row] <=> a \in G[b][row]
<1>1. ASSUME Tagged(F, n) = Tagged(G, n), NEW b \in 1..n, NEW row \in Rows, NEW a
      PROVE  a \in F[b][row] <=> a \in G[b][row]
  BY <1>1, InTagged, ZenonT(40)
<1>2. ASSUME \A b \in 1..n, row \in Rows : \A a : a \in F[b][row] <=> a \in G[b][row]
      PROVE  Tagged(F, n) = Tagged(G, n)
  <2>1. ASSUME NEW z PROVE z \in Tagged(F, n) <=> z \in Tagged(G, n)
    BY <1>2, InTagged
  <2>2. QED
    BY <2>1
<1>3. QED
  BY <1>1, <1>2

LEMMA ColumnSumTagged ==
    ASSUME NEW rows, NEW n \in Nat, Len(rows) = n, NEW c, NEW F,
           \A b \in 1..n, row \in Rows : F[b][row] = rows[b][row][c]
    PROVE  ColumnSum(rows, c) = Tagged(F, n)
<1> DEFINE Part(b, row) == { <<Challenge(rows, b), row, a>> : a \in rows[b][row][c] }
<1>1. \A z : z \in ColumnSum(rows, c) <=> \E b \in 1..n, row \in Rows : z \in Part(b, row)
  <2>1. ColumnSum(rows, c) = UNION { Part(b, row) : b \in 1..Len(rows), row \in Rows }
    BY DEF ColumnSum
  <2> HIDE DEF Part
  <2>2. QED
    BY <2>1
<1>2. \A z, b, row : z \in Part(b, row) <=> \E a \in rows[b][row][c] : z = <<Tag(n, b), row, a>>
  BY DEF Challenge, Tag
<1> HIDE DEF Part
<1>3. ASSUME NEW z PROVE z \in ColumnSum(rows, c) <=> z \in Tagged(F, n)
  <2>1. z \in ColumnSum(rows, c) <=>
            \E b \in 1..n, row \in Rows : \E a \in F[b][row] : z = <<Tag(n, b), row, a>>
    BY <1>1, <1>2
  <2>2. \A b \in 1..n, row \in Rows : \A a \in F[b][row] : <<Tag(n, b), row, a>> \in Tagged(F, n)
    BY InTagged
  <2>3. z \in Tagged(F, n) => \E b \in 1..n, row \in Rows : \E a \in F[b][row] : z = <<Tag(n, b), row, a>>
    BY InTagged
  <2>4. QED
    BY <2>1, <2>2, <2>3
<1>4. QED
  BY <1>3

LEMMA ChoiceSumTagged ==
    ASSUME NEW i, NEW k, NEW rows, NEW n \in Nat, Len(rows) = n, NEW F,
           \A b \in 1..n, row \in Rows : F[b][row] = ChoiceBit(i, k, b - 1, row)
    PROVE  ChoiceSum(i, k, rows) = Tagged(F, n)
<1> DEFINE Part(b, row) == { <<Challenge(rows, b), row, a>> : a \in ChoiceBit(i, k, b - 1, row) }
<1>1. \A z : z \in ChoiceSum(i, k, rows) <=> \E b \in 1..n, row \in Rows : z \in Part(b, row)
  <2>1. ChoiceSum(i, k, rows) = UNION { Part(b, row) : b \in 1..Len(rows), row \in Rows }
    BY DEF ChoiceSum
  <2> HIDE DEF Part
  <2>2. QED
    BY <2>1
<1>2. \A z, b, row : z \in Part(b, row) <=> \E a \in ChoiceBit(i, k, b - 1, row) : z = <<Tag(n, b), row, a>>
  BY DEF Challenge, Tag
<1> HIDE DEF Part
<1>3. ASSUME NEW z PROVE z \in ChoiceSum(i, k, rows) <=> z \in Tagged(F, n)
  <2>1. z \in ChoiceSum(i, k, rows) <=>
            \E b \in 1..n, row \in Rows : \E a \in F[b][row] : z = <<Tag(n, b), row, a>>
    BY <1>1, <1>2
  <2>2. \A b \in 1..n, row \in Rows : \A a \in F[b][row] : <<Tag(n, b), row, a>> \in Tagged(F, n)
    BY InTagged
  <2>3. z \in Tagged(F, n) => \E b \in 1..n, row \in Rows : \E a \in F[b][row] : z = <<Tag(n, b), row, a>>
    BY InTagged
  <2>4. QED
    BY <2>1, <2>2, <2>3
<1>4. QED
  BY <1>3

(* Where in a call the receiver may have cheated.                           *)
LEMMA HitIn ==
    ASSUME NEW cf \in Confs, NEW dl \in SUBSET Cols, NEW bd, NEW k \in 1..N(cf),
           \A e \in bd : e[1] = Root => BadAt(cf, e)
    PROVE  Hit(dl, bd, k) <=>
               IsExt(cf, k) /\ \E b \in Nat, row \in Rows, c \in dl :
                                  b < Blocks(cf, k) /\ <<Root, k, b, row, c>> \in bd
<1>1. ASSUME Hit(dl, bd, k)
      PROVE  IsExt(cf, k) /\ \E b \in Nat, row \in Rows, c \in dl :
                                b < Blocks(cf, k) /\ <<Root, k, b, row, c>> \in bd
  BY <1>1 DEF Hit, BadAt
<1>2. ASSUME NEW b \in Nat, NEW row \in Rows, NEW c \in dl, <<Root, k, b, row, c>> \in bd
      PROVE  Hit(dl, bd, k)
  BY <1>2 DEF Hit
<1>3. QED
  BY <1>1, <1>2

LEMMA CheckExact ==
    ASSUME NEW cf \in Confs, NEW dl \in SUBSET Cols, NEW bd, NEW k \in 1..N(cf), IsExt(cf, k),
           \A e \in bd : e[1] = Root => BadAt(cf, e)
    PROVE  (\A c \in Cols : Xor(ColumnSum(SendRows(cf, dl, bd)[k], c),
                                BitTimes(c \in dl, ChoiceSum(Root, k, RecvRows(cf)[k])))
                               = ColumnSum(RecvRows(cf)[k], c))
               <=> ~Hit(dl, bd, k)
<1> DEFINE n == Blocks(cf, k)
           X == [b \in 1..n |-> [row \in Rows |-> ChoiceBit(Root, k, b - 1, row)]]
           None == [b \in 1..n |-> [row \in Rows |-> {}]]
           Tt(c) == [b \in 1..n |-> [row \in Rows |-> T0At(cf, k, b - 1)[row][c]]]
           Qt(c) == [b \in 1..n |-> [row \in Rows |-> QAt(cf, dl, bd, k, b - 1)[row][c]]]
           Hc(c) == [b \in 1..n |-> [row \in Rows |->
                        Xor(QAt(cf, dl, bd, k, b - 1)[row][c], BitTimes(c \in dl, ChoiceBit(Root, k, b - 1, row)))]]
<1>1. n \in Nat
  BY CallFacts
<1>2. PICK rows : rows = RecvRows(cf)[k]
  OBVIOUS
<1>3. PICK qrows : qrows = SendRows(cf, dl, bd)[k]
  OBVIOUS
<1>4. rows = [b \in 1..n |-> T0At(cf, k, b - 1)] /\ Len(rows) = n
  BY <1>1, <1>2 DEF RecvRows
<1>5. qrows = [b \in 1..n |-> QAt(cf, dl, bd, k, b - 1)] /\ Len(qrows) = n
  BY <1>1, <1>3 DEF SendRows
<1> HIDE DEF n
<1>6. ChoiceSum(Root, k, rows) = Tagged(X, n)
  <2>1. \A b \in 1..n, row \in Rows : X[b][row] = ChoiceBit(Root, k, b - 1, row)
    OBVIOUS
  <2> HIDE DEF X
  <2>2. QED
    BY <1>1, <1>4, <2>1, ChoiceSumTagged
<1>7. ASSUME NEW c \in Cols
      PROVE  Xor(ColumnSum(qrows, c), BitTimes(c \in dl, ChoiceSum(Root, k, rows))) = ColumnSum(rows, c)
                <=> \A b \in 1..n, row \in Rows : ~(c \in dl /\ <<Root, k, b - 1, row, c>> \in bd)
  <2> DEFINE P == Tt(c)
             O == Qt(c)
             H == Hc(c)
             Y == IF c \in dl THEN X ELSE None
  <2>1. \A b \in 1..n, row \in Rows :
           /\ P[b][row] = rows[b][row][c] /\ O[b][row] = qrows[b][row][c]
           /\ Y[b][row] = BitTimes(c \in dl, ChoiceBit(Root, k, b - 1, row))
           /\ H[b][row] = Xor(O[b][row], Y[b][row])
    BY <1>4, <1>5 DEF BitTimes, ZeroBlock
  <2>2. \A b \in 1..n, row \in Rows :
           H[b][row] = P[b][row] <=> ~(c \in dl /\ <<Root, k, b - 1, row, c>> \in bd)
    BY BitOfCall
  <2>3. Tagged(Y, n) = BitTimes(c \in dl, Tagged(X, n))
    <3>1. CASE c \in dl
      BY <3>1 DEF BitTimes
    <3>2. CASE c \notin dl
      <4>1. \A b \in 1..n, row \in Rows : Y[b][row] = {}
        BY <3>2
      <4> HIDE DEF Y
      <4>2. Tagged(Y, n) = {}
        BY <1>1, <4>1, InTagged
      <4>3. QED
        BY <3>2, <4>2 DEF BitTimes, ZeroBlock
    <3>3. QED
      BY <3>1, <3>2
  <2> HIDE DEF P, O, H, Y, X
  <2>4. ColumnSum(rows, c) = Tagged(P, n)
    <3>1. Len(rows) = n /\ \A b \in 1..n, row \in Rows : P[b][row] = rows[b][row][c]
      BY <1>4, <2>1
    <3>2. QED
      BY <1>1, <3>1, ColumnSumTagged, SMTT(30)
  <2>5. ColumnSum(qrows, c) = Tagged(O, n)
    <3>1. Len(qrows) = n /\ \A b \in 1..n, row \in Rows : O[b][row] = qrows[b][row][c]
      BY <1>5, <2>1
    <3>2. QED
      BY <1>1, <3>1, ColumnSumTagged, SMTT(30)
  <2>6. Xor(Tagged(O, n), Tagged(Y, n)) = Tagged(H, n)
    BY <1>1, <2>1, TaggedXor
  <2>7. Tagged(H, n) = Tagged(P, n) <=> \A b \in 1..n, row \in Rows : H[b][row] = P[b][row]
    <3>1. Tagged(H, n) = Tagged(P, n)
             <=> \A b \in 1..n, row \in Rows : \A a : a \in H[b][row] <=> a \in P[b][row]
      BY <1>1, TaggedEqual, Zenon
    <3>2. ASSUME NEW x, NEW y PROVE x = y <=> \A a : a \in x <=> a \in y
      OBVIOUS
    <3>3. ASSUME Tagged(H, n) = Tagged(P, n), NEW b \in 1..n, NEW row \in Rows
          PROVE  H[b][row] = P[b][row]
      <4>1. \A a : a \in H[b][row] <=> a \in P[b][row]
        BY <3>1, <3>3
      <4>2. PICK x, y : x = H[b][row] /\ y = P[b][row]
        OBVIOUS
      <4>3. x = y
        BY <4>1, <4>2
      <4>4. QED
        BY <4>2, <4>3
    <3>4. ASSUME \A b \in 1..n, row \in Rows : H[b][row] = P[b][row]
          PROVE  Tagged(H, n) = Tagged(P, n)
      BY <3>1, <3>4
    <3>5. QED
      BY <3>3, <3>4, Zenon
  <2>8. QED
    BY <1>6, <2>2, <2>3, <2>4, <2>5, <2>6, <2>7
<1>8. Hit(dl, bd, k) <=> \E b \in 1..n, row \in Rows, c \in dl : <<Root, k, b - 1, row, c>> \in bd
  <2>1. Hit(dl, bd, k) <=> \E b \in Nat, row \in Rows, c \in dl : b < n /\ <<Root, k, b, row, c>> \in bd
    BY HitIn DEF n
  <2>2. ASSUME NEW b \in Nat, b < n PROVE b + 1 \in 1..n /\ (b + 1) - 1 = b
    BY <1>1, <2>2
  <2>3. ASSUME NEW b \in 1..n PROVE b - 1 \in Nat /\ b - 1 < n
    BY <1>1
  <2>4. QED
    BY <2>1, <2>2, <2>3
<1>9. QED
  BY <1>2, <1>3, <1>7, <1>8

(* Where the receiver was not caught, the rows are correlated.              *)
LEMMA RowsCorrect ==
    ASSUME NEW cf \in Confs, NEW dl \in SUBSET Cols, NEW bd, NEW k \in 1..N(cf), IsExt(cf, k),
           \A e \in bd : e[1] = Root => BadAt(cf, e), ~Hit(dl, bd, k),
           NEW m \in 0..(OpOf(cf, k).n - 1), NEW c \in Cols
    PROVE  Xor(SendRows(cf, dl, bd)[k][m \div K + 1][m % K][c], RecvRows(cf)[k][m \div K + 1][m % K][c])
               = BitTimes(c \in dl, ChoiceBit(Root, k, m \div K, m % K))
<1> DEFINE b == m \div K
           row == m % K
<1>1. OpOf(cf, k).n \in Nat /\ CfgOf(cf).mal \in BOOLEAN /\ OpOf(cf, k).op = "ext"
  BY CallFacts DEF IsExt
<1>2. b + 1 \in 1..Blocks(cf, k) /\ row \in Rows
  BY <1>1, RowOfOt DEF Blocks
<1>3. b \in Nat /\ b < Blocks(cf, k) /\ (b + 1) - 1 = b
  <2>1. b \in Int
    BY <1>1, KosAssumption
  <2> HIDE DEF b
  <2>2. Blocks(cf, k) \in Nat
    BY CallFacts
  <2>3. QED
    BY <1>2, <2>1, <2>2
<1> HIDE DEF b, row
<1>4. /\ SendRows(cf, dl, bd)[k][b + 1] = QAt(cf, dl, bd, k, b)
      /\ RecvRows(cf)[k][b + 1] = T0At(cf, k, b)
  BY <1>2, <1>3 DEF SendRows, RecvRows
<1>5. ~(c \in dl /\ <<Root, k, b, row, c>> \in bd)
  BY <1>2, <1>3, HitIn
<1>6. Xor(QAt(cf, dl, bd, k, b)[row][c], T0At(cf, k, b)[row][c]) = BitTimes(c \in dl, ChoiceBit(Root, k, b, row))
  BY <1>2, <1>5, BitOfCall
<1>7. QED
  BY <1>4, <1>6 DEF b, row

---------------------------------------------------------------------------
(* Messages on their way.                                                   *)

LEMMA IsSeqFacts ==
    ASSUME NEW q, IsSeq(q)
    PROVE  /\ Len(q) \in Nat /\ DOMAIN q = 1..Len(q)
           /\ \A m : IsSeq(Append(q, m)) /\ Len(Append(q, m)) = Len(q) + 1
                     /\ Append(q, m)[Len(q) + 1] = m
                     /\ \A k \in 1..Len(q) : Append(q, m)[k] = q[k]
           /\ Len(q) = 0 <=> q = << >>
           /\ q # << >> => /\ IsSeq(Tail(q)) /\ Len(Tail(q)) = Len(q) - 1 /\ Head(q) = q[1]
                           /\ \A k \in 1..(Len(q) - 1) : Tail(q)[k] = q[k + 1]
<1>1. PICK S : q \in Seq(S)
  BY DEF IsSeq
<1>2. ASSUME NEW T, NEW f \in Seq(T) PROVE IsSeq(f)
  <2>1. \A k \in 1..Len(f) : f[k] \in { f[j] : j \in DOMAIN f }
    BY <1>2
  <2>2. PICK V : V = { f[j] : j \in DOMAIN f }
    OBVIOUS
  <2>3. f \in Seq(V)
    BY <1>2, <2>1, <2>2
  <2>4. QED
    BY <2>2, <2>3 DEF IsSeq
<1>3. ASSUME NEW m
      PROVE  IsSeq(Append(q, m)) /\ Len(Append(q, m)) = Len(q) + 1 /\ Append(q, m)[Len(q) + 1] = m
             /\ \A k \in 1..Len(q) : Append(q, m)[k] = q[k]
  <2>1. PICK f, T : f = Append(q, m) /\ T = S \cup {m}
    OBVIOUS
  <2>2. f \in Seq(T) /\ Len(f) = Len(q) + 1 /\ f[Len(q) + 1] = m /\ \A k \in 1..Len(q) : f[k] = q[k]
    BY <1>1, <2>1, Appended
  <2>3. IsSeq(f)
    BY <1>2, <2>2
  <2>4. QED
    BY <2>1, <2>2, <2>3
<1>4. ASSUME q # << >>
      PROVE  /\ IsSeq(Tail(q)) /\ Len(Tail(q)) = Len(q) - 1 /\ Head(q) = q[1]
             /\ \A k \in 1..(Len(q) - 1) : Tail(q)[k] = q[k + 1]
  <2>1. Tail(q) \in Seq(S) /\ Len(Tail(q)) = Len(q) - 1 /\ Head(q) = q[1]
    BY <1>1, <1>4
  <2>2. \A k \in 1..(Len(q) - 1) : Tail(q)[k] = q[k + 1]
    BY <1>1, <1>4
  <2>3. QED
    BY <1>2, <2>1, <2>2
<1>5. Len(q) \in Nat /\ DOMAIN q = 1..Len(q) /\ (Len(q) = 0 <=> q = << >>)
  BY <1>1
<1>6. QED
  BY <1>3, <1>4, <1>5

LEMMA ChainEnds ==
    ASSUME NEW cf, NEW bd, NEW q, NEW lo, NEW hi, Chain(cf, bd, q, lo, hi)
    PROVE  lo \in Nat /\ hi \in Nat /\ lo <= hi /\ (lo = hi <=> q = << >>)
<1>1. PICK at : ChainAt(cf, bd, q, lo, hi, at)
  BY DEF Chain
<1>2. Len(q) \in Nat /\ (Len(q) = 0 <=> q = << >>)
  BY IsSeqFacts DEF Chain
<1>3. /\ at \in [1..(Len(q) + 1) -> Nat] /\ at[1] = lo /\ at[Len(q) + 1] = hi
      /\ \A a, b \in 1..(Len(q) + 1) : a < b => at[a] < at[b]
  BY <1>1 DEF ChainAt
<1>4. 1 \in 1..(Len(q) + 1) /\ Len(q) + 1 \in 1..(Len(q) + 1)
  BY <1>2
<1>5. QED
  BY <1>2, <1>3, <1>4

LEMMA ChainAppend ==
    ASSUME NEW cf, NEW bd, NEW q, NEW lo, NEW hi, Chain(cf, bd, q, lo, hi),
           NEW m, NEW end \in Nat, hi < end, IsMessage(cf, bd, m, hi, end)
    PROVE  Chain(cf, bd, Append(q, m), lo, end)
<1>1. PICK at : ChainAt(cf, bd, q, lo, hi, at)
  BY DEF Chain
<1> DEFINE n == Len(q)
           at2 == [k \in 1..(n + 2) |-> IF k = n + 2 THEN end ELSE at[k]]
<1>2. PICK q2 : q2 = Append(q, m)
  OBVIOUS
<1>3. n \in Nat /\ IsSeq(q2) /\ Len(q2) = n + 1 /\ q2[n + 1] = m /\ \A k \in 1..n : q2[k] = q[k]
  BY <1>2, IsSeqFacts DEF Chain
<1>4. /\ at \in [1..(n + 1) -> Nat] /\ at[1] = lo /\ at[n + 1] = hi
      /\ \A a, b \in 1..(n + 1) : a < b => at[a] < at[b]
      /\ \A k \in 1..n : IsMessage(cf, bd, q[k], at[k], at[k + 1])
  BY <1>1 DEF ChainAt
<1> HIDE DEF n
<1>5. at2 \in [1..(n + 2) -> Nat] /\ at2[1] = lo /\ at2[n + 2] = end /\ \A k \in 1..(n + 1) : at2[k] = at[k]
  BY <1>3, <1>4
<1> HIDE DEF at2
<1>6. ASSUME NEW a \in 1..(n + 2), NEW b \in 1..(n + 2), a < b PROVE at2[a] < at2[b]
  <2>1. a \in 1..(n + 1) /\ (b = n + 2 \/ b \in 1..(n + 1))
    BY <1>3, <1>6
  <2>2. at[a] <= hi
    <3>1. a = n + 1 \/ a < n + 1
      BY <1>3, <2>1
    <3>2. n + 1 \in 1..(n + 1) /\ at[a] \in Nat /\ hi \in Nat
      BY <1>3, <1>4, <2>1
    <3>3. QED
      BY <1>4, <2>1, <3>1, <3>2
  <2>3. at[a] \in Nat /\ hi \in Nat
    BY <1>3, <1>4, <2>1
  <2>4. QED
    BY <1>4, <1>5, <1>6, <2>1, <2>2, <2>3
<1>7. ASSUME NEW k \in 1..(n + 1) PROVE IsMessage(cf, bd, q2[k], at2[k], at2[k + 1])
  <2>1. CASE k = n + 1
    <3>1. at2[k] = hi /\ k + 1 = n + 2 /\ at2[k + 1] = end /\ q2[k] = m
      BY <1>3, <1>4, <1>5, <2>1
    <3>2. QED
      BY <3>1
  <2>2. CASE k \in 1..n
    <3>1. k + 1 \in 1..(n + 1) /\ k \in 1..(n + 1)
      BY <1>3, <2>2
    <3>2. q2[k] = q[k] /\ at2[k] = at[k] /\ at2[k + 1] = at[k + 1]
      BY <1>3, <1>5, <2>2, <3>1
    <3>3. QED
      BY <1>4, <2>2, <3>2
  <2>3. QED
    BY <1>3, <2>1, <2>2
<1>8. (n + 1) + 1 = n + 2
  BY <1>3
<1>9. ChainAt(cf, bd, q2, lo, end, at2)
  BY <1>3, <1>5, <1>6, <1>7, <1>8 DEF ChainAt
<1>10. QED
  BY <1>2, <1>3, <1>9 DEF Chain

LEMMA ChainTail ==
    ASSUME NEW cf, NEW bd, NEW q, NEW lo, NEW hi, Chain(cf, bd, q, lo, hi), q # << >>
    PROVE  \E mid \in Nat : /\ lo < mid /\ IsMessage(cf, bd, Head(q), lo, mid)
                            /\ Chain(cf, bd, Tail(q), mid, hi)
<1>1. PICK at : ChainAt(cf, bd, q, lo, hi, at)
  BY DEF Chain
<1> DEFINE n == Len(q)
           at2 == [k \in 1..n |-> at[k + 1]]
<1>2. PICK q2 : q2 = Tail(q)
  OBVIOUS
<1>3. /\ n \in Nat /\ n # 0 /\ IsSeq(q2) /\ Len(q2) = n - 1 /\ Head(q) = q[1]
      /\ \A k \in 1..(n - 1) : q2[k] = q[k + 1]
  BY <1>2, IsSeqFacts DEF Chain
<1>4. /\ at \in [1..(n + 1) -> Nat] /\ at[1] = lo /\ at[n + 1] = hi
      /\ \A a, b \in 1..(n + 1) : a < b => at[a] < at[b]
      /\ \A k \in 1..n : IsMessage(cf, bd, q[k], at[k], at[k + 1])
  BY <1>1 DEF ChainAt
<1> HIDE DEF n
<1>5. /\ at2 \in [1..n -> Nat] /\ at2[1] = at[2] /\ at2[n] = hi /\ \A k \in 1..n : at2[k] = at[k + 1]
      /\ at[2] \in Nat
  BY <1>3, <1>4
<1> HIDE DEF at2
<1>6. ASSUME NEW a \in 1..n, NEW b \in 1..n, a < b PROVE at2[a] < at2[b]
  <2>1. a + 1 \in 1..(n + 1) /\ b + 1 \in 1..(n + 1) /\ a + 1 < b + 1
    BY <1>3, <1>6
  <2>2. QED
    BY <1>4, <1>5, <2>1
<1>7. ASSUME NEW k \in 1..(n - 1) PROVE IsMessage(cf, bd, q2[k], at2[k], at2[k + 1])
  <2>1. k \in 1..n /\ k + 1 \in 1..n
    BY <1>3
  <2>2. q2[k] = q[k + 1] /\ at2[k] = at[k + 1] /\ at2[k + 1] = at[(k + 1) + 1]
    BY <1>3, <1>5, <2>1
  <2>3. QED
    BY <1>4, <2>1, <2>2
<1>8. (n - 1) + 1 = n
  BY <1>3
<1>9. ChainAt(cf, bd, q2, at[2], hi, at2)
  BY <1>3, <1>5, <1>6, <1>7, <1>8 DEF ChainAt
<1>10. lo < at[2] /\ IsMessage(cf, bd, Head(q), lo, at[2])
  <2>1. 1 \in 1..n /\ 1 + 1 = 2 /\ 1 \in 1..(n + 1) /\ 2 \in 1..(n + 1) /\ 1 < 2
    BY <1>3
  <2>2. QED
    BY <1>3, <1>4, <2>1
<1>11. QED
  BY <1>2, <1>3, <1>5, <1>9, <1>10 DEF Chain

(* The head of a chain, where a sender waits for it.                        *)
StepAt(cf, k, b) == MinOf(Blocks(cf, k) - b, CommStep)
PlaceOf(cf, k, b) == Timeline(cf)[k - 1].start + b

LEMMA HeadInCall ==
    ASSUME NEW cf \in Confs, NEW bd, NEW m, NEW hi, NEW k \in 1..N(cf), NEW b \in Nat,
           IsExt(cf, k), IsMessage(cf, bd, m, PlaceOf(cf, k, b), hi)
    PROVE  /\ b < Blocks(cf, k) =>
                 /\ StepAt(cf, k, b) \in Nat /\ StepAt(cf, k, b) >= 1 /\ b + StepAt(cf, k, b) <= Blocks(cf, k)
                 /\ hi = PlaceOf(cf, k, b) + StepAt(cf, k, b) /\ m = UMessage(cf, bd, k, b, StepAt(cf, k, b))
           /\ b = Blocks(cf, k) /\ CfgOf(cf).mal => m = ProofAt(cf, bd, k) /\ hi = PlaceOf(cf, k, b) + 1
<1>0. PICK step, lo : step = StepAt(cf, k, b) /\ lo = Timeline(cf)[k - 1].start + b
  OBVIOUS
<1>1. /\ Blocks(cf, k) \in Nat /\ Size(cf, k) \in Nat /\ Size(cf, k) >= Blocks(cf, k)
      /\ CfgOf(cf).mal => Size(cf, k) = Blocks(cf, k) + 1
  BY CallFacts DEF Size
<1>2. Timeline(cf)[k - 1].start \in Nat /\ lo \in Nat
  <2>1. Timeline(cf)[k - 1] \in Entry
    BY StartStep1
  <2>2. QED
    BY <1>0, <2>1 DEF Entry
<1>3. ASSUME IsUBlocks(cf, bd, m, lo, hi), b < Size(cf, k)
      PROVE  /\ b < Blocks(cf, k) /\ step \in Nat /\ step >= 1 /\ b + step <= Blocks(cf, k) /\ hi = lo + step
             /\ m = UMessage(cf, bd, k, b, step)
  <2>1. PICK j \in 1..N(cf) : IsExt(cf, j) /\ \E a \in 0..(Blocks(cf, j) - 1) :
            /\ lo = Timeline(cf)[j - 1].start + a
            /\ hi = lo + MinOf(Blocks(cf, j) - a, CommStep)
            /\ m = [kind |-> "u", u |-> [i \in 1..(hi - lo) |-> SentU(cf, bd)[j][a + i]]]
    BY <1>3 DEF IsUBlocks
  <2>2. PICK a \in 0..(Blocks(cf, j) - 1) :
            /\ lo = Timeline(cf)[j - 1].start + a
            /\ hi = lo + MinOf(Blocks(cf, j) - a, CommStep)
            /\ m = [kind |-> "u", u |-> [i \in 1..(hi - lo) |-> SentU(cf, bd)[j][a + i]]]
    BY <2>1
  <2>3. a \in Nat /\ a < Blocks(cf, j) /\ a < Size(cf, j)
    <3>1. Blocks(cf, j) \in Nat /\ Size(cf, j) \in Nat /\ Size(cf, j) >= Blocks(cf, j)
      BY <2>1, CallFacts
    <3>2. QED
      BY <2>2, <3>1
  <2>4. j = k /\ a = b
    BY <1>0, <1>3, <2>1, <2>2, <2>3, PlaceUnique
  <2>5. b < Blocks(cf, k)
    BY <2>3, <2>4
  <2>6. step \in Nat /\ step >= 1 /\ b + step <= Blocks(cf, k)
    BY <1>0, <1>1, <2>5, KosAssumption DEF MinOf, StepAt
  <2>7. hi = lo + step /\ m = [kind |-> "u", u |-> [i \in 1..(hi - lo) |-> SentU(cf, bd)[k][b + i]]]
    BY <1>0, <2>2, <2>4 DEF StepAt
  <2>8. hi - lo = step
    BY <1>2, <2>6, <2>7
  <2>9. QED
    BY <2>5, <2>6, <2>7, <2>8 DEF UMessage
<1>4. ASSUME IsProof(cf, bd, m, lo, hi), b < Size(cf, k)
      PROVE  b = Blocks(cf, k) /\ m = ProofAt(cf, bd, k) /\ hi = lo + 1
  <2>1. PICK j \in 1..N(cf) :
            /\ IsExt(cf, j) /\ CfgOf(cf).mal /\ lo = Timeline(cf)[j - 1].start + Blocks(cf, j) /\ hi = lo + 1
            /\ m = ProofAt(cf, bd, j)
    BY <1>4 DEF IsProof
  <2>2. Blocks(cf, j) \in Nat /\ Blocks(cf, j) < Size(cf, j)
    BY <2>1, CallFacts DEF Size
  <2>3. j = k /\ Blocks(cf, j) = b
    BY <1>0, <1>4, <2>1, <2>2, PlaceUnique
  <2>4. QED
    BY <2>1, <2>3
<1>5. QED
  BY <1>0, <1>1, <1>3, <1>4 DEF IsMessage, PlaceOf

(* A party in a call, and where its place is among those of the other.      *)
LEMMA BeforePlace ==
    ASSUME NEW cf \in Confs, NEW j \in 1..N(cf), NEW k \in 1..N(cf), IsExt(cf, j), IsExt(cf, k),
           NEW a \in Nat, NEW b \in Nat, a < Size(cf, j), b <= Size(cf, k),
           Timeline(cf)[j - 1].start + a < Timeline(cf)[k - 1].start + b
    PROVE  j < k \/ (j = k /\ a < b)
<1>1. N(cf) \in Nat /\ j - 1 \in 0..N(cf) /\ k - 1 \in 0..N(cf) /\ Size(cf, j) \in Nat /\ Size(cf, k) \in Nat
  BY CallFacts
<1>2. Timeline(cf)[j - 1].start \in Nat /\ Timeline(cf)[k - 1].start \in Nat
  BY <1>1, TimelineFacts DEF Entry
<1>3. ASSUME k < j PROVE FALSE
  <2>1. k - 1 < j - 1 /\ k - 1 + 1 = k
    BY <1>1, <1>3
  <2>2. Timeline(cf)[k - 1].start + Size(cf, k) <= Timeline(cf)[j - 1].start
    BY <1>1, <2>1, StartOrder
  <2>3. QED
    BY <1>1, <1>2, <2>2
<1>4. QED
  BY <1>1, <1>2, <1>3

---------------------------------------------------------------------------
(* A receiver that cheats in block br of call kr, or later, changes nothing *)
(* of what comes before.                                                   *)

SameBefore(bd, bd2, kr, br) ==
    bd \subseteq bd2 /\ \A e \in bd2 \ bd : e[1] = Root /\ e[2] = kr /\ e[3] >= br

LEMMA LateKeeps ==
    ASSUME NEW cf \in Confs, NEW bd, NEW bd2, NEW kr \in Nat, NEW br \in Nat,
           SameBefore(bd, bd2, kr, br),
           NEW k \in 1..N(cf), IsExt(cf, k), NEW b \in 1..Blocks(cf, k), k < kr \/ (k = kr /\ b - 1 < br)
    PROVE  /\ SentU(cf, bd2)[k][b] = SentU(cf, bd)[k][b]
           /\ \A dl : SendRows(cf, dl, bd2)[k][b] = SendRows(cf, dl, bd)[k][b]
<1>1. N(cf) \in Nat /\ Blocks(cf, k) \in Nat
  BY CallFacts
<1>2. \A row, c : <<Root, k, b - 1, row, c>> \in bd2 <=> <<Root, k, b - 1, row, c>> \in bd
  BY <1>1 DEF SameBefore
<1>3. UAt(cf, bd2, k, b - 1) = UAt(cf, bd, k, b - 1)
  BY <1>2 DEF UAt
<1>4. \A d : SentU(cf, d)[k][b] = UAt(cf, d, k, b - 1)
  BY DEF SentU
<1>5. SentU(cf, bd2)[k][b] = SentU(cf, bd)[k][b]
  BY <1>3, <1>4
<1>6. ASSUME NEW dl PROVE SendRows(cf, dl, bd2)[k][b] = SendRows(cf, dl, bd)[k][b]
  <2>1. QAt(cf, dl, bd2, k, b - 1) = QAt(cf, dl, bd, k, b - 1)
    BY <1>3 DEF QAt
  <2>2. \A d : SendRows(cf, dl, d)[k][b] = QAt(cf, dl, d, k, b - 1)
    BY DEF SendRows
  <2>3. QED
    BY <2>1, <2>2
<1>7. QED
  BY <1>5, <1>6

LEMMA SameCall ==
    ASSUME NEW cf \in Confs, NEW rs, NEW rs2, RowsOk(cf, rs), RowsOk(cf, rs2), NEW k \in 1..N(cf),
           \A b \in 1..Blocks(cf, k) : IsExt(cf, k) => rs[k][b] = rs2[k][b]
    PROVE  rs[k] = rs2[k]
<1>1. CASE IsExt(cf, k)
  <2>1. rs[k] = Upto(rs[k], Blocks(cf, k)) /\ rs2[k] = Upto(rs2[k], Blocks(cf, k))
    BY <1>1 DEF RowsOk
  <2>2. Upto(rs[k], Blocks(cf, k)) = Upto(rs2[k], Blocks(cf, k))
    BY <1>1 DEF Upto
  <2>3. QED
    BY <2>1, <2>2
<1>2. CASE ~IsExt(cf, k)
  BY <1>2 DEF RowsOk
<1>3. QED
  BY <1>1, <1>2

LEMMA LateCalls ==
    ASSUME NEW cf \in Confs, NEW bd, NEW bd2, NEW kr \in Nat, NEW br \in Nat,
           SameBefore(bd, bd2, kr, br),
           NEW k \in 1..N(cf), k < kr
    PROVE  /\ SentU(cf, bd2)[k] = SentU(cf, bd)[k]
           /\ \A dl : SendRows(cf, dl, bd2)[k] = SendRows(cf, dl, bd)[k]
<1>1. ASSUME NEW b \in 1..Blocks(cf, k), IsExt(cf, k)
      PROVE  /\ SentU(cf, bd2)[k][b] = SentU(cf, bd)[k][b]
             /\ \A dl : SendRows(cf, dl, bd2)[k][b] = SendRows(cf, dl, bd)[k][b]
  BY <1>1, LateKeeps
<1>2. SentU(cf, bd2)[k] = SentU(cf, bd)[k]
  <2>1. RowsOk(cf, SentU(cf, bd)) /\ RowsOk(cf, SentU(cf, bd2))
    BY AllRowsOk
  <2>2. QED
    BY <1>1, <2>1, SameCall
<1>3. ASSUME NEW dl PROVE SendRows(cf, dl, bd2)[k] = SendRows(cf, dl, bd)[k]
  <2>1. RowsOk(cf, SendRows(cf, dl, bd)) /\ RowsOk(cf, SendRows(cf, dl, bd2))
    BY AllRowsOk
  <2>2. QED
    BY <1>1, <2>1, SameCall
<1>4. QED
  BY <1>2, <1>3

LEMMA LateMessage ==
    ASSUME NEW cf \in Confs, NEW bd, NEW bd2, NEW kr \in 1..N(cf), IsExt(cf, kr), NEW br \in Nat,
           br < Blocks(cf, kr), SameBefore(bd, bd2, kr, br),
           NEW m, NEW lo \in Nat, NEW hi \in Nat, hi <= Timeline(cf)[kr - 1].start + br, IsMessage(cf, bd, m, lo, hi)
    PROVE  IsMessage(cf, bd2, m, lo, hi)
<1>1. /\ N(cf) \in Nat /\ Blocks(cf, kr) \in Nat /\ Size(cf, kr) \in Nat /\ Size(cf, kr) >= Blocks(cf, kr)
      /\ Timeline(cf)[kr - 1].start \in Nat
  <2>1. Timeline(cf)[kr - 1] \in Entry
    BY StartStep1
  <2>2. QED
    BY <2>1, CallFacts DEF Entry
<1>2. CASE IsUBlocks(cf, bd, m, lo, hi)
  <2>1. PICK k \in 1..N(cf) : IsExt(cf, k) /\ \E b \in 0..(Blocks(cf, k) - 1) :
            /\ lo = Timeline(cf)[k - 1].start + b
            /\ hi = lo + MinOf(Blocks(cf, k) - b, CommStep)
            /\ m = [kind |-> "u", u |-> [j \in 1..(hi - lo) |-> SentU(cf, bd)[k][b + j]]]
    BY <1>2 DEF IsUBlocks
  <2>2. PICK b \in 0..(Blocks(cf, k) - 1) :
            /\ lo = Timeline(cf)[k - 1].start + b
            /\ hi = lo + MinOf(Blocks(cf, k) - b, CommStep)
            /\ m = [kind |-> "u", u |-> [j \in 1..(hi - lo) |-> SentU(cf, bd)[k][b + j]]]
    BY <2>1
  <2>3. /\ Timeline(cf)[k - 1].start \in Nat /\ Blocks(cf, k) \in Nat /\ Size(cf, k) \in Nat
        /\ Size(cf, k) >= Blocks(cf, k) /\ b \in Nat /\ b < Blocks(cf, k)
    <3>1. Timeline(cf)[k - 1] \in Entry
      BY StartStep1
    <3>2. Blocks(cf, k) \in Nat /\ Size(cf, k) \in Nat /\ Size(cf, k) >= Blocks(cf, k)
      BY <2>1, CallFacts
    <3>3. QED
      BY <3>1, <3>2 DEF Entry
  <2>4. b + (hi - lo) <= Blocks(cf, k)
    <3>1. hi - lo = MinOf(Blocks(cf, k) - b, CommStep) /\ MinOf(Blocks(cf, k) - b, CommStep) <= Blocks(cf, k) - b
      <4>1. ASSUME NEW x \in Nat PROVE MinOf(x, CommStep) \in Nat /\ MinOf(x, CommStep) <= x
        BY KosAssumption DEF MinOf
      <4>2. Blocks(cf, k) - b \in Nat
        BY <2>3
      <4>3. hi = lo + MinOf(Blocks(cf, k) - b, CommStep)
        BY <2>2, Zenon
      <4>4. QED
        BY <4>1, <4>2, <4>3
    <3>2. QED
      BY <2>3, <3>1
  <2>5. ASSUME NEW j \in 1..(hi - lo) PROVE SentU(cf, bd2)[k][b + j] = SentU(cf, bd)[k][b + j]
    <3>1. b + j \in 1..Blocks(cf, k) /\ (b + j) - 1 = b + (j - 1) /\ b + (j - 1) \in Nat
      BY <2>3, <2>4
    <3>2. Timeline(cf)[k - 1].start + (b + (j - 1)) < Timeline(cf)[kr - 1].start + br
      <4>1. lo = Timeline(cf)[k - 1].start + b /\ j \in Int /\ j <= hi - lo
        BY <2>2, <2>5
      <4>2. QED
        BY <1>1, <2>3, <4>1
    <3>3. b + (j - 1) < Size(cf, k) /\ br <= Size(cf, kr)
      BY <1>1, <2>3, <2>4, <2>5
    <3>4. k < kr \/ (k = kr /\ b + (j - 1) < br)
      BY <2>1, <3>1, <3>2, <3>3, BeforePlace
    <3>5. kr \in Nat
      BY <1>1
    <3>6. QED
      BY <2>1, <3>1, <3>4, <3>5, LateKeeps
  <2>6. m = [kind |-> "u", u |-> [j \in 1..(hi - lo) |-> SentU(cf, bd2)[k][b + j]]]
    BY <2>2, <2>5
  <2>7. IsUBlocks(cf, bd2, m, lo, hi)
    BY <2>1, <2>2, <2>6 DEF IsUBlocks
  <2>8. QED
    BY <2>7 DEF IsMessage
<1>3. CASE IsProof(cf, bd, m, lo, hi)
  <2>1. PICK k \in 1..N(cf) :
            /\ IsExt(cf, k) /\ CfgOf(cf).mal /\ lo = Timeline(cf)[k - 1].start + Blocks(cf, k) /\ hi = lo + 1
            /\ m = ProofAt(cf, bd, k)
    BY <1>3 DEF IsProof
  <2>2. /\ Timeline(cf)[k - 1].start \in Nat /\ Blocks(cf, k) \in Nat /\ Blocks(cf, k) < Size(cf, k)
    <3>1. Timeline(cf)[k - 1] \in Entry
      BY StartStep1
    <3>2. QED
      BY <2>1, <3>1, CallFacts DEF Entry, Size
  <2>3. Timeline(cf)[k - 1].start + Blocks(cf, k) < Timeline(cf)[kr - 1].start + br /\ br <= Size(cf, kr)
    BY <1>1, <2>1, <2>2
  <2>4. k < kr \/ (k = kr /\ Blocks(cf, k) < br)
    BY <2>1, <2>2, <2>3, BeforePlace
  <2>5. k < kr /\ kr \in Nat
    BY <1>1, <2>2, <2>4
  <2>6. SentU(cf, bd2)[k] = SentU(cf, bd)[k]
    BY <2>5, LateCalls
  <2>7. m = ProofAt(cf, bd2, k)
    BY <2>1, <2>6 DEF ProofAt
  <2>8. IsProof(cf, bd2, m, lo, hi)
    BY <2>1, <2>7 DEF IsProof
  <2>9. QED
    BY <2>8 DEF IsMessage
<1>4. QED
  BY <1>2, <1>3 DEF IsMessage

LEMMA LateChain ==
    ASSUME NEW cf \in Confs, NEW bd, NEW bd2, NEW kr \in 1..N(cf), IsExt(cf, kr), NEW br \in Nat,
           br < Blocks(cf, kr), SameBefore(bd, bd2, kr, br),
           NEW q, NEW lo, NEW hi, hi <= Timeline(cf)[kr - 1].start + br, Chain(cf, bd, q, lo, hi)
    PROVE  Chain(cf, bd2, q, lo, hi)
<1>1. PICK at : ChainAt(cf, bd, q, lo, hi, at)
  BY DEF Chain
<1> DEFINE n == Len(q)
<1>2. n \in Nat /\ Timeline(cf)[kr - 1].start \in Nat
  <2>1. Timeline(cf)[kr - 1] \in Entry
    BY StartStep1
  <2>2. QED
    BY <2>1, IsSeqFacts DEF Chain, Entry
<1>3. /\ at \in [1..(n + 1) -> Nat] /\ at[n + 1] = hi
      /\ \A a, b \in 1..(n + 1) : a < b => at[a] < at[b]
      /\ \A k \in 1..n : IsMessage(cf, bd, q[k], at[k], at[k + 1])
  BY <1>1 DEF ChainAt
<1> HIDE DEF n
<1>4. ASSUME NEW k \in 1..n PROVE IsMessage(cf, bd2, q[k], at[k], at[k + 1])
  <2>1. k \in 1..(n + 1) /\ k + 1 \in 1..(n + 1) /\ n + 1 \in 1..(n + 1) /\ (k + 1 = n + 1 \/ k + 1 < n + 1)
    BY <1>2
  <2>2. at[k] \in Nat /\ at[k + 1] \in Nat /\ at[k + 1] <= hi /\ hi \in Nat
    BY <1>3, <2>1
  <2>3. at[k + 1] <= Timeline(cf)[kr - 1].start + br
    BY <1>2, <2>2
  <2>4. IsMessage(cf, bd, q[k], at[k], at[k + 1])
    BY <1>3
  <2>5. QED
    BY <2>2, <2>3, <2>4, LateMessage
<1>5. ChainAt(cf, bd2, q, lo, hi, at)
  BY <1>1, <1>4 DEF ChainAt, n
<1>6. QED
  BY <1>5 DEF Chain

---------------------------------------------------------------------------
(* What the place of a party says of its calls.                             *)

LEMMA PartySame ==
    ASSUME NEW cf, NEW ks, NEW rs, NEW us, NEW p, PartyOk(cf, ks, rs, us, p), N(cf) \in Nat, NEW rs2, NEW us2,
           \A k \in 1..N(cf) : k <= Returned(p) => rs2[k] = rs[k],
           p.pc \in Busy => \A b \in 1..p.blk : /\ rs2[Returned(p) + 1][b] = rs[Returned(p) + 1][b]
                                               /\ us2[Returned(p) + 1][b] = us[Returned(p) + 1][b]
    PROVE  PartyOk(cf, ks, rs2, us2, p)
<1>1. OutOk(cf, rs, p)
  BY DEF PartyOk
<1>2. OutOk(cf, rs2, p)
  <2>1. \A k \in 1..Returned(p) : k \in 1..N(cf) /\ k <= Returned(p)
    BY <1>1 DEF OutOk
  <2>2. QED
    BY <1>1, <2>1 DEF OutOk
<1>3. ASSUME p.pc \in Busy PROVE BusyOk(cf, ks, rs2, us2, p)
  <2>1. BusyOk(cf, ks, rs, us, p)
    BY <1>3 DEF PartyOk
  <2>2. /\ Upto(rs2[Returned(p) + 1], p.blk) = Upto(rs[Returned(p) + 1], p.blk)
        /\ Upto(us2[Returned(p) + 1], p.blk) = Upto(us[Returned(p) + 1], p.blk)
    BY <1>3 DEF Upto
  <2>3. QED
    BY <2>1, <2>2 DEF BusyOk
<1>4. QED
  BY <1>2, <1>3 DEF PartyOk

LEMMA BusyPlace ==
    ASSUME NEW cf \in Confs, NEW ks, NEW rs, NEW us, NEW p, PartyOk(cf, ks, rs, us, p), p.pc \in Busy
    PROVE  LET k == Returned(p) + 1 IN
           /\ k \in 1..N(cf) /\ IsExt(cf, k) /\ k - 1 = Returned(p) /\ ~Rejected(CfgOf(cf))
           /\ p.blk \in Nat /\ p.blk <= Blocks(cf, k) /\ Blocks(cf, k) \in Nat /\ Blocks(cf, k) >= 1
           /\ Size(cf, k) \in Nat /\ Size(cf, k) = Blocks(cf, k) + (IF CfgOf(cf).mal THEN 1 ELSE 0)
           /\ (p.pc = "ext" <=> p.blk # Blocks(cf, k)) /\ (p.pc \in {"check", "seed", "verify"} => CfgOf(cf).mal)
           /\ Timeline(cf)[Returned(p)].start \in Nat
           /\ Place(cf, p) = Timeline(cf)[Returned(p)].start + (IF p.pc = "payload" THEN Size(cf, k) ELSE p.blk)
<1> DEFINE k == Returned(p) + 1
           st == Timeline(cf)[Returned(p)].start
<1>1. OutOk(cf, rs, p) /\ BusyOk(cf, ks, rs, us, p) /\ (p.pc = "ext" <=> p.blk # Blocks(cf, k))
      /\ (p.pc \in {"check", "seed", "verify"} => CfgOf(cf).mal)
  BY DEF PartyOk
<1>2. IsExt(cf, k) /\ p.blk \in 0..Blocks(cf, k) /\ ~Rejected(CfgOf(cf))
  BY <1>1 DEF BusyOk
<1>3. k \in 1..N(cf) /\ k - 1 = Returned(p) /\ st \in Nat
  BY <1>1, <1>2, PlaceType DEF IsExt
<1>4. Blocks(cf, k) \in Nat /\ Blocks(cf, k) >= 1 /\ Size(cf, k) \in Nat
  BY <1>2, <1>3, CallFacts
<1>5. p.blk \in Nat /\ p.blk <= Blocks(cf, k)
  BY <1>2, <1>4
<1>6. Size(cf, k) = Blocks(cf, k) + (IF CfgOf(cf).mal THEN 1 ELSE 0)
  BY DEF Size
<1>7. Place(cf, p) = st + (p.blk + (IF p.pc = "payload" /\ CfgOf(cf).mal THEN 1 ELSE 0))
  BY DEF Place
<1> HIDE DEF k, st
<1>8. p.pc = "payload" => p.blk = Blocks(cf, k)
  BY <1>1
<1>9. Place(cf, p) = st + (IF p.pc = "payload" THEN Size(cf, k) ELSE p.blk)
  BY <1>3, <1>4, <1>5, <1>6, <1>7, <1>8
<1>10. QED
  BY <1>1, <1>2, <1>3, <1>4, <1>5, <1>6, <1>9 DEF k, st

(* A call that is checked has a hash.                                       *)
LEMMA CheckedWhole ==
    ASSUME NEW cf, CfgOf(cf).mal, ~Rejected(CfgOf(cf)), NEW k
    PROVE  Whole(cf, k)
  BY DEF Whole, Rejected, CfgOf

LEMMA PlaceAtLeast ==
    ASSUME NEW cf \in Confs, NEW ks, NEW rs, NEW us, NEW p, PartyOk(cf, ks, rs, us, p)
    PROVE  /\ Returned(p) \in 0..N(cf) /\ Returned(p) \in Nat /\ N(cf) \in Nat
           /\ Place(cf, p) \in Nat /\ Place(cf, p) >= Timeline(cf)[Returned(p)].start
           /\ p.pc \notin Busy => Place(cf, p) = Timeline(cf)[Returned(p)].start
<1>1. OutOk(cf, rs, p)
  BY DEF PartyOk
<1>2. Returned(p) \in 0..N(cf)
  BY <1>1 DEF OutOk
<1>3. CASE p.pc \in Busy
  BY <1>1, <1>2, <1>3, BusyPlace, PlaceType
<1>4. CASE p.pc \notin Busy
  BY <1>1, <1>2, <1>4, PlaceType
<1>5. QED
  BY <1>3, <1>4

(* A party whose place is not after block br of call kr.                    *)
LEMMA BehindPlace ==
    ASSUME NEW cf \in Confs, NEW ks, NEW rs, NEW us, NEW p, PartyOk(cf, ks, rs, us, p),
           NEW kr \in 1..N(cf), IsExt(cf, kr), NEW br \in Nat, br < Size(cf, kr),
           Place(cf, p) <= Timeline(cf)[kr - 1].start + br
    PROVE  /\ Returned(p) < kr
           /\ p.pc \in Busy /\ Returned(p) + 1 = kr =>
                 p.pc # "payload" /\ p.blk <= br /\ Place(cf, p) = Timeline(cf)[kr - 1].start + p.blk
<1>1. /\ Returned(p) \in 0..N(cf) /\ Returned(p) \in Nat /\ Place(cf, p) \in Nat /\ N(cf) \in Nat
      /\ Place(cf, p) >= Timeline(cf)[Returned(p)].start
  BY PlaceAtLeast
<1>2. Timeline(cf)[Returned(p)].start \in Nat /\ Timeline(cf)[kr - 1].start \in Nat /\ Size(cf, kr) \in Nat
  <2>1. Timeline(cf)[Returned(p)] \in Entry
    BY <1>1, TimelineFacts
  <2>2. Timeline(cf)[kr - 1] \in Entry
    BY StartStep1
  <2>3. QED
    BY <2>1, <2>2, CallFacts DEF Entry
<1>3. ASSUME Returned(p) >= kr PROVE FALSE
  <2>1. kr - 1 \in 0..N(cf) /\ kr - 1 < Returned(p) /\ kr - 1 + 1 = kr
    BY <1>1, <1>3
  <2>2. Timeline(cf)[kr - 1].start + Size(cf, kr) <= Timeline(cf)[Returned(p)].start
    BY <1>1, <2>1, StartOrder
  <2>3. QED
    BY <1>1, <1>2, <2>2
<1>4. ASSUME p.pc \in Busy, Returned(p) + 1 = kr
      PROVE  p.pc # "payload" /\ p.blk <= br /\ Place(cf, p) = Timeline(cf)[kr - 1].start + p.blk
  <2>1. kr - 1 = Returned(p)
    BY <1>1, <1>4
  <2>2. /\ p.blk \in Nat
        /\ Place(cf, p) = Timeline(cf)[kr - 1].start + (IF p.pc = "payload" THEN Size(cf, kr) ELSE p.blk)
    BY <1>4, <2>1, BusyPlace
  <2>3. QED
    BY <1>2, <2>2
<1>5. QED
  BY <1>1, <1>3, <1>4

---------------------------------------------------------------------------
(* The steps of the receiver, as changes of the pair.                       *)

(* It returns a call in which nothing is sent.                              *)
LEMMA RecvQuiet ==
    ASSUME NEW cf \in Confs, NEW dl \in SUBSET Cols, NEW bd, NEW p, NEW q, NEW ms, NEW rp, NEW sh,
           PairOk(cf, dl, bd, p, q, ms, rp, sh), p.pc = "idle",
           Returned(p) + 1 \in 1..N(cf), ~IsExt(cf, Returned(p) + 1),
           NEW p2, RecvOk(cf, bd, p2), p2.pc = "idle", Returned(p2) = Returned(p) + 1, Place(cf, p2) = Place(cf, p)
    PROVE  PairOk(cf, dl, bd, p2, q, ms, rp, sh)
<1>1. Returned(p) \in Nat /\ N(cf) \in Nat
  BY PlaceAtLeast DEF PairOk, RecvOk
<1>2. BadOk(cf, bd, p2)
  <2>1. \A e : BadAt(cf, e) => e[2] \in Nat
    BY <1>1 DEF BadAt
  <2>2. QED
    BY <1>1, <2>1 DEF PairOk, BadOk
<1>3. ASSUME q.pc # "rejected" PROVE Awaited(cf, p2, q, rp) /\ NotAhead(cf, p2, q)
  <2>1. Awaited(cf, p, q, rp) /\ NotAhead(cf, p, q)
    BY <1>3 DEF PairOk
  <2>2. rp = << >>
    BY <2>1 DEF Awaited
  <2>3. \A k \in 1..N(cf) : IsExt(cf, k) => (Returned(p2) >= k => Returned(p) >= k) /\ p2.pc # "payload"
    BY <1>1
  <2>4. QED
    BY <2>1, <2>2, <2>3 DEF Awaited, NotAhead
<1>4. QED
  BY <1>2, <1>3 DEF PairOk

LEMMA RecvBegins ==
    ASSUME NEW cf \in Confs, NEW dl \in SUBSET Cols, NEW bd, NEW p, NEW q, NEW ms, NEW rp, NEW sh,
           PairOk(cf, dl, bd, p, q, ms, rp, sh), p.pc = "idle",
           NEW p2, RecvOk(cf, bd, p2), p2.pc = "ext", Returned(p2) = Returned(p), Place(cf, p2) = Place(cf, p)
    PROVE  PairOk(cf, dl, bd, p2, q, ms, rp, sh)
<1>1. BadOk(cf, bd, p2)
  BY DEF PairOk, BadOk
<1>2. ASSUME q.pc # "rejected" PROVE Awaited(cf, p2, q, rp) /\ NotAhead(cf, p2, q)
  BY <1>2 DEF PairOk, Awaited, NotAhead
<1>3. QED
  BY <1>1, <1>2 DEF PairOk

(* It fails: because its settings are rejected, or on a closed socket.      *)
LEMMA RecvStops ==
    ASSUME NEW cf \in Confs, NEW dl \in SUBSET Cols, NEW bd, NEW p, NEW q, NEW ms, NEW rp, NEW sh \in BOOLEAN,
           PairOk(cf, dl, bd, p, q, ms, rp, sh),
           (p.pc = "idle" /\ Rejected(CfgOf(cf))) \/ (p.pc \in Busy /\ sh),
           NEW p2, p2 = [p EXCEPT !.pc = "failed"]
    PROVE  PairOk(cf, dl, bd, p2, q, ms, rp, TRUE)
<1>1. PartyOk(cf, RecvKeys(cf), RecvRows(cf), SentU(cf, bd), p)
  BY DEF PairOk, RecvOk
<1>2. /\ PartyOk(cf, RecvKeys(cf), RecvRows(cf), SentU(cf, bd), p2) /\ p2.pc = "failed"
      /\ Returned(p2) = Returned(p)
  BY <1>1, PartyStops
<1>3. RecvOk(cf, bd, p2)
  BY <1>2 DEF RecvOk
<1>4. BadOk(cf, bd, p2)
  <2>1. DOMAIN p = PartyFields
    BY <1>1 DEF PartyOk, OutOk
  <2>2. p2.blk = p.blk
    BY <2>1 DEF PartyFields
  <2>3. QED
    BY <1>2, <2>2 DEF PairOk, BadOk
<1>5. CASE p.pc = "idle" /\ Rejected(CfgOf(cf))
  <2>1. Place(cf, p2) = Place(cf, p)
    BY <1>1, <1>2, <1>5, PlaceAtLeast, ZenonT(40) DEF Busy
  <2>2. ASSUME q.pc # "rejected" PROVE Awaited(cf, p2, q, rp) /\ NotAhead(cf, p2, q)
    BY <1>2, <1>5, <2>2 DEF PairOk, Awaited, NotAhead
  <2>3. QED
    BY <1>2, <1>3, <1>4, <1>5, <2>1, <2>2 DEF PairOk
<1>6. CASE p.pc \in Busy /\ sh
  <2>1. ~Rejected(CfgOf(cf))
    BY <1>1, <1>6, BusyPlace
  <2>2. q.pc = "rejected"
    BY <1>6, <2>1 DEF PairOk
  <2>3. QED
    BY <1>2, <1>3, <1>4, <1>6, <2>2 DEF PairOk
<1>7. QED
  BY <1>5, <1>6

(* The chosen message arrives.                                             *)
LEMMA RecvUnmasks ==
    ASSUME NEW cf \in Confs, NEW dl \in SUBSET Cols, NEW bd, NEW p, NEW q, NEW ms, NEW rp, NEW sh,
           PairOk(cf, dl, bd, p, q, ms, rp, sh), p.pc = "payload", rp # << >> \/ q.pc = "rejected",
           NEW p2, p2 = Return(p, p.t)
    PROVE  /\ PairOk(cf, dl, bd, p2, q, ms, Tail(rp), sh)
<1> DEFINE k == Returned(p) + 1
<1>1. PartyOk(cf, RecvKeys(cf), RecvRows(cf), SentU(cf, bd), p)
  BY DEF PairOk, RecvOk
<1>2. p.pc \in Busy
  BY DEF Busy
<1>3. /\ k \in 1..N(cf) /\ IsExt(cf, k) /\ Place(cf, p) = Timeline(cf)[Returned(p)].start + Size(cf, k)
      /\ p.blk = Blocks(cf, k) /\ Returned(p) \in Nat /\ N(cf) \in Nat
  BY <1>1, <1>2, BusyPlace, PlaceAtLeast
<1>4. /\ PartyOk(cf, RecvKeys(cf), RecvRows(cf), SentU(cf, bd), p2) /\ p2.pc = "idle" /\ Returned(p2) = k
      /\ Place(cf, p2) = Timeline(cf)[Returned(p)].start + Size(cf, k)
  <2>1. OutOk(cf, RecvRows(cf), p) /\ BusyOk(cf, RecvKeys(cf), RecvRows(cf), SentU(cf, bd), p)
    BY <1>1, <1>2 DEF PartyOk
  <2>2. RowsOk(cf, RecvRows(cf))
    BY AllRowsOk
  <2>3. QED
    BY <1>3, <2>1, <2>2, PartyEnds
<1>5. RecvOk(cf, bd, p2)
  BY <1>4 DEF RecvOk
<1>6. BadOk(cf, bd, p2)
  <2>1. \A e : BadAt(cf, e) => e[2] \in Nat
    BY <1>3 DEF BadAt
  <2>2. QED
    BY <1>3, <1>4, <2>1 DEF PairOk, BadOk
<1>7. ASSUME q.pc # "rejected" PROVE Awaited(cf, p2, q, Tail(rp)) /\ NotAhead(cf, p2, q)
  <2>1. Awaited(cf, p, q, rp) /\ NotAhead(cf, p, q)
    BY <1>7 DEF PairOk
  <2>2. rp = << [kind |-> "payload"] >> /\ Returned(q) > Returned(p)
    BY <1>7, <2>1 DEF Awaited
  <2>3. Tail(rp) = << >>
    BY <2>2
  <2>4. Returned(q) \in Nat
    BY PlaceAtLeast DEF PairOk, SendOk
  <2>5. \A j \in 1..N(cf) : Returned(p2) >= j => Returned(p) >= j \/ Returned(q) >= j
    BY <1>3, <1>4, <2>2, <2>4
  <2>6. QED
    BY <1>4, <2>1, <2>3, <2>5 DEF Awaited, NotAhead
<1>8. QED
  BY <1>3, <1>4, <1>5, <1>6, <1>7 DEF PairOk

(* A call whose rows are complete.                                          *)
AfterRowsOf(cf, p) ==
    IF OpOf(cf, Returned(p) + 1).payload THEN [p EXCEPT !.pc = "payload"] ELSE Return(p, p.t)

LEMMA PartyAfterRows ==
    ASSUME NEW cf \in Confs, NEW ks, NEW rs, NEW us, RowsOk(cf, rs), NEW p,
           OutOk(cf, rs, p), BusyOk(cf, ks, rs, us, p), p.blk = Blocks(cf, Returned(p) + 1),
           NEW q, q = AfterRowsOf(cf, p)
    PROVE  /\ PartyOk(cf, ks, rs, us, q)
           /\ Place(cf, q) = Timeline(cf)[Returned(p)].start + Size(cf, Returned(p) + 1)
           /\ \/ q.pc = "payload" /\ Returned(q) = Returned(p) /\ q.blk = p.blk
              \/ q.pc = "idle" /\ Returned(q) = Returned(p) + 1 /\ ~OpOf(cf, Returned(p) + 1).payload
<1>1. CASE OpOf(cf, Returned(p) + 1).payload
  <2>1. q = [p EXCEPT !.pc = "payload"] /\ "payload" \in Busy
    BY <1>1 DEF AfterRowsOf, Busy
  <2>2. /\ PartyOk(cf, ks, rs, us, q) /\ q.pc = "payload" /\ Returned(q) = Returned(p) /\ q.blk = p.blk
        /\ Place(cf, q) = Timeline(cf)[Returned(p)].start + Size(cf, Returned(p) + 1)
    BY <1>1, <2>1, PartyMoves
  <2>3. QED
    BY <2>2
<1>2. CASE ~OpOf(cf, Returned(p) + 1).payload
  <2>1. q = Return(p, p.t)
    BY <1>2 DEF AfterRowsOf
  <2>2. /\ PartyOk(cf, ks, rs, us, q) /\ q.pc = "idle" /\ Returned(q) = Returned(p) + 1
        /\ Place(cf, q) = Timeline(cf)[Returned(p)].start + Size(cf, Returned(p) + 1)
    BY <2>1, PartyEnds
  <2>3. QED
    BY <1>2, <2>2
<1>3. QED
  BY <1>1, <1>2

(* The receiver proves that its blocks are consistent.                      *)
LEMMA RecvProves ==
    ASSUME NEW cf \in Confs, NEW dl \in SUBSET Cols, NEW bd, NEW p, NEW q, NEW ms, NEW rp, NEW sh,
           PairOk(cf, dl, bd, p, q, ms, rp, sh), p.pc = "check", ~sh, cf.fs \/ rp # << >>,
           NEW rp2, rp2 = IF cf.fs THEN rp ELSE Tail(rp), NEW p2, p2 = AfterRowsOf(cf, p)
    PROVE  PairOk(cf, dl, bd, p2, q, Append(ms, ProofAt(cf, bd, Returned(p) + 1)), rp2, sh)
<1> DEFINE k == Returned(p) + 1
           ms2 == Append(ms, ProofAt(cf, bd, k))
<1>1. PartyOk(cf, RecvKeys(cf), RecvRows(cf), SentU(cf, bd), p)
  BY DEF PairOk, RecvOk
<1>2. p.pc \in Busy
  BY DEF Busy
<1>3. /\ k \in 1..N(cf) /\ IsExt(cf, k) /\ Place(cf, p) = Timeline(cf)[Returned(p)].start + Blocks(cf, k)
      /\ p.blk = Blocks(cf, k) /\ Returned(p) \in Nat /\ N(cf) \in Nat /\ CfgOf(cf).mal /\ k - 1 = Returned(p)
      /\ Blocks(cf, k) \in Nat /\ Size(cf, k) = Blocks(cf, k) + 1 /\ Timeline(cf)[Returned(p)].start \in Nat
  BY <1>1, <1>2, BusyPlace, PlaceAtLeast
<1>4. /\ PartyOk(cf, RecvKeys(cf), RecvRows(cf), SentU(cf, bd), p2)
      /\ Place(cf, p2) = Timeline(cf)[Returned(p)].start + Size(cf, k)
      /\ \/ p2.pc = "payload" /\ Returned(p2) = Returned(p) /\ p2.blk = p.blk
         \/ p2.pc = "idle" /\ Returned(p2) = k /\ ~OpOf(cf, k).payload
  <2>1. OutOk(cf, RecvRows(cf), p) /\ BusyOk(cf, RecvKeys(cf), RecvRows(cf), SentU(cf, bd), p)
    BY <1>1, <1>2 DEF PartyOk
  <2>2. RowsOk(cf, RecvRows(cf))
    BY AllRowsOk
  <2>3. QED
    BY <1>3, <2>1, <2>2, PartyAfterRows
<1>5. q.pc # "rejected"
  BY DEF PairOk
<1>6. RecvOk(cf, bd, p2)
  BY <1>4 DEF RecvOk
<1>7. BadOk(cf, bd, p2)
  <2>1. \A e : BadAt(cf, e) => e[2] \in Nat
    BY <1>3 DEF BadAt
  <2>2. QED
    BY <1>3, <1>4, <2>1 DEF PairOk, BadOk
<1>8. Chain(cf, bd, ms2, Place(cf, q), Place(cf, p2))
  <2>1. Chain(cf, bd, ms, Place(cf, q), Place(cf, p))
    BY <1>5 DEF PairOk
  <2>2. Place(cf, p2) = Place(cf, p) + 1 /\ Place(cf, p) \in Nat
    BY <1>3, <1>4
  <2>3. IsMessage(cf, bd, ProofAt(cf, bd, k), Place(cf, p), Place(cf, p2))
    BY <1>3, <2>2 DEF IsMessage, IsProof
  <2>4. Place(cf, p2) \in Nat /\ Place(cf, p) < Place(cf, p2)
    BY <2>2
  <2>5. QED
    BY <2>1, <2>3, <2>4, ChainAppend
<1>9. Awaited(cf, p2, q, rp2) /\ NotAhead(cf, p2, q)
  <2>1. Awaited(cf, p, q, rp) /\ NotAhead(cf, p, q)
    BY <1>5 DEF PairOk
  <2>2. \/ rp = << >> /\ cf.fs
        \/ rp = << [kind |-> "seed", seed |-> << >>] >> /\ Returned(p) = Returned(q) /\ q.pc = "verify" /\ ~cf.fs
    BY <2>1 DEF Awaited
  <2>3. rp2 = << >>
    BY <2>2, SMTT(30)
  <2>4. ASSUME NEW j \in 1..N(cf), IsExt(cf, j)
        PROVE  /\ (CfgOf(cf).mal /\ ~cf.fs
                      /\ (Returned(p2) >= j \/ (Returned(p2) = j - 1 /\ p2.pc = "payload"))) =>
                     Returned(q) >= j \/ (Returned(q) = j - 1 /\ q.pc \in {"verify", "payload"})
               /\ OpOf(cf, j).payload /\ Returned(p2) >= j => Returned(q) >= j
    <3>1. j = k \/ (Returned(p2) >= j => Returned(p) >= j)
      BY <1>3, <1>4
    <3>2. Returned(p2) = j - 1 /\ p2.pc = "payload" => j = k
      BY <1>3, <1>4
    <3>3. CASE j = k
      BY <1>3, <1>4, <2>2, <3>3
    <3>4. CASE j # k
      BY <2>1, <2>4, <3>1, <3>2, <3>4 DEF NotAhead
    <3>5. QED
      BY <3>3, <3>4
  <2>5. QED
    BY <2>3, <2>4 DEF Awaited, NotAhead
<1>10. QED
  BY <1>4, <1>5, <1>6, <1>7, <1>8, <1>9 DEF PairOk

(* It cheats in the blocks it is about to send: what there is stays.        *)
LEMMA LatePair ==
    ASSUME NEW cf \in Confs, NEW dl \in SUBSET Cols, NEW bd, NEW p, NEW q, NEW ms,
           RecvOk(cf, bd, p), p.pc = "ext", SendOk(cf, dl, bd, q), q.pc \notin {"failed", "rejected"},
           Chain(cf, bd, ms, Place(cf, q), Place(cf, p)), \A k \in 1..Passed(q) : ~Hit(dl, bd, k),
           NEW bd2, SameBefore(bd, bd2, Returned(p) + 1, p.blk)
    PROVE  /\ RecvOk(cf, bd2, p) /\ SendOk(cf, dl, bd2, q)
           /\ Chain(cf, bd2, ms, Place(cf, q), Place(cf, p))
           /\ \A k \in 1..Passed(q) : ~Hit(dl, bd2, k)
<1> DEFINE kr == Returned(p) + 1
           br == p.blk
<1>1. /\ PartyOk(cf, RecvKeys(cf), RecvRows(cf), SentU(cf, bd), p)
      /\ PartyOk(cf, SendKeys(cf, dl), SendRows(cf, dl, bd), SentU(cf, bd), q)
  BY DEF RecvOk, SendOk
<1>2. p.pc \in Busy
  BY DEF Busy
<1>3. /\ kr \in 1..N(cf) /\ IsExt(cf, kr) /\ Place(cf, p) = Timeline(cf)[Returned(p)].start + br
      /\ br # Blocks(cf, kr) /\ br \in Nat /\ br <= Blocks(cf, kr) /\ Returned(p) \in Nat /\ N(cf) \in Nat
      /\ kr - 1 = Returned(p) /\ kr \in Nat /\ ~Rejected(CfgOf(cf))
      /\ Blocks(cf, kr) \in Nat /\ Blocks(cf, kr) <= Size(cf, kr) /\ Size(cf, kr) \in Nat
  BY <1>1, <1>2, BusyPlace, PlaceAtLeast
<1>4. br < Blocks(cf, kr) /\ br < Size(cf, kr)
  BY <1>3
<1>5. Chain(cf, bd, ms, Place(cf, q), Place(cf, p))
  OBVIOUS
<1>6. Place(cf, q) <= Timeline(cf)[kr - 1].start + br
  BY <1>3, <1>5, ChainEnds
<1>7. /\ Returned(q) < kr
      /\ q.pc \in Busy /\ Returned(q) + 1 = kr => q.pc # "payload" /\ q.blk <= br
  BY <1>1, <1>3, <1>4, <1>6, BehindPlace
<1>8. SameBefore(bd, bd2, kr, br)
  OBVIOUS
<1> HIDE DEF kr, br
<1>9. Chain(cf, bd2, ms, Place(cf, q), Place(cf, p))
  <2>1. Place(cf, p) <= Timeline(cf)[kr - 1].start + br
    <3>1. Timeline(cf)[kr - 1].start \in Nat
      <4>1. Timeline(cf)[kr - 1] \in Entry
        BY <1>3, StartStep1
      <4>2. QED
        BY <4>1 DEF Entry
    <3>2. QED
      BY <1>3, <3>1
  <2>2. QED
    BY <1>3, <1>4, <1>5, <1>8, <2>1, LateChain
<1>10. PartyOk(cf, RecvKeys(cf), RecvRows(cf), SentU(cf, bd2), p)
  <2>1. ASSUME NEW b \in 1..p.blk PROVE SentU(cf, bd2)[Returned(p) + 1][b] = SentU(cf, bd)[Returned(p) + 1][b]
    <3>1. b \in 1..Blocks(cf, kr) /\ b - 1 < br
      BY <1>3, <1>4 DEF br
    <3>2. SentU(cf, bd2)[kr][b] = SentU(cf, bd)[kr][b]
      BY <1>3, <1>8, <3>1, LateKeeps
    <3>3. QED
      BY <3>2 DEF kr
  <2>2. QED
    BY <1>1, <1>3, <2>1, PartySame
<1>11. PartyOk(cf, SendKeys(cf, dl), SendRows(cf, dl, bd2), SentU(cf, bd2), q)
  <2>1. Returned(q) \in Nat
    BY <1>1, PlaceAtLeast
  <2>2. ASSUME NEW k \in 1..N(cf), k <= Returned(q) PROVE SendRows(cf, dl, bd2)[k] = SendRows(cf, dl, bd)[k]
    <3>1. k < kr
      BY <1>3, <1>7, <2>1, <2>2
    <3>2. SentU(cf, bd2)[k] = SentU(cf, bd)[k] /\ \A d : SendRows(cf, d, bd2)[k] = SendRows(cf, d, bd)[k]
      BY <1>3, <1>8, <3>1, LateCalls
    <3>3. QED
      BY <3>2
  <2>3. ASSUME q.pc \in Busy, NEW b \in 1..q.blk
        PROVE  /\ SendRows(cf, dl, bd2)[Returned(q) + 1][b] = SendRows(cf, dl, bd)[Returned(q) + 1][b]
               /\ SentU(cf, bd2)[Returned(q) + 1][b] = SentU(cf, bd)[Returned(q) + 1][b]
    <3>1. PICK k : k = Returned(q) + 1
      OBVIOUS
    <3>2. /\ k \in 1..N(cf) /\ IsExt(cf, k) /\ q.blk \in Nat /\ q.blk <= Blocks(cf, k) /\ Blocks(cf, k) \in Nat
      BY <1>1, <2>3, <3>1, BusyPlace
    <3>3. b \in 1..Blocks(cf, k) /\ (k < kr \/ (k = kr /\ b - 1 < br))
      BY <1>3, <1>7, <2>1, <2>3, <3>1, <3>2
    <3>4. /\ SendRows(cf, dl, bd2)[k][b] = SendRows(cf, dl, bd)[k][b]
          /\ SentU(cf, bd2)[k][b] = SentU(cf, bd)[k][b]
      BY <1>3, <1>8, <3>2, <3>3, LateKeeps
    <3>5. QED
      BY <3>1, <3>4
  <2>4. QED
    BY <1>1, <1>3, <2>2, <2>3, PartySame
<1>12. ASSUME NEW k \in 1..Passed(q) PROVE ~Hit(dl, bd2, k)
  <2>1. Returned(q) \in Nat
    BY <1>1, PlaceAtLeast
  <2>2. k # kr
    <3>1. q.pc = "payload" => Returned(q) + 1 # kr
      BY <1>7 DEF Busy
    <3>2. QED
      BY <1>3, <1>7, <2>1, <3>1 DEF Passed
  <2>3. ~Hit(dl, bd, k)
    OBVIOUS
  <2>4. QED
    BY <1>8, <2>2, <2>3 DEF Hit, SameBefore
<1>13. QED
  BY <1>9, <1>10, <1>11, <1>12 DEF RecvOk, SendOk

(* It sends a buffer of u.                                                  *)
RecvAfterOf(cf, p) ==
    IF p.blk < Blocks(cf, Returned(p) + 1) THEN p
    ELSE IF CfgOf(cf).mal THEN [p EXCEPT !.pc = "check"] ELSE AfterRowsOf(cf, p)

LEMMA RecvSends ==
    ASSUME NEW cf \in Confs, NEW dl \in SUBSET Cols, NEW bd, NEW p, NEW q, NEW ms, NEW rp, NEW sh,
           PairOk(cf, dl, bd, p, q, ms, rp, sh), p.pc = "ext", ~sh,
           NEW step, step = MinOf(Blocks(cf, Returned(p) + 1) - p.blk, CommStep),
           NEW bd2, SameBefore(bd, bd2, Returned(p) + 1, p.blk),
           \A e \in bd2 \ bd : CfgOf(cf).mal /\ BadAt(cf, e) /\ e[3] < p.blk + step,
           NEW rows, rows = [j \in 1..step |-> RecvRows(cf)[Returned(p) + 1][p.blk + j]],
           NEW u, u = [j \in 1..step |-> SentU(cf, bd2)[Returned(p) + 1][p.blk + j]],
           NEW p2, p2 = RecvAfterOf(cf, Took(p, step, rows, u))
    PROVE  PairOk(cf, dl, bd2, p2, q, Append(ms, [kind |-> "u", u |-> u]), rp, sh)
<1> DEFINE k == Returned(p) + 1
           m == [kind |-> "u", u |-> u]
<1>1. PICK p1 : p1 = Took(p, step, rows, u)
  OBVIOUS
<1>2. /\ RecvOk(cf, bd2, p) /\ SendOk(cf, dl, bd2, q) /\ q.pc # "rejected"
      /\ Chain(cf, bd2, ms, Place(cf, q), Place(cf, p)) /\ \A j \in 1..Passed(q) : ~Hit(dl, bd2, j)
  <2>1. RecvOk(cf, bd, p) /\ SendOk(cf, dl, bd, q) /\ \A j \in 1..Passed(q) : ~Hit(dl, bd, j)
    BY DEF PairOk
  <2>2. ~Rejected(CfgOf(cf))
    BY <2>1, BusyPlace DEF RecvOk, Busy
  <2>3. q.pc \notin {"failed", "rejected"}
    BY <2>2 DEF PairOk
  <2>4. Chain(cf, bd, ms, Place(cf, q), Place(cf, p))
    BY <2>3 DEF PairOk
  <2>5. QED
    BY <2>1, <2>3, <2>4, LatePair
<1>3. PartyOk(cf, RecvKeys(cf), RecvRows(cf), SentU(cf, bd2), p) /\ p.pc \in Busy
  BY <1>2 DEF RecvOk, Busy
<1>4. /\ k \in 1..N(cf) /\ IsExt(cf, k) /\ k - 1 = Returned(p) /\ Returned(p) \in Nat /\ N(cf) \in Nat
      /\ p.blk # Blocks(cf, k) /\ p.blk \in Nat /\ p.blk <= Blocks(cf, k) /\ Blocks(cf, k) \in Nat
      /\ Size(cf, k) \in Nat /\ Size(cf, k) = Blocks(cf, k) + (IF CfgOf(cf).mal THEN 1 ELSE 0)
      /\ Timeline(cf)[Returned(p)].start \in Nat /\ Place(cf, p) = Timeline(cf)[Returned(p)].start + p.blk
      /\ CfgOf(cf).mal \in BOOLEAN /\ cf.fs \in BOOLEAN
  BY <1>3, BusyPlace, PlaceAtLeast, CallFacts
<1>5. /\ OutOk(cf, RecvRows(cf), p1) /\ BusyOk(cf, RecvKeys(cf), RecvRows(cf), SentU(cf, bd2), p1)
      /\ p1.pc = "ext" /\ Returned(p1) = Returned(p) /\ step \in Nat /\ step >= 1 /\ p1.blk = p.blk + step
  <2>1. PICK x, v : x = rows /\ v = u
    OBVIOUS
  <2>2. x = Slice(RecvRows(cf)[Returned(p) + 1], p.blk, step) /\ v = Slice(SentU(cf, bd2)[Returned(p) + 1], p.blk, step)
    BY <2>1 DEF Slice
  <2>3. p1 = Took(p, step, x, v)
    BY <1>1, <2>1
  <2>4. QED
    BY <1>3, <2>2, <2>3, PartyTookAll
<1>6. p.blk + step <= Blocks(cf, k)
  <2>1. ASSUME NEW x \in Nat PROVE MinOf(x, CommStep) <= x
    BY KosAssumption DEF MinOf
  <2>2. Blocks(cf, k) - p.blk \in Nat /\ step = MinOf(Blocks(cf, k) - p.blk, CommStep)
    BY <1>4
  <2>3. step <= Blocks(cf, k) - p.blk
    BY <2>1, <2>2
  <2>4. QED
    BY <1>4, <1>5, <2>3
<1>7. /\ PartyOk(cf, RecvKeys(cf), RecvRows(cf), SentU(cf, bd2), p2)
      /\ Place(cf, p2) = Timeline(cf)[Returned(p)].start + (p.blk + step)
      /\ \/ p2.pc \in {"ext", "check"} /\ Returned(p2) = Returned(p) /\ p2.blk = p.blk + step
         \/ p2.pc = "payload" /\ Returned(p2) = Returned(p) /\ p2.blk = p.blk + step /\ ~CfgOf(cf).mal
         \/ p2.pc = "idle" /\ Returned(p2) = k /\ ~CfgOf(cf).mal /\ ~OpOf(cf, k).payload
  <2>1. p2 = RecvAfterOf(cf, p1)
    BY <1>1
  <2>2. CASE p1.blk < Blocks(cf, k)
    <3>1. p2 = p1 /\ p1.blk # Blocks(cf, Returned(p1) + 1)
      BY <1>4, <1>5, <2>1, <2>2, SMTT(30) DEF RecvAfterOf
    <3>2. PartyOk(cf, RecvKeys(cf), RecvRows(cf), SentU(cf, bd2), p1) /\ p1.pc \in Busy
      BY <1>5, <3>1 DEF PartyOk, Busy
    <3>3. Place(cf, p1) = Timeline(cf)[Returned(p1)].start + p1.blk
      BY <1>5, <3>2, BusyPlace, ZenonT(40)
    <3>4. QED
      BY <1>5, <3>1, <3>2, <3>3
  <2>3. CASE p1.blk = Blocks(cf, k) /\ CfgOf(cf).mal
    <3>1. p2 = [p1 EXCEPT !.pc = "check"] /\ "check" \in Busy
      <4>1. Blocks(cf, Returned(p1) + 1) = Blocks(cf, k) /\ ~(Blocks(cf, k) < Blocks(cf, k))
        BY <1>4, <1>5
      <4>2. QED
        BY <2>1, <2>3, <4>1 DEF RecvAfterOf, Busy
    <3>2. p1.blk = Blocks(cf, Returned(p1) + 1)
      BY <1>5, <2>3
    <3>3. /\ PartyOk(cf, RecvKeys(cf), RecvRows(cf), SentU(cf, bd2), p2) /\ p2.pc = "check"
          /\ Returned(p2) = Returned(p1) /\ p2.blk = p1.blk
          /\ Place(cf, p2) = Timeline(cf)[Returned(p1)].start + p1.blk
      BY <1>5, <2>3, <3>1, <3>2, PartyMoves
    <3>4. QED
      BY <1>5, <3>3
  <2>4. CASE p1.blk = Blocks(cf, k) /\ ~CfgOf(cf).mal
    <3>1. p2 = AfterRowsOf(cf, p1) /\ p1.blk = Blocks(cf, Returned(p1) + 1)
      <4>1. Blocks(cf, Returned(p1) + 1) = Blocks(cf, k) /\ ~(Blocks(cf, k) < Blocks(cf, k))
        BY <1>4, <1>5
      <4>2. QED
        BY <2>1, <2>4, <4>1 DEF RecvAfterOf
    <3>2. RowsOk(cf, RecvRows(cf))
      BY AllRowsOk
    <3>3. /\ PartyOk(cf, RecvKeys(cf), RecvRows(cf), SentU(cf, bd2), p2)
          /\ Place(cf, p2) = Timeline(cf)[Returned(p1)].start + Size(cf, Returned(p1) + 1)
          /\ \/ p2.pc = "payload" /\ Returned(p2) = Returned(p1) /\ p2.blk = p1.blk
             \/ p2.pc = "idle" /\ Returned(p2) = Returned(p1) + 1 /\ ~OpOf(cf, Returned(p1) + 1).payload
      BY <1>5, <3>1, <3>2, PartyAfterRows
    <3>4. Size(cf, k) = p.blk + step /\ Returned(p1) + 1 = k
      BY <1>4, <1>5, <2>4
    <3>5. Place(cf, p2) = Timeline(cf)[Returned(p)].start + (p.blk + step)
      BY <1>5, <3>3, <3>4
    <3>6. QED
      BY <1>5, <2>4, <3>3, <3>4, <3>5
  <2>5. p1.blk < Blocks(cf, k) \/ p1.blk = Blocks(cf, k)
    <3>1. PICK x, n : x = p1.blk /\ n = Blocks(cf, k)
      OBVIOUS
    <3>2. x \in Nat /\ n \in Nat /\ x <= n
      BY <1>4, <1>5, <1>6, <3>1
    <3>3. x < n \/ x = n
      BY <3>2
    <3>4. QED
      BY <3>1, <3>3
  <2>6. QED
    BY <1>4, <2>2, <2>3, <2>4, <2>5
<1>8. RecvOk(cf, bd2, p2)
  BY <1>7 DEF RecvOk
<1>9. BadOk(cf, bd2, p2)
  <2>1. ASSUME NEW e \in bd2, e[1] = Root
        PROVE  /\ CfgOf(cf).mal /\ BadAt(cf, e) /\ e[2] \in Nat /\ e[3] \in Nat
               /\ e[2] <= Returned(p) \/ (e[2] = k /\ e[3] < p.blk + step)
    <3>1. BadAt(cf, e) => e[2] \in Nat /\ e[3] \in Nat
      BY <1>4 DEF BadAt
    <3>2. CASE e \in bd
      <4>1. /\ CfgOf(cf).mal /\ BadAt(cf, e) /\ (e[2] <= Returned(p) \/ (e[2] = k /\ e[3] < p.blk))
        BY <2>1, <3>2 DEF PairOk, BadOk
      <4>2. QED
        BY <1>4, <1>5, <3>1, <4>1, SMTT(30)
    <3>3. CASE e \notin bd
      BY <2>1, <3>1, <3>3 DEF SameBefore
    <3>4. QED
      BY <3>2, <3>3
  <2>2. QED
    BY <1>4, <1>7, <2>1 DEF BadOk
<1>10. Chain(cf, bd2, Append(ms, m), Place(cf, q), Place(cf, p2))
  <2>1. Place(cf, p2) = Place(cf, p) + step /\ Place(cf, p) \in Nat /\ Place(cf, p) < Place(cf, p2)
        /\ Place(cf, p2) \in Nat /\ Place(cf, p2) - Place(cf, p) = step
    <3>1. PICK x, y, z : x = Timeline(cf)[Returned(p)].start /\ y = Place(cf, p) /\ z = Place(cf, p2)
      OBVIOUS
    <3>2. PICK b : b = p.blk
      OBVIOUS
    <3>3. x \in Nat /\ b \in Nat /\ step \in Nat /\ step >= 1
      BY <1>4, <1>5, <3>1, <3>2
    <3>4. y = x + b
      BY <1>4, <3>1, <3>2
    <3>5. z = x + (b + step)
      BY <1>7, <3>1, <3>2
    <3> HIDE DEF k, m
    <3>6. z = y + step /\ y \in Nat /\ z \in Nat
      BY <3>3, <3>4, <3>5
    <3>7. y < z /\ z - y = step
      BY <3>3, <3>6
    <3>8. QED
      BY <3>1, <3>6, <3>7
  <2>2. IsUBlocks(cf, bd2, m, Place(cf, p), Place(cf, p2))
    <3>1. p.blk \in 0..(Blocks(cf, k) - 1)
      BY <1>4
    <3>2. /\ Place(cf, p) = Timeline(cf)[k - 1].start + p.blk
          /\ Place(cf, p2) = Place(cf, p) + MinOf(Blocks(cf, k) - p.blk, CommStep)
          /\ m = [kind |-> "u", u |-> [j \in 1..(Place(cf, p2) - Place(cf, p)) |-> SentU(cf, bd2)[k][p.blk + j]]]
      BY <1>4, <2>1
    <3> HIDE DEF k, m
    <3>3. QED
      BY <1>4, <3>1, <3>2 DEF IsUBlocks
  <2>3. IsMessage(cf, bd2, m, Place(cf, p), Place(cf, p2))
    BY <2>2 DEF IsMessage
  <2>4. QED
    BY <1>2, <2>1, <2>3, ChainAppend
<1>11. Awaited(cf, p2, q, rp) /\ NotAhead(cf, p2, q)
  <2>1. Awaited(cf, p, q, rp) /\ NotAhead(cf, p, q)
    BY <1>2 DEF PairOk
  <2>2. rp = << >>
    BY <2>1 DEF Awaited
  <2>3. ASSUME NEW j \in 1..N(cf), IsExt(cf, j)
        PROVE  /\ (CfgOf(cf).mal /\ ~cf.fs
                      /\ (Returned(p2) >= j \/ (Returned(p2) = j - 1 /\ p2.pc = "payload"))) =>
                     Returned(q) >= j \/ (Returned(q) = j - 1 /\ q.pc \in {"verify", "payload"})
               /\ OpOf(cf, j).payload /\ Returned(p2) >= j => Returned(q) >= j
    <3>1. \/ Returned(p2) >= j => Returned(p) >= j
          \/ ~CfgOf(cf).mal /\ ~OpOf(cf, j).payload
      <4>1. CASE Returned(p2) = Returned(p)
        BY <4>1
      <4>2. CASE Returned(p2) = k /\ ~CfgOf(cf).mal /\ ~OpOf(cf, k).payload
        <5>1. j = k \/ (k >= j => Returned(p) >= j)
          BY <1>4
        <5>2. QED
          BY <4>2, <5>1
      <4>3. QED
        BY <1>7, <4>1, <4>2
    <3>2. CfgOf(cf).mal => p2.pc # "payload"
      BY <1>7
    <3>3. QED
      BY <2>1, <2>3, <3>1, <3>2 DEF NotAhead
  <2>4. QED
    BY <2>2, <2>3 DEF Awaited, NotAhead
<1>12. QED
  BY <1>2, <1>7, <1>8, <1>9, <1>10, <1>11 DEF PairOk

---------------------------------------------------------------------------
(* The sender's steps. *)

LEMMA BeforeCall ==
    ASSUME NEW cf \in Confs, NEW ks, NEW rs, NEW us, NEW p, PartyOk(cf, ks, rs, us, p),
           NEW j \in 0..N(cf), Returned(p) < j
    PROVE  Place(cf, p) <= Timeline(cf)[j].start /\ Timeline(cf)[j].start \in Nat
<1>1. /\ Returned(p) \in 0..N(cf) /\ Returned(p) \in Nat /\ N(cf) \in Nat /\ Place(cf, p) \in Nat
      /\ p.pc \notin Busy => Place(cf, p) = Timeline(cf)[Returned(p)].start
  BY PlaceAtLeast
<1>2. /\ Timeline(cf)[Returned(p)].start <= Timeline(cf)[j].start
      /\ IsExt(cf, Returned(p) + 1) =>
            Timeline(cf)[Returned(p)].start + Size(cf, Returned(p) + 1) <= Timeline(cf)[j].start
  BY <1>1, StartOrder
<1>3. Timeline(cf)[j].start \in Nat
  <2>1. Timeline(cf)[j] \in Entry
    BY TimelineFacts
  <2>2. QED
    BY <2>1 DEF Entry
<1>4. CASE p.pc \in Busy
  <2>1. PICK k : k = Returned(p) + 1
    OBVIOUS
  <2>2. /\ IsExt(cf, k) /\ p.blk \in Nat /\ p.blk <= Blocks(cf, k) /\ Blocks(cf, k) \in Nat
        /\ Size(cf, k) \in Nat /\ Size(cf, k) = Blocks(cf, k) + (IF CfgOf(cf).mal THEN 1 ELSE 0)
        /\ Timeline(cf)[Returned(p)].start \in Nat
        /\ Place(cf, p) = Timeline(cf)[Returned(p)].start + (IF p.pc = "payload" THEN Size(cf, k) ELSE p.blk)
    BY <1>4, <2>1, BusyPlace
  <2>3. PICK x, y, z : x = Timeline(cf)[Returned(p)].start /\ y = Timeline(cf)[j].start /\ z = Size(cf, k)
    OBVIOUS
  <2>4. x \in Nat /\ y \in Nat /\ z \in Nat /\ p.blk <= z /\ x + z <= y
    BY <1>2, <1>3, <2>1, <2>2, <2>3
  <2>5. x + (IF p.pc = "payload" THEN z ELSE p.blk) <= y
    BY <2>2, <2>4
  <2>6. QED
    BY <1>3, <2>2, <2>3, <2>5
<1>5. QED
  BY <1>1, <1>2, <1>3, <1>4

LEMMA SendQuiet ==
    ASSUME NEW cf \in Confs, NEW dl \in SUBSET Cols, NEW bd, NEW p, NEW q, NEW ms, NEW rp, NEW sh,
           PairOk(cf, dl, bd, p, q, ms, rp, sh), q.pc = "idle",
           Returned(q) + 1 \in 1..N(cf), ~IsExt(cf, Returned(q) + 1),
           NEW q2, SendOk(cf, dl, bd, q2), q2.pc = "idle", Returned(q2) = Returned(q) + 1, Place(cf, q2) = Place(cf, q)
    PROVE  PairOk(cf, dl, bd, p, q2, ms, rp, sh)
<1>1. Returned(q) \in Nat /\ N(cf) \in Nat /\ Returned(p) \in Nat
  BY PlaceAtLeast DEF PairOk, RecvOk, SendOk
<1>2. \A k \in 1..Passed(q2) : ~Hit(dl, bd, k)
  <2>1. ASSUME Hit(dl, bd, Returned(q) + 1) PROVE FALSE
    <3>1. PICK e \in bd : e[1] = Root /\ e[2] = Returned(q) + 1
      BY <2>1 DEF Hit
    <3>2. BadAt(cf, e)
      BY <3>1 DEF PairOk, BadOk
    <3>3. IsExt(cf, e[2])
      BY <3>2 DEF BadAt
    <3>4. QED
      BY <3>1, <3>3
  <2>2. Passed(q2) = Returned(q) + 1 /\ Passed(q) = Returned(q)
    BY <1>1 DEF Passed
  <2>3. \A k \in 1..Passed(q) : ~Hit(dl, bd, k)
    BY DEF PairOk
  <2>4. QED
    BY <1>1, <2>1, <2>2, <2>3
<1>3. Awaited(cf, p, q2, rp) /\ NotAhead(cf, p, q2)
  <2>1. Awaited(cf, p, q, rp) /\ NotAhead(cf, p, q)
    BY DEF PairOk
  <2>2. Awaited(cf, p, q2, rp)
    BY <1>1, <2>1 DEF Awaited
  <2>3. \A k \in 1..N(cf) : Returned(q) >= k => Returned(q2) >= k
    BY <1>1
  <2>4. NotAhead(cf, p, q2)
    BY <2>1, <2>3 DEF NotAhead
  <2>5. QED
    BY <2>2, <2>4
<1>4. Chain(cf, bd, ms, Place(cf, q2), Place(cf, p))
  BY DEF PairOk
<1>5. QED
  BY <1>2, <1>3, <1>4 DEF PairOk

LEMMA SendBegins ==
    ASSUME NEW cf \in Confs, NEW dl \in SUBSET Cols, NEW bd, NEW p, NEW q, NEW ms, NEW rp, NEW sh,
           PairOk(cf, dl, bd, p, q, ms, rp, sh), q.pc = "idle",
           NEW q2, SendOk(cf, dl, bd, q2), q2.pc = "ext", Returned(q2) = Returned(q), Place(cf, q2) = Place(cf, q)
    PROVE  PairOk(cf, dl, bd, p, q2, ms, rp, sh)
<1>1. Passed(q2) = Passed(q)
  BY DEF Passed
<1>2. Awaited(cf, p, q2, rp) /\ NotAhead(cf, p, q2)
  BY DEF PairOk, Awaited, NotAhead
<1>3. QED
  BY <1>1, <1>2 DEF PairOk

(* Its settings are rejected.                                              *)
LEMMA SendStops ==
    ASSUME NEW cf \in Confs, NEW dl \in SUBSET Cols, NEW bd, NEW p, NEW q, NEW ms, NEW rp, NEW sh,
           PairOk(cf, dl, bd, p, q, ms, rp, sh), q.pc = "idle", Rejected(CfgOf(cf)),
           NEW q2, q2 = [q EXCEPT !.pc = "failed"]
    PROVE  PairOk(cf, dl, bd, p, q2, ms, rp, TRUE)
<1>1. PartyOk(cf, SendKeys(cf, dl), SendRows(cf, dl, bd), SentU(cf, bd), q)
  BY DEF PairOk, SendOk
<1>2. /\ PartyOk(cf, SendKeys(cf, dl), SendRows(cf, dl, bd), SentU(cf, bd), q2) /\ q2.pc = "failed"
      /\ Returned(q2) = Returned(q)
  BY <1>1, PartyStops
<1>3. SendOk(cf, dl, bd, q2)
  BY <1>2 DEF SendOk
<1>4. Place(cf, q2) = Place(cf, q) /\ Passed(q2) = Passed(q)
  BY <1>1, <1>2, PlaceAtLeast DEF Busy, Passed
<1>5. Awaited(cf, p, q2, rp) /\ NotAhead(cf, p, q2)
  BY <1>2 DEF PairOk, Awaited, NotAhead
<1>6. QED
  BY <1>2, <1>3, <1>4, <1>5 DEF PairOk

(* What the sender receives.                                               *)
LEMMA FirstMessage ==
    ASSUME NEW cf \in Confs, NEW dl \in SUBSET Cols, NEW bd, NEW p, NEW q, NEW ms, NEW rp, NEW sh,
           PairOk(cf, dl, bd, p, q, ms, rp, sh), ms # << >>,
           NEW step, step = MinOf(Blocks(cf, Returned(q) + 1) - q.blk, CommStep)
    PROVE  /\ q.pc = "ext" =>
                 /\ step \in Nat /\ q.blk + step <= Blocks(cf, Returned(q) + 1)
                 /\ Head(ms) = UMessage(cf, bd, Returned(q) + 1, q.blk, step)
                 /\ Chain(cf, bd, Tail(ms), Place(cf, q) + step, Place(cf, p))
           /\ q.pc = "verify" =>
                 /\ Head(ms) = ProofAt(cf, bd, Returned(q) + 1)
                 /\ Chain(cf, bd, Tail(ms), Place(cf, q) + 1, Place(cf, p)) /\ Place(cf, q) < Place(cf, p)
<1> SUFFICES ASSUME q.pc \in {"ext", "verify"}
             PROVE  /\ q.pc = "ext" =>
                         /\ step \in Nat /\ q.blk + step <= Blocks(cf, Returned(q) + 1)
                         /\ Head(ms) = UMessage(cf, bd, Returned(q) + 1, q.blk, step)
                         /\ Chain(cf, bd, Tail(ms), Place(cf, q) + step, Place(cf, p))
                    /\ q.pc = "verify" =>
                         /\ Head(ms) = ProofAt(cf, bd, Returned(q) + 1)
                         /\ Chain(cf, bd, Tail(ms), Place(cf, q) + 1, Place(cf, p)) /\ Place(cf, q) < Place(cf, p)
  OBVIOUS
<1> DEFINE k == Returned(q) + 1
<1>1. PartyOk(cf, SendKeys(cf, dl), SendRows(cf, dl, bd), SentU(cf, bd), q) /\ q.pc \in Busy
  BY DEF PairOk, SendOk, Busy
<1>2. /\ k \in 1..N(cf) /\ IsExt(cf, k) /\ k - 1 = Returned(q) /\ q.blk \in Nat /\ q.blk <= Blocks(cf, k)
      /\ Blocks(cf, k) \in Nat /\ (q.pc = "ext" <=> q.blk # Blocks(cf, k)) /\ (q.pc = "verify" => CfgOf(cf).mal)
      /\ Place(cf, q) = Timeline(cf)[Returned(q)].start + q.blk
  BY <1>1, BusyPlace
<1>3. Chain(cf, bd, ms, Place(cf, q), Place(cf, p))
  BY DEF PairOk
<1>4. PICK mid \in Nat : /\ Place(cf, q) < mid /\ IsMessage(cf, bd, Head(ms), Place(cf, q), mid)
                         /\ Chain(cf, bd, Tail(ms), mid, Place(cf, p))
  BY <1>3, ChainTail
<1>5. Place(cf, q) = Timeline(cf)[k - 1].start + q.blk
  BY <1>2
<1>6. /\ q.blk < Blocks(cf, k) =>
            /\ step \in Nat /\ step >= 1 /\ q.blk + step <= Blocks(cf, k) /\ mid = Place(cf, q) + step
            /\ Head(ms) = UMessage(cf, bd, k, q.blk, step)
      /\ q.blk = Blocks(cf, k) /\ CfgOf(cf).mal => Head(ms) = ProofAt(cf, bd, k) /\ mid = Place(cf, q) + 1
  <2>1. step = StepAt(cf, k, q.blk)
    BY DEF StepAt
  <2> HIDE DEF k
  <2>2. PICK m, hi, b : m = Head(ms) /\ b = q.blk /\ hi = mid
    OBVIOUS
  <2>3. /\ b \in Nat /\ IsMessage(cf, bd, m, PlaceOf(cf, k, b), hi) /\ Place(cf, q) = PlaceOf(cf, k, b)
        /\ k \in 1..N(cf) /\ IsExt(cf, k)
    BY <1>2, <1>4, <1>5, <2>2 DEF PlaceOf
  <2>4. /\ b < Blocks(cf, k) =>
              /\ StepAt(cf, k, b) \in Nat /\ StepAt(cf, k, b) >= 1 /\ b + StepAt(cf, k, b) <= Blocks(cf, k)
              /\ hi = PlaceOf(cf, k, b) + StepAt(cf, k, b) /\ m = UMessage(cf, bd, k, b, StepAt(cf, k, b))
        /\ b = Blocks(cf, k) /\ CfgOf(cf).mal => m = ProofAt(cf, bd, k) /\ hi = PlaceOf(cf, k, b) + 1
    BY <2>3, HeadInCall
  <2>5. QED
    BY <2>1, <2>2, <2>3, <2>4
<1>7. CASE q.pc = "ext"
  <2>1. q.blk < Blocks(cf, k)
    BY <1>2, <1>7
  <2>2. QED
    BY <1>4, <1>6, <1>7, <2>1
<1>8. CASE q.pc = "verify"
  <2>1. Head(ms) = ProofAt(cf, bd, k) /\ mid = Place(cf, q) + 1
    BY <1>2, <1>6, <1>8
  <2>2. Place(cf, q) < Place(cf, p)
    BY <1>3, ChainEnds
  <2>3. QED
    BY <1>4, <1>8, <2>1, <2>2
<1>9. QED
  BY <1>7, <1>8

(* It takes a buffer of u.                                                 *)
SendAfterOf(cf, p) ==
    IF p.blk < Blocks(cf, Returned(p) + 1) THEN p
    ELSE IF CfgOf(cf).mal THEN [p EXCEPT !.pc = IF cf.fs THEN "verify" ELSE "seed"] ELSE AfterRowsOf(cf, p)

LEMMA SendTakes ==
    ASSUME NEW cf \in Confs, NEW dl \in SUBSET Cols, NEW bd, NEW p, NEW q, NEW ms, NEW rp, NEW sh,
           PairOk(cf, dl, bd, p, q, ms, rp, sh), q.pc = "ext", ms # << >>,
           NEW step, step = MinOf(Blocks(cf, Returned(q) + 1) - q.blk, CommStep),
           NEW rows, rows = [j \in 1..step |-> SendRows(cf, dl, bd)[Returned(q) + 1][q.blk + j]],
           NEW u, u = [j \in 1..step |-> SentU(cf, bd)[Returned(q) + 1][q.blk + j]],
           NEW q2, q2 = SendAfterOf(cf, SendTook(Root, q, step, rows, u))
    PROVE  PairOk(cf, dl, bd, p, q2, Tail(ms), rp, sh)
<1> DEFINE k == Returned(q) + 1
<1>1. PICK q1 : q1 = SendTook(Root, q, step, rows, u)
  OBVIOUS
<1>2. PartyOk(cf, SendKeys(cf, dl), SendRows(cf, dl, bd), SentU(cf, bd), q) /\ q.pc \in Busy
  BY DEF PairOk, SendOk, Busy
<1>3. /\ k \in 1..N(cf) /\ IsExt(cf, k) /\ k - 1 = Returned(q) /\ Returned(q) \in Nat /\ N(cf) \in Nat
      /\ q.blk # Blocks(cf, k) /\ q.blk \in Nat /\ q.blk <= Blocks(cf, k) /\ Blocks(cf, k) \in Nat
      /\ Size(cf, k) \in Nat /\ Size(cf, k) = Blocks(cf, k) + (IF CfgOf(cf).mal THEN 1 ELSE 0)
      /\ Timeline(cf)[Returned(q)].start \in Nat /\ Place(cf, q) = Timeline(cf)[Returned(q)].start + q.blk
      /\ CfgOf(cf).mal \in BOOLEAN /\ cf.fs \in BOOLEAN
  BY <1>2, BusyPlace, PlaceAtLeast, CallFacts
<1>4. /\ OutOk(cf, SendRows(cf, dl, bd), q1) /\ BusyOk(cf, SendKeys(cf, dl), SendRows(cf, dl, bd), SentU(cf, bd), q1)
      /\ q1.pc = "ext" /\ Returned(q1) = Returned(q) /\ step \in Nat /\ step >= 1 /\ q1.blk = q.blk + step
  <2>1. PICK x, v : x = rows /\ v = u
    OBVIOUS
  <2>2. x = Slice(SendRows(cf, dl, bd)[Returned(q) + 1], q.blk, step) /\ v = Slice(SentU(cf, bd)[Returned(q) + 1], q.blk, step)
    BY <2>1 DEF Slice
  <2>3. q1 = SendTook(Root, q, step, x, v)
    BY <1>1, <2>1
  <2>4. QED
    BY <1>2, <2>2, <2>3, PartyWrote
<1>5. q.blk + step <= Blocks(cf, k) /\ Chain(cf, bd, Tail(ms), Place(cf, q) + step, Place(cf, p))
  BY FirstMessage
<1>6. /\ PartyOk(cf, SendKeys(cf, dl), SendRows(cf, dl, bd), SentU(cf, bd), q2)
      /\ Place(cf, q2) = Timeline(cf)[Returned(q)].start + (q.blk + step)
      /\ \/ q2.pc \in {"ext", "verify", "seed"} /\ Returned(q2) = Returned(q)
         \/ q2.pc = "payload" /\ Returned(q2) = Returned(q) /\ ~CfgOf(cf).mal
         \/ q2.pc = "idle" /\ Returned(q2) = k /\ ~CfgOf(cf).mal
  <2>1. q2 = SendAfterOf(cf, q1)
    BY <1>1
  <2>2. CASE q1.blk < Blocks(cf, k)
    <3>1. q2 = q1 /\ q1.blk # Blocks(cf, Returned(q1) + 1)
      BY <1>3, <1>4, <2>1, <2>2 DEF SendAfterOf
    <3>2. PartyOk(cf, SendKeys(cf, dl), SendRows(cf, dl, bd), SentU(cf, bd), q1) /\ q1.pc \in Busy
      BY <1>4, <3>1 DEF PartyOk, Busy
    <3>3. Place(cf, q1) = Timeline(cf)[Returned(q1)].start + q1.blk
      BY <1>4, <3>2, BusyPlace
    <3>4. QED
      BY <1>4, <3>1, <3>2, <3>3
  <2>3. CASE q1.blk = Blocks(cf, k) /\ CfgOf(cf).mal
    <3>1. Blocks(cf, Returned(q1) + 1) = Blocks(cf, k) /\ ~(Blocks(cf, k) < Blocks(cf, k))
      BY <1>3, <1>4
    <3>2. q2 = [q1 EXCEPT !.pc = IF cf.fs THEN "verify" ELSE "seed"] /\ q1.blk = Blocks(cf, Returned(q1) + 1)
      BY <2>1, <2>3, <3>1 DEF SendAfterOf
    <3>3. CASE cf.fs
      <4>1. q2 = [q1 EXCEPT !.pc = "verify"] /\ "verify" \in Busy
        BY <3>2, <3>3 DEF Busy
      <4>2. /\ OutOk(cf, SendRows(cf, dl, bd), q1)
            /\ BusyOk(cf, SendKeys(cf, dl), SendRows(cf, dl, bd), SentU(cf, bd), q1)
            /\ CfgOf(cf).mal /\ q1.blk = Blocks(cf, Returned(q1) + 1)
        BY <1>4, <2>3, <3>2
      <4>3. /\ PartyOk(cf, SendKeys(cf, dl), SendRows(cf, dl, bd), SentU(cf, bd), q2) /\ q2.pc = "verify"
            /\ Returned(q2) = Returned(q1) /\ q2.blk = q1.blk
            /\ Place(cf, q2) = Timeline(cf)[Returned(q1)].start + q1.blk
        BY <4>2, <4>1, PartyMoves
      <4>4. QED
        BY <1>4, <4>3
    <3>4. CASE ~cf.fs
      <4>1. q2 = [q1 EXCEPT !.pc = "seed"] /\ "seed" \in Busy
        BY <3>2, <3>4 DEF Busy
      <4>2. /\ PartyOk(cf, SendKeys(cf, dl), SendRows(cf, dl, bd), SentU(cf, bd), q2) /\ q2.pc = "seed"
            /\ Returned(q2) = Returned(q1) /\ q2.blk = q1.blk
            /\ Place(cf, q2) = Timeline(cf)[Returned(q1)].start + q1.blk
        BY <1>4, <2>3, <3>2, <3>4, <4>1, PartyMoves, SMTT(30)
      <4>3. QED
        BY <1>4, <4>2
    <3>5. QED
      BY <3>3, <3>4
  <2>4. CASE q1.blk = Blocks(cf, k) /\ ~CfgOf(cf).mal
    <3>1. q2 = AfterRowsOf(cf, q1) /\ q1.blk = Blocks(cf, Returned(q1) + 1)
      <4>1. Blocks(cf, Returned(q1) + 1) = Blocks(cf, k) /\ ~(Blocks(cf, k) < Blocks(cf, k))
        BY <1>3, <1>4
      <4>2. QED
        BY <2>1, <2>4, <4>1 DEF SendAfterOf
    <3>2. RowsOk(cf, SendRows(cf, dl, bd))
      BY AllRowsOk
    <3>3. /\ PartyOk(cf, SendKeys(cf, dl), SendRows(cf, dl, bd), SentU(cf, bd), q2)
          /\ Place(cf, q2) = Timeline(cf)[Returned(q1)].start + Size(cf, Returned(q1) + 1)
          /\ \/ q2.pc = "payload" /\ Returned(q2) = Returned(q1) /\ q2.blk = q1.blk
             \/ q2.pc = "idle" /\ Returned(q2) = Returned(q1) + 1 /\ ~OpOf(cf, Returned(q1) + 1).payload
      BY <1>4, <3>1, <3>2, PartyAfterRows
    <3>4. Size(cf, k) = q.blk + step /\ Returned(q1) + 1 = k
      BY <1>3, <1>4, <2>4
    <3>5. Place(cf, q2) = Timeline(cf)[Returned(q)].start + (q.blk + step)
      BY <1>4, <3>3, <3>4
    <3>6. QED
      BY <1>4, <2>4, <3>3, <3>4, <3>5
  <2>5. q1.blk < Blocks(cf, k) \/ q1.blk = Blocks(cf, k)
    <3>1. PICK x, y, w : x = Blocks(cf, k) /\ y = q.blk /\ w = q1.blk
      OBVIOUS
    <3>2. x \in Nat /\ y \in Nat /\ y + step <= x
      BY <1>3, <1>5, <3>1
    <3>3. step \in Nat /\ w = y + step
      BY <1>4, <3>1
    <3>4. w < x \/ w = x
      BY <3>2, <3>3
    <3>5. QED
      BY <3>1, <3>4
  <2>6. QED
    BY <2>2, <2>3, <2>4, <2>5
<1>7. SendOk(cf, dl, bd, q2) /\ q2.pc \notin {"failed", "rejected"}
  BY <1>6 DEF SendOk
<1>8. Place(cf, q2) = Place(cf, q) + step
  <2>1. PICK x, y : x = Timeline(cf)[Returned(q)].start /\ y = q.blk
    OBVIOUS
  <2>2. x \in Nat /\ y \in Nat /\ step \in Nat
    BY <1>3, <1>4, <2>1
  <2>3. Place(cf, q) = x + y /\ Place(cf, q2) = x + (y + step)
    BY <1>3, <1>6, <2>1
  <2>4. QED
    BY <2>2, <2>3
<1>9. \A j \in 1..Passed(q2) : ~Hit(dl, bd, j)
  <2>1. CASE CfgOf(cf).mal
    <3>1. Passed(q2) = Passed(q)
      BY <1>6, <2>1 DEF Passed
    <3>2. QED
      BY <3>1 DEF PairOk
  <2>2. CASE ~CfgOf(cf).mal
    BY <2>2 DEF PairOk, BadOk, Hit
  <2>3. QED
    BY <2>1, <2>2
<1>10. Awaited(cf, p, q2, rp) /\ NotAhead(cf, p, q2)
  <2>1. Awaited(cf, p, q, rp) /\ NotAhead(cf, p, q) /\ Returned(p) \in Nat
    BY PlaceAtLeast DEF PairOk, RecvOk
  <2>2. Returned(q2) >= Returned(q) /\ Returned(q2) \in Nat
    <3>1. PICK a, b : a = Returned(q) /\ b = Returned(q2)
      OBVIOUS
    <3>2. a \in Nat /\ (b = a \/ b = a + 1)
      BY <1>3, <1>6, <3>1
    <3>3. QED
      BY <3>1, <3>2
  <2>3. Awaited(cf, p, q2, rp)
    BY <1>3, <2>1, <2>2 DEF Awaited
  <2>4. \A j \in 1..N(cf) : Returned(q) >= j => Returned(q2) >= j
    BY <1>3, <2>2
  <2>5. NotAhead(cf, p, q2)
    BY <2>1, <2>4 DEF NotAhead
  <2>6. QED
    BY <2>3, <2>5
<1>11. QED
  BY <1>5, <1>7, <1>8, <1>9, <1>10 DEF PairOk

(* Its peer is where the places of the two say.                            *)
LEMMA PeerAt ==
    ASSUME NEW cf \in Confs, NEW dl \in SUBSET Cols, NEW bd, NEW p, NEW q, NEW ms, NEW rp, NEW sh,
           PairOk(cf, dl, bd, p, q, ms, rp, sh), q.pc \in {"seed", "payload"}
    PROVE  /\ rp = << >> /\ Returned(p) = Returned(q) /\ q.pc \in Busy
           /\ p.pc = IF q.pc = "seed" THEN "check" ELSE "payload"
<1> DEFINE k == Returned(q) + 1
<1>1. PartyOk(cf, SendKeys(cf, dl), SendRows(cf, dl, bd), SentU(cf, bd), q) /\ q.pc \in Busy
  BY DEF PairOk, SendOk, Busy
<1>2. PartyOk(cf, RecvKeys(cf), RecvRows(cf), SentU(cf, bd), p)
  BY DEF PairOk, RecvOk
<1>3. /\ k \in 1..N(cf) /\ IsExt(cf, k) /\ Returned(q) \in Nat /\ N(cf) \in Nat
      /\ Blocks(cf, k) \in Nat /\ Blocks(cf, k) >= 1 /\ Returned(q) \in 0..N(cf)
      /\ Size(cf, k) \in Nat /\ Size(cf, k) = Blocks(cf, k) + (IF CfgOf(cf).mal THEN 1 ELSE 0)
      /\ Timeline(cf)[Returned(q)].start \in Nat /\ CfgOf(cf).mal \in BOOLEAN
      /\ Place(cf, q) = Timeline(cf)[Returned(q)].start
                            + (IF q.pc = "payload" THEN Size(cf, k) ELSE Blocks(cf, k))
      /\ (q.pc = "seed" => CfgOf(cf).mal) /\ Place(cf, q) \in Nat
  BY <1>1, BusyPlace, PlaceAtLeast, CallFacts
<1>4. (q.pc = "seed" => ~cf.fs) /\ (q.pc = "payload" => OpOf(cf, k).payload)
  BY <1>1 DEF PartyOk
<1>5. Returned(p) \in 0..N(cf) /\ Returned(p) \in Nat /\ Place(cf, p) \in Nat
  BY <1>2, PlaceAtLeast
<1>6. Place(cf, q) <= Place(cf, p) /\ Awaited(cf, p, q, rp) /\ NotAhead(cf, p, q)
  <2>1. Chain(cf, bd, ms, Place(cf, q), Place(cf, p)) /\ Awaited(cf, p, q, rp) /\ NotAhead(cf, p, q)
    BY DEF PairOk
  <2>2. QED
    BY <2>1, ChainEnds
<1>7. ~(Returned(p) < Returned(q))
  <2>1. SUFFICES ASSUME Returned(p) < Returned(q) PROVE FALSE
    OBVIOUS
  <2>2. Place(cf, p) <= Timeline(cf)[Returned(q)].start
    BY <1>2, <1>3, <2>1, BeforeCall
  <2>3. PICK x, y, z : x = Timeline(cf)[Returned(q)].start /\ y = Place(cf, q) /\ z = Place(cf, p)
    OBVIOUS
  <2>4. x \in Nat /\ y \in Nat /\ y >= x + 1 /\ y <= z /\ z <= x /\ z \in Nat
    BY <1>3, <1>5, <1>6, <2>2, <2>3
  <2>5. QED
    BY <2>4
<1>8. Returned(p) = Returned(q) /\ (q.pc = "seed" => p.pc # "payload")
  <2>1. /\ q.pc = "seed" => ~(Returned(p) >= k) /\ ~(Returned(p) = k - 1 /\ p.pc = "payload")
        /\ q.pc = "payload" => ~(Returned(p) >= k)
    BY <1>3, <1>4, <1>6 DEF NotAhead
  <2>2. QED
    BY <1>3, <1>5, <1>7, <2>1
<1>9. rp = << >>
  <2>1. ~(Returned(q) > Returned(p))
    BY <1>3, <1>8
  <2>2. QED
    BY <1>6, <2>1 DEF Awaited
<1>10. p.pc \in Busy
  <2>1. SUFFICES ASSUME p.pc \notin Busy PROVE FALSE
    OBVIOUS
  <2>2. Place(cf, p) = Timeline(cf)[Returned(q)].start
    BY <1>2, <1>8, <2>1, PlaceAtLeast
  <2>3. PICK x, y : x = Timeline(cf)[Returned(q)].start /\ y = Place(cf, q)
    OBVIOUS
  <2>4. x \in Nat /\ y \in Nat /\ y >= x + 1 /\ y <= x
    BY <1>3, <1>6, <2>2, <2>3
  <2>5. QED
    BY <2>4
<1>11. /\ p.blk \in Nat /\ p.blk <= Blocks(cf, k) /\ (p.pc = "ext" <=> p.blk # Blocks(cf, k))
       /\ (p.pc = "check" => CfgOf(cf).mal)
       /\ Place(cf, p) = Timeline(cf)[Returned(q)].start + (IF p.pc = "payload" THEN Size(cf, k) ELSE p.blk)
  BY <1>2, <1>8, <1>10, BusyPlace
<1>12. p.pc \in {"ext", "check", "payload"}
  BY <1>10 DEF PairOk, RecvOk, Busy
<1>13. PICK x : x = Timeline(cf)[Returned(q)].start
  OBVIOUS
<1>14. x + (IF q.pc = "payload" THEN Size(cf, k) ELSE Blocks(cf, k))
          <= x + (IF p.pc = "payload" THEN Size(cf, k) ELSE p.blk) /\ x \in Nat
  BY <1>3, <1>6, <1>11, <1>13
<1>15. p.pc = IF q.pc = "seed" THEN "check" ELSE "payload"
  <2>1. CASE q.pc = "seed"
    <3>1. Blocks(cf, k) <= p.blk
      BY <1>3, <1>8, <1>11, <1>14, <2>1
    <3>2. p.pc # "ext"
      BY <1>3, <1>11, <3>1
    <3>3. QED
      BY <1>8, <1>12, <2>1, <3>2
  <2>2. CASE q.pc = "payload"
    <3>1. SUFFICES ASSUME p.pc # "payload" PROVE FALSE
      BY <2>2
    <3>2. Size(cf, k) <= p.blk
      BY <1>3, <1>11, <1>14, <2>2, <3>1
    <3>3. p.blk = Blocks(cf, k) /\ ~CfgOf(cf).mal
      BY <1>3, <1>11, <3>2
    <3>4. QED
      BY <1>11, <1>12, <3>1, <3>3
  <2>3. QED
    BY <2>1, <2>2
<1>16. QED
  BY <1>1, <1>8, <1>9, <1>15

LEMMA SendChallenges ==
    ASSUME NEW cf \in Confs, NEW dl \in SUBSET Cols, NEW bd, NEW p, NEW q, NEW ms, NEW rp, NEW sh,
           PairOk(cf, dl, bd, p, q, ms, rp, sh), q.pc = "seed",
           NEW q2, q2 = [q EXCEPT !.pc = "verify"]
    PROVE  /\ rp = << >>
           /\ PairOk(cf, dl, bd, p, q2, ms, << [kind |-> "seed", seed |-> << >>] >>, sh)
<1>1. PartyOk(cf, SendKeys(cf, dl), SendRows(cf, dl, bd), SentU(cf, bd), q)
  BY DEF PairOk, SendOk
<1>2. rp = << >> /\ Returned(p) = Returned(q) /\ p.pc = "check" /\ q.pc \in Busy
  BY PeerAt
<1>3. /\ OutOk(cf, SendRows(cf, dl, bd), q) /\ BusyOk(cf, SendKeys(cf, dl), SendRows(cf, dl, bd), SentU(cf, bd), q)
      /\ q.blk = Blocks(cf, Returned(q) + 1) /\ CfgOf(cf).mal /\ ~cf.fs /\ "verify" \in Busy
  <2>1. (q.pc = "ext" <=> q.blk # Blocks(cf, Returned(q) + 1)) /\ CfgOf(cf).mal
    BY <1>1, <1>2, BusyPlace
  <2>2. QED
    BY <1>1, <1>2, <2>1 DEF PartyOk, Busy
<1>4. /\ PartyOk(cf, SendKeys(cf, dl), SendRows(cf, dl, bd), SentU(cf, bd), q2) /\ q2.pc = "verify"
      /\ Returned(q2) = Returned(q) /\ Place(cf, q2) = Timeline(cf)[Returned(q)].start + q.blk
  BY <1>3, PartyMoves
<1>5. Place(cf, q2) = Place(cf, q)
  BY <1>1, <1>2, <1>4, BusyPlace
<1>6. SendOk(cf, dl, bd, q2) /\ Passed(q2) = Passed(q)
  BY <1>4 DEF SendOk, Passed
<1>7. Awaited(cf, p, q2, << [kind |-> "seed", seed |-> << >>] >>)
  BY <1>2, <1>3, <1>4 DEF Awaited
<1>8. NotAhead(cf, p, q2)
  BY <1>4 DEF PairOk, NotAhead
<1>9. QED
  BY <1>2, <1>4, <1>5, <1>6, <1>7, <1>8 DEF PairOk

(* The check of call k passes exactly when no cheating met delta.           *)
LEMMA SendJudges ==
    ASSUME NEW cf \in Confs, NEW dl \in SUBSET Cols, NEW bd, NEW p, NEW q, NEW ms, NEW rp, NEW sh,
           PairOk(cf, dl, bd, p, q, ms, rp, sh), q.pc = "verify", ms # << >>,
           NEW m, m = Head(ms)
    PROVE  /\ m.kind = "proof"
           /\ (m.seed = q.seen /\ \A c \in Cols : Xor(ColumnSum(q.t, c), BitTimes(c \in dl, m.x)) = m.t[c])
                 <=> ~Hit(dl, bd, Returned(q) + 1)
<1> DEFINE k == Returned(q) + 1
<1>1. PartyOk(cf, SendKeys(cf, dl), SendRows(cf, dl, bd), SentU(cf, bd), q) /\ q.pc \in Busy
  BY DEF PairOk, SendOk, Busy
<1>2. k \in 1..N(cf) /\ IsExt(cf, k) /\ q.blk = Blocks(cf, k) /\ Blocks(cf, k) \in Nat /\ CfgOf(cf).mal
  BY <1>1, BusyPlace
<1>3. m = ProofAt(cf, bd, k)
  BY FirstMessage
<1>4. /\ q.t = Upto(SendRows(cf, dl, bd)[k], q.blk)
      /\ q.seen = IF cf.fs THEN Upto(SentU(cf, bd)[k], q.blk) ELSE << >>
  BY <1>1, <1>2, CheckedWhole DEF PartyOk, BusyOk
<1>5. Upto(SendRows(cf, dl, bd)[k], q.blk) = SendRows(cf, dl, bd)[k] /\ Upto(SentU(cf, bd)[k], q.blk) = SentU(cf, bd)[k]
  <2>1. RowsOk(cf, SendRows(cf, dl, bd)) /\ RowsOk(cf, SentU(cf, bd))
    BY AllRowsOk
  <2> HIDE DEF k
  <2>2. QED
    BY <1>2, <2>1 DEF RowsOk
<1>6. /\ m.kind = "proof" /\ m.seed = (IF cf.fs THEN SentU(cf, bd)[k] ELSE << >>)
      /\ m.x = ChoiceSum(Root, k, RecvRows(cf)[k])
      /\ \A c \in Cols : m.t[c] = ColumnSum(RecvRows(cf)[k], c)
  BY <1>3 DEF ProofAt
<1>7. m.seed = q.seen
  BY <1>4, <1>5, <1>6
<1>8. (\A c \in Cols : Xor(ColumnSum(SendRows(cf, dl, bd)[k], c),
                           BitTimes(c \in dl, ChoiceSum(Root, k, RecvRows(cf)[k])))
                          = ColumnSum(RecvRows(cf)[k], c))
          <=> ~Hit(dl, bd, k)
  <2>1. \A e \in bd : e[1] = Root => BadAt(cf, e)
    BY DEF PairOk, BadOk
  <2> HIDE DEF k
  <2>2. QED
    BY <1>2, <2>1, CheckExact
<1>9. q.t = SendRows(cf, dl, bd)[k]
  BY <1>4, <1>5
<1> HIDE DEF k
<1>10. (\A c \in Cols : Xor(ColumnSum(q.t, c), BitTimes(c \in dl, m.x)) = m.t[c]) <=> ~Hit(dl, bd, k)
  BY <1>6, <1>8, <1>9
<1>11. QED
  BY <1>6, <1>7, <1>10 DEF k

LEMMA SendAccepts ==
    ASSUME NEW cf \in Confs, NEW dl \in SUBSET Cols, NEW bd, NEW p, NEW q, NEW ms, NEW rp, NEW sh,
           PairOk(cf, dl, bd, p, q, ms, rp, sh), q.pc = "verify", ms # << >>,
           ~Hit(dl, bd, Returned(q) + 1), NEW q2, q2 = AfterRowsOf(cf, q)
    PROVE  PairOk(cf, dl, bd, p, q2, Tail(ms), rp, sh)
<1> DEFINE k == Returned(q) + 1
<1>1. PartyOk(cf, SendKeys(cf, dl), SendRows(cf, dl, bd), SentU(cf, bd), q) /\ q.pc \in Busy
  BY DEF PairOk, SendOk, Busy
<1>2. /\ k \in 1..N(cf) /\ IsExt(cf, k) /\ q.blk = Blocks(cf, k) /\ Blocks(cf, k) \in Nat /\ CfgOf(cf).mal
      /\ Returned(q) \in Nat /\ N(cf) \in Nat /\ Timeline(cf)[Returned(q)].start \in Nat
      /\ Size(cf, k) = Blocks(cf, k) + 1 /\ Place(cf, q) = Timeline(cf)[Returned(q)].start + Blocks(cf, k)
  BY <1>1, BusyPlace, PlaceAtLeast
<1>3. /\ PartyOk(cf, SendKeys(cf, dl), SendRows(cf, dl, bd), SentU(cf, bd), q2)
      /\ Place(cf, q2) = Timeline(cf)[Returned(q)].start + Size(cf, k)
      /\ \/ q2.pc = "payload" /\ Returned(q2) = Returned(q)
         \/ q2.pc = "idle" /\ Returned(q2) = k
  <2>1. /\ OutOk(cf, SendRows(cf, dl, bd), q)
        /\ BusyOk(cf, SendKeys(cf, dl), SendRows(cf, dl, bd), SentU(cf, bd), q)
    BY <1>1 DEF PartyOk
  <2>2. RowsOk(cf, SendRows(cf, dl, bd))
    BY AllRowsOk
  <2>3. QED
    BY <1>2, <2>1, <2>2, PartyAfterRows
<1>4. SendOk(cf, dl, bd, q2) /\ q2.pc \notin {"failed", "rejected"}
  BY <1>3 DEF SendOk
<1>5. Chain(cf, bd, Tail(ms), Place(cf, q2), Place(cf, p)) /\ Place(cf, q) < Place(cf, p)
  <2>1. Place(cf, q2) = Place(cf, q) + 1
    BY <1>2, <1>3
  <2>2. QED
    BY <2>1, FirstMessage
<1>6. \A j \in 1..Passed(q2) : ~Hit(dl, bd, j)
  <2>1. Passed(q2) = k /\ Passed(q) = Returned(q)
    BY <1>2, <1>3 DEF Passed
  <2>2. \A j \in 1..Passed(q) : ~Hit(dl, bd, j)
    BY DEF PairOk
  <2>3. QED
    BY <1>2, <2>1, <2>2
<1>7. Awaited(cf, p, q, rp) /\ NotAhead(cf, p, q) /\ Returned(p) \in Nat
  BY PlaceAtLeast DEF PairOk, RecvOk
<1>8. Awaited(cf, p, q2, rp)
  <2>1. ~(Returned(p) = Returned(q) /\ p.pc = "check")
    <3>1. SUFFICES ASSUME Returned(p) = Returned(q), p.pc = "check" PROVE FALSE
      OBVIOUS
    <3>2. PartyOk(cf, RecvKeys(cf), RecvRows(cf), SentU(cf, bd), p) /\ p.pc \in Busy
      BY <3>1 DEF PairOk, RecvOk, Busy
    <3>3. Place(cf, p) = Timeline(cf)[Returned(q)].start + Blocks(cf, k)
      BY <3>1, <3>2, BusyPlace
    <3>4. PICK x, y : x = Place(cf, p) /\ y = Place(cf, q)
      OBVIOUS
    <3>5. x = y /\ x \in Nat /\ y < x
      BY <1>2, <1>5, <3>3, <3>4
    <3>6. QED
      BY <3>5
  <2>2. Returned(q) > Returned(p) => Returned(q2) > Returned(p)
    BY <1>2, <1>3, <1>7
  <2>3. QED
    BY <1>7, <2>1, <2>2 DEF Awaited
<1>9. NotAhead(cf, p, q2)
  <2>1. \A j \in 1..N(cf) : /\ Returned(q) >= j => Returned(q2) >= j
                            /\ Returned(q) = j - 1 => Returned(q2) >= j \/ (Returned(q2) = j - 1 /\ q2.pc = "payload")
    BY <1>2, <1>3
  <2>2. QED
    BY <1>7, <2>1 DEF NotAhead
<1>10. QED
  BY <1>4, <1>5, <1>6, <1>8, <1>9 DEF PairOk

LEMMA SendRejects ==
    ASSUME NEW cf \in Confs, NEW dl \in SUBSET Cols, NEW bd, NEW p, NEW q, NEW ms, NEW rp, NEW sh,
           PairOk(cf, dl, bd, p, q, ms, rp, sh), q.pc = "verify", ms # << >>,
           Hit(dl, bd, Returned(q) + 1), NEW q2, q2 = [q EXCEPT !.pc = "rejected"]
    PROVE  PairOk(cf, dl, bd, p, q2, Tail(ms), rp, TRUE)
<1>1. PartyOk(cf, SendKeys(cf, dl), SendRows(cf, dl, bd), SentU(cf, bd), q)
  BY DEF PairOk, SendOk
<1>2. /\ PartyOk(cf, SendKeys(cf, dl), SendRows(cf, dl, bd), SentU(cf, bd), q2) /\ q2.pc = "rejected"
      /\ Returned(q2) = Returned(q)
  BY <1>1, PartyStops
<1>3. SendOk(cf, dl, bd, q2) /\ Passed(q2) = Passed(q)
  BY <1>2 DEF SendOk, Passed
<1>4. QED
  BY <1>2, <1>3 DEF PairOk

(* It sends the chosen messages.                                           *)
LEMMA SendMasks ==
    ASSUME NEW cf \in Confs, NEW dl \in SUBSET Cols, NEW bd, NEW p, NEW q, NEW ms, NEW rp, NEW sh,
           PairOk(cf, dl, bd, p, q, ms, rp, sh), q.pc = "payload",
           NEW q2, q2 = Return(q, q.t)
    PROVE  rp = << >> /\ PairOk(cf, dl, bd, p, q2, ms, << [kind |-> "payload"] >>, sh)
<1> DEFINE k == Returned(q) + 1
<1>1. PartyOk(cf, SendKeys(cf, dl), SendRows(cf, dl, bd), SentU(cf, bd), q)
  BY DEF PairOk, SendOk
<1>2. rp = << >> /\ Returned(p) = Returned(q) /\ p.pc = "payload" /\ q.pc \in Busy
  BY PeerAt
<1>3. /\ k \in 1..N(cf) /\ q.blk = Blocks(cf, k) /\ Returned(q) \in Nat /\ N(cf) \in Nat
      /\ Place(cf, q) = Timeline(cf)[Returned(q)].start + Size(cf, k)
  BY <1>1, <1>2, BusyPlace, PlaceAtLeast
<1>4. /\ PartyOk(cf, SendKeys(cf, dl), SendRows(cf, dl, bd), SentU(cf, bd), q2) /\ q2.pc = "idle"
      /\ Returned(q2) = k /\ Place(cf, q2) = Timeline(cf)[Returned(q)].start + Size(cf, k)
  <2>1. /\ OutOk(cf, SendRows(cf, dl, bd), q)
        /\ BusyOk(cf, SendKeys(cf, dl), SendRows(cf, dl, bd), SentU(cf, bd), q)
    BY <1>1, <1>2 DEF PartyOk
  <2>2. RowsOk(cf, SendRows(cf, dl, bd))
    BY AllRowsOk
  <2>3. QED
    BY <1>3, <2>1, <2>2, PartyEnds
<1>5. SendOk(cf, dl, bd, q2) /\ Place(cf, q2) = Place(cf, q)
  BY <1>3, <1>4 DEF SendOk
<1>6. Passed(q2) = Passed(q)
  BY <1>3, <1>4 DEF Passed
<1>7. Awaited(cf, p, q2, << [kind |-> "payload"] >>)
  BY <1>2, <1>3, <1>4 DEF Awaited
<1>8. NotAhead(cf, p, q2)
  <2>1. \A j \in 1..N(cf) : /\ Returned(q) >= j => Returned(q2) >= j
                            /\ Returned(q) = j - 1 => Returned(q2) >= j
    BY <1>3, <1>4
  <2>2. QED
    BY <2>1 DEF PairOk, NotAhead
<1>9. QED
  BY <1>2, <1>4, <1>5, <1>6, <1>7, <1>8 DEF PairOk

---------------------------------------------------------------------------
(* The actions of the instance that was set up. *)

LEMMA Here ==
    ASSUME KosInv
    PROVE  /\ conf \in Confs /\ delta \in SUBSET Cols /\ Root \in Insts /\ NumCalls(Root) = N(conf)
           /\ \A p : Call(p) = Returned(p) + 1
           /\ \A p : Op(Root, p) = OpOf(conf, Returned(p) + 1)
           /\ \A p : AfterRows(Root, p) = AfterRowsOf(conf, p)
           /\ PairOk(conf, delta, bad, r[Root], s[Root], toS[Root], toR[Root], closed[Root])
           /\ PartyOk(conf, RecvKeys(conf), RecvRows(conf), SentU(conf, bad), r[Root])
           /\ PartyOk(conf, SendKeys(conf, delta), SendRows(conf, delta, bad), SentU(conf, bad), s[Root])
           /\ r[Root].cfg = CfgOf(conf) /\ s[Root].cfg = CfgOf(conf) /\ conf.fs = CfgOf(conf).fs
<1>1. conf \in Confs /\ delta \in SUBSET Cols /\ Root \in Insts
  BY KosAssumption DEF KosInv, Insts
<1>2. NumCalls(Root) = N(conf)
  BY DEF NumCalls, N
<1>3. \A p : Call(p) = Returned(p) + 1
  BY DEF Call, Returned
<1>4. \A p : Op(Root, p) = OpOf(conf, Returned(p) + 1)
  BY <1>3 DEF Op, OpOf
<1>5. \A p : AfterRows(Root, p) = AfterRowsOf(conf, p)
  BY <1>4 DEF AfterRows, AfterRowsOf
<1>6. PairOk(conf, delta, bad, r[Root], s[Root], toS[Root], toR[Root], closed[Root])
  BY DEF KosInv
<1>7. /\ PartyOk(conf, RecvKeys(conf), RecvRows(conf), SentU(conf, bad), r[Root])
      /\ PartyOk(conf, SendKeys(conf, delta), SendRows(conf, delta, bad), SentU(conf, bad), s[Root])
  BY <1>6 DEF PairOk, RecvOk, SendOk
<1>8. r[Root].cfg = CfgOf(conf) /\ s[Root].cfg = CfgOf(conf)
  BY <1>7 DEF PartyOk, OutOk
<1>9. conf.fs = CfgOf(conf).fs
  BY DEF CfgOf
<1>10. QED
  BY <1>1, <1>2, <1>3, <1>4, <1>5, <1>6, <1>7, <1>8, <1>9

(* The next call of an idle party.                                         *)
LEMMA NextCall ==
    ASSUME KosInv, NEW p \in {r[Root], s[Root]}, NEW op, About(Root, p, op)
    PROVE  /\ p.pc = "idle" /\ Returned(p) + 1 \in 1..N(conf) /\ OpOf(conf, Returned(p) + 1).op = op
           /\ op = "ext" <=> IsExt(conf, Returned(p) + 1)
<1>1. p.pc = "idle" /\ Returned(p) + 1 <= N(conf) /\ OpOf(conf, Returned(p) + 1).op = op
  BY Here DEF About
<1>2. Returned(p) \in Nat /\ N(conf) \in Nat
  BY Here, PlaceAtLeast
<1>3. Returned(p) + 1 \in 1..N(conf)
  BY <1>1, <1>2
<1>4. QED
  BY <1>1, <1>3 DEF IsExt

LEMMA RootRecvSetBase ==
    ASSUME KosInv, RecvSetBase(Root)
    PROVE  PairOk(conf, delta, bad, r'[Root], s[Root], toS[Root], toR[Root], closed[Root])
<1>1. PICK p, p2 : p = r[Root] /\ p2 = r'[Root]
  OBVIOUS
<1>2. p2 = Return(SetBase(p, RecvRootKeys(Root, Call(p))), << >>)
  BY <1>1, Here DEF RecvSetBase, KosInv
<1>3. /\ p.pc = "idle" /\ Returned(p) + 1 \in 1..N(conf) /\ OpOf(conf, Returned(p) + 1).op = "base"
      /\ ~IsExt(conf, Returned(p) + 1)
  BY <1>1, NextCall DEF RecvSetBase
<1>4. p2 = Return(SetBase(p, RecvKeys(conf)[Returned(p) + 1]), << >>)
  BY <1>2, <1>3, Here DEF RecvKeys
<1>5. /\ PartyOk(conf, RecvKeys(conf), RecvRows(conf), SentU(conf, bad), p)
      /\ RowsOk(conf, RecvRows(conf)) /\ conf \in Confs
  BY <1>1, Here, AllRowsOk
<1>6. /\ PartyOk(conf, RecvKeys(conf), RecvRows(conf), SentU(conf, bad), p2) /\ p2.pc = "idle"
      /\ Returned(p2) = Returned(p) + 1 /\ Place(conf, p2) = Place(conf, p)
  BY <1>3, <1>4, <1>5, PartySetBase
<1>7. RecvOk(conf, bad, p2)
  BY <1>6 DEF RecvOk
<1>8. PairOk(conf, delta, bad, p, s[Root], toS[Root], toR[Root], closed[Root]) /\ delta \in SUBSET Cols
  BY <1>1, Here
<1>9. PairOk(conf, delta, bad, p2, s[Root], toS[Root], toR[Root], closed[Root])
  BY <1>3, <1>5, <1>6, <1>7, <1>8, RecvQuiet
<1>10. QED
  BY <1>1, <1>9

LEMMA RootRecvSplit ==
    ASSUME KosInv, RecvSplit(Root)
    PROVE  PairOk(conf, delta, bad, r'[Root], s[Root], toS[Root], toR[Root], closed[Root])
<1>1. PICK p, p2 : p = r[Root] /\ p2 = r'[Root]
  OBVIOUS
<1>2. /\ p.pc = "idle" /\ Returned(p) + 1 \in 1..N(conf) /\ OpOf(conf, Returned(p) + 1).op = "split"
      /\ ~IsExt(conf, Returned(p) + 1)
  BY <1>1, NextCall DEF RecvSplit
<1>3. p2 = Splits(p)
  <2>1. Op(Root, p).child # Root
    BY <1>2, Here, CallFacts DEF IsExt
  <2>2. p2 = [Return(p, << >>) EXCEPT !.idx = RecvNextIdx(@)]
    BY <1>1, <2>1, Here DEF RecvSplit, KosInv
  <2>3. QED
    BY <2>2 DEF RecvNextIdx, Splits
<1>4. /\ PartyOk(conf, RecvKeys(conf), RecvRows(conf), SentU(conf, bad), p)
      /\ RowsOk(conf, RecvRows(conf)) /\ conf \in Confs
  BY <1>1, Here, AllRowsOk
<1>5. /\ PartyOk(conf, RecvKeys(conf), RecvRows(conf), SentU(conf, bad), p2) /\ p2.pc = "idle"
      /\ Returned(p2) = Returned(p) + 1 /\ Place(conf, p2) = Place(conf, p)
  BY <1>2, <1>3, <1>4, PartySplit
<1>6. RecvOk(conf, bad, p2)
  BY <1>5 DEF RecvOk
<1>7. PairOk(conf, delta, bad, p, s[Root], toS[Root], toR[Root], closed[Root]) /\ delta \in SUBSET Cols
  BY <1>1, Here
<1>8. PairOk(conf, delta, bad, p2, s[Root], toS[Root], toR[Root], closed[Root])
  BY <1>2, <1>4, <1>5, <1>6, <1>7, RecvQuiet
<1>9. QED
  BY <1>1, <1>8

LEMMA RootRecvStart ==
    ASSUME KosInv, RecvStart(Root)
    PROVE  PairOk(conf, delta, bad, r'[Root], s[Root], toS[Root], toR[Root], closed'[Root])
           /\ closed'[Root] \in BOOLEAN
<1>1. PICK p, p2 : p = r[Root] /\ p2 = r'[Root]
  OBVIOUS
<1>2. p.pc = "idle" /\ IsExt(conf, Returned(p) + 1) /\ Returned(p) + 1 \in 1..N(conf)
  BY <1>1, NextCall DEF RecvStart
<1>3. /\ PartyOk(conf, RecvKeys(conf), RecvRows(conf), SentU(conf, bad), p) /\ conf \in Confs
      /\ p.cfg = CfgOf(conf) /\ delta \in SUBSET Cols /\ closed[Root] \in BOOLEAN
      /\ PairOk(conf, delta, bad, p, s[Root], toS[Root], toR[Root], closed[Root])
  BY <1>1, Here DEF KosInv
<1>4. CASE Rejected(CfgOf(conf))
  <2>1. p2 = [p EXCEPT !.pc = "failed"] /\ closed'[Root] = TRUE
    BY <1>1, <1>3, <1>4, Here DEF RecvStart, RecvFails, KosInv
  <2>2. PairOk(conf, delta, bad, p2, s[Root], toS[Root], toR[Root], TRUE)
    BY <1>2, <1>3, <1>4, <2>1, RecvStops
  <2>3. QED
    BY <1>1, <2>1, <2>2
<1>5. CASE ~Rejected(CfgOf(conf))
  <2>1. p2 = Begin(RecvGenBase(Root, p)) /\ closed'[Root] = closed[Root]
    BY <1>1, <1>3, <1>5, Here DEF RecvStart, KosInv
  <2>2. p2 = Begin(IF p.base THEN p ELSE SetBase(p, RecvKeys(conf)[Returned(p) + 1]))
    BY <1>2, <2>1, Here DEF RecvGenBase, RecvKeys
  <2>3. /\ PartyOk(conf, RecvKeys(conf), RecvRows(conf), SentU(conf, bad), p2) /\ p2.pc = "ext"
        /\ Returned(p2) = Returned(p) /\ Place(conf, p2) = Place(conf, p)
    BY <1>2, <1>3, <1>5, <2>2, PartyStart
  <2>4. RecvOk(conf, bad, p2)
    BY <2>3 DEF RecvOk
  <2>5. PairOk(conf, delta, bad, p2, s[Root], toS[Root], toR[Root], closed[Root])
    BY <1>2, <1>3, <2>3, <2>4, RecvBegins
  <2>6. QED
    BY <1>1, <1>3, <2>1, <2>5
<1>6. QED
  BY <1>4, <1>5

LEMMA RootRecvClosed ==
    ASSUME KosInv, RecvClosed(Root)
    PROVE  PairOk(conf, delta, bad, r'[Root], s[Root], toS[Root], toR[Root], closed'[Root])
           /\ closed'[Root] \in BOOLEAN
<1>1. PICK p, p2 : p = r[Root] /\ p2 = r'[Root]
  OBVIOUS
<1>2. /\ p2 = [p EXCEPT !.pc = "failed"] /\ closed'[Root] = TRUE /\ closed[Root]
      /\ p.pc \in {"ext", "check", "payload"}
  BY <1>1, Here DEF RecvClosed, RecvFails, KosInv
<1>3. p.pc \in Busy
  BY <1>2 DEF Busy
<1>4. PairOk(conf, delta, bad, p2, s[Root], toS[Root], toR[Root], TRUE)
  BY <1>1, <1>2, <1>3, Here, RecvStops, ZenonT(40) DEF KosInv
<1>5. QED
  BY <1>1, <1>2, <1>4

LEMMA RootRecvPayload ==
    ASSUME KosInv, RecvPayload(Root)
    PROVE  PairOk(conf, delta, bad, r'[Root], s[Root], toS[Root], toR'[Root], closed[Root])
<1>1. PICK p, p2 : p = r[Root] /\ p2 = r'[Root]
  OBVIOUS
<1>2. p2 = Return(p, p.t) /\ p.pc = "payload" /\ toR[Root] # << >> /\ toR'[Root] = Tail(toR[Root])
  BY <1>1, Here DEF RecvPayload, KosInv
<1>3. PairOk(conf, delta, bad, p2, s[Root], toS[Root], Tail(toR[Root]), closed[Root])
  BY <1>1, <1>2, Here, RecvUnmasks
<1>4. QED
  BY <1>1, <1>2, <1>3

(* Where the receiver may cheat in its next blocks.                         *)
LEMMA CheatsAhead ==
    ASSUME NEW cf \in Confs, NEW p, BadOk(cf, bad, p), Returned(p) + 1 \in 1..N(cf), IsExt(cf, Returned(p) + 1),
           p.cfg = CfgOf(cf), p.blk \in Nat, Returned(p) \in Nat,
           NEW step \in Nat, p.blk + step <= Blocks(cf, Returned(p) + 1),
           NEW err \in Errors(Root, p, step), NEW bd2, bd2 = bad \cup err
    PROVE  /\ SameBefore(bad, bd2, Returned(p) + 1, p.blk)
           /\ \A e \in bd2 \ bad : CfgOf(cf).mal /\ BadAt(cf, e) /\ e[3] < p.blk + step
           /\ \A b \in Nat, row \in Rows, c \in Cols : b >= p.blk =>
                 (<<Root, Returned(p) + 1, b, row, c>> \in err <=> <<Root, Returned(p) + 1, b, row, c>> \in bd2)
<1> DEFINE k == Returned(p) + 1
<1>1. ASSUME NEW e \in err
      PROVE  /\ CfgOf(cf).mal
             /\ \E j \in 1..step, row \in Rows, c \in Cols : e = <<Root, k, p.blk + j - 1, row, c>>
  <2>1. PICK j \in 1..step, row \in Rows,
             c \in IF p.cfg.mal /\ Cardinality(bad) < MaxBad THEN Cols ELSE {} :
             err = {<<Root, Call(p), p.blk + j - 1, row, c>>}
    BY <1>1 DEF Errors
  <2>2. p.cfg.mal /\ c \in Cols
    OBVIOUS
  <2>3. e = <<Root, k, p.blk + j - 1, row, c>>
    BY <2>1 DEF Call, Returned
  <2>4. QED
    BY <2>2, <2>3
<1>2. Blocks(cf, k) \in Nat /\ k \in Nat
  BY CallFacts
<1>3. ASSUME NEW e \in err
      PROVE  /\ BadAt(cf, e) /\ e[1] = Root /\ e[2] = k /\ e[3] >= p.blk /\ e[3] < p.blk + step
  <2>1. PICK j \in 1..step, row \in Rows, c \in Cols : e = <<Root, k, p.blk + j - 1, row, c>>
    BY <1>1
  <2>2. PICK b : b = p.blk + j - 1
    OBVIOUS
  <2>3. b \in Nat /\ b >= p.blk /\ b < p.blk + step /\ b < Blocks(cf, k)
    BY <1>2, <2>2
  <2>4. e = <<Root, k, b, row, c>>
    BY <2>1, <2>2
  <2> HIDE DEF k
  <2>5. k \in 1..N(cf) /\ IsExt(cf, k)
    BY DEF k
  <2>6. BadAt(cf, e)
    BY <2>3, <2>4, <2>5 DEF BadAt
  <2>7. QED
    BY <2>3, <2>4, <2>6
<1>4. SameBefore(bad, bd2, k, p.blk)
  BY <1>3 DEF SameBefore
<1>5. \A e \in bd2 \ bad : CfgOf(cf).mal /\ BadAt(cf, e) /\ e[3] < p.blk + step
  BY <1>1, <1>3
<1>6. ASSUME NEW b \in Nat, NEW row \in Rows, NEW c \in Cols, b >= p.blk
      PROVE  <<Root, k, b, row, c>> \notin bad
  <2>1. PICK e : e = <<Root, k, b, row, c>>
    OBVIOUS
  <2>2. ASSUME e \in bad PROVE FALSE
    <3>1. e[1] = Root /\ e[2] = k /\ e[3] = b
      BY <2>1
    <3>2. k <= Returned(p) \/ b < p.blk
      BY <2>2, <3>1 DEF BadOk
    <3>3. QED
      BY <1>2, <1>6, <3>2
  <2>3. QED
    BY <2>1, <2>2
<1>7. QED
  BY <1>4, <1>5, <1>6

LEMMA RootRecvSendU ==
    ASSUME KosInv, RecvSendU(Root)
    PROVE  PairOk(conf, delta, bad', r'[Root], s[Root], toS'[Root], toR[Root], closed[Root])
<1>1. PICK p, p2, bd2 : p = r[Root] /\ p2 = r'[Root] /\ bd2 = bad'
  OBVIOUS
<1> DEFINE k == Returned(p) + 1
<1>2. PICK step : step = RecvStep(p, Op(Root, p).n)
  OBVIOUS
<1>3. p.pc = "ext" /\ ~closed[Root]
  BY <1>1 DEF RecvSendU
<1>4. PICK err \in Errors(Root, p, step) :
          /\ bd2 = bad \cup err
          /\ toS' = [toS EXCEPT ![Root] = Append(@, [kind |-> "u", u |-> U(Root, Call(p), p, step, err)])]
          /\ r' = [r EXCEPT ![Root] = RecvAfter(Root, Took(@, step, T0(@, step), U(Root, Call(p), p, step, err)))]
  BY <1>1, <1>2 DEF RecvSendU, ToS
<1>5. PICK u, rows : u = U(Root, Call(p), p, step, err) /\ rows = T0(p, step)
  OBVIOUS
<1>6. p2 = RecvAfter(Root, Took(p, step, rows, u)) /\ toS'[Root] = Append(toS[Root], [kind |-> "u", u |-> u])
  BY <1>1, <1>4, <1>5, Here DEF KosInv
<1>7. /\ conf \in Confs /\ delta \in SUBSET Cols /\ p.cfg = CfgOf(conf)
      /\ PartyOk(conf, RecvKeys(conf), RecvRows(conf), SentU(conf, bad), p)
      /\ PairOk(conf, delta, bad, p, s[Root], toS[Root], toR[Root], closed[Root])
  BY <1>1, Here
<1>8. p.pc \in Busy
  BY <1>3 DEF Busy
<1>9. /\ k \in 1..N(conf) /\ IsExt(conf, k) /\ Returned(p) \in Nat /\ Blocks(conf, k) \in Nat
      /\ p.blk # Blocks(conf, k) /\ p.blk \in Nat /\ p.blk <= Blocks(conf, k)
  BY <1>3, <1>7, <1>8, BusyPlace, PlaceAtLeast
<1>10. step = MinOf(Blocks(conf, k) - p.blk, CommStep)
  <2>1. Op(Root, p) = OpOf(conf, k)
    BY Here
  <2>2. RecvBlocks(Op(Root, p).n, p.cfg.mal) = Blocks(conf, k)
    BY <1>7, <2>1 DEF Blocks
  <2>3. QED
    BY <1>2, <2>2 DEF RecvStep
<1>11. step \in Nat /\ p.blk + step <= Blocks(conf, k)
  BY <1>9, <1>10, KosAssumption DEF MinOf
<1>12. BadOk(conf, bad, p)
  BY <1>7 DEF PairOk
<1>13. /\ SameBefore(bad, bd2, k, p.blk)
       /\ \A e \in bd2 \ bad : CfgOf(conf).mal /\ BadAt(conf, e) /\ e[3] < p.blk + step
       /\ \A b \in Nat, row \in Rows, c \in Cols : b >= p.blk =>
             (<<Root, k, b, row, c>> \in err <=> <<Root, k, b, row, c>> \in bd2)
  BY <1>4, <1>7, <1>9, <1>11, <1>12, CheatsAhead
<1>14. BusyOk(conf, RecvKeys(conf), RecvRows(conf), SentU(conf, bad), p)
  BY <1>7, <1>8 DEF PartyOk
<1>15. rows = [j \in 1..step |-> RecvRows(conf)[k][p.blk + j]]
  BY <1>5, <1>7, <1>11, <1>14, ReceiverRows
<1>16. u = [j \in 1..step |-> SentU(conf, bd2)[k][p.blk + j]]
  <2>1. Call(p) = k
    BY Here
  <2>2. U(Root, k, p, step, err) = [j \in 1..step |-> SentU(conf, bd2)[k][p.blk + j]]
    BY <1>7, <1>11, <1>13, <1>14, ReceiverU
  <2>3. QED
    BY <1>5, <2>1, <2>2
<1>17. p2 = RecvAfterOf(conf, Took(p, step, rows, u))
  <2>1. PICK p1 : p1 = Took(p, step, rows, u)
    OBVIOUS
  <2>2. DOMAIN p = PartyFields
    BY <1>7 DEF PartyOk, OutOk
  <2>3. p1.cfg = CfgOf(conf)
    BY <1>7, <2>1, <2>2 DEF Took, PartyFields
  <2>4. RecvBlocks(Op(Root, p1).n, p1.cfg.mal) = Blocks(conf, Returned(p1) + 1)
    BY <2>3, Here DEF Blocks
  <2>5. RecvAfter(Root, p1) = RecvAfterOf(conf, p1)
    BY <2>3, <2>4, Here DEF RecvAfter, RecvAfterOf
  <2>6. QED
    BY <1>6, <2>1, <2>5
<1>18. PairOk(conf, delta, bd2, p2, s[Root], Append(toS[Root], [kind |-> "u", u |-> u]), toR[Root], closed[Root])
  BY <1>3, <1>7, <1>10, <1>13, <1>15, <1>16, <1>17, RecvSends
<1>19. QED
  BY <1>1, <1>6, <1>18

LEMMA RootRecvProve ==
    ASSUME KosInv, RecvProve(Root)
    PROVE  PairOk(conf, delta, bad, r'[Root], s[Root], toS'[Root], toR'[Root], closed[Root])
<1>1. PICK p, p2, rp, rp2 : p = r[Root] /\ p2 = r'[Root] /\ rp = toR[Root] /\ rp2 = toR'[Root]
  OBVIOUS
<1> DEFINE k == Returned(p) + 1
<1>2. /\ conf \in Confs /\ delta \in SUBSET Cols /\ p.cfg = CfgOf(conf) /\ p.cfg.fs = conf.fs
      /\ PartyOk(conf, RecvKeys(conf), RecvRows(conf), SentU(conf, bad), p)
      /\ PairOk(conf, delta, bad, p, s[Root], toS[Root], rp, closed[Root])
  BY <1>1, Here
<1>3. /\ p.pc = "check" /\ ~closed[Root] /\ (conf.fs \/ rp # << >>)
      /\ rp2 = IF conf.fs THEN rp ELSE Tail(rp)
      /\ p2 = AfterRowsOf(conf, p)
  BY <1>1, <1>2, Here DEF RecvProve, KosInv
<1>4. PICK seed : seed = IF conf.fs THEN p.seen ELSE Head(rp).seed
  OBVIOUS
<1>5. toS'[Root] = Append(toS[Root], [kind |-> "proof", seed |-> seed, x |-> ChoiceSum(Root, k, p.t),
                                       t |-> [c \in Cols |-> ColumnSum(p.t, c)]])
  <2>1. k = Call(p)
    BY Here
  <2>2. toS' = [toS EXCEPT ![Root] = Append(@, [kind |-> "proof", seed |-> seed, x |-> ChoiceSum(Root, Call(p), p.t),
                                                 t |-> [c \in Cols |-> ColumnSum(p.t, c)]])]
    BY <1>1, <1>2, <1>4 DEF RecvProve, ToS
  <2>3. QED
    BY <2>1, <2>2, Here DEF KosInv
<1>6. p.pc \in Busy
  BY <1>3 DEF Busy
<1>7. k \in 1..N(conf) /\ IsExt(conf, k) /\ p.blk = Blocks(conf, k)
  BY <1>2, <1>3, <1>6, BusyPlace
<1>8. p.t = RecvRows(conf)[k] /\ (conf.fs => p.seen = SentU(conf, bad)[k])
  <2>1. /\ p.t = Upto(RecvRows(conf)[k], Blocks(conf, k))
        /\ p.seen = IF conf.fs THEN Upto(SentU(conf, bad)[k], Blocks(conf, k)) ELSE << >>
    BY <1>2, <1>3, <1>6, <1>7, CheckedWhole DEF PartyOk, BusyOk
  <2>2. RowsOk(conf, RecvRows(conf)) /\ RowsOk(conf, SentU(conf, bad))
    BY <1>2, AllRowsOk
  <2> HIDE DEF k
  <2>3. QED
    BY <1>7, <2>1, <2>2 DEF RowsOk
<1>9. seed = IF conf.fs THEN SentU(conf, bad)[k] ELSE << >>
  <2>1. CASE conf.fs
    BY <1>4, <1>8, <2>1
  <2>2. CASE ~conf.fs
    <3>1. ~Rejected(CfgOf(conf)) /\ s[Root].pc # "rejected"
      BY <1>2, <1>3, <1>6, BusyPlace DEF PairOk
    <3>2. Awaited(conf, p, s[Root], rp)
      BY <1>2, <3>1 DEF PairOk
    <3>3. rp = << [kind |-> "seed", seed |-> << >>] >>
      BY <1>3, <2>2, <3>2 DEF Awaited
    <3>4. QED
      BY <1>4, <2>2, <3>3
  <2>3. QED
    BY <2>1, <2>2
<1>10. toS'[Root] = Append(toS[Root], ProofAt(conf, bad, k))
  BY <1>5, <1>8, <1>9 DEF ProofAt
<1>11. PairOk(conf, delta, bad, p2, s[Root], Append(toS[Root], ProofAt(conf, bad, k)), rp2, closed[Root])
  BY <1>2, <1>3, RecvProves
<1>12. QED
  BY <1>1, <1>10, <1>11

LEMMA RootSendSetBase ==
    ASSUME KosInv, SendSetBase(Root)
    PROVE  PairOk(conf, delta, bad, r[Root], s'[Root], toS[Root], toR[Root], closed[Root])
<1>1. PICK p, p2 : p = s[Root] /\ p2 = s'[Root]
  OBVIOUS
<1>2. p2 = Return(SetBase(p, SendRootKeys(Root, Call(p))), << >>)
  BY <1>1, Here DEF SendSetBase, KosInv
<1>3. /\ p.pc = "idle" /\ Returned(p) + 1 \in 1..N(conf) /\ OpOf(conf, Returned(p) + 1).op = "base"
      /\ ~IsExt(conf, Returned(p) + 1)
  BY <1>1, NextCall DEF SendSetBase
<1>4. p2 = Return(SetBase(p, SendKeys(conf, delta)[Returned(p) + 1]), << >>)
  BY <1>2, <1>3, Here DEF SendKeys, SendRootKeys
<1>5. /\ PartyOk(conf, SendKeys(conf, delta), SendRows(conf, delta, bad), SentU(conf, bad), p)
      /\ RowsOk(conf, SendRows(conf, delta, bad)) /\ conf \in Confs
  BY <1>1, Here, AllRowsOk
<1>6. /\ PartyOk(conf, SendKeys(conf, delta), SendRows(conf, delta, bad), SentU(conf, bad), p2) /\ p2.pc = "idle"
      /\ Returned(p2) = Returned(p) + 1 /\ Place(conf, p2) = Place(conf, p)
  BY <1>3, <1>4, <1>5, PartySetBase
<1>7. SendOk(conf, delta, bad, p2)
  BY <1>6 DEF SendOk
<1>8. PairOk(conf, delta, bad, r[Root], p, toS[Root], toR[Root], closed[Root]) /\ delta \in SUBSET Cols
  BY <1>1, Here
<1>9. PairOk(conf, delta, bad, r[Root], p2, toS[Root], toR[Root], closed[Root])
  BY <1>3, <1>5, <1>6, <1>7, <1>8, SendQuiet
<1>10. QED
  BY <1>1, <1>9

LEMMA RootSendSplit ==
    ASSUME KosInv, SendSplit(Root)
    PROVE  PairOk(conf, delta, bad, r[Root], s'[Root], toS[Root], toR[Root], closed[Root])
<1>1. PICK p, p2 : p = s[Root] /\ p2 = s'[Root]
  OBVIOUS
<1>2. /\ p.pc = "idle" /\ Returned(p) + 1 \in 1..N(conf) /\ OpOf(conf, Returned(p) + 1).op = "split"
      /\ ~IsExt(conf, Returned(p) + 1)
  BY <1>1, NextCall DEF SendSplit
<1>3. p2 = Splits(p)
  <2>1. Op(Root, p).child # Root
    BY <1>2, Here, CallFacts DEF IsExt
  <2>2. p2 = [Return(p, << >>) EXCEPT !.idx = SendNextIdx(@)]
    BY <1>1, <2>1, Here DEF SendSplit, KosInv
  <2>3. QED
    BY <2>2 DEF SendNextIdx, Splits
<1>4. /\ PartyOk(conf, SendKeys(conf, delta), SendRows(conf, delta, bad), SentU(conf, bad), p)
      /\ RowsOk(conf, SendRows(conf, delta, bad)) /\ conf \in Confs
  BY <1>1, Here, AllRowsOk
<1>5. /\ PartyOk(conf, SendKeys(conf, delta), SendRows(conf, delta, bad), SentU(conf, bad), p2) /\ p2.pc = "idle"
      /\ Returned(p2) = Returned(p) + 1 /\ Place(conf, p2) = Place(conf, p)
  BY <1>2, <1>3, <1>4, PartySplit
<1>6. SendOk(conf, delta, bad, p2)
  BY <1>5 DEF SendOk
<1>7. PairOk(conf, delta, bad, r[Root], p, toS[Root], toR[Root], closed[Root]) /\ delta \in SUBSET Cols
  BY <1>1, Here
<1>8. PairOk(conf, delta, bad, r[Root], p2, toS[Root], toR[Root], closed[Root])
  BY <1>2, <1>4, <1>5, <1>6, <1>7, SendQuiet
<1>9. QED
  BY <1>1, <1>8

LEMMA RootSendStart ==
    ASSUME KosInv, SendStart(Root)
    PROVE  PairOk(conf, delta, bad, r[Root], s'[Root], toS[Root], toR[Root], closed'[Root])
           /\ closed'[Root] \in BOOLEAN
<1>1. PICK p, p2 : p = s[Root] /\ p2 = s'[Root]
  OBVIOUS
<1>2. p.pc = "idle" /\ IsExt(conf, Returned(p) + 1) /\ Returned(p) + 1 \in 1..N(conf)
  BY <1>1, NextCall DEF SendStart
<1>3. /\ PartyOk(conf, SendKeys(conf, delta), SendRows(conf, delta, bad), SentU(conf, bad), p) /\ conf \in Confs
      /\ p.cfg = CfgOf(conf) /\ delta \in SUBSET Cols /\ closed[Root] \in BOOLEAN
      /\ PairOk(conf, delta, bad, r[Root], p, toS[Root], toR[Root], closed[Root])
  BY <1>1, Here DEF KosInv
<1>4. CASE Rejected(CfgOf(conf))
  <2>1. p2 = [p EXCEPT !.pc = "failed"] /\ closed'[Root] = TRUE
    BY <1>1, <1>3, <1>4, Here DEF SendStart, SendFails, KosInv
  <2>2. PairOk(conf, delta, bad, r[Root], p2, toS[Root], toR[Root], TRUE)
    BY <1>2, <1>3, <1>4, <2>1, SendStops
  <2>3. QED
    BY <1>1, <2>1, <2>2
<1>5. CASE ~Rejected(CfgOf(conf))
  <2>1. p2 = Begin(SendGenBase(Root, p)) /\ closed'[Root] = closed[Root]
    BY <1>1, <1>3, <1>5, Here DEF SendStart, KosInv
  <2>2. p2 = Begin(IF p.base THEN p ELSE SetBase(p, SendKeys(conf, delta)[Returned(p) + 1]))
    BY <1>2, <2>1, Here DEF SendGenBase, SendKeys, SendRootKeys
  <2>3. /\ PartyOk(conf, SendKeys(conf, delta), SendRows(conf, delta, bad), SentU(conf, bad), p2) /\ p2.pc = "ext"
        /\ Returned(p2) = Returned(p) /\ Place(conf, p2) = Place(conf, p)
    BY <1>2, <1>3, <1>5, <2>2, PartyStart
  <2>4. SendOk(conf, delta, bad, p2)
    BY <2>3 DEF SendOk
  <2>5. PairOk(conf, delta, bad, r[Root], p2, toS[Root], toR[Root], closed[Root])
    BY <1>2, <1>3, <2>3, <2>4, SendBegins
  <2>6. QED
    BY <1>1, <1>3, <2>1, <2>5
<1>6. QED
  BY <1>4, <1>5

(* What the sender takes next is of the size it expects.                    *)
LEMMA Expected ==
    ASSUME KosInv, toS[Root] # << >>, s[Root].pc \in {"ext", "verify"},
           NEW p, p = s[Root], NEW step, step = SendStep(p, Op(Root, p).n)
    PROVE  /\ p.pc = "ext" => /\ step = MinOf(Blocks(conf, Returned(p) + 1) - p.blk, CommStep)
                              /\ step \in Nat /\ p.blk + step <= Blocks(conf, Returned(p) + 1)
                              /\ Head(toS[Root]) = UMessage(conf, bad, Returned(p) + 1, p.blk, step)
           /\ p.pc = "verify" => Head(toS[Root]) = ProofAt(conf, bad, Returned(p) + 1)
<1> DEFINE k == Returned(p) + 1
<1>1. /\ conf \in Confs /\ delta \in SUBSET Cols /\ p.cfg = CfgOf(conf)
      /\ PartyOk(conf, SendKeys(conf, delta), SendRows(conf, delta, bad), SentU(conf, bad), p)
      /\ PairOk(conf, delta, bad, r[Root], p, toS[Root], toR[Root], closed[Root])
  BY Here
<1>2. p.pc \in Busy
  BY DEF Busy
<1>3. k \in 1..N(conf) /\ IsExt(conf, k)
  BY <1>1, <1>2, BusyPlace
<1>4. step = MinOf(Blocks(conf, k) - p.blk, CommStep)
  <2>1. Op(Root, p) = OpOf(conf, k)
    BY Here
  <2>2. OpOf(conf, k).n \in Nat /\ CfgOf(conf).mal \in BOOLEAN
    BY <1>1, <1>3, CallFacts DEF IsExt
  <2>3. SendBlocks(OpOf(conf, k).n, CfgOf(conf).mal) = Blocks(conf, k)
    BY <2>2, SameBlocks DEF Blocks
  <2>4. QED
    BY <1>1, <2>1, <2>3 DEF SendStep
<1>5. PICK ms, rp, sh, peer : ms = toS[Root] /\ rp = toR[Root] /\ sh = closed[Root] /\ peer = r[Root]
  OBVIOUS
<1>6. PairOk(conf, delta, bad, peer, p, ms, rp, sh) /\ ms # << >>
  BY <1>1, <1>5
<1>7. /\ p.pc = "ext" => /\ step \in Nat /\ p.blk + step <= Blocks(conf, k)
                         /\ Head(ms) = UMessage(conf, bad, k, p.blk, step)
      /\ p.pc = "verify" => Head(ms) = ProofAt(conf, bad, k)
  BY <1>1, <1>4, <1>6, FirstMessage
<1>8. QED
  BY <1>4, <1>5, <1>7

LEMMA RootSendRecvU ==
    ASSUME KosInv, SendRecvU(Root)
    PROVE  PairOk(conf, delta, bad, r[Root], s'[Root], toS'[Root], toR[Root], closed[Root])
<1>1. PICK p, p2, step, u : /\ p = s[Root] /\ p2 = s'[Root] /\ step = SendStep(p, Op(Root, p).n)
                            /\ u = Head(toS[Root]).u
  OBVIOUS
<1> DEFINE k == Returned(p) + 1
<1>2. /\ p.pc = "ext" /\ toS[Root] # << >> /\ toS'[Root] = Tail(toS[Root])
      /\ p2 = SendAfter(Root, SendTook(Root, p, step, Q(p, u), u))
  BY <1>1, Here DEF SendRecvU, KosInv
<1>3. /\ step = MinOf(Blocks(conf, k) - p.blk, CommStep) /\ step \in Nat /\ p.blk + step <= Blocks(conf, k)
      /\ Head(toS[Root]) = UMessage(conf, bad, k, p.blk, step)
  BY <1>1, <1>2, Expected
<1>4. u = [j \in 1..step |-> SentU(conf, bad)[k][p.blk + j]]
  BY <1>1, <1>3 DEF UMessage
<1>5. /\ conf \in Confs /\ delta \in SUBSET Cols /\ p.cfg = CfgOf(conf) /\ conf.fs = CfgOf(conf).fs
      /\ PartyOk(conf, SendKeys(conf, delta), SendRows(conf, delta, bad), SentU(conf, bad), p)
      /\ PairOk(conf, delta, bad, r[Root], p, toS[Root], toR[Root], closed[Root])
  BY <1>1, Here
<1>6. PICK rows : rows = Q(p, u)
  OBVIOUS
<1>7. rows = [j \in 1..step |-> SendRows(conf, delta, bad)[k][p.blk + j]]
  <2>1. BusyOk(conf, SendKeys(conf, delta), SendRows(conf, delta, bad), SentU(conf, bad), p)
    BY <1>2, <1>5 DEF PartyOk, Busy
  <2>2. QED
    BY <1>1, <1>3, <1>5, <1>6, <2>1, SenderRows
<1>8. p2 = SendAfterOf(conf, SendTook(Root, p, step, rows, u))
  <2>1. PICK p1 : p1 = SendTook(Root, p, step, rows, u)
    OBVIOUS
  <2>2. DOMAIN p = PartyFields /\ k \in 1..N(conf) /\ IsExt(conf, k)
    BY <1>2, <1>5, BusyPlace DEF PartyOk, OutOk, Busy
  <2>3. p1.cfg = CfgOf(conf) /\ Returned(p1) = Returned(p)
    BY <1>5, <2>1, <2>2 DEF SendTook, Took, PartyFields, Returned
  <2>4. OpOf(conf, k).n \in Nat /\ CfgOf(conf).mal \in BOOLEAN
    BY <1>5, <2>2, CallFacts DEF IsExt
  <2>5. SendBlocks(Op(Root, p1).n, p1.cfg.mal) = Blocks(conf, Returned(p1) + 1)
    <3>1. SendBlocks(OpOf(conf, k).n, CfgOf(conf).mal) = Blocks(conf, k)
      BY <2>4, SameBlocks DEF Blocks
    <3>2. QED
      BY <2>3, <3>1, Here
  <2>6. SendAfter(Root, p1) = SendAfterOf(conf, p1)
    BY <1>5, <2>3, <2>5, Here DEF SendAfter, SendAfterOf
  <2>7. QED
    BY <1>2, <1>6, <2>1, <2>6
<1>9. PairOk(conf, delta, bad, r[Root], p2, Tail(toS[Root]), toR[Root], closed[Root])
  BY <1>2, <1>3, <1>4, <1>5, <1>7, <1>8, SendTakes
<1>10. QED
  BY <1>1, <1>2, <1>9

LEMMA RootSendBadSize ==
    ASSUME KosInv
    PROVE  ~SendBadSize(Root)
<1>1. SUFFICES ASSUME SendBadSize(Root) PROVE FALSE
  OBVIOUS
<1>2. PICK p, step : p = s[Root] /\ step = SendStep(p, Op(Root, p).n)
  OBVIOUS
<1>3. /\ toS[Root] # << >>
      /\ \/ p.pc = "ext" /\ (Head(toS[Root]).kind # "u" \/ Len(Head(toS[Root]).u) # step)
         \/ p.pc = "verify" /\ Head(toS[Root]).kind # "proof"
  BY <1>1, <1>2 DEF SendBadSize
<1>4. CASE p.pc = "ext"
  <2>1. Head(toS[Root]) = UMessage(conf, bad, Returned(p) + 1, p.blk, step) /\ step \in Nat
    BY <1>2, <1>3, <1>4, Expected
  <2>2. Head(toS[Root]).kind = "u" /\ Len(Head(toS[Root]).u) = step
    BY <2>1 DEF UMessage
  <2>3. QED
    BY <1>3, <1>4, <2>2
<1>5. CASE p.pc = "verify"
  <2>1. Head(toS[Root]) = ProofAt(conf, bad, Returned(p) + 1)
    BY <1>2, <1>3, <1>5, Expected
  <2>2. Head(toS[Root]).kind = "proof"
    BY <2>1 DEF ProofAt
  <2>3. QED
    BY <1>3, <1>5, <2>2
<1>6. QED
  BY <1>3, <1>4, <1>5

LEMMA RootSendSeed ==
    ASSUME KosInv, SendSeed(Root)
    PROVE  PairOk(conf, delta, bad, r[Root], s'[Root], toS[Root], toR'[Root], closed[Root])
<1>1. PICK p, p2, rp : p = s[Root] /\ p2 = s'[Root] /\ rp = toR[Root]
  OBVIOUS
<1>2. /\ p.pc = "seed" /\ p2 = [p EXCEPT !.pc = "verify"]
      /\ toR'[Root] = Append(rp, [kind |-> "seed", seed |-> << >>])
  BY <1>1, Here DEF SendSeed, ToR, KosInv
<1>3. /\ conf \in Confs /\ delta \in SUBSET Cols
      /\ PairOk(conf, delta, bad, r[Root], p, toS[Root], rp, closed[Root])
  BY <1>1, Here
<1>4. /\ rp = << >>
      /\ PairOk(conf, delta, bad, r[Root], p2, toS[Root], << [kind |-> "seed", seed |-> << >>] >>, closed[Root])
  BY <1>2, <1>3, SendChallenges
<1>5. toR'[Root] = << [kind |-> "seed", seed |-> << >>] >>
  BY <1>2, <1>4
<1>6. QED
  BY <1>1, <1>4, <1>5

LEMMA RootSendVerify ==
    ASSUME KosInv, SendVerify(Root)
    PROVE  PairOk(conf, delta, bad, r[Root], s'[Root], toS'[Root], toR[Root], closed'[Root])
           /\ closed'[Root] \in BOOLEAN
<1>1. PICK p, p2, m : p = s[Root] /\ p2 = s'[Root] /\ m = Head(toS[Root])
  OBVIOUS
<1>2. p.pc = "verify" /\ toS[Root] # << >> /\ toS'[Root] = Tail(toS[Root])
  BY <1>1, Here DEF SendVerify, KosInv
<1>3. /\ conf \in Confs /\ delta \in SUBSET Cols /\ closed[Root] \in BOOLEAN
      /\ PairOk(conf, delta, bad, r[Root], p, toS[Root], toR[Root], closed[Root])
  BY <1>1, Here DEF KosInv
<1>4. Accepts(p, m) <=> ~Hit(delta, bad, Returned(p) + 1)
  <2>1. (m.seed = p.seen /\ \A c \in Cols : Xor(ColumnSum(p.t, c), BitTimes(c \in delta, m.x)) = m.t[c])
            <=> ~Hit(delta, bad, Returned(p) + 1)
    BY <1>1, <1>2, <1>3, SendJudges
  <2>2. QED
    BY <2>1 DEF Accepts
<1>5. CASE Accepts(p, m)
  <2>1. p2 = AfterRowsOf(conf, p) /\ closed' = closed
    BY <1>1, <1>5, Here DEF SendVerify, KosInv
  <2>2. PairOk(conf, delta, bad, r[Root], p2, Tail(toS[Root]), toR[Root], closed[Root])
    BY <1>2, <1>3, <1>4, <1>5, <2>1, SendAccepts
  <2>3. QED
    BY <1>1, <1>2, <1>3, <2>1, <2>2
<1>6. CASE ~Accepts(p, m)
  <2>1. p2 = [p EXCEPT !.pc = "rejected"] /\ closed'[Root] = TRUE
    BY <1>1, <1>6, Here DEF SendVerify, Reject, KosInv
  <2>2. PairOk(conf, delta, bad, r[Root], p2, Tail(toS[Root]), toR[Root], TRUE)
    BY <1>2, <1>3, <1>4, <1>6, <2>1, SendRejects
  <2>3. QED
    BY <1>1, <1>2, <2>1, <2>2
<1>7. QED
  BY <1>5, <1>6

LEMMA RootSendPayload ==
    ASSUME KosInv, SendPayload(Root)
    PROVE  PairOk(conf, delta, bad, r[Root], s'[Root], toS[Root], toR'[Root], closed[Root])
<1>1. PICK p, p2, rp : p = s[Root] /\ p2 = s'[Root] /\ rp = toR[Root]
  OBVIOUS
<1>2. p.pc = "payload" /\ p2 = Return(p, p.t) /\ toR'[Root] = Append(rp, [kind |-> "payload"])
  BY <1>1, Here DEF SendPayload, ToR, KosInv
<1>3. /\ conf \in Confs /\ delta \in SUBSET Cols
      /\ PairOk(conf, delta, bad, r[Root], p, toS[Root], rp, closed[Root])
  BY <1>1, Here
<1>4. rp = << >> /\ PairOk(conf, delta, bad, r[Root], p2, toS[Root], << [kind |-> "payload"] >>, closed[Root])
  BY <1>2, <1>3, SendMasks
<1>5. toR'[Root] = << [kind |-> "payload"] >>
  BY <1>2, <1>4
<1>6. QED
  BY <1>1, <1>4, <1>5

---------------------------------------------------------------------------
(* The other instances, and the whole system. *)

LEMMA CountedSteps ==
    ASSUME NEW p, Counted(p)
    PROVE  /\ \A x : Counted([p EXCEPT !.pc = x]) /\ Counted([p EXCEPT !.idx = x])
           /\ \A rows : Counted(Return(p, rows))
           /\ \A keys : Counted(SetBase(p, keys))
           /\ Counted(Begin(p))
           /\ \A step, rows, u : Counted(Took(p, step, rows, u))
           /\ \A i, step, rows, u : Counted(SendTook(i, p, step, rows, u))
<1>1. DOMAIN p = PartyFields /\ IsSeq(p.out)
  BY DEF Counted
<1>2. ASSUME NEW q, DOMAIN q = PartyFields, q.out = p.out PROVE Counted(q)
  BY <1>1, <1>2 DEF Counted
<1>3. ASSUME NEW x PROVE Counted([p EXCEPT !.pc = x]) /\ Counted([p EXCEPT !.idx = x])
  <2>1. PICK q : q = [p EXCEPT !.pc = x]
    OBVIOUS
  <2>2. PICK w : w = [p EXCEPT !.idx = x]
    OBVIOUS
  <2>3. DOMAIN q = PartyFields /\ q.out = p.out /\ DOMAIN w = PartyFields /\ w.out = p.out
    BY <1>1, <2>1, <2>2 DEF PartyFields
  <2>4. QED
    BY <1>2, <2>1, <2>2, <2>3
<1>4. ASSUME NEW rows PROVE Counted(Return(p, rows))
  <2>1. PICK q : q = Return(p, rows)
    OBVIOUS
  <2>2. DOMAIN q = PartyFields /\ q.out = Append(p.out, rows)
    BY <1>1, <2>1 DEF Return, PartyFields
  <2>3. IsSeq(q.out)
    BY <1>1, <2>2, IsSeqFacts
  <2>4. QED
    BY <2>1, <2>2, <2>3 DEF Counted
<1>5. ASSUME NEW keys PROVE Counted(SetBase(p, keys))
  <2>1. PICK q : q = SetBase(p, keys)
    OBVIOUS
  <2>2. DOMAIN q = PartyFields /\ q.out = p.out
    BY <1>1, <2>1 DEF SetBase, PartyFields
  <2>3. QED
    BY <1>2, <2>1, <2>2
<1>6. Counted(Begin(p))
  <2>1. PICK q : q = Begin(p)
    OBVIOUS
  <2>2. DOMAIN q = PartyFields /\ q.out = p.out
    BY <1>1, <2>1 DEF Begin, PartyFields
  <2>3. QED
    BY <1>2, <2>1, <2>2
<1>7. ASSUME NEW step, NEW rows, NEW u PROVE Counted(Took(p, step, rows, u))
  <2>1. PICK q : q = Took(p, step, rows, u)
    OBVIOUS
  <2>2. DOMAIN q = PartyFields /\ q.out = p.out
    BY <1>1, <2>1 DEF Took, PartyFields
  <2>3. QED
    BY <1>2, <2>1, <2>2
<1>8. ASSUME NEW i, NEW step, NEW rows, NEW u PROVE Counted(SendTook(i, p, step, rows, u))
  <2>1. PICK q, w : q = Took(p, step, rows, u) /\ w = SendTook(i, p, step, rows, u)
    OBVIOUS
  <2>2. DOMAIN q = PartyFields /\ q.out = p.out
    BY <1>1, <2>1 DEF Took, PartyFields
  <2>3. DOMAIN w = PartyFields /\ w.out = p.out
    BY <2>1, <2>2 DEF SendTook, PartyFields
  <2>4. QED
    BY <1>2, <2>1, <2>3
<1>9. QED
  BY <1>3, <1>4, <1>5, <1>6, <1>7, <1>8

LEMMA CountedAfter ==
    ASSUME NEW p, Counted(p), NEW i
    PROVE  Counted(AfterRows(i, p)) /\ Counted(RecvAfter(i, p)) /\ Counted(SendAfter(i, p))
           /\ Counted(RecvGenBase(i, p)) /\ Counted(SendGenBase(i, p))
<1>1. Counted(AfterRows(i, p))
  BY CountedSteps DEF AfterRows
<1>2. Counted(RecvAfter(i, p))
  BY <1>1, CountedSteps DEF RecvAfter
<1>3. Counted(SendAfter(i, p))
  BY <1>1, CountedSteps DEF SendAfter
<1>4. Counted(RecvGenBase(i, p)) /\ Counted(SendGenBase(i, p))
  BY CountedSteps DEF RecvGenBase, SendGenBase
<1>5. QED
  BY <1>1, <1>2, <1>3, <1>4

LEMMA CountedNew ==
    ASSUME NEW pc, NEW base, NEW keys, NEW cfg, NEW p, p = NewParty(pc, base, keys, cfg)
    PROVE  Counted(p) /\ p.out = << >>
<1>1. DOMAIN p = PartyFields /\ p.out = << >>
  BY DEF NewParty, PartyFields
<1>2. IsSeq(<< >>)
  BY DEF IsSeq
<1>3. QED
  BY <1>1, <1>2 DEF Counted

(* Only the instance that was set up splits.                                *)
LEMMA RootSplits ==
    ASSUME KosInv, NEW i \in Insts, NEW p \in {r[i], s[i]}, About(i, p, "split")
    PROVE  i = Root /\ Op(i, p).child \in Insts \ {Root}
<1>1. Counted(p) /\ conf \in Confs
  BY DEF KosInv
<1>2. Len(p.out) \in Nat
  BY <1>1, IsSeqFacts DEF Counted
<1>3. NumCalls(i) \in Nat
  BY <1>1, KosAssumption DEF NumCalls, Insts
<1>4. Call(p) \in 1..NumCalls(i)
  BY <1>2, <1>3 DEF About, Call
<1>5. /\ Op(i, p).op = "split"
      /\ \/ Op(i, p).op = "base"
         \/ Op(i, p).op = "split" /\ Op(i, p).child \in DOMAIN conf.script \ {Root} /\ i = Root
         \/ Op(i, p).op = "ext"
  BY <1>1, <1>4, KosAssumption DEF About, Op, NumCalls, Insts
<1>6. QED
  BY <1>5 DEF Insts

(* What the step of an instance keeps.                                      *)
Kept(i) ==
    /\ conf' = conf /\ delta' = delta
    /\ DOMAIN r' = Insts /\ DOMAIN s' = Insts /\ DOMAIN toS' = Insts /\ DOMAIN toR' = Insts
    /\ DOMAIN closed' = Insts /\ \A x \in Insts : Counted(r'[x]) /\ Counted(s'[x])
    /\ i # Root => /\ bad' = bad /\ r'[Root] = r[Root] /\ s'[Root] = s[Root] /\ toS'[Root] = toS[Root]
                   /\ toR'[Root] = toR[Root] /\ closed'[Root] = closed[Root]

LEMMA RecvKeeps ==
    ASSUME KosInv, NEW i \in Insts, RecvNext(i)
    PROVE  Kept(i)
<1>1. /\ DOMAIN r = Insts /\ DOMAIN s = Insts /\ DOMAIN toS = Insts /\ DOMAIN toR = Insts
      /\ DOMAIN closed = Insts /\ \A x \in Insts : Counted(r[x]) /\ Counted(s[x])
      /\ Root \in Insts
  BY Here DEF KosInv
<1>2. ASSUME NEW q, Counted(q), r' = [r EXCEPT ![i] = q], s' = s, conf' = conf, delta' = delta,
             i # Root => bad' = bad, NEW x, toS' = toS \/ toS' = [toS EXCEPT ![i] = x],
             NEW y, toR' = toR \/ toR' = [toR EXCEPT ![i] = y],
             NEW z, closed' = closed \/ closed' = [closed EXCEPT ![i] = z]
      PROVE  Kept(i)
  <2>1. DOMAIN r' = Insts /\ (i # Root => r'[Root] = r[Root]) /\ \A w \in Insts : Counted(r'[w])
    BY <1>1, <1>2
  <2>2. DOMAIN toS' = Insts /\ (i # Root => toS'[Root] = toS[Root])
    <3>1. CASE toS' = toS
      BY <1>1, <3>1
    <3>2. CASE toS' = [toS EXCEPT ![i] = x]
      BY <1>1, <3>2
    <3>3. QED
      BY <1>2, <3>1, <3>2
  <2>3. DOMAIN toR' = Insts /\ (i # Root => toR'[Root] = toR[Root])
    <3>1. CASE toR' = toR
      BY <1>1, <3>1
    <3>2. CASE toR' = [toR EXCEPT ![i] = y]
      BY <1>1, <3>2
    <3>3. QED
      BY <1>2, <3>1, <3>2
  <2>4. DOMAIN closed' = Insts /\ (i # Root => closed'[Root] = closed[Root])
    <3>1. CASE closed' = closed
      BY <1>1, <3>1
    <3>2. CASE closed' = [closed EXCEPT ![i] = z]
      BY <1>1, <3>2
    <3>3. QED
      BY <1>2, <3>1, <3>2
  <2>5. QED
    BY <1>1, <1>2, <2>1, <2>2, <2>3, <2>4 DEF Kept
<1>3. CASE RecvSetBase(i)
  <2>1. PICK q : q = Return(SetBase(r[i], RecvRootKeys(i, Call(r[i]))), << >>)
    OBVIOUS
  <2>2. Counted(q)
    BY <1>1, <2>1, CountedSteps
  <2>3. QED
    BY <1>2, <1>3, <2>1, <2>2 DEF RecvSetBase
<1>4. CASE RecvSplit(i)
  <2>1. PICK child : child = Op(i, r[i]).child
    OBVIOUS
  <2>2. i = Root /\ child \in Insts \ {Root}
    BY <1>4, <2>1, RootSplits DEF RecvSplit
  <2>3. PICK q : q = [Return(r[i], << >>) EXCEPT !.idx = RecvNextIdx(@)]
    OBVIOUS
  <2>4. PICK n : n = NewParty("idle", TRUE, RecvSplitKeys(child, r[i].keys, r[i].idx), RecvSplitCfg)
    OBVIOUS
  <2>5. Counted(q) /\ Counted(n)
    BY <1>1, <2>3, <2>4, CountedSteps, CountedNew
  <2>6. r' = [r EXCEPT ![i] = q, ![child] = n]
    BY <1>4, <2>1, <2>3, <2>4 DEF RecvSplit
  <2>7. DOMAIN r' = Insts /\ \A x \in Insts : Counted(r'[x])
    BY <1>1, <2>2, <2>5, <2>6
  <2>8. QED
    BY <1>1, <1>4, <2>2, <2>7 DEF RecvSplit, Kept
<1>5. CASE RecvStart(i)
  <2>1. PICK q : q = Begin(RecvGenBase(i, r[i]))
    OBVIOUS
  <2>2. Counted(q) /\ Counted([r[i] EXCEPT !.pc = "failed"])
    BY <1>1, <2>1, CountedSteps, CountedAfter
  <2>3. CASE Rejected(r[i].cfg)
    <3>1. r' = [r EXCEPT ![i] = [r[i] EXCEPT !.pc = "failed"]] /\ closed' = [closed EXCEPT ![i] = TRUE]
      BY <1>1, <1>5, <2>3 DEF RecvStart, RecvFails
    <3>2. QED
      BY <1>2, <1>5, <2>2, <3>1 DEF RecvStart
  <2>4. CASE ~Rejected(r[i].cfg)
    <3>1. r' = [r EXCEPT ![i] = q] /\ closed' = closed
      BY <1>5, <2>1, <2>4 DEF RecvStart
    <3>2. QED
      BY <1>2, <1>5, <2>2, <3>1 DEF RecvStart
  <2>5. QED
    BY <2>3, <2>4
<1>6. CASE RecvSendU(i)
  <2>1. PICK step : step = RecvStep(r[i], Op(i, r[i]).n)
    OBVIOUS
  <2>2. PICK err \in Errors(i, r[i], step) :
            LET u == U(i, Call(r[i]), r[i], step, err) IN
            /\ bad' = bad \cup err
            /\ ToS(i, [kind |-> "u", u |-> u])
            /\ r' = [r EXCEPT ![i] = RecvAfter(i, Took(@, step, T0(@, step), u))]
    BY <1>6, <2>1 DEF RecvSendU
  <2>3. PICK u : u = U(i, Call(r[i]), r[i], step, err)
    OBVIOUS
  <2>4. PICK q : q = RecvAfter(i, Took(r[i], step, T0(r[i], step), u))
    OBVIOUS
  <2>5. Counted(q)
    BY <1>1, <2>4, CountedSteps, CountedAfter
  <2>6. r' = [r EXCEPT ![i] = q] /\ toS' = [toS EXCEPT ![i] = Append(toS[i], [kind |-> "u", u |-> u])]
    BY <1>1, <2>2, <2>3, <2>4 DEF ToS
  <2>7. i # Root => bad' = bad
    <3>1. i # Root => err = {}
      BY <2>2 DEF Errors
    <3>2. QED
      BY <2>2, <3>1
  <2>8. s' = s /\ conf' = conf /\ delta' = delta /\ toR' = toR /\ closed' = closed
    BY <1>6 DEF RecvSendU
  <2>9. QED
    BY <1>2, <2>5, <2>6, <2>7, <2>8
<1>7. CASE RecvProve(i)
  <2>1. PICK q : q = AfterRows(i, r[i])
    OBVIOUS
  <2>2. Counted(q)
    BY <1>1, <2>1, CountedAfter
  <2>3. PICK x : toS' = [toS EXCEPT ![i] = x]
    BY <1>7 DEF RecvProve, ToS
  <2>4. toR' = toR \/ toR' = [toR EXCEPT ![i] = Tail(toR[i])]
    BY <1>1, <1>7 DEF RecvProve
  <2>5. r' = [r EXCEPT ![i] = q] /\ s' = s /\ conf' = conf /\ delta' = delta /\ bad' = bad /\ closed' = closed
    BY <1>7, <2>1 DEF RecvProve
  <2>6. QED
    BY <1>2, <2>2, <2>3, <2>4, <2>5
<1>8. CASE RecvPayload(i)
  <2>1. PICK q : q = Return(r[i], r[i].t)
    OBVIOUS
  <2>2. Counted(q)
    BY <1>1, <2>1, CountedSteps
  <2>3. r' = [r EXCEPT ![i] = q] /\ toR' = [toR EXCEPT ![i] = Tail(toR[i])]
    BY <1>1, <1>8, <2>1 DEF RecvPayload
  <2>4. QED
    BY <1>2, <1>8, <2>2, <2>3 DEF RecvPayload
<1>9. CASE RecvClosed(i)
  <2>1. Counted([r[i] EXCEPT !.pc = "failed"])
    BY <1>1, CountedSteps
  <2>2. r' = [r EXCEPT ![i] = [r[i] EXCEPT !.pc = "failed"]] /\ closed' = [closed EXCEPT ![i] = TRUE]
    BY <1>1, <1>9 DEF RecvClosed, RecvFails
  <2>3. QED
    BY <1>2, <1>9, <2>1, <2>2 DEF RecvClosed
<1>10. QED
  BY <1>3, <1>4, <1>5, <1>6, <1>7, <1>8, <1>9 DEF RecvNext

LEMMA SendKeeps ==
    ASSUME KosInv, NEW i \in Insts, SendNext(i)
    PROVE  Kept(i) /\ bad' = bad
<1>1. /\ DOMAIN r = Insts /\ DOMAIN s = Insts /\ DOMAIN toS = Insts /\ DOMAIN toR = Insts
      /\ DOMAIN closed = Insts /\ \A x \in Insts : Counted(r[x]) /\ Counted(s[x])
      /\ Root \in Insts
  BY Here DEF KosInv
<1>2. ASSUME NEW q, Counted(q), s' = [s EXCEPT ![i] = q], r' = r, conf' = conf, delta' = delta,
             bad' = bad, NEW x, toS' = toS \/ toS' = [toS EXCEPT ![i] = x],
             NEW y, toR' = toR \/ toR' = [toR EXCEPT ![i] = y],
             NEW z, closed' = closed \/ closed' = [closed EXCEPT ![i] = z]
      PROVE  Kept(i)
  <2>1. DOMAIN s' = Insts /\ (i # Root => s'[Root] = s[Root]) /\ \A w \in Insts : Counted(s'[w])
    BY <1>1, <1>2
  <2>2. DOMAIN toS' = Insts /\ (i # Root => toS'[Root] = toS[Root])
    <3>1. CASE toS' = toS
      BY <1>1, <3>1
    <3>2. CASE toS' = [toS EXCEPT ![i] = x]
      BY <1>1, <3>2
    <3>3. QED
      BY <1>2, <3>1, <3>2
  <2>3. DOMAIN toR' = Insts /\ (i # Root => toR'[Root] = toR[Root])
    <3>1. CASE toR' = toR
      BY <1>1, <3>1
    <3>2. CASE toR' = [toR EXCEPT ![i] = y]
      BY <1>1, <3>2
    <3>3. QED
      BY <1>2, <3>1, <3>2
  <2>4. DOMAIN closed' = Insts /\ (i # Root => closed'[Root] = closed[Root])
    <3>1. CASE closed' = closed
      BY <1>1, <3>1
    <3>2. CASE closed' = [closed EXCEPT ![i] = z]
      BY <1>1, <3>2
    <3>3. QED
      BY <1>2, <3>1, <3>2
  <2>5. QED
    BY <1>1, <1>2, <2>1, <2>2, <2>3, <2>4 DEF Kept
<1>3. CASE SendSetBase(i)
  <2>1. PICK q : q = Return(SetBase(s[i], SendRootKeys(i, Call(s[i]))), << >>)
    OBVIOUS
  <2>2. Counted(q)
    BY <1>1, <2>1, CountedSteps
  <2>3. QED
    BY <1>2, <1>3, <2>1, <2>2 DEF SendSetBase
<1>4. CASE SendSplit(i)
  <2>1. PICK child : child = Op(i, s[i]).child
    OBVIOUS
  <2>2. i = Root /\ child \in Insts \ {Root}
    BY <1>4, <2>1, RootSplits DEF SendSplit
  <2>3. PICK q : q = [Return(s[i], << >>) EXCEPT !.idx = SendNextIdx(@)]
    OBVIOUS
  <2>4. PICK n : n = NewParty("idle", TRUE, SendSplitKeys(s[i].keys, s[i].idx), SendSplitCfg)
    OBVIOUS
  <2>5. Counted(q) /\ Counted(n)
    BY <1>1, <2>3, <2>4, CountedSteps, CountedNew
  <2>6. s' = [s EXCEPT ![i] = q, ![child] = n]
    BY <1>4, <2>1, <2>3, <2>4 DEF SendSplit
  <2>7. DOMAIN s' = Insts /\ \A x \in Insts : Counted(s'[x])
    BY <1>1, <2>2, <2>5, <2>6
  <2>8. QED
    BY <1>1, <1>4, <2>2, <2>7 DEF SendSplit, Kept
<1>5. CASE SendStart(i)
  <2>1. PICK q : q = Begin(SendGenBase(i, s[i]))
    OBVIOUS
  <2>2. Counted(q) /\ Counted([s[i] EXCEPT !.pc = "failed"])
    BY <1>1, <2>1, CountedSteps, CountedAfter
  <2>3. CASE Rejected(s[i].cfg)
    <3>1. s' = [s EXCEPT ![i] = [s[i] EXCEPT !.pc = "failed"]] /\ closed' = [closed EXCEPT ![i] = TRUE]
      BY <1>1, <1>5, <2>3 DEF SendStart, SendFails
    <3>2. QED
      BY <1>2, <1>5, <2>2, <3>1 DEF SendStart
  <2>4. CASE ~Rejected(s[i].cfg)
    <3>1. s' = [s EXCEPT ![i] = q] /\ closed' = closed
      BY <1>5, <2>1, <2>4 DEF SendStart
    <3>2. QED
      BY <1>2, <1>5, <2>2, <3>1 DEF SendStart
  <2>5. QED
    BY <2>3, <2>4
<1>6. CASE SendRecvU(i)
  <2>1. PICK u, step : u = Head(toS[i]).u /\ step = SendStep(s[i], Op(i, s[i]).n)
    OBVIOUS
  <2>2. PICK q : q = SendAfter(i, SendTook(i, s[i], step, Q(s[i], u), u))
    OBVIOUS
  <2>3. Counted(q)
    BY <1>1, <2>2, CountedSteps, CountedAfter
  <2>4. s' = [s EXCEPT ![i] = q] /\ toS' = [toS EXCEPT ![i] = Tail(toS[i])]
    BY <1>1, <1>6, <2>1, <2>2 DEF SendRecvU
  <2>5. QED
    BY <1>2, <1>6, <2>3, <2>4 DEF SendRecvU
<1>7. CASE SendBadSize(i)
  <2>1. Counted([s[i] EXCEPT !.pc = "failed"])
    BY <1>1, CountedSteps
  <2>2. s' = [s EXCEPT ![i] = [s[i] EXCEPT !.pc = "failed"]] /\ closed' = [closed EXCEPT ![i] = TRUE]
    BY <1>1, <1>7 DEF SendBadSize, SendFails
  <2>3. QED
    BY <1>2, <1>7, <2>1, <2>2 DEF SendBadSize
<1>8. CASE SendSeed(i)
  <2>1. Counted([s[i] EXCEPT !.pc = "verify"])
    BY <1>1, CountedSteps
  <2>2. PICK y : toR' = [toR EXCEPT ![i] = y]
    BY <1>8 DEF SendSeed, ToR
  <2>3. s' = [s EXCEPT ![i] = [s[i] EXCEPT !.pc = "verify"]]
    BY <1>1, <1>8 DEF SendSeed
  <2>4. QED
    BY <1>2, <1>8, <2>1, <2>2, <2>3 DEF SendSeed
<1>9. CASE SendVerify(i)
  <2>1. PICK q : q = AfterRows(i, s[i])
    OBVIOUS
  <2>2. Counted(q) /\ Counted([s[i] EXCEPT !.pc = "rejected"])
    BY <1>1, <2>1, CountedSteps, CountedAfter
  <2>3. PICK x : x = Tail(toS[i])
    OBVIOUS
  <2>4. /\ toS' = [toS EXCEPT ![i] = x] /\ r' = r /\ conf' = conf /\ delta' = delta /\ toR' = toR
        /\ bad' = bad
    BY <1>1, <1>9, <2>3 DEF SendVerify
  <2>5. \/ s' = [s EXCEPT ![i] = q] /\ closed' = closed
        \/ s' = [s EXCEPT ![i] = [s[i] EXCEPT !.pc = "rejected"]] /\ closed' = [closed EXCEPT ![i] = TRUE]
    BY <1>1, <1>9, <2>1 DEF SendVerify, Reject
  <2>6. CASE s' = [s EXCEPT ![i] = q] /\ closed' = closed
    BY <1>2, <2>2, <2>4, <2>6
  <2>7. CASE s' = [s EXCEPT ![i] = [s[i] EXCEPT !.pc = "rejected"]] /\ closed' = [closed EXCEPT ![i] = TRUE]
    BY <1>2, <2>2, <2>4, <2>7
  <2>8. QED
    BY <2>4, <2>5, <2>6, <2>7
<1>10. CASE SendPayload(i)
  <2>1. PICK q : q = Return(s[i], s[i].t)
    OBVIOUS
  <2>2. Counted(q)
    BY <1>1, <2>1, CountedSteps
  <2>3. PICK y : toR' = [toR EXCEPT ![i] = y]
    BY <1>10 DEF SendPayload, ToR
  <2>4. s' = [s EXCEPT ![i] = q]
    BY <1>1, <1>10, <2>1 DEF SendPayload
  <2>5. QED
    BY <1>2, <1>10, <2>2, <2>3, <2>4 DEF SendPayload
<1>11. bad' = bad
  BY DEF SendNext, SendSetBase, SendSplit, SendStart, SendRecvU, SendBadSize, SendSeed, SendVerify, SendPayload
<1>12. QED
  BY <1>3, <1>4, <1>5, <1>6, <1>7, <1>8, <1>9, <1>10, <1>11 DEF SendNext

(* Together with what happens to the instance that was set up.              *)
LEMMA KeptInv ==
    ASSUME KosInv, NEW i \in Insts, Kept(i),
           i = Root => /\ closed'[Root] \in BOOLEAN
                       /\ PairOk(conf, delta, bad', r'[Root], s'[Root], toS'[Root], toR'[Root], closed'[Root])
    PROVE  KosInv'
<1>1. conf' = conf /\ delta' = delta /\ Insts' = Insts
  BY DEF Kept, Insts
<1>2. /\ closed'[Root] \in BOOLEAN
      /\ PairOk(conf, delta, bad', r'[Root], s'[Root], toS'[Root], toR'[Root], closed'[Root])
  <2>1. CASE i = Root
    BY <2>1
  <2>2. CASE i # Root
    BY <2>2 DEF Kept, KosInv
  <2>3. QED
    BY <2>1, <2>2
<1>3. conf' \in Confs /\ delta' \subseteq Cols
  BY <1>1 DEF KosInv
<1>4. /\ DOMAIN r' = Insts' /\ DOMAIN s' = Insts' /\ DOMAIN toS' = Insts' /\ DOMAIN toR' = Insts'
      /\ DOMAIN closed' = Insts' /\ \A x \in Insts' : Counted(r'[x]) /\ Counted(s'[x])
  BY <1>1 DEF Kept
<1>5. PairOk(conf', delta', bad', r'[Root], s'[Root], toS'[Root], toR'[Root], closed'[Root])
  BY <1>1, <1>2
<1>6. QED
  BY <1>2, <1>3, <1>4, <1>5 DEF KosInv

LEMMA KosStep ==
    ASSUME KosInv, NEW i \in Insts, RecvNext(i) \/ SendNext(i)
    PROVE  KosInv'
<1>1. CASE RecvNext(i)
  <2>1. Kept(i)
    BY <1>1, RecvKeeps
  <2>2. ASSUME i = Root
        PROVE  /\ closed'[Root] \in BOOLEAN
               /\ PairOk(conf, delta, bad', r'[Root], s'[Root], toS'[Root], toR'[Root], closed'[Root])
    <3>1. closed[Root] \in BOOLEAN
      BY DEF KosInv
    <3>2. CASE RecvSetBase(Root)
      <4>1. bad' = bad /\ s' = s /\ toS' = toS /\ toR' = toR /\ closed' = closed
        BY <3>2 DEF RecvSetBase
      <4>2. QED
        BY <3>1, <3>2, <4>1, RootRecvSetBase
    <3>3. CASE RecvSplit(Root)
      <4>1. bad' = bad /\ s' = s /\ toS' = toS /\ toR' = toR /\ closed' = closed
        BY <3>3 DEF RecvSplit
      <4>2. QED
        BY <3>1, <3>3, <4>1, RootRecvSplit
    <3>4. CASE RecvStart(Root)
      <4>1. bad' = bad /\ s' = s /\ toS' = toS /\ toR' = toR
        BY <3>4 DEF RecvStart
      <4>2. QED
        BY <3>4, <4>1, RootRecvStart
    <3>5. CASE RecvSendU(Root)
      <4>1. s' = s /\ toR' = toR /\ closed' = closed
        BY <3>5 DEF RecvSendU
      <4>2. QED
        BY <3>1, <3>5, <4>1, RootRecvSendU
    <3>6. CASE RecvProve(Root)
      <4>1. bad' = bad /\ s' = s /\ closed' = closed
        BY <3>6 DEF RecvProve
      <4>2. QED
        BY <3>1, <3>6, <4>1, RootRecvProve
    <3>7. CASE RecvPayload(Root)
      <4>1. bad' = bad /\ s' = s /\ toS' = toS /\ closed' = closed
        BY <3>7 DEF RecvPayload
      <4>2. QED
        BY <3>1, <3>7, <4>1, RootRecvPayload
    <3>8. CASE RecvClosed(Root)
      <4>1. bad' = bad /\ s' = s /\ toS' = toS /\ toR' = toR
        BY <3>8 DEF RecvClosed
      <4>2. QED
        BY <3>8, <4>1, RootRecvClosed
    <3>9. QED
      BY <1>1, <2>2, <3>2, <3>3, <3>4, <3>5, <3>6, <3>7, <3>8 DEF RecvNext
  <2>3. QED
    BY <2>1, <2>2, KeptInv
<1>2. CASE SendNext(i)
  <2>1. Kept(i) /\ bad' = bad
    BY <1>2, SendKeeps
  <2>2. ASSUME i = Root
        PROVE  /\ closed'[Root] \in BOOLEAN
               /\ PairOk(conf, delta, bad', r'[Root], s'[Root], toS'[Root], toR'[Root], closed'[Root])
    <3>1. closed[Root] \in BOOLEAN
      BY DEF KosInv
    <3>2. CASE SendSetBase(Root)
      <4>1. r' = r /\ toS' = toS /\ toR' = toR /\ closed' = closed
        BY <3>2 DEF SendSetBase
      <4>2. QED
        BY <2>1, <3>1, <3>2, <4>1, RootSendSetBase
    <3>3. CASE SendSplit(Root)
      <4>1. r' = r /\ toS' = toS /\ toR' = toR /\ closed' = closed
        BY <3>3 DEF SendSplit
      <4>2. QED
        BY <2>1, <3>1, <3>3, <4>1, RootSendSplit
    <3>4. CASE SendStart(Root)
      <4>1. r' = r /\ toS' = toS /\ toR' = toR
        BY <3>4 DEF SendStart
      <4>2. QED
        BY <2>1, <3>4, <4>1, RootSendStart
    <3>5. CASE SendRecvU(Root)
      <4>1. r' = r /\ toR' = toR /\ closed' = closed
        BY <3>5 DEF SendRecvU
      <4>2. QED
        BY <2>1, <3>1, <3>5, <4>1, RootSendRecvU
    <3>6. CASE SendSeed(Root)
      <4>1. r' = r /\ toS' = toS /\ closed' = closed
        BY <3>6 DEF SendSeed
      <4>2. QED
        BY <2>1, <3>1, <3>6, <4>1, RootSendSeed
    <3>7. CASE SendVerify(Root)
      <4>1. r' = r /\ toR' = toR
        BY <3>7 DEF SendVerify
      <4>2. QED
        BY <2>1, <3>7, <4>1, RootSendVerify
    <3>8. CASE SendPayload(Root)
      <4>1. r' = r /\ toS' = toS /\ closed' = closed
        BY <3>8 DEF SendPayload
      <4>2. QED
        BY <2>1, <3>1, <3>8, <4>1, RootSendPayload
    <3>9. QED
      BY <1>2, <2>2, <3>2, <3>3, <3>4, <3>5, <3>6, <3>7, <3>8, RootSendBadSize DEF SendNext
  <2>3. QED
    BY <2>1, <2>2, KeptInv
<1>3. QED
  BY <1>1, <1>2

LEMMA ChainEmpty ==
    ASSUME NEW cf, NEW bd, NEW lo \in Nat
    PROVE  Chain(cf, bd, << >>, lo, lo)
<1>1. IsSeq(<< >>) /\ Len(<< >>) = 0
  BY DEF IsSeq
<1> DEFINE at == [k \in 1..1 |-> lo]
<1>2. at \in [1..(Len(<< >>) + 1) -> Nat] /\ at[1] = lo /\ at[Len(<< >>) + 1] = lo
  OBVIOUS
<1>3. \A a, b \in 1..(Len(<< >>) + 1) : ~(a < b)
  OBVIOUS
<1>4. ChainAt(cf, bd, << >>, lo, lo, at)
  BY <1>1, <1>2, <1>3 DEF ChainAt
<1> HIDE DEF at
<1>5. QED
  BY <1>1, <1>4 DEF Chain

LEMMA NothingReturned ==
    ASSUME NEW cf \in Confs, NEW rs, NEW p, DOMAIN p = PartyFields, p.cfg = CfgOf(cf), p.out = << >>
    PROVE  OutOk(cf, rs, p)
<1>1. Returned(p) = 0 /\ Upto(p.out, 0) = << >> /\ N(cf) \in Nat
  BY UptoFacts, CallFacts DEF Returned
<1>2. 1..Returned(p) = {}
  BY <1>1
<1>3. Returned(p) \in 0..N(cf)
  BY <1>1
<1>4. QED
  BY <1>1, <1>2, <1>3 DEF OutOk

LEMMA NewIsOk ==
    ASSUME NEW cf \in Confs, NEW ks, NEW rs, NEW us,
           NEW p, p = NewParty("idle", FALSE, << >>, CfgOf(cf))
    PROVE  PartyOk(cf, ks, rs, us, p) /\ p.pc = "idle" /\ Returned(p) = 0 /\ Place(cf, p) = 0
<1>1. /\ DOMAIN p = PartyFields /\ p.pc = "idle" /\ p.out = << >> /\ p.base = FALSE /\ p.idx = 0
      /\ p.cfg = CfgOf(cf) /\ p.t = << >> /\ p.seen = << >>
  BY DEF NewParty, PartyFields
<1>2. Returned(p) = 0
  BY <1>1 DEF Returned
<1>3. Timeline(cf)[0] = Fresh /\ N(cf) \in Nat
  BY TimelineFacts, CallFacts
<1>4. OutOk(cf, rs, p)
  BY <1>1, NothingReturned
<1>5. PICK e : e = Timeline(cf)[Returned(p)]
  OBVIOUS
<1>6. e.base = FALSE /\ e.idx = 0 /\ e.start = 0
  <2>1. Fresh.base = FALSE /\ Fresh.idx = 0 /\ Fresh.start = 0
    BY DEF Fresh
  <2>2. e = Fresh
    BY <1>2, <1>3, <1>5
  <2>3. QED
    BY <2>1, <2>2
<1>7. IdleOk(cf, ks, p)
  BY <1>1, <1>5, <1>6 DEF IdleOk
<1>8. p.pc \notin Busy
  BY <1>1 DEF Busy
<1>9. PartyOk(cf, ks, rs, us, p)
  BY <1>1, <1>4, <1>7, <1>8 DEF PartyOk
<1>10. Place(cf, p) = 0
  BY <1>5, <1>6, <1>8, <1>9, PlaceAtLeast
<1>11. QED
  BY <1>1, <1>2, <1>9, <1>10

LEMMA KosInit ==
    ASSUME Init
    PROVE  KosInv
<1>1. conf \in Confs /\ delta \subseteq Cols /\ Root \in Insts
  BY KosAssumption DEF Init, Insts
<1>2. /\ DOMAIN r = Insts /\ DOMAIN s = Insts /\ DOMAIN toS = Insts /\ DOMAIN toR = Insts
      /\ DOMAIN closed = Insts /\ closed[Root] = FALSE /\ toS[Root] = << >> /\ toR[Root] = << >> /\ s = r /\ bad = {}
  BY <1>1 DEF Init
<1>3. ASSUME NEW i \in Insts PROVE Counted(r[i])
  <2>1. r[i] = NewParty(IF i = Root THEN "idle" ELSE "unborn", FALSE, << >>, RootCfg)
    BY DEF Init
  <2>2. QED
    BY <2>1, CountedNew
<1>4. PICK p : p = r[Root]
  OBVIOUS
<1>5. p = NewParty("idle", FALSE, << >>, CfgOf(conf))
  <2>1. RootCfg = CfgOf(conf)
    BY DEF RootCfg, CfgOf
  <2>2. QED
    BY <1>1, <1>4, <2>1 DEF Init
<1>6. /\ PartyOk(conf, RecvKeys(conf), RecvRows(conf), SentU(conf, {}), p)
      /\ PartyOk(conf, SendKeys(conf, delta), SendRows(conf, delta, {}), SentU(conf, {}), p)
      /\ p.pc = "idle" /\ Returned(p) = 0 /\ Place(conf, p) = 0
  BY <1>1, <1>5, NewIsOk
<1>7. RecvOk(conf, {}, p) /\ SendOk(conf, delta, {}, p)
  BY <1>6 DEF RecvOk, SendOk
<1>8. BadOk(conf, {}, p)
  BY DEF BadOk
<1>9. \A k \in 1..Passed(p) : ~Hit(delta, {}, k)
  BY DEF Hit
<1>10. Chain(conf, {}, << >>, Place(conf, p), Place(conf, p))
  BY <1>6, ChainEmpty
<1>11. Awaited(conf, p, p, << >>) /\ NotAhead(conf, p, p)
  <2>1. Awaited(conf, p, p, << >>)
    BY DEF Awaited
  <2>2. NotAhead(conf, p, p)
    <3>1. N(conf) \in Nat
      BY <1>1, CallFacts
    <3>2. QED
      BY <1>6, <3>1 DEF NotAhead
  <2>3. QED
    BY <2>1, <2>2
<1>12. PairOk(conf, delta, {}, p, p, << >>, << >>, FALSE)
  BY <1>6, <1>7, <1>8, <1>9, <1>10, <1>11 DEF PairOk
<1>13. QED
  BY <1>1, <1>2, <1>3, <1>4, <1>12 DEF KosInv

(* KosInv is an invariant: the two parties of the instance that was set up  *)
(* hold what their place in the script says, and so does what is on its way *)
(* between them.                                                           *)
THEOREM KosInvariant == Spec => []KosInv
<1>1. Init => KosInv
  BY KosInit
<1>2. KosInv /\ [Next]_vars => KosInv'
  <2>1. SUFFICES ASSUME KosInv, [Next]_vars PROVE KosInv'
    OBVIOUS
  <2>2. CASE UNCHANGED vars
    BY <2>1, <2>2 DEF vars, KosInv, Insts
  <2>3. CASE Next
    <3>1. CASE Done
      BY <2>2, <3>1 DEF Done
    <3>2. CASE \E i \in Insts : RecvNext(i) \/ SendNext(i)
      BY <2>1, <3>2, KosStep
    <3>3. QED
      BY <2>3, <3>1, <3>2 DEF Next
  <2>4. QED
    BY <2>1, <2>2, <2>3
<1>3. QED
  BY <1>1, <1>2, PTL DEF Spec

---------------------------------------------------------------------------
(* What follows.                                                           *)

LEMMA StepFollows ==
    ASSUME KosInv
    PROVE  PartiesInStep
<1>1. SUFFICES ASSUME r[Root].pc = "idle", s[Root].pc = "idle", Call(r[Root]) = Call(s[Root])
               PROVE  /\ r[Root].idx = s[Root].idx /\ r[Root].cfg = s[Root].cfg
                      /\ toS[Root] = << >> /\ toR[Root] = << >>
  BY DEF PartiesInStep
<1>2. PICK p, q : p = r[Root] /\ q = s[Root]
  OBVIOUS
<1>3. /\ PartyOk(conf, RecvKeys(conf), RecvRows(conf), SentU(conf, bad), p)
      /\ PartyOk(conf, SendKeys(conf, delta), SendRows(conf, delta, bad), SentU(conf, bad), q)
      /\ p.cfg = q.cfg /\ conf \in Confs
      /\ PairOk(conf, delta, bad, p, q, toS[Root], toR[Root], closed[Root])
  BY <1>2, Here
<1>4. /\ Returned(p) \in Nat /\ Returned(q) \in Nat /\ p.pc = "idle" /\ q.pc = "idle"
      /\ Returned(p) + 1 = Returned(q) + 1
  BY <1>1, <1>2, <1>3, PlaceAtLeast, Here
<1>5. Returned(p) = Returned(q)
  BY <1>4
<1>6. p.idx = q.idx
  BY <1>3, <1>4, <1>5 DEF PartyOk, IdleOk
<1>7. Place(conf, p) = Place(conf, q)
  BY <1>3, <1>4, <1>5, PlaceAtLeast DEF Busy
<1>8. Chain(conf, bad, toS[Root], Place(conf, q), Place(conf, p)) /\ Awaited(conf, p, q, toR[Root])
  BY <1>3, <1>4 DEF PairOk
<1>9. toS[Root] = << >>
  BY <1>7, <1>8, ChainEnds
<1>10. toR[Root] = << >>
  BY <1>4, <1>8 DEF Awaited
<1>11. QED
  BY <1>2, <1>3, <1>6, <1>9, <1>10

LEMMA CorrectFollows ==
    ASSUME KosInv
    PROVE  OtCorrect
<1>1. SUFFICES ASSUME NEW k \in Both(Root), ~LosesBlocks(k), NEW m \in 0..(conf.script[Root][k].n - 1), NEW c \in Cols
               PROVE  Xor(s[Root].out[k][m \div K + 1][m % K][c], r[Root].out[k][m \div K + 1][m % K][c])
                         = BitTimes(c \in delta, ChoiceBit(Root, k, m \div K, m % K))
  BY DEF OtCorrect, Correct
<1>2. PICK p, q : p = r[Root] /\ q = s[Root]
  OBVIOUS
<1>3. /\ PartyOk(conf, RecvKeys(conf), RecvRows(conf), SentU(conf, bad), p)
      /\ PartyOk(conf, SendKeys(conf, delta), SendRows(conf, delta, bad), SentU(conf, bad), q)
      /\ conf \in Confs /\ delta \in SUBSET Cols
      /\ PairOk(conf, delta, bad, p, q, toS[Root], toR[Root], closed[Root])
  BY <1>2, Here
<1>4. k \in 1..N(conf) /\ IsExt(conf, k) /\ k <= Returned(p) /\ k <= Returned(q)
  BY <1>2, Here DEF Both, IsExt, OpOf, Returned
<1>5. Returned(p) \in Nat /\ Returned(q) \in Nat /\ N(conf) \in Nat
  BY <1>3, PlaceAtLeast
<1>6. p.out[k] = RecvRows(conf)[k] /\ q.out[k] = SendRows(conf, delta, bad)[k]
  <2>1. OutOk(conf, RecvRows(conf), p) /\ OutOk(conf, SendRows(conf, delta, bad), q)
    BY <1>3 DEF PartyOk
  <2>2. k \in 1..Returned(p) /\ k \in 1..Returned(q)
    BY <1>4, <1>5
  <2>3. Whole(conf, k)
    BY <1>1 DEF LosesBlocks, Whole, OpOf
  <2>4. QED
    BY <2>1, <2>2, <2>3 DEF OutOk
<1>7. ~Hit(delta, bad, k)
  <2>1. k \in 1..Passed(q)
    BY <1>4, <1>5 DEF Passed
  <2>2. QED
    BY <1>3, <2>1 DEF PairOk
<1>8. \A e \in bad : e[1] = Root => BadAt(conf, e)
  BY <1>3 DEF PairOk, BadOk
<1>9. m \in 0..(OpOf(conf, k).n - 1)
  BY DEF OpOf
<1>10. Xor(SendRows(conf, delta, bad)[k][m \div K + 1][m % K][c], RecvRows(conf)[k][m \div K + 1][m % K][c])
          = BitTimes(c \in delta, ChoiceBit(Root, k, m \div K, m % K))
  BY <1>3, <1>4, <1>7, <1>8, <1>9, RowsCorrect
<1>11. QED
  BY <1>2, <1>6, <1>10

LEMMA CheckFollows ==
    ASSUME KosInv
    PROVE  CheckIsExact
<1>1. \A k : Caught(k) <=> Hit(delta, bad, k)
  BY DEF Caught, Hit
<1>2. Len(s[Root].out) + (IF s[Root].pc = "payload" THEN 1 ELSE 0) = Passed(s[Root])
  BY DEF Passed, Returned
<1>3. PairOk(conf, delta, bad, r[Root], s[Root], toS[Root], toR[Root], closed[Root])
  BY Here
<1>4. s[Root].pc = "rejected" => Caught(Call(s[Root]))
  BY <1>1, <1>3, Here DEF PairOk
<1>5. \A k \in 1..Passed(s[Root]) : ~Caught(k)
  BY <1>1, <1>3 DEF PairOk
<1>6. QED
  BY <1>2, <1>4, <1>5 DEF CheckIsExact

(* Between calls with the same number behind them the two parties are at    *)
(* the same position of their PRNGs, with the same settings, and nothing of *)
(* an earlier call is left in the socket, for every script, block size and  *)
(* message size.                                                           *)
THEOREM InStep == Spec => []PartiesInStep
<1>1. KosInv => PartiesInStep
  BY StepFollows
<1>2. QED
  BY KosInvariant, <1>1, PTL

(* Every call that returned to both applications gave OTs, whatever calls,  *)
(* splits and new base OTs came before, also when the receiver cheated in   *)
(* any bits of u and was accepted; only those without a hash for more OTs   *)
(* than a block has lose messages (UnhashedOtsCorrect shows it).            *)
THEOREM OtsCorrect == Spec => []OtCorrect
<1>1. KosInv => OtCorrect
  BY CorrectFollows
<1>2. QED
  BY KosInvariant, <1>1, PTL

(* The sender rejects exactly the receivers whose cheating met a column in  *)
(* which its base choice is 1, and never returns before it knows.           *)
THEOREM CheckExactly == Spec => []CheckIsExact
<1>1. KosInv => CheckIsExact
  BY CheckFollows
<1>2. QED
  BY KosInvariant, <1>1, PTL
=============================================================================
