--------------------------- MODULE SilentOtProofs ---------------------------
(***************************************************************************)
(* The safety properties of SilentOt for every value of the constants. As   *)
(* in KosOtProofs, where a party stands after some calls follows from the   *)
(* script alone; the proof says how far the parties can be apart, and what  *)
(* is then on its way between them.                                        *)
(***************************************************************************)
EXTENDS SilentOt, XorTheorems, SequenceTheorems

---------------------------------------------------------------------------
(* A script sc, and where a party stands after k calls of it: how it is     *)
(* configured, whether it has base OTs, and how many batches and expands    *)
(* it has been through.                                                    *)

IsRun(sc, k) == k \in 1..Len(sc) /\ sc[k].op = "run"
Start == [n |-> 0, mal |-> FALSE, has |-> FALSE, batches |-> 0, expands |-> 0]
(* A call that makes base OTs: gen always does, a run when there are none   *)
(* or when it configures first.                                            *)
Makes(sc, k, e) == sc[k].op = "gen" \/ (sc[k].op = "run" /\ (e.n = 0 \/ ~e.has))
AfterCall(sc, k, e) ==
    [n |-> IF sc[k].op = "configure" THEN sc[k].n
           ELSE IF sc[k].op = "run" THEN (IF sc[k].type = "inplace" THEN sc[k].n ELSE 0)
           ELSE e.n,
     mal |-> IF sc[k].op = "configure" THEN sc[k].mal ELSE e.mal,
     has |-> sc[k].op = "gen",
     batches |-> e.batches + (IF Makes(sc, k, e) THEN 1 ELSE 0),
     expands |-> e.expands + (IF sc[k].op = "run" THEN 1 ELSE 0)]
Timeline(sc) ==
    LET after[k \in 0..Len(sc)] == IF k = 0 THEN Start ELSE AfterCall(sc, k, after[k - 1])
    IN  after

(* A party in phase x of call k: the batches and expands behind it.         *)
Batches(sc, k, x) ==
    IF x \in {"expand", "check", "correct"} THEN Timeline(sc)[k].batches ELSE Timeline(sc)[k - 1].batches
Expands(sc, k, x) ==
    IF x \in {"check", "correct"} THEN Timeline(sc)[k].expands ELSE Timeline(sc)[k - 1].expands
MalRun(sc, k) == IsRun(sc, k) /\ Timeline(sc)[k - 1].mal
ChosenRun(sc, k) == IsRun(sc, k) /\ sc[k].type = "chosen"

---------------------------------------------------------------------------
(* A party p in phase x.                                                   *)

CommonFields == {"pc", "call", "n", "mal", "base", "malOts"}
SenderFields == CommonFields \cup {"delta", "B"}
ReceiverFields == CommonFields \cup {"S", "X", "A", "C"}

SendPhases == {"idle", "gen", "expand", "check", "correct"}
RecvPhases == {"idle", "gen", "expand", "check"}

(* Its position fits the script.                                           *)
PlaceOk(sc, x, k) ==
    /\ k \in 1..(Len(sc) + 1)
    /\ x # "idle" => k <= Len(sc)
    /\ x = "gen" => sc[k].op \in {"gen", "run"} /\ Makes(sc, k, Timeline(sc)[k - 1])
    /\ x \in {"expand", "check", "correct"} => IsRun(sc, k)
    /\ x = "check" => MalRun(sc, k)
    /\ x = "correct" => ChosenRun(sc, k)
(* It is configured for its call, and has the base OTs of the last batch.   *)
PartyOk(sc, x, p) ==
    LET k == p.call
        e == Timeline(sc)[k - 1]
    IN  /\ PlaceOk(sc, x, k)
        /\ p.mal = e.mal
        /\ p.n = IF x = "idle" THEN e.n ELSE IF x = "correct" THEN 0 ELSE IF sc[k].op = "run" THEN sc[k].n ELSE e.n
        /\ x # "idle" => (sc[k].op = "gen" => e.n # 0)
        /\ p.base \in 0..Batches(sc, k, x) /\ p.malOts \in 0..Batches(sc, k, x)
        /\ x = "idle" => p.base = IF e.has THEN e.batches ELSE 0
        /\ x = "expand" => p.base = Batches(sc, k, x)
        /\ x \in {"check", "correct"} => p.base = 0
        /\ (p.mal /\ ((x = "idle" /\ e.has) \/ x \in {"expand", "check"})) => p.malOts = Batches(sc, k, x)

SendOk(sc, x, p) ==
    /\ DOMAIN p = SenderFields /\ x \in SendPhases
    /\ PartyOk(sc, x, p)
    /\ p.delta \in 0..Expands(sc, p.call, x)
    /\ x = "check" => p.delta = Expands(sc, p.call, x) /\ p.B = Leaves(p.delta)

(* The leaves of expand e that a receiver with the points S gets.           *)
LeavesAt(e, S, bd) ==
    [q \in Noise |-> Xor(Xor(LeafOf(e, q), BitTimes(q \in S, Delta(e))), BitTimes(<<e, q>> \in bd, Err(e)))]
RecvOk(sc, bd, y, p) ==
    /\ DOMAIN p = ReceiverFields /\ y \in RecvPhases
    /\ PartyOk(sc, y, p)
    /\ p.S \subseteq Noise /\ p.X \subseteq { q + 1 : q \in Noise }
    /\ (p.mal /\ ((y = "idle" /\ Timeline(sc)[p.call - 1].has) \/ y # "idle")) => p.X = Powers(p.S)
    /\ y = "check" => p.A = LeavesAt(Expands(sc, p.call, y), p.S, bd)

---------------------------------------------------------------------------
(* The two parties, at ks, x and at kr, y.                                  *)

(* The sender is done with the check of call k, the receiver with its leaves.*)
Voted(k, ks, x) == ks > k \/ (ks = k /\ x = "correct")
Opened(k, kr, y) == kr > k \/ (kr = k /\ y = "check")

Sync(sc, ks, x, kr, y, b) ==
    /\ b = Batches(sc, kr, y) + (IF y = "gen" THEN 1 ELSE 0)
    /\ Batches(sc, kr, y) <= Batches(sc, ks, x) /\ Batches(sc, ks, x) <= b
    /\ Expands(sc, kr, y) <= Expands(sc, ks, x) /\ Expands(sc, ks, x) <= Expands(sc, kr, y) + 1
    /\ y = "check" => Expands(sc, ks, x) = Expands(sc, kr, y)
    /\ \A k \in 1..Len(sc) : MalRun(sc, k) =>
          /\ Voted(k, ks, x) => Opened(k, kr, y)
          /\ kr > k => Voted(k, ks, x)
    /\ \A k \in 1..Len(sc) : ChosenRun(sc, k) => (ks > k => kr > k)

OtMsg(b) == [kind |-> "ot", batch |-> b]
CorrectionMsg(bits) == [kind |-> "correction", bits |-> bits]
ToSender(sc, ks, x, kr, y, b, q) ==
    LET ots == IF Batches(sc, ks, x) < b THEN <<OtMsg(b)>> ELSE << >> IN
    IF x = "check" /\ y = "check" THEN q = << [kind |-> "seed"] >>
    ELSE IF x = "correct" /\ kr > ks THEN q = <<CorrectionMsg(q[1].bits)>> \o ots
    ELSE q = ots

PprfMsg(e, b) == [kind |-> "pprf", e |-> e, batch |-> b]
VoleMsg(b) == [kind |-> "vole", ots |-> b]
HashMsg(e) == [kind |-> "hash", sum |-> PolySum(Leaves(e)), e |-> e]
ToReceiver(sc, ks, x, kr, y, used, q) ==
    IF y = "check" /\ Voted(kr, ks, x)
      THEN q = << VoleMsg(Timeline(sc)[kr].batches), HashMsg(Timeline(sc)[kr].expands) >>
      ELSE q = (IF Batches(sc, ks, x) > Batches(sc, kr, y) THEN << [kind |-> "otAck"] >> ELSE << >>)
               \o (IF Expands(sc, ks, x) > Expands(sc, kr, y)
                     THEN << PprfMsg(Len(used), used[Len(used)]) >> ELSE << >>)

(* The batch of each expand is that of the run it belongs to.               *)
UsedOk(sc, used, n) ==
    /\ used \in Seq(Nat) /\ Len(used) = n
    /\ \A e \in 1..n : \E k \in 1..Len(sc) :
          IsRun(sc, k) /\ Timeline(sc)[k].expands = e /\ used[e] = Timeline(sc)[k].batches

---------------------------------------------------------------------------
(* What the applications have.                                             *)

RunOf(sc, k) == Timeline(sc)[k].expands
Spoilt(bd, e) == \E q \in Noise : <<e, q>> \in bd
Hashed(sc, k) == sc[k].type \in {"random", "chosen"}
SentBlocks(sc, k) == Encode(sc[k].n, Leaves(RunOf(sc, k)))
SentOf(sc, k) ==
    [i \in 0..(sc[k].n - 1) |->
        LET m == SentBlocks(sc, k)[i] IN
        IF Hashed(sc, k) THEN <<Hash(m), Hash(Xor(m, Delta(RunOf(sc, k))))>>
        ELSE <<m, Xor(m, Delta(RunOf(sc, k)))>>]
(* out is the output of a receiver whose choices are bits.                 *)
Opens(sc, k, w, bits, out) ==
    /\ bits \subseteq 0..(sc[k].n - 1)
    /\ out.c = IF sc[k].type = "chosen" THEN w[k] ELSE bits
    /\ \A i \in 0..(sc[k].n - 1) : out.m[i] = SentOf(sc, k)[i][IF i \in bits THEN 2 ELSE 1]

SendOut(sc, ks, x, so) ==
    \A k \in 1..Len(sc) :
        (IsRun(sc, k) /\ Voted(k, ks, x) /\ (ChosenRun(sc, k) => ks = k)) => so[k] = SentOf(sc, k)
RecvOut(sc, ks, kr, bd, w, so, ro, q) ==
    \A k \in 1..Len(sc) : (IsRun(sc, k) /\ kr > k /\ ~Spoilt(bd, RunOf(sc, k))) =>
        \E bits \in SUBSET (0..(sc[k].n - 1)) :
            /\ Opens(sc, k, w, bits, ro[k])
            /\ ChosenRun(sc, k) =>
                  IF ks > k THEN so[k] = Swap(SentOf(sc, k), Xor(bits, w[k]))
                  ELSE q[1].bits = Xor(bits, w[k])
Caught(sc, kr, bd) ==
    \A k \in 1..Len(sc) : (MalRun(sc, k) /\ kr > k) => ~Spoilt(bd, RunOf(sc, k))

Blamed(p) == p.pc = "failed" /\ p.call <= Calls /\ Rejected(p)

InvAt(x, y) ==
    /\ s.pc \in {x, "failed"} /\ r.pc \in {y, "failed"}
    /\ (s.pc = "failed" \/ r.pc = "failed") => closed
    /\ SendOk(script, x, s) /\ RecvOk(script, bad, y, r)
    /\ Sync(script, s.call, x, r.call, y, batches)
    /\ ToSender(script, s.call, x, r.call, y, batches, toS)
    /\ ToReceiver(script, s.call, x, r.call, y, sUsed, toR) \/ (r.pc = "failed" /\ toR = << >>)
    /\ UsedOk(script, sUsed, Expands(script, s.call, x))
    /\ UsedOk(script, rUsed, Expands(script, r.call, y))
    /\ bad \subseteq (1..Len(sUsed)) \X Noise
    /\ SendOut(script, s.call, x, sOut)
    /\ RecvOut(script, s.call, r.call, bad, want, sOut, rOut, toS)
    /\ Caught(script, r.call, bad)
Honest == (script \notin FailScripts /\ bad = {} /\ closed) => Blamed(s) \/ Blamed(r)

SilentInv ==
    /\ script \in Scripts /\ closed \in BOOLEAN
    /\ DOMAIN sOut = 1..Len(script) /\ DOMAIN rOut = 1..Len(script)
    /\ Honest
    /\ \E x \in SendPhases, y \in RecvPhases : InvAt(x, y)
---------------------------------------------------------------------------
(* Scripts and timelines. *)

Entry == [n : DOMAIN Code \cup {0}, mal : BOOLEAN, has : BOOLEAN, batches : Nat, expands : Nat]

LEMMA ScriptFacts ==
    ASSUME NEW sc \in Scripts
    PROVE  /\ Len(sc) \in Nat
           /\ \A k \in 1..Len(sc) :
                 /\ \/ sc[k].op = "configure" /\ sc[k].n \in DOMAIN Code /\ sc[k].mal \in BOOLEAN
                    \/ sc[k].op = "gen"
                    \/ sc[k].op = "run" /\ sc[k].n \in DOMAIN Code /\ sc[k].type \in Types
                 /\ IsRun(sc, k) <=> sc[k].op = "run"
           /\ \A n \in DOMAIN Code : n \in Nat /\ n # 0 /\ Code[n] \in [0..(n - 1) -> SUBSET Noise]
  BY SilentOtAssumption DEF IsRun

LEMMA AfterCallType ==
    ASSUME NEW sc \in Scripts, NEW k \in 1..Len(sc), NEW e \in Entry
    PROVE  AfterCall(sc, k, e) \in Entry
<1>1. e.n \in DOMAIN Code \cup {0} /\ e.mal \in BOOLEAN /\ e.batches \in Nat /\ e.expands \in Nat
  BY DEF Entry
<1>2. CASE sc[k].op = "configure"
  BY <1>1, <1>2, ScriptFacts DEF AfterCall, Entry
<1>3. CASE sc[k].op = "gen"
  BY <1>1, <1>3 DEF AfterCall, Entry
<1>4. CASE sc[k].op = "run"
  BY <1>1, <1>4, ScriptFacts DEF AfterCall, Entry
<1>5. QED
  BY <1>2, <1>3, <1>4, ScriptFacts

LEMMA TimelineFacts ==
    ASSUME NEW sc \in Scripts
    PROVE  /\ Timeline(sc) \in [0..Len(sc) -> Entry] /\ Timeline(sc)[0] = Start
           /\ \A k \in 1..Len(sc) : Timeline(sc)[k] = AfterCall(sc, k, Timeline(sc)[k - 1])
<1> DEFINE n == Len(sc)
           Body(g) == [k \in 0..n |-> IF k = 0 THEN Start ELSE AfterCall(sc, k, g[k - 1])]
           IsTo(m, f) == /\ f \in [0..m -> Entry] /\ f[0] = Start
                         /\ \A k \in 1..m : f[k] = AfterCall(sc, k, f[k - 1])
           S == { m \in 0..n : \E f : IsTo(m, f) }
<1>1. n \in Nat
  BY ScriptFacts
<1>2. 0 \in S
  <2>1. IsTo(0, [k \in 0..0 |-> Start])
    BY DEF Start, Entry
  <2>2. 0 \in 0..n
    BY <1>1
  <2> HIDE DEF IsTo, n
  <2>3. QED
    BY <2>1, <2>2
<1>3. ASSUME NEW m \in 1..n, m - 1 \in S PROVE m \in S
  <2>1. PICK f : IsTo(m - 1, f)
    BY <1>3
  <2> DEFINE g == [k \in 0..m |-> IF k = m THEN AfterCall(sc, m, f[m - 1]) ELSE f[k]]
  <2>2. m - 1 \in 0..(m - 1) /\ f[m - 1] \in Entry
    BY <1>1, <2>1
  <2>3. AfterCall(sc, m, f[m - 1]) \in Entry
    BY <2>2, AfterCallType
  <2>4. g \in [0..m -> Entry] /\ g[0] = Start
    BY <1>1, <2>1, <2>3
  <2>5. ASSUME NEW k \in 1..m PROVE g[k] = AfterCall(sc, k, g[k - 1])
    <3>1. k - 1 \in 0..m /\ k - 1 # m
      BY <1>1
    <3>2. CASE k = m
      BY <3>1, <3>2
    <3>3. CASE k # m
      <4>1. k \in 1..(m - 1)
        BY <1>1, <3>3
      <4>2. f[k] = AfterCall(sc, k, f[k - 1])
        BY <2>1, <4>1
      <4>3. QED
        BY <3>1, <3>3, <4>2
    <3>4. QED
      BY <3>2, <3>3
  <2>6. IsTo(m, g)
    BY <2>4, <2>5
  <2>7. m \in 0..n
    BY <1>1
  <2> HIDE DEF IsTo, g, n
  <2>8. QED
    BY <2>6, <2>7
<1>4. n \in S
  <2> HIDE DEF S, n
  <2>1. 0..n \subseteq S
    BY <1>1, <1>2, <1>3, IntervalInduction
  <2>2. QED
    BY <1>1, <2>1
<1>5. PICK f : IsTo(n, f)
  BY <1>4
<1>6. f = Body(f)
  BY <1>1, <1>5
<1>7. Timeline(sc) = CHOOSE g : g = Body(g)
  BY DEF Timeline
<1>8. Timeline(sc) = Body(Timeline(sc))
  BY <1>6, <1>7
<1>9. ASSUME NEW g, g = Body(g)
      PROVE  \A k \in 0..n : g[k] = f[k]
  <2> DEFINE T == { k \in 0..n : g[k] = f[k] }
  <2>1. 0 \in T
    BY <1>1, <1>5, <1>9
  <2>2. ASSUME NEW k \in 1..n, k - 1 \in T PROVE k \in T
    BY <1>1, <1>5, <1>9, <2>2
  <2> HIDE DEF T, n
  <2>3. 0..n \subseteq T
    BY <1>1, <2>1, <2>2, IntervalInduction
  <2>4. QED
    BY <2>3 DEF T
<1>10. \A k \in 0..n : Timeline(sc)[k] = f[k]
  BY <1>8, <1>9
<1>11. DOMAIN Timeline(sc) = 0..n /\ Timeline(sc) = [k \in 0..n |-> Timeline(sc)[k]]
  BY <1>8
<1>12. QED
  BY <1>1, <1>5, <1>10, <1>11

(* What a call adds.                                                       *)
LEMMA CallStep ==
    ASSUME NEW sc \in Scripts, NEW k \in 1..Len(sc), NEW e, e = Timeline(sc)[k - 1], NEW f, f = Timeline(sc)[k]
    PROVE  /\ e \in Entry /\ f \in Entry
           /\ f.n = IF sc[k].op = "configure" THEN sc[k].n
                    ELSE IF sc[k].op = "run" THEN (IF sc[k].type = "inplace" THEN sc[k].n ELSE 0)
                    ELSE e.n
           /\ f.mal = IF sc[k].op = "configure" THEN sc[k].mal ELSE e.mal
           /\ f.has <=> sc[k].op = "gen"
           /\ f.batches = e.batches + (IF Makes(sc, k, e) THEN 1 ELSE 0)
           /\ f.expands = e.expands + (IF sc[k].op = "run" THEN 1 ELSE 0)
<1>1. k - 1 \in 0..Len(sc) /\ k \in 0..Len(sc)
  BY ScriptFacts
<1>2. e \in Entry /\ f \in Entry /\ f = AfterCall(sc, k, e)
  BY <1>1, TimelineFacts
<1>3. f.n = IF sc[k].op = "configure" THEN sc[k].n
            ELSE IF sc[k].op = "run" THEN (IF sc[k].type = "inplace" THEN sc[k].n ELSE 0)
            ELSE e.n
  BY <1>2 DEF AfterCall
<1>4. f.mal = IF sc[k].op = "configure" THEN sc[k].mal ELSE e.mal
  BY <1>2 DEF AfterCall
<1>5. f.has = (sc[k].op = "gen")
  <2>1. PICK h : h = (sc[k].op = "gen")
    OBVIOUS
  <2>2. \E a, b, c, d : AfterCall(sc, k, e) = [n |-> a, mal |-> b, has |-> h, batches |-> c, expands |-> d]
    BY <2>1, Zenon DEF AfterCall
  <2>3. f.has = h
    BY <1>2, <2>2
  <2>4. QED
    BY <2>1, <2>3
<1>6. f.batches = e.batches + (IF Makes(sc, k, e) THEN 1 ELSE 0)
  BY <1>2 DEF AfterCall
<1>7. f.expands = e.expands + (IF sc[k].op = "run" THEN 1 ELSE 0)
  BY <1>2 DEF AfterCall
<1>8. QED
  BY <1>2, <1>3, <1>4, <1>5, <1>6, <1>7

LEMMA CallCounts ==
    ASSUME NEW sc \in Scripts, NEW k \in 1..Len(sc)
    PROVE  /\ Timeline(sc)[k - 1] \in Entry /\ Timeline(sc)[k] \in Entry
           /\ Timeline(sc)[k - 1].batches \in Nat /\ Timeline(sc)[k].batches \in Nat
           /\ Timeline(sc)[k - 1].expands \in Nat /\ Timeline(sc)[k].expands \in Nat
           /\ Timeline(sc)[k].batches =
                 Timeline(sc)[k - 1].batches + (IF Makes(sc, k, Timeline(sc)[k - 1]) THEN 1 ELSE 0)
           /\ Timeline(sc)[k].expands = Timeline(sc)[k - 1].expands + (IF sc[k].op = "run" THEN 1 ELSE 0)
           /\ Timeline(sc)[k].has <=> sc[k].op = "gen"
<1>1. PICK e : e = Timeline(sc)[k - 1]
  OBVIOUS
<1>2. PICK f : f = Timeline(sc)[k]
  OBVIOUS
<1>3. e \in Entry /\ f \in Entry /\ e.batches \in Nat /\ f.batches \in Nat /\ e.expands \in Nat /\ f.expands \in Nat
  BY <1>1, <1>2, CallStep DEF Entry
<1>4. QED
  BY <1>1, <1>2, <1>3, CallStep

(* Later calls have made as many batches and expands, or more.              *)
LEMMA Later ==
    ASSUME NEW sc \in Scripts, NEW j \in 0..Len(sc), NEW k \in 0..Len(sc), j <= k
    PROVE  /\ Timeline(sc)[j].batches \in Nat /\ Timeline(sc)[k].batches \in Nat
           /\ Timeline(sc)[j].expands \in Nat /\ Timeline(sc)[k].expands \in Nat
           /\ Timeline(sc)[j].batches <= Timeline(sc)[k].batches
           /\ Timeline(sc)[j].expands <= Timeline(sc)[k].expands
<1> DEFINE ba(m) == Timeline(sc)[m].batches
           ex(m) == Timeline(sc)[m].expands
           S == { m \in 0..Len(sc) : j <= m => ba(j) <= ba(m) /\ ex(j) <= ex(m) }
<1>1. Len(sc) \in Nat
  BY ScriptFacts
<1>2. \A m \in 0..Len(sc) : ba(m) \in Nat /\ ex(m) \in Nat
  BY TimelineFacts DEF Entry
<1>3. ASSUME NEW m \in 1..Len(sc) PROVE ba(m - 1) <= ba(m) /\ ex(m - 1) <= ex(m)
  <2>1. PICK x, y : x = ba(m - 1) /\ y = ba(m)
    OBVIOUS
  <2>2. PICK u, v : u = ex(m - 1) /\ v = ex(m)
    OBVIOUS
  <2>3. /\ x \in Nat /\ u \in Nat /\ (y = x + 1 \/ y = x) /\ (v = u + 1 \/ v = u)
    <3>1. /\ x \in Nat /\ u \in Nat
          /\ y = x + (IF Makes(sc, m, Timeline(sc)[m - 1]) THEN 1 ELSE 0)
          /\ v = u + (IF sc[m].op = "run" THEN 1 ELSE 0)
      BY <2>1, <2>2, CallCounts
    <3>2. QED
      BY <3>1
  <2>4. QED
    BY <2>1, <2>2, <2>3
<1> HIDE DEF ba, ex
<1>4. 0 \in S
  BY <1>1, <1>2
<1>5. ASSUME NEW m \in 1..Len(sc), m - 1 \in S PROVE m \in S
  <2>1. m \in 0..Len(sc) /\ m - 1 \in 0..Len(sc) /\ (j <= m => j <= m - 1 \/ j = m)
    BY <1>1
  <2>2. QED
    BY <1>1, <1>2, <1>3, <1>5, <2>1, SMTT(30)
<1>6. k \in S
  <2> HIDE DEF S
  <2>1. 0..Len(sc) \subseteq S
    BY <1>1, <1>4, <1>5, IntervalInduction
  <2>2. QED
    BY <2>1
<1>7. QED
  BY <1>2, <1>6 DEF ba, ex

(* A run is known by its number.                                           *)
LEMMA RunUnique ==
    ASSUME NEW sc \in Scripts, NEW j, NEW k, IsRun(sc, j), IsRun(sc, k)
    PROVE  /\ j < k => Timeline(sc)[j].expands < Timeline(sc)[k].expands
           /\ Timeline(sc)[j].expands = Timeline(sc)[k].expands => j = k
<1>1. ASSUME NEW a, NEW b, IsRun(sc, a), IsRun(sc, b), a < b
      PROVE  Timeline(sc)[a].expands < Timeline(sc)[b].expands
  <2>1. a \in 1..Len(sc) /\ b \in 1..Len(sc) /\ sc[b].op = "run" /\ Len(sc) \in Nat
    BY <1>1, ScriptFacts DEF IsRun
  <2>2. a \in 0..Len(sc) /\ b - 1 \in 0..Len(sc) /\ a <= b - 1
    BY <1>1, <2>1
  <2>3. Timeline(sc)[a].expands <= Timeline(sc)[b - 1].expands /\ Timeline(sc)[a].expands \in Nat
    BY <2>2, Later
  <2>4. /\ Timeline(sc)[b].expands = Timeline(sc)[b - 1].expands + 1 /\ Timeline(sc)[b - 1].expands \in Nat
    BY <2>1, CallCounts
  <2>5. QED
    BY <2>3, <2>4
<1>2. j \in Nat /\ k \in Nat /\ Timeline(sc)[j].expands \in Nat
  BY ScriptFacts, CallCounts DEF IsRun
<1>3. QED
  BY <1>1, <1>2

(* A run uses base OTs made after the last call but one.                    *)
LEMMA NewBatch ==
    ASSUME NEW sc \in Scripts, NEW a \in 0..Len(sc), NEW k, IsRun(sc, k), a < k,
           a < k - 1 \/ ~Timeline(sc)[a].has
    PROVE  Timeline(sc)[a].batches < Timeline(sc)[k].batches
<1>1. k \in 1..Len(sc) /\ sc[k].op = "run" /\ Len(sc) \in Nat /\ k - 1 \in 0..Len(sc) /\ a <= k - 1
  BY ScriptFacts DEF IsRun
<1>2. Timeline(sc)[a].batches <= Timeline(sc)[k - 1].batches /\ Timeline(sc)[a].batches \in Nat
  BY <1>1, Later
<1>3. /\ Timeline(sc)[k - 1].batches \in Nat
      /\ Timeline(sc)[k].batches = Timeline(sc)[k - 1].batches
                                     + (IF Makes(sc, k, Timeline(sc)[k - 1]) THEN 1 ELSE 0)
  BY <1>1, CallCounts
<1>4. CASE Makes(sc, k, Timeline(sc)[k - 1])
  BY <1>2, <1>3, <1>4
<1>5. CASE ~Makes(sc, k, Timeline(sc)[k - 1])
  <2>1. Timeline(sc)[k - 1].has
    BY <1>1, <1>5 DEF Makes
  <2>2. a < k - 1
    BY <1>1, <2>1
  <2>3. k - 1 \in 1..Len(sc) /\ (k - 1) - 1 \in 0..Len(sc) /\ a <= (k - 1) - 1
    BY <1>1, <2>2
  <2>4. Makes(sc, k - 1, Timeline(sc)[(k - 1) - 1])
    BY <2>1, <2>3, CallCounts DEF Makes
  <2>5. /\ Timeline(sc)[k - 1].batches = Timeline(sc)[(k - 1) - 1].batches + 1
        /\ Timeline(sc)[(k - 1) - 1].batches \in Nat
    BY <2>3, <2>4, CallCounts
  <2>6. Timeline(sc)[a].batches <= Timeline(sc)[(k - 1) - 1].batches
    BY <2>3, Later
  <2>7. QED
    BY <1>2, <1>3, <1>5, <2>5, <2>6
<1>6. QED
  BY <1>4, <1>5
---------------------------------------------------------------------------
(* Where the two parties can be. *)

LEMMA PlaceFacts ==
    ASSUME NEW sc \in Scripts, NEW x \in SendPhases, NEW k, PlaceOk(sc, x, k)
    PROVE  /\ k \in Nat /\ k >= 1 /\ k - 1 \in 0..Len(sc) /\ Len(sc) \in Nat
           /\ Timeline(sc)[k - 1] \in Entry
           /\ Batches(sc, k, x) \in Nat /\ Expands(sc, k, x) \in Nat
           /\ Timeline(sc)[k - 1].batches <= Batches(sc, k, x)
           /\ Timeline(sc)[k - 1].expands <= Expands(sc, k, x)
           /\ Timeline(sc)[k - 1].batches \in Nat /\ Timeline(sc)[k - 1].expands \in Nat
           /\ x # "idle" => k \in 1..Len(sc) /\ k \in 0..Len(sc)
           /\ x \in {"expand", "check", "correct"} => IsRun(sc, k) /\ Timeline(sc)[k].expands = Timeline(sc)[k - 1].expands + 1
<1>1. Len(sc) \in Nat
  BY ScriptFacts
<1>2. k \in Nat /\ k >= 1 /\ k - 1 \in 0..Len(sc) /\ (x # "idle" => k \in 1..Len(sc) /\ k \in 0..Len(sc))
  BY <1>1 DEF PlaceOk
<1>3. Timeline(sc)[k - 1] \in Entry
  BY <1>2, TimelineFacts
<1>4. PICK e : e = Timeline(sc)[k - 1]
  OBVIOUS
<1>5. e.batches \in Nat /\ e.expands \in Nat
  BY <1>3, <1>4 DEF Entry
<1>6. CASE x \in {"expand", "check", "correct"}
  <2>1. k \in 1..Len(sc) /\ IsRun(sc, k) /\ sc[k].op = "run"
    BY <1>2, <1>6 DEF PlaceOk, IsRun
  <2>2. PICK f : f = Timeline(sc)[k]
    OBVIOUS
  <2>3. f.batches \in Nat /\ f.expands = e.expands + 1 /\ e.batches <= f.batches
    BY <1>4, <1>5, <2>1, <2>2, CallCounts, SMTT(30)
  <2>4. Batches(sc, k, x) = f.batches /\ (Expands(sc, k, x) = e.expands \/ Expands(sc, k, x) = f.expands)
    BY <1>4, <1>6, <2>2 DEF Batches, Expands
  <2>5. QED
    BY <1>1, <1>2, <1>3, <1>4, <1>5, <2>1, <2>2, <2>3, <2>4
<1>7. CASE x \notin {"expand", "check", "correct"}
  <2>1. Batches(sc, k, x) = e.batches /\ Expands(sc, k, x) = e.expands
    BY <1>4, <1>7 DEF Batches, Expands
  <2>2. QED
    BY <1>1, <1>2, <1>3, <1>4, <1>5, <1>7, <2>1
<1>8. QED
  BY <1>6, <1>7

Together(sc, ks, x, kr, y, b) ==
    /\ x \in SendPhases /\ y \in RecvPhases
    /\ PlaceOk(sc, x, ks) /\ PlaceOk(sc, y, kr) /\ Sync(sc, ks, x, kr, y, b)

LEMMA SyncFacts ==
    ASSUME NEW sc \in Scripts, NEW ks, NEW x, NEW kr, NEW y, NEW b, Together(sc, ks, x, kr, y, b)
    PROVE  /\ ks \in Nat /\ kr \in Nat /\ b \in Nat
           /\ Batches(sc, ks, x) \in Nat /\ Batches(sc, kr, y) \in Nat
           /\ Expands(sc, ks, x) \in Nat /\ Expands(sc, kr, y) \in Nat
           /\ Batches(sc, kr, y) <= Batches(sc, ks, x) /\ Batches(sc, ks, x) <= b
           /\ y = "gen" => b = Batches(sc, kr, y) + 1
           /\ y # "gen" => b = Batches(sc, kr, y) /\ b = Batches(sc, ks, x)
<1>1. x \in SendPhases /\ y \in SendPhases /\ PlaceOk(sc, x, ks) /\ PlaceOk(sc, y, kr)
  BY DEF Together, SendPhases, RecvPhases
<1>2. /\ ks \in Nat /\ kr \in Nat /\ Batches(sc, ks, x) \in Nat /\ Batches(sc, kr, y) \in Nat
      /\ Expands(sc, ks, x) \in Nat /\ Expands(sc, kr, y) \in Nat
  BY <1>1, PlaceFacts
<1>3. /\ b = Batches(sc, kr, y) + (IF y = "gen" THEN 1 ELSE 0)
      /\ Batches(sc, kr, y) <= Batches(sc, ks, x) /\ Batches(sc, ks, x) <= b
  BY DEF Together, Sync
<1>4. QED
  BY <1>2, <1>3

(* A sender that finds the OTs of a batch has the receiver wait in the same *)
(* call.                                                                   *)
LEMMA AtGen ==
    ASSUME NEW sc \in Scripts, NEW ks, NEW kr, NEW y, NEW b, Together(sc, ks, "gen", kr, y, b),
           Batches(sc, ks, "gen") < b
    PROVE  /\ y = "gen" /\ kr = ks /\ b = Batches(sc, ks, "gen") + 1 /\ Batches(sc, ks, "gen") = Batches(sc, kr, y)
           /\ Expands(sc, ks, "gen") = Expands(sc, kr, y)
<1>1. PlaceOk(sc, "gen", ks) /\ PlaceOk(sc, y, kr)
  BY DEF Together
<1>2. y = "gen" /\ Batches(sc, ks, "gen") = Batches(sc, kr, y) /\ b = Batches(sc, ks, "gen") + 1
  BY SyncFacts
<1>3. PICK u, v : u = Timeline(sc)[ks - 1].batches /\ v = Timeline(sc)[kr - 1].batches
  OBVIOUS
<1>4. u = v /\ u \in Nat /\ v \in Nat /\ "gen" \in SendPhases
  BY <1>1, <1>2, <1>3, SyncFacts DEF Batches, SendPhases
<1>5. /\ ks \in 1..Len(sc) /\ kr \in 1..Len(sc) /\ Len(sc) \in Nat
      /\ Makes(sc, ks, Timeline(sc)[ks - 1]) /\ Makes(sc, kr, Timeline(sc)[kr - 1])
  BY <1>1, <1>2, <1>4, PlaceFacts DEF PlaceOk
<1>6. ASSUME NEW i \in 1..Len(sc), NEW j \in 1..Len(sc), i < j, Makes(sc, i, Timeline(sc)[i - 1])
      PROVE  Timeline(sc)[i - 1].batches < Timeline(sc)[j - 1].batches
  <2>1. Timeline(sc)[i].batches = Timeline(sc)[i - 1].batches + 1 /\ Timeline(sc)[i - 1].batches \in Nat
    BY <1>6, CallCounts
  <2>2. i \in 0..Len(sc) /\ j - 1 \in 0..Len(sc) /\ i <= j - 1
    BY <1>5, <1>6
  <2>3. Timeline(sc)[i].batches <= Timeline(sc)[j - 1].batches /\ Timeline(sc)[j - 1].batches \in Nat
    BY <2>2, Later
  <2>4. QED
    BY <2>1, <2>3
<1>7. ~(ks < kr) /\ ~(kr < ks)
  <2>1. ASSUME ks < kr PROVE FALSE
    <3>1. Timeline(sc)[ks - 1].batches < Timeline(sc)[kr - 1].batches
      BY <1>5, <1>6, <2>1
    <3>2. QED
      BY <1>3, <1>4, <3>1
  <2>2. ASSUME kr < ks PROVE FALSE
    <3>1. Timeline(sc)[kr - 1].batches < Timeline(sc)[ks - 1].batches
      BY <1>5, <1>6, <2>2
    <3>2. QED
      BY <1>3, <1>4, <3>1
  <2>3. QED
    BY <2>1, <2>2
<1>8. kr = ks
  BY <1>5, <1>7
<1>9. QED
  BY <1>2, <1>8 DEF Expands

(* A sender that is about to expand is an expand ahead of nobody.           *)
LEMMA AtExpand ==
    ASSUME NEW sc \in Scripts, NEW ks, NEW kr, NEW y, NEW b, Together(sc, ks, "expand", kr, y, b)
    PROVE  /\ y # "check" /\ kr <= ks /\ Expands(sc, ks, "expand") = Expands(sc, kr, y)
           /\ Expands(sc, ks, "expand") = Timeline(sc)[ks - 1].expands
<1>1. PlaceOk(sc, "expand", ks) /\ PlaceOk(sc, y, kr) /\ "expand" \in SendPhases /\ y \in RecvPhases /\ y \in SendPhases
  BY DEF Together, SendPhases, RecvPhases
<1>2. /\ IsRun(sc, ks) /\ ks \in 1..Len(sc) /\ Len(sc) \in Nat /\ kr \in Nat /\ kr >= 1 /\ kr - 1 \in 0..Len(sc)
      /\ Timeline(sc)[ks].expands = Timeline(sc)[ks - 1].expands + 1 /\ Timeline(sc)[ks - 1].expands \in Nat
      /\ Timeline(sc)[kr - 1].expands <= Expands(sc, kr, y) /\ Timeline(sc)[kr - 1].expands \in Nat
      /\ y # "idle" => kr \in 1..Len(sc)
  BY <1>1, PlaceFacts
<1>3. Expands(sc, ks, "expand") = Timeline(sc)[ks - 1].expands /\ Batches(sc, ks, "expand") = Timeline(sc)[ks].batches
  BY DEF Expands, Batches
<1>4. Expands(sc, kr, y) <= Expands(sc, ks, "expand") /\ Expands(sc, kr, y) \in Nat
  BY SyncFacts DEF Together, Sync
<1>5. kr <= ks
  <2> SUFFICES ASSUME ks < kr PROVE FALSE
    BY <1>2
  <2>1. ks \in 0..Len(sc) /\ ks <= kr - 1
    BY <1>2
  <2>2. Timeline(sc)[ks].expands <= Timeline(sc)[kr - 1].expands
    BY <1>2, <2>1, Later
  <2>3. QED
    BY <1>2, <1>3, <1>4, <2>2
<1>6. CASE kr = ks
  <2>1. y # "check"
    BY <1>2, <1>3, <1>4, <1>6 DEF Expands
  <2>2. Expands(sc, kr, y) = Timeline(sc)[kr - 1].expands
    BY <1>1, <2>1 DEF Expands, RecvPhases
  <2>3. QED
    BY <1>2, <1>3, <1>5, <1>6, <2>1, <2>2
<1>7. CASE kr < ks
  <2>1. Timeline(sc)[ks].batches <= b /\ b \in Nat /\ Timeline(sc)[ks].batches \in Nat
    BY <1>3, SyncFacts
  <2>2. ASSUME NEW a \in 0..Len(sc), a < ks, a < ks - 1 \/ ~Timeline(sc)[a].has, Timeline(sc)[a].batches = b PROVE FALSE
    <3>1. b < Timeline(sc)[ks].batches
      BY <1>2, <2>2, NewBatch
    <3>2. QED
      BY <2>1, <3>1
  <2>3. y # "idle"
    <3>1. ASSUME y = "idle" PROVE Timeline(sc)[kr - 1].batches = b
      BY <3>1, SyncFacts DEF Batches
    <3>2. kr - 1 < ks /\ kr - 1 < ks - 1
      BY <1>2, <1>7
    <3>3. QED
      BY <1>2, <2>2, <3>1, <3>2
  <2>4. kr \in 1..Len(sc) /\ kr \in 0..Len(sc)
    BY <1>2, <2>3
  <2>5. y = "gen" /\ Timeline(sc)[kr].batches = b
    <3>1. CASE y \in {"expand", "check"}
      <4>1. Timeline(sc)[kr].batches = b
        BY <3>1, SyncFacts DEF Batches
      <4>2. sc[kr].op = "run"
        BY <1>1, <3>1 DEF PlaceOk, IsRun
      <4>3. ~Timeline(sc)[kr].has
        BY <2>4, <4>2, CallCounts
      <4>4. QED
        BY <1>7, <2>2, <2>4, <4>1, <4>3
    <3>2. CASE y = "gen"
      <4>1. Timeline(sc)[kr - 1].batches + 1 = b
        BY <3>2, SyncFacts DEF Batches
      <4>2. Makes(sc, kr, Timeline(sc)[kr - 1])
        BY <1>1, <3>2 DEF PlaceOk
      <4>3. QED
        BY <2>4, <3>2, <4>1, <4>2, CallCounts
    <3>3. QED
      BY <1>1, <2>3, <3>1, <3>2 DEF RecvPhases
  <2>6. kr = ks - 1 /\ Timeline(sc)[kr].has
    <3>1. ~(kr < ks - 1) /\ Timeline(sc)[kr].has
      BY <1>7, <2>2, <2>4, <2>5
    <3>2. QED
      BY <1>2, <1>7, <3>1
  <2>7. sc[kr].op = "gen"
    BY <2>4, <2>6, CallCounts
  <2>8. Timeline(sc)[kr].expands = Timeline(sc)[kr - 1].expands /\ Expands(sc, kr, y) = Timeline(sc)[kr - 1].expands
    <3>1. Timeline(sc)[kr].expands = Timeline(sc)[kr - 1].expands
      <4>1. Timeline(sc)[kr].expands = Timeline(sc)[kr - 1].expands + 0 /\ Timeline(sc)[kr - 1].expands \in Nat
        BY <2>4, <2>7, CallCounts
      <4>2. QED
        BY <4>1
    <3>2. QED
      BY <2>5, <3>1 DEF Expands
  <2>9. QED
    BY <1>3, <1>5, <2>5, <2>6, <2>8
<1>8. QED
  BY <1>2, <1>3, <1>5, <1>6, <1>7

LEMMA AtCheck ==
    ASSUME NEW sc \in Scripts, NEW ks, NEW kr, NEW b, Together(sc, ks, "check", kr, "check", b)
    PROVE  ks = kr
<1>1. IsRun(sc, ks) /\ IsRun(sc, kr)
  BY DEF Together, PlaceOk
<1>2. Timeline(sc)[ks].expands = Timeline(sc)[kr].expands
  BY DEF Together, Sync, Expands
<1>3. QED
  BY <1>1, <1>2, RunUnique

(* A receiver that finds the leaves of its run has the sender wait for its  *)
(* part of the check, or for its correction.                               *)
LEMMA AtLeaves ==
    ASSUME NEW sc \in Scripts, NEW ks, NEW x, NEW kr, NEW b, Together(sc, ks, x, kr, "expand", b),
           Expands(sc, kr, "expand") < Expands(sc, ks, x)
    PROVE  /\ Expands(sc, ks, x) = Expands(sc, kr, "expand") + 1
           /\ Expands(sc, ks, x) = Timeline(sc)[kr].expands
           /\ MalRun(sc, kr) => x = "check" /\ ks = kr
           /\ ~MalRun(sc, kr) => Voted(kr, ks, x)
           /\ ChosenRun(sc, kr) /\ ~MalRun(sc, kr) => x = "correct" /\ ks = kr
<1>1. /\ PlaceOk(sc, x, ks) /\ PlaceOk(sc, "expand", kr) /\ x \in SendPhases /\ "expand" \in SendPhases
      /\ Sync(sc, ks, x, kr, "expand", b)
  BY DEF Together, SendPhases
<1>2. /\ IsRun(sc, kr) /\ kr \in 1..Len(sc) /\ Len(sc) \in Nat /\ ks \in Nat /\ ks >= 1 /\ ks - 1 \in 0..Len(sc)
      /\ Timeline(sc)[kr].expands = Timeline(sc)[kr - 1].expands + 1 /\ Timeline(sc)[kr - 1].expands \in Nat
      /\ Expands(sc, kr, "expand") = Timeline(sc)[kr - 1].expands
      /\ kr - 1 \in 0..Len(sc) /\ kr \in 0..Len(sc)
      /\ x # "idle" => ks \in 0..Len(sc)
  BY <1>1, PlaceFacts DEF Expands
<1>3. Expands(sc, ks, x) \in Nat /\ Expands(sc, ks, x) <= Expands(sc, kr, "expand") + 1
  BY <1>1, SyncFacts DEF Sync
<1>4. Expands(sc, ks, x) = Expands(sc, kr, "expand") + 1 /\ Expands(sc, ks, x) = Timeline(sc)[kr].expands
  BY <1>2, <1>3
<1>5. ks > kr \/ (ks = kr /\ x \in {"check", "correct"})
  <2>1. CASE x \in {"check", "correct"}
    <3>1. Expands(sc, ks, x) = Timeline(sc)[ks].expands /\ IsRun(sc, ks)
      BY <1>1, <2>1 DEF Expands, PlaceOk
    <3>2. ks = kr
      BY <1>2, <1>4, <3>1, RunUnique, ZenonT(40)
    <3>3. QED
      BY <2>1, <3>2
  <2>2. CASE x \notin {"check", "correct"}
    <3>1. Expands(sc, ks, x) = Timeline(sc)[ks - 1].expands
      BY <2>2 DEF Expands
    <3>2. ASSUME ks <= kr PROVE FALSE
      <4>1. ks - 1 <= kr - 1
        BY <1>2, <3>2
      <4>2. Timeline(sc)[ks - 1].expands <= Timeline(sc)[kr - 1].expands
        BY <1>2, <4>1, Later
      <4>3. QED
        BY <1>2, <1>4, <3>1, <4>2
    <3>3. QED
      BY <1>2, <3>2
  <2>3. QED
    BY <2>1, <2>2
<1>6. ASSUME MalRun(sc, kr) PROVE x = "check" /\ ks = kr
  <2>1. ~Voted(kr, ks, x)
    BY <1>1, <1>2, <1>6 DEF Sync, Opened
  <2>2. QED
    BY <1>5, <2>1 DEF Voted
<1>7. ASSUME ~MalRun(sc, kr) PROVE Voted(kr, ks, x)
  <2>1. x = "check" => MalRun(sc, ks)
    BY <1>1 DEF PlaceOk
  <2>2. QED
    BY <1>5, <1>7, <2>1 DEF Voted
<1>8. ASSUME ChosenRun(sc, kr), ~MalRun(sc, kr) PROVE x = "correct" /\ ks = kr
  <2>1. ~(ks > kr)
    BY <1>1, <1>2, <1>8 DEF Sync
  <2>2. QED
    BY <1>7, <1>8, <2>1 DEF Voted
<1>9. QED
  BY <1>4, <1>6, <1>7, <1>8

LEMMA AtVotes ==
    ASSUME NEW sc \in Scripts, NEW ks, NEW x, NEW kr, NEW b, Together(sc, ks, x, kr, "check", b), Voted(kr, ks, x)
    PROVE  ChosenRun(sc, kr) => x = "correct" /\ ks = kr
<1>1. Sync(sc, ks, x, kr, "check", b) /\ kr \in 1..Len(sc) /\ kr \in Nat
  BY SyncFacts DEF Together, PlaceOk, IsRun
<1>2. ChosenRun(sc, kr) => ~(ks > kr)
  BY <1>1 DEF Sync
<1>3. QED
  BY <1>2 DEF Voted
---------------------------------------------------------------------------
(* Steps that keep the parties together. *)

LEMMA SendSync ==
    ASSUME NEW sc \in Scripts, NEW ks, NEW x, NEW kr, NEW y, NEW b, Together(sc, ks, x, kr, y, b),
           NEW k2, NEW x2 \in SendPhases, PlaceOk(sc, x2, k2),
           Batches(sc, kr, y) <= Batches(sc, k2, x2), Batches(sc, k2, x2) <= b,
           Expands(sc, kr, y) <= Expands(sc, k2, x2), Expands(sc, k2, x2) <= Expands(sc, kr, y) + 1,
           y = "check" => Expands(sc, k2, x2) = Expands(sc, kr, y),
           \A k \in 1..Len(sc) : MalRun(sc, k) =>
               (Voted(k, k2, x2) => Voted(k, ks, x) \/ Opened(k, kr, y)) /\ (Voted(k, ks, x) => Voted(k, k2, x2)),
           \A k \in 1..Len(sc) : ChosenRun(sc, k) => (k2 > k => ks > k \/ kr > k)
    PROVE  Together(sc, k2, x2, kr, y, b)
<1>1. Sync(sc, ks, x, kr, y, b) /\ y \in RecvPhases /\ PlaceOk(sc, y, kr)
  BY DEF Together
<1>2. \A k \in 1..Len(sc) : MalRun(sc, k) =>
          (Voted(k, k2, x2) => Opened(k, kr, y)) /\ (kr > k => Voted(k, k2, x2))
  BY <1>1 DEF Sync
<1>3. \A k \in 1..Len(sc) : ChosenRun(sc, k) => (k2 > k => kr > k)
  BY <1>1 DEF Sync
<1>4. Sync(sc, k2, x2, kr, y, b)
  BY <1>1, <1>2, <1>3 DEF Sync
<1>5. QED
  BY <1>1, <1>4 DEF Together

LEMMA RecvSync ==
    ASSUME NEW sc \in Scripts, NEW ks, NEW x, NEW kr, NEW y, NEW b, Together(sc, ks, x, kr, y, b),
           NEW k2, NEW y2 \in RecvPhases, PlaceOk(sc, y2, k2), NEW b2,
           b2 = Batches(sc, k2, y2) + (IF y2 = "gen" THEN 1 ELSE 0),
           Batches(sc, k2, y2) <= Batches(sc, ks, x), Batches(sc, ks, x) <= b2,
           Expands(sc, k2, y2) <= Expands(sc, ks, x), Expands(sc, ks, x) <= Expands(sc, k2, y2) + 1,
           y2 = "check" => Expands(sc, ks, x) = Expands(sc, k2, y2),
           \A k \in 1..Len(sc) : MalRun(sc, k) =>
               (Opened(k, kr, y) => Opened(k, k2, y2)) /\ (k2 > k => kr > k \/ Voted(k, ks, x)),
           \A k \in 1..Len(sc) : ChosenRun(sc, k) => (kr > k => k2 > k)
    PROVE  Together(sc, ks, x, k2, y2, b2)
<1>1. Sync(sc, ks, x, kr, y, b) /\ x \in SendPhases /\ PlaceOk(sc, x, ks)
  BY DEF Together
<1>2. \A k \in 1..Len(sc) : MalRun(sc, k) =>
          (Voted(k, ks, x) => Opened(k, k2, y2)) /\ (k2 > k => Voted(k, ks, x))
  BY <1>1 DEF Sync
<1>3. \A k \in 1..Len(sc) : ChosenRun(sc, k) => (ks > k => k2 > k)
  BY <1>1 DEF Sync
<1>4. Sync(sc, ks, x, k2, y2, b2)
  BY <1>1, <1>2, <1>3 DEF Sync
<1>5. QED
  BY <1>1, <1>4 DEF Together

(* What a place becomes when the call is done, and what it was.             *)
LEMMA NextPlace ==
    ASSUME NEW sc \in Scripts, NEW k \in 1..Len(sc)
    PROVE  /\ PlaceOk(sc, "idle", k + 1) /\ "idle" \in SendPhases /\ "idle" \in RecvPhases
           /\ Batches(sc, k + 1, "idle") = Timeline(sc)[k].batches
           /\ Expands(sc, k + 1, "idle") = Timeline(sc)[k].expands
           /\ \A j \in 1..Len(sc) : (k + 1 > j <=> k > j \/ k = j)
<1>1. Len(sc) \in Nat /\ (k + 1) - 1 = k
  BY ScriptFacts
<1>2. QED
  BY <1>1 DEF PlaceOk, Batches, Expands, SendPhases, RecvPhases

(* The sender's steps that nobody notices.                                 *)
LEMMA QuietSend ==
    ASSUME NEW sc \in Scripts, NEW ks, NEW kr, NEW y, NEW b, Together(sc, ks, "idle", kr, y, b),
           NEW k2, NEW x2 \in {"idle", "gen", "expand"}, PlaceOk(sc, x2, k2),
           Batches(sc, k2, x2) = Batches(sc, ks, "idle"), Expands(sc, k2, x2) = Expands(sc, ks, "idle"),
           \A k \in 1..Len(sc) : IsRun(sc, k) => (k2 > k <=> ks > k)
    PROVE  /\ Together(sc, k2, x2, kr, y, b)
           /\ \A q : ToSender(sc, ks, "idle", kr, y, b, q) => ToSender(sc, k2, x2, kr, y, b, q)
           /\ \A used, q : ToReceiver(sc, ks, "idle", kr, y, used, q) => ToReceiver(sc, k2, x2, kr, y, used, q)
<1>1. \A k \in 1..Len(sc) : IsRun(sc, k) => (Voted(k, k2, x2) <=> Voted(k, ks, "idle"))
  BY DEF Voted
<1>2. Together(sc, k2, x2, kr, y, b)
  <2>1. x2 \in SendPhases
    BY DEF SendPhases
  <2>2. \A k \in 1..Len(sc) : MalRun(sc, k) => (Voted(k, k2, x2) <=> Voted(k, ks, "idle"))
    BY <1>1 DEF MalRun
  <2>3. \A k \in 1..Len(sc) : ChosenRun(sc, k) => (k2 > k <=> ks > k)
    BY DEF ChosenRun
  <2>4. Sync(sc, ks, "idle", kr, y, b)
    BY DEF Together
  <2>5. QED
    BY <2>1, <2>2, <2>3, <2>4, SendSync DEF Sync
<1>3. ASSUME NEW q, ToSender(sc, ks, "idle", kr, y, b, q) PROVE ToSender(sc, k2, x2, kr, y, b, q)
  BY <1>3 DEF ToSender
<1>4. ASSUME NEW used, NEW q, ToReceiver(sc, ks, "idle", kr, y, used, q)
      PROVE  ToReceiver(sc, k2, x2, kr, y, used, q)
  <2>1. y = "check" => IsRun(sc, kr) /\ kr \in 1..Len(sc)
    BY DEF Together, PlaceOk, IsRun
  <2>2. y = "check" => (Voted(kr, k2, x2) <=> Voted(kr, ks, "idle"))
    BY <1>1, <2>1
  <2>3. QED
    BY <1>4, <2>2 DEF ToReceiver
<1>5. QED
  BY <1>2, <1>3, <1>4

LEMMA Queues ==
    ASSUME NEW a, NEW b
    PROVE  /\ << >> \o << >> = << >> /\ <<a>> \o << >> = <<a>> /\ << >> \o <<a>> = <<a>> /\ <<a>> \o <<b>> = <<a, b>>
           /\ Append(<< >>, a) = <<a>> /\ Append(<<a>>, b) = <<a, b>>
           /\ Tail(<<a>>) = << >> /\ Tail(<<a, b>>) = <<b>> /\ Head(<<a>>) = a /\ Head(<<a, b>>) = a
           /\ <<a>> # << >> /\ <<a, b>> # << >>
<1> DEFINE S == {a, b}
<1>1. <<a>> \in Seq(S) /\ <<b>> \in Seq(S) /\ << >> \in Seq(S) /\ <<a, b>> \in Seq(S)
  OBVIOUS
<1>2. << >> \o << >> = << >> /\ <<a>> \o << >> = <<a>> /\ << >> \o <<a>> = <<a>>
  <2> HIDE DEF S
  <2>1. QED
    BY <1>1, ConcatEmptySeq
<1>3. <<a>> \o <<b>> = <<a, b>>
  <2>1. PICK u, v, w : u = <<a>> /\ v = <<b>> /\ w = <<a, b>>
    OBVIOUS
  <2>2. /\ u \in Seq(S) /\ v \in Seq(S) /\ w \in Seq(S) /\ Len(u) = 1 /\ Len(v) = 1 /\ Len(w) = 2
        /\ u[1] = a /\ v[1] = b /\ w[1] = a /\ w[2] = b
    BY <2>1
  <2> HIDE DEF S
  <2>3. /\ u \o v \in Seq(S) /\ Len(u \o v) = 2
        /\ \A i \in 1..2 : (u \o v)[i] = IF i <= 1 THEN u[i] ELSE v[i - 1]
    BY <2>2, ConcatProperties
  <2>4. \A i \in 1..Len(w) : (u \o v)[i] = w[i]
    <3>1. ASSUME NEW i \in 1..2 PROVE (u \o v)[i] = w[i]
      <4>1. i = 1 \/ i = 2
        OBVIOUS
      <4>2. QED
        BY <2>2, <2>3, <4>1
    <3>2. QED
      BY <2>2, <3>1
  <2>5. u \o v = w
    BY <2>2, <2>3, <2>4, SeqEqual
  <2>6. QED
    BY <2>1, <2>5
<1>4. Append(<< >>, a) = <<a>>
  OBVIOUS
<1>5. Append(<<a>>, b) = <<a, b>>
  <2>1. Append(<<a>>, b) = <<a>> \o <<b>>
    <3>1. PICK u, v : u = <<a>> /\ v = <<b>>
      OBVIOUS
    <3>2. u \in Seq(S) /\ b \in S
      BY <3>1
    <3> HIDE DEF S
    <3>3. Append(u, b) = u \o <<b>>
      BY <3>2, AppendIsConcat
    <3>4. QED
      BY <3>1, <3>3
  <2>2. QED
    BY <1>3, <2>1
<1>6. Tail(<<a>>) = << >> /\ Tail(<<a, b>>) = <<b>>
  OBVIOUS
<1>7. Head(<<a>>) = a /\ Head(<<a, b>>) = a
  OBVIOUS
<1>8. <<a>> # << >> /\ <<a, b>> # << >>
  OBVIOUS
<1>9. QED
  BY <1>2, <1>3, <1>4, <1>5, <1>6, <1>7, <1>8

(* The sender gets its base OTs.                                           *)
LEMMA SendGetsBase ==
    ASSUME NEW sc \in Scripts, NEW ks, NEW kr, NEW y, NEW b, Together(sc, ks, "gen", kr, y, b),
           NEW q, ToSender(sc, ks, "gen", kr, y, b, q), Ready(q, "ot"),
           NEW k2, NEW x2, (sc[ks].op = "gen" /\ k2 = ks + 1 /\ x2 = "idle") \/ (sc[ks].op = "run" /\ k2 = ks /\ x2 = "expand")
    PROVE  /\ ks \in 1..Len(sc) /\ b = Timeline(sc)[ks].batches /\ q = <<OtMsg(b)>>
           /\ Together(sc, k2, x2, kr, y, b)
           /\ Batches(sc, k2, x2) = b /\ Expands(sc, k2, x2) = Expands(sc, ks, "gen")
           /\ \A j \in 1..Len(sc) : IsRun(sc, j) => (k2 > j <=> ks > j)
           /\ ToSender(sc, k2, x2, kr, y, b, << >>)
           /\ \A used, qr : ToReceiver(sc, ks, "gen", kr, y, used, qr) =>
                 ToReceiver(sc, k2, x2, kr, y, used, Append(qr, [kind |-> "otAck"]))
<1> USE DEF Ready
<1>1. Batches(sc, ks, "gen") < b /\ q = <<OtMsg(b)>>
  <2>1. q = IF Batches(sc, ks, "gen") < b THEN <<OtMsg(b)>> ELSE << >>
    BY DEF ToSender
  <2>2. QED
    BY <2>1
<1>2. /\ y = "gen" /\ kr = ks /\ b = Batches(sc, ks, "gen") + 1 /\ Batches(sc, ks, "gen") = Batches(sc, kr, y)
      /\ Expands(sc, ks, "gen") = Expands(sc, kr, y)
  BY <1>1, AtGen
<1>3. /\ PlaceOk(sc, "gen", ks) /\ ks \in 1..Len(sc) /\ Len(sc) \in Nat /\ ks \in Nat
      /\ Sync(sc, ks, "gen", kr, y, b)
  BY ScriptFacts DEF Together, PlaceOk
<1>4. b = Timeline(sc)[ks].batches
  <2>1. Makes(sc, ks, Timeline(sc)[ks - 1])
    BY <1>3 DEF PlaceOk
  <2>2. Batches(sc, ks, "gen") = Timeline(sc)[ks - 1].batches
    BY DEF Batches
  <2>3. QED
    BY <1>2, <1>3, <2>1, <2>2, CallCounts
<1>5. /\ PlaceOk(sc, x2, k2) /\ x2 \in SendPhases /\ x2 \in {"idle", "expand"}
      /\ Batches(sc, k2, x2) = b /\ Expands(sc, k2, x2) = Expands(sc, ks, "gen")
      /\ \A j \in 1..Len(sc) : IsRun(sc, j) => (k2 > j <=> ks > j)
  <2>1. CASE sc[ks].op = "gen" /\ k2 = ks + 1 /\ x2 = "idle"
    <3>1. Timeline(sc)[ks].expands = Timeline(sc)[ks - 1].expands + 0 /\ Timeline(sc)[ks - 1].expands \in Nat
      BY <1>3, <2>1, CallCounts
    <3>2. Expands(sc, ks, "gen") = Timeline(sc)[ks - 1].expands
      BY DEF Expands
    <3>3. \A j \in 1..Len(sc) : IsRun(sc, j) => ks # j
      BY <2>1 DEF IsRun
    <3>4. QED
      BY <1>3, <1>4, <2>1, <3>1, <3>2, <3>3, NextPlace
  <2>2. CASE sc[ks].op = "run" /\ k2 = ks /\ x2 = "expand"
    BY <1>3, <1>4, <2>2 DEF PlaceOk, SendPhases, Batches, Expands, IsRun
  <2>3. QED
    BY <2>1, <2>2
<1>6. Together(sc, k2, x2, kr, y, b)
  <2>1. /\ Batches(sc, kr, y) <= b /\ b <= b /\ Expands(sc, kr, y) \in Nat
    BY SyncFacts
  <2>2. \A k \in 1..Len(sc) : IsRun(sc, k) => (Voted(k, k2, x2) <=> Voted(k, ks, "gen"))
    BY <1>5 DEF Voted
  <2>3. \A k \in 1..Len(sc) : MalRun(sc, k) => (Voted(k, k2, x2) <=> Voted(k, ks, "gen"))
    BY <2>2 DEF MalRun
  <2>4. \A k \in 1..Len(sc) : ChosenRun(sc, k) => (k2 > k <=> ks > k)
    BY <1>5 DEF ChosenRun
  <2>5. QED
    BY <1>2, <1>3, <1>5, <2>1, <2>3, <2>4, SendSync DEF Sync
<1>7. ToSender(sc, k2, x2, kr, y, b, << >>)
  BY <1>2, <1>5, SyncFacts DEF ToSender
<1>8. ASSUME NEW used, NEW qr, ToReceiver(sc, ks, "gen", kr, y, used, qr)
      PROVE  ToReceiver(sc, k2, x2, kr, y, used, Append(qr, [kind |-> "otAck"]))
  <2>1. qr = << >>
    BY <1>2, <1>8, SyncFacts, Queues DEF ToReceiver
  <2>2. Batches(sc, k2, x2) > Batches(sc, kr, y) /\ ~(Expands(sc, k2, x2) > Expands(sc, kr, y))
    BY <1>2, <1>5, SyncFacts
  <2>3. Append(qr, [kind |-> "otAck"]) = << [kind |-> "otAck"] >> \o << >>
    BY <2>1, Queues
  <2>4. QED
    BY <1>2, <2>2, <2>3 DEF ToReceiver
<1>9. QED
  BY <1>1, <1>3, <1>4, <1>5, <1>6, <1>7, <1>8

(* The sender expands: the receiver's leaves are on their way.              *)
LEMMA SendExpands ==
    ASSUME NEW sc \in Scripts, NEW ks, NEW kr, NEW y, NEW b, Together(sc, ks, "expand", kr, y, b),
           NEW q, ToSender(sc, ks, "expand", kr, y, b, q),
           NEW k2, NEW x2,
           \/ MalRun(sc, ks) /\ k2 = ks /\ x2 = "check"
           \/ ~MalRun(sc, ks) /\ ChosenRun(sc, ks) /\ k2 = ks /\ x2 = "correct"
           \/ ~MalRun(sc, ks) /\ ~ChosenRun(sc, ks) /\ k2 = ks + 1 /\ x2 = "idle"
    PROVE  /\ Together(sc, k2, x2, kr, y, b)
           /\ Batches(sc, k2, x2) = Timeline(sc)[ks].batches /\ Batches(sc, k2, x2) = Batches(sc, ks, "expand")
           /\ Expands(sc, k2, x2) = Expands(sc, ks, "expand") + 1 /\ Expands(sc, k2, x2) = Timeline(sc)[ks].expands
           /\ \A j \in 1..Len(sc) : IsRun(sc, j) =>
                 /\ Voted(j, k2, x2) <=> Voted(j, ks, "expand") \/ (j = ks /\ x2 # "check")
                 /\ k2 > j <=> ks > j \/ (j = ks /\ x2 = "idle")
           /\ ToSender(sc, k2, x2, kr, y, b, q)
           /\ \A used \in Seq(Nat), v \in Nat : \A qr : ToReceiver(sc, ks, "expand", kr, y, used, qr) =>
                 ToReceiver(sc, k2, x2, kr, y, Append(used, v), Append(qr, PprfMsg(Len(used) + 1, v)))
<1>1. PlaceOk(sc, "expand", ks) /\ "expand" \in SendPhases /\ Sync(sc, ks, "expand", kr, y, b)
  BY DEF Together
<1>2. /\ IsRun(sc, ks) /\ ks \in 1..Len(sc) /\ ks \in Nat /\ Len(sc) \in Nat
      /\ Timeline(sc)[ks].expands = Timeline(sc)[ks - 1].expands + 1
  BY <1>1, PlaceFacts
<1>3. /\ y # "check" /\ kr <= ks /\ Expands(sc, ks, "expand") = Expands(sc, kr, y)
      /\ Expands(sc, ks, "expand") = Timeline(sc)[ks - 1].expands
      /\ Batches(sc, ks, "expand") = Timeline(sc)[ks].batches
  BY AtExpand DEF Batches
<1>4. /\ PlaceOk(sc, x2, k2) /\ x2 \in SendPhases
      /\ Batches(sc, k2, x2) = Timeline(sc)[ks].batches /\ Expands(sc, k2, x2) = Timeline(sc)[ks].expands
  <2>1. CASE k2 = ks /\ x2 \in {"check", "correct"}
    <3>1. x2 = "check" => MalRun(sc, ks)
      BY <2>1
    <3>2. x2 = "correct" => ChosenRun(sc, ks)
      BY <2>1
    <3>3. QED
      BY <1>2, <2>1, <3>1, <3>2 DEF PlaceOk, SendPhases, Batches, Expands
  <2>2. CASE k2 = ks + 1 /\ x2 = "idle"
    BY <1>2, <2>2, NextPlace
  <2>3. QED
    BY <2>1, <2>2
<1>5. \A j \in 1..Len(sc) : IsRun(sc, j) =>
          /\ Voted(j, k2, x2) <=> Voted(j, ks, "expand") \/ (j = ks /\ x2 # "check")
          /\ k2 > j <=> ks > j \/ (j = ks /\ x2 = "idle")
  BY <1>2 DEF Voted
<1>6. Together(sc, k2, x2, kr, y, b)
  <2>1. \A k \in 1..Len(sc) : MalRun(sc, k) => (Voted(k, k2, x2) <=> Voted(k, ks, "expand"))
    BY <1>5 DEF MalRun
  <2>2. \A k \in 1..Len(sc) : ChosenRun(sc, k) => (k2 > k => ks > k)
    BY <1>5 DEF ChosenRun
  <2>3. /\ Batches(sc, kr, y) <= Batches(sc, k2, x2) /\ Batches(sc, k2, x2) <= b
        /\ Expands(sc, kr, y) <= Expands(sc, k2, x2) /\ Expands(sc, k2, x2) <= Expands(sc, kr, y) + 1
    BY <1>2, <1>3, <1>4, SyncFacts
  <2>4. QED
    BY <1>3, <1>4, <2>1, <2>2, <2>3, SendSync
<1>7. ToSender(sc, k2, x2, kr, y, b, q)
  <2>1. ~(x2 = "correct" /\ kr > k2)
    <3>1. x2 = "correct" => k2 = ks
      OBVIOUS
    <3>2. ~(kr > ks)
      BY <1>2, <1>3, SyncFacts
    <3>3. QED
      BY <3>1, <3>2
  <2>2. Batches(sc, k2, x2) = Batches(sc, ks, "expand")
    BY <1>3, <1>4
  <2>3. QED
    BY <1>3, <2>1, <2>2 DEF ToSender
<1>8. ASSUME NEW used \in Seq(Nat), NEW v \in Nat, NEW qr, ToReceiver(sc, ks, "expand", kr, y, used, qr)
      PROVE  ToReceiver(sc, k2, x2, kr, y, Append(used, v), Append(qr, PprfMsg(Len(used) + 1, v)))
  <2>1. PICK acks : acks = IF Batches(sc, ks, "expand") > Batches(sc, kr, y) THEN << [kind |-> "otAck"] >> ELSE << >>
    OBVIOUS
  <2>2. acks = << >> \/ acks = << [kind |-> "otAck"] >>
    BY <2>1
  <2>3. ~(Expands(sc, ks, "expand") > Expands(sc, kr, y)) /\ Expands(sc, k2, x2) > Expands(sc, kr, y)
    BY <1>2, <1>3, <1>4, SyncFacts
  <2>4. qr = acks \o << >>
    BY <1>3, <1>8, <2>1, <2>3 DEF ToReceiver
  <2>5. PICK m : m = PprfMsg(Len(used) + 1, v)
    OBVIOUS
  <2>6. Append(qr, m) = acks \o <<m>>
    BY <2>2, <2>4, Queues
  <2>7. Len(Append(used, v)) = Len(used) + 1 /\ Append(used, v)[Len(used) + 1] = v
    BY AppendProperties
  <2>8. m = PprfMsg(Len(Append(used, v)), Append(used, v)[Len(Append(used, v))])
    BY <2>5, <2>7
  <2>9. acks = IF Batches(sc, k2, x2) > Batches(sc, kr, y) THEN << [kind |-> "otAck"] >> ELSE << >>
    BY <1>3, <1>4, <2>1
  <2>10. Append(qr, m) = (IF Batches(sc, k2, x2) > Batches(sc, kr, y) THEN << [kind |-> "otAck"] >> ELSE << >>)
                 \o (IF Expands(sc, k2, x2) > Expands(sc, kr, y)
                     THEN << PprfMsg(Len(Append(used, v)), Append(used, v)[Len(Append(used, v))]) >> ELSE << >>)
    BY <2>3, <2>6, <2>8, <2>9
  <2>11. QED
    BY <1>3, <2>5, <2>10 DEF ToReceiver
<1>9. QED
  BY <1>2, <1>3, <1>4, <1>5, <1>6, <1>7, <1>8

(* The sender votes in the check.                                          *)
LEMMA SeedSeen ==
    ASSUME NEW sc \in Scripts, NEW ks, NEW kr, NEW y, NEW b, Together(sc, ks, "check", kr, y, b),
           NEW q, ToSender(sc, ks, "check", kr, y, b, q), Ready(q, "seed")
    PROVE  y = "check" /\ kr = ks /\ Tail(q) = << >>
<1>1. y = "check"
  <2> SUFFICES ASSUME y # "check" PROVE FALSE
    OBVIOUS
  <2>1. q = IF Batches(sc, ks, "check") < b THEN <<OtMsg(b)>> ELSE << >>
    BY DEF ToSender
  <2>2. q = <<OtMsg(b)>>
    BY <2>1 DEF Ready
  <2>3. Head(q) = OtMsg(b)
    BY <2>2, Queues
  <2>4. QED
    BY <2>3 DEF OtMsg, Ready
<1>2. kr = ks
  BY <1>1, AtCheck
<1>3. q = << [kind |-> "seed"] >>
  BY <1>1 DEF ToSender
<1>4. QED
  BY <1>1, <1>2, <1>3, Queues

LEMMA SendVotes ==
    ASSUME NEW sc \in Scripts, NEW ks, NEW b, Together(sc, ks, "check", ks, "check", b),
           NEW k2, NEW x2,
           \/ ChosenRun(sc, ks) /\ k2 = ks /\ x2 = "correct"
           \/ ~ChosenRun(sc, ks) /\ k2 = ks + 1 /\ x2 = "idle"
    PROVE  /\ Together(sc, k2, x2, ks, "check", b)
           /\ Batches(sc, k2, x2) = Batches(sc, ks, "check") /\ Expands(sc, k2, x2) = Expands(sc, ks, "check")
           /\ \A j \in 1..Len(sc) : IsRun(sc, j) =>
                 /\ Voted(j, k2, x2) <=> Voted(j, ks, "check") \/ j = ks
                 /\ k2 > j <=> ks > j \/ (j = ks /\ x2 = "idle")
           /\ ToSender(sc, k2, x2, ks, "check", b, << >>)
           /\ \A used, qr : ToReceiver(sc, ks, "check", ks, "check", used, qr) =>
                 ToReceiver(sc, k2, x2, ks, "check", used,
                            qr \o << VoleMsg(Timeline(sc)[ks].batches), HashMsg(Timeline(sc)[ks].expands) >>)
<1>4. PlaceOk(sc, "check", ks) /\ "check" \in SendPhases /\ Sync(sc, ks, "check", ks, "check", b)
  BY DEF Together
<1>5. IsRun(sc, ks) /\ ks \in 1..Len(sc) /\ ks \in Nat /\ Len(sc) \in Nat
  BY <1>4, PlaceFacts
<1>6. /\ PlaceOk(sc, x2, k2) /\ x2 \in SendPhases
      /\ Batches(sc, k2, x2) = Batches(sc, ks, "check") /\ Expands(sc, k2, x2) = Expands(sc, ks, "check")
  <2>1. Batches(sc, ks, "check") = Timeline(sc)[ks].batches /\ Expands(sc, ks, "check") = Timeline(sc)[ks].expands
    BY DEF Batches, Expands
  <2>2. CASE ChosenRun(sc, ks) /\ k2 = ks /\ x2 = "correct"
    BY <1>5, <2>1, <2>2 DEF PlaceOk, SendPhases, Batches, Expands
  <2>3. CASE k2 = ks + 1 /\ x2 = "idle"
    BY <1>5, <2>1, <2>3, NextPlace
  <2>4. QED
    BY <2>2, <2>3
<1>7. \A j \in 1..Len(sc) : IsRun(sc, j) =>
          /\ Voted(j, k2, x2) <=> Voted(j, ks, "check") \/ j = ks
          /\ k2 > j <=> ks > j \/ (j = ks /\ x2 = "idle")
  BY <1>5 DEF Voted
<1>8. Together(sc, k2, x2, ks, "check", b)
  <2>1. \A k \in 1..Len(sc) : MalRun(sc, k) =>
            (Voted(k, k2, x2) => Voted(k, ks, "check") \/ Opened(k, ks, "check")) /\ (Voted(k, ks, "check") => Voted(k, k2, x2))
    BY <1>7 DEF MalRun, Opened
  <2>2. \A k \in 1..Len(sc) : ChosenRun(sc, k) => (k2 > k => ks > k)
    BY <1>7 DEF ChosenRun
  <2>3. QED
    BY <1>4, <1>6, <2>1, <2>2, SendSync DEF Sync
<1>9. Batches(sc, k2, x2) = b /\ b \in Nat /\ Batches(sc, ks, "check") = b /\ Batches(sc, ks, "check") = b
  BY <1>6, SyncFacts
<1>10. ToSender(sc, k2, x2, ks, "check", b, << >>)
  <2>1. x2 # "check" /\ ~(x2 = "correct" /\ ks > k2)
    BY <1>5
  <2>2. QED
    BY <1>9, <2>1 DEF ToSender
<1>11. ASSUME NEW used, NEW qr, ToReceiver(sc, ks, "check", ks, "check", used, qr)
       PROVE  ToReceiver(sc, k2, x2, ks, "check", used,
                         qr \o << VoleMsg(Timeline(sc)[ks].batches), HashMsg(Timeline(sc)[ks].expands) >>)
  <2>1. ~Voted(ks, ks, "check") /\ Voted(ks, k2, x2)
    BY <1>5, <1>7 DEF Voted
  <2>2. ~(Batches(sc, ks, "check") > Batches(sc, ks, "check")) /\ ~(Expands(sc, ks, "check") > Expands(sc, ks, "check"))
    <3>1. Expands(sc, ks, "check") = Expands(sc, ks, "check") /\ Expands(sc, ks, "check") \in Nat
      BY SyncFacts
    <3>2. QED
      BY <1>9, <3>1
  <2>3. qr = << >>
    BY <1>11, <2>1, <2>2, Queues DEF ToReceiver
  <2>4. PICK ms : ms = << VoleMsg(Timeline(sc)[ks].batches), HashMsg(Timeline(sc)[ks].expands) >>
    OBVIOUS
  <2>5. << >> \o ms = ms
    <3>1. ms \in Seq({VoleMsg(Timeline(sc)[ks].batches), HashMsg(Timeline(sc)[ks].expands)})
      BY <2>4
    <3>2. QED
      BY <3>1, ConcatEmptySeq
  <2>6. QED
    BY <2>1, <2>3, <2>4, <2>5 DEF ToReceiver
<1>12. QED
  BY <1>6, <1>7, <1>8, <1>10, <1>11

(* The sender gets its correction.                                         *)
LEMMA SendGetsCorrection ==
    ASSUME NEW sc \in Scripts, NEW ks, NEW kr, NEW y, NEW b, Together(sc, ks, "correct", kr, y, b),
           NEW q, ToSender(sc, ks, "correct", kr, y, b, q), Ready(q, "correction")
    PROVE  /\ kr > ks /\ ks \in 1..Len(sc) /\ ChosenRun(sc, ks) /\ Head(q) = q[1]
           /\ Together(sc, ks + 1, "idle", kr, y, b)
           /\ Batches(sc, ks + 1, "idle") = Batches(sc, ks, "correct")
           /\ Expands(sc, ks + 1, "idle") = Expands(sc, ks, "correct")
           /\ \A j \in 1..Len(sc) : /\ Voted(j, ks + 1, "idle") <=> Voted(j, ks, "correct")
                                    /\ ks + 1 > j <=> ks > j \/ j = ks
           /\ ToSender(sc, ks + 1, "idle", kr, y, b, Tail(q))
           /\ \A used, qr : ToReceiver(sc, ks, "correct", kr, y, used, qr) =>
                 ToReceiver(sc, ks + 1, "idle", kr, y, used, qr)
<1> USE DEF Ready
<1>1. PlaceOk(sc, "correct", ks) /\ "correct" \in SendPhases /\ Sync(sc, ks, "correct", kr, y, b)
  BY DEF Together
<1>2. IsRun(sc, ks) /\ ks \in 1..Len(sc) /\ ks \in Nat /\ Len(sc) \in Nat /\ ChosenRun(sc, ks) /\ kr \in Nat
  BY <1>1, PlaceFacts, SyncFacts DEF PlaceOk
<1>3. PICK ots : ots = IF Batches(sc, ks, "correct") < b THEN <<OtMsg(b)>> ELSE << >>
  OBVIOUS
<1>4. ots = << >> \/ ots = <<OtMsg(b)>>
  BY <1>3
<1>5. kr > ks
  <2> SUFFICES ASSUME ~(kr > ks) PROVE FALSE
    OBVIOUS
  <2>1. q = ots
    BY <1>3 DEF ToSender
  <2>2. Head(q) = OtMsg(b)
    BY <1>4, <2>1, Queues
  <2>3. QED
    BY <2>2 DEF OtMsg
<1>6. PICK m : m = CorrectionMsg(q[1].bits)
  OBVIOUS
<1>7. q = <<m>> \o ots
  BY <1>3, <1>5, <1>6 DEF ToSender
<1>8. Tail(q) = ots /\ Head(q) = q[1]
  <2>1. PICK o : o = OtMsg(b)
    OBVIOUS
  <2>2. CASE ots = << >>
    <3>1. q = <<m>>
      BY <1>7, <2>2, Queues
    <3>2. q[1] = m
      BY <3>1
    <3>3. QED
      BY <2>2, <3>1, <3>2, Queues
  <2>3. CASE ots = <<o>>
    <3>1. q = <<m, o>>
      BY <1>7, <2>3, Queues
    <3>2. q[1] = m
      BY <3>1
    <3>3. QED
      BY <2>3, <3>1, <3>2, Queues
  <2>4. QED
    BY <1>4, <2>1, <2>2, <2>3
<1>9. /\ PlaceOk(sc, "idle", ks + 1) /\ "idle" \in SendPhases
      /\ Batches(sc, ks + 1, "idle") = Batches(sc, ks, "correct")
      /\ Expands(sc, ks + 1, "idle") = Expands(sc, ks, "correct")
  <2>1. Batches(sc, ks, "correct") = Timeline(sc)[ks].batches /\ Expands(sc, ks, "correct") = Timeline(sc)[ks].expands
    BY DEF Batches, Expands
  <2>2. QED
    BY <1>2, <2>1, NextPlace
<1>10. \A j \in 1..Len(sc) : /\ Voted(j, ks + 1, "idle") <=> Voted(j, ks, "correct")
                             /\ ks + 1 > j <=> ks > j \/ j = ks
  BY <1>2 DEF Voted
<1>11. Together(sc, ks + 1, "idle", kr, y, b)
  BY <1>1, <1>5, <1>9, <1>10, SendSync DEF Sync
<1>12. ToSender(sc, ks + 1, "idle", kr, y, b, Tail(q))
  BY <1>3, <1>8, <1>9 DEF ToSender
<1>13. ASSUME NEW used, NEW qr, ToReceiver(sc, ks, "correct", kr, y, used, qr)
       PROVE  ToReceiver(sc, ks + 1, "idle", kr, y, used, qr)
  <2>1. ~Voted(kr, ks, "correct") /\ ~Voted(kr, ks + 1, "idle")
    BY <1>2, <1>5 DEF Voted
  <2>2. QED
    BY <1>9, <1>13, <2>1 DEF ToReceiver
<1>14. QED
  BY <1>2, <1>5, <1>8, <1>9, <1>10, <1>11, <1>12, <1>13

(* The receiver's steps that nobody notices.                               *)
LEMMA QuietRecv ==
    ASSUME NEW sc \in Scripts, NEW ks, NEW x, NEW kr, NEW b, Together(sc, ks, x, kr, "idle", b),
           NEW k2, NEW y2 \in {"idle", "expand"}, PlaceOk(sc, y2, k2),
           Batches(sc, k2, y2) = Batches(sc, kr, "idle"), Expands(sc, k2, y2) = Expands(sc, kr, "idle"),
           \A k \in 1..Len(sc) : IsRun(sc, k) => (k2 > k <=> kr > k)
    PROVE  /\ Together(sc, ks, x, k2, y2, b)
           /\ \A q : ToSender(sc, ks, x, kr, "idle", b, q) => ToSender(sc, ks, x, k2, y2, b, q)
           /\ \A used, q : ToReceiver(sc, ks, x, kr, "idle", used, q) => ToReceiver(sc, ks, x, k2, y2, used, q)
<1>1. Sync(sc, ks, x, kr, "idle", b) /\ PlaceOk(sc, x, ks) /\ x \in SendPhases
  BY DEF Together
<1>2. Together(sc, ks, x, k2, y2, b)
  <2>1. y2 \in RecvPhases
    BY DEF RecvPhases
  <2>2. \A k \in 1..Len(sc) : MalRun(sc, k) =>
            (Opened(k, kr, "idle") => Opened(k, k2, y2)) /\ (k2 > k => kr > k \/ Voted(k, ks, x))
    BY DEF MalRun, Opened
  <2>3. \A k \in 1..Len(sc) : ChosenRun(sc, k) => (kr > k => k2 > k)
    BY DEF ChosenRun
  <2>4. b = Batches(sc, k2, y2) + (IF y2 = "gen" THEN 1 ELSE 0)
    BY <1>1 DEF Sync
  <2>5. QED
    BY <1>1, <2>1, <2>2, <2>3, <2>4, RecvSync DEF Sync
<1>3. ASSUME NEW q, ToSender(sc, ks, x, kr, "idle", b, q) PROVE ToSender(sc, ks, x, k2, y2, b, q)
  <2>1. x = "correct" => IsRun(sc, ks) /\ ks \in 1..Len(sc)
    BY <1>1 DEF PlaceOk, IsRun
  <2>2. x = "correct" => (k2 > ks <=> kr > ks)
    BY <2>1
  <2>3. QED
    BY <1>3, <2>2 DEF ToSender
<1>4. ASSUME NEW used, NEW q, ToReceiver(sc, ks, x, kr, "idle", used, q)
      PROVE  ToReceiver(sc, ks, x, k2, y2, used, q)
  BY <1>4 DEF ToReceiver
<1>5. QED
  BY <1>2, <1>3, <1>4

(* The receiver starts a batch of base OTs.                                *)
LEMMA RecvSamples ==
    ASSUME NEW sc \in Scripts, NEW ks, NEW x, NEW kr, NEW b, Together(sc, ks, x, kr, "idle", b),
           PlaceOk(sc, "gen", kr)
    PROVE  /\ Together(sc, ks, x, kr, "gen", b + 1)
           /\ Batches(sc, kr, "gen") = Batches(sc, kr, "idle") /\ Expands(sc, kr, "gen") = Expands(sc, kr, "idle")
           /\ \A q : ToSender(sc, ks, x, kr, "idle", b, q) =>
                 /\ ToSender(sc, ks, x, kr, "gen", b + 1, Append(q, OtMsg(b + 1)))
                 /\ q # << >> => Append(q, OtMsg(b + 1))[1] = q[1]
           /\ \A used, q : ToReceiver(sc, ks, x, kr, "idle", used, q) => ToReceiver(sc, ks, x, kr, "gen", used, q)
<1>1. Sync(sc, ks, x, kr, "idle", b) /\ PlaceOk(sc, x, ks) /\ x \in SendPhases
  BY DEF Together
<1>2. Batches(sc, kr, "gen") = Batches(sc, kr, "idle") /\ Expands(sc, kr, "gen") = Expands(sc, kr, "idle")
  BY DEF Batches, Expands
<1>3. b \in Nat /\ Batches(sc, kr, "idle") = b /\ Batches(sc, ks, x) = b
  BY SyncFacts
<1>4. Together(sc, ks, x, kr, "gen", b + 1)
  <2>1. "gen" \in RecvPhases
    BY DEF RecvPhases
  <2>2. \A k \in 1..Len(sc) : MalRun(sc, k) => (Opened(k, kr, "idle") => Opened(k, kr, "gen"))
    BY DEF Opened
  <2>3. QED
    BY <1>1, <1>2, <1>3, <2>1, <2>2, RecvSync DEF Sync
<1>5. ASSUME NEW q, ToSender(sc, ks, x, kr, "idle", b, q)
      PROVE  /\ ToSender(sc, ks, x, kr, "gen", b + 1, Append(q, OtMsg(b + 1)))
             /\ q # << >> => Append(q, OtMsg(b + 1))[1] = q[1]
  <2>1. PICK o : o = OtMsg(b + 1)
    OBVIOUS
  <2>2. Batches(sc, ks, x) < b + 1 /\ ~(Batches(sc, ks, x) < b)
    BY <1>3
  <2>3. CASE x = "correct" /\ kr > ks
    <3>1. PICK m : m = CorrectionMsg(q[1].bits)
      OBVIOUS
    <3>2. q = <<m>> \o << >>
      BY <1>5, <2>2, <2>3, <3>1 DEF ToSender
    <3>3. q = <<m>>
      BY <3>2, Queues
    <3>4. Append(q, o) = <<m, o>> /\ <<m, o>> = <<m>> \o <<o>>
      BY <3>3, Queues
    <3>5. Append(q, o)[1] = m /\ q[1] = m
      BY <3>3, <3>4
    <3>6. m = CorrectionMsg(Append(q, o)[1].bits)
      BY <3>1, <3>5
    <3>7. QED
      BY <2>1, <2>2, <2>3, <3>4, <3>5, <3>6 DEF ToSender
  <2>4. CASE ~(x = "correct" /\ kr > ks)
    <3>1. q = << >>
      BY <1>5, <2>2, <2>4 DEF ToSender
    <3>2. Append(q, o) = <<o>>
      BY <3>1, Queues
    <3>3. QED
      BY <2>1, <2>2, <2>4, <3>1, <3>2 DEF ToSender
  <2>5. QED
    BY <2>3, <2>4
<1>6. ASSUME NEW used, NEW q, ToReceiver(sc, ks, x, kr, "idle", used, q)
      PROVE  ToReceiver(sc, ks, x, kr, "gen", used, q)
  BY <1>2, <1>6 DEF ToReceiver
<1>7. QED
  BY <1>2, <1>4, <1>5, <1>6

(* The receiver gets its base OTs.                                         *)
LEMMA RecvGetsBase ==
    ASSUME NEW sc \in Scripts, NEW ks, NEW x, NEW kr, NEW b, Together(sc, ks, x, kr, "gen", b),
           NEW used, NEW qr, ToReceiver(sc, ks, x, kr, "gen", used, qr), Ready(qr, "otAck"),
           NEW k2, NEW y2, (sc[kr].op = "gen" /\ k2 = kr + 1 /\ y2 = "idle") \/ (sc[kr].op = "run" /\ k2 = kr /\ y2 = "expand")
    PROVE  /\ kr \in 1..Len(sc) /\ b = Timeline(sc)[kr].batches
           /\ Together(sc, ks, x, k2, y2, b)
           /\ Batches(sc, k2, y2) = b /\ Expands(sc, k2, y2) = Expands(sc, kr, "gen")
           /\ \A j \in 1..Len(sc) : IsRun(sc, j) => (k2 > j <=> kr > j)
           /\ \A q : ToSender(sc, ks, x, kr, "gen", b, q) => ToSender(sc, ks, x, k2, y2, b, q)
           /\ ToReceiver(sc, ks, x, k2, y2, used, Tail(qr))
<1> USE DEF Ready
<1>1. Sync(sc, ks, x, kr, "gen", b) /\ PlaceOk(sc, x, ks) /\ x \in SendPhases /\ PlaceOk(sc, "gen", kr)
  BY DEF Together
<1>2. PICK leaves : leaves = IF Expands(sc, ks, x) > Expands(sc, kr, "gen")
                               THEN << PprfMsg(Len(used), used[Len(used)]) >> ELSE << >>
  OBVIOUS
<1>3. leaves = << >> \/ leaves = << PprfMsg(Len(used), used[Len(used)]) >>
  BY <1>2
<1>4. PICK acks : acks = IF Batches(sc, ks, x) > Batches(sc, kr, "gen") THEN << [kind |-> "otAck"] >> ELSE << >>
  OBVIOUS
<1>5. qr = acks \o leaves
  BY <1>2, <1>4 DEF ToReceiver
<1>6. Batches(sc, ks, x) > Batches(sc, kr, "gen")
  <2> SUFFICES ASSUME acks = << >> PROVE FALSE
    BY <1>4
  <2>1. PICK m : m = PprfMsg(Len(used), used[Len(used)])
    OBVIOUS
  <2>2. qr = << >> \/ qr = <<m>>
    BY <1>3, <1>5, <2>1, Queues
  <2>3. Head(qr) = m
    BY <2>2, Queues
  <2>4. QED
    BY <2>1, <2>3 DEF PprfMsg
<1>7. b \in Nat /\ b = Batches(sc, kr, "gen") + 1 /\ Batches(sc, ks, x) = b
  BY <1>6, SyncFacts
<1>8. kr \in 1..Len(sc) /\ Len(sc) \in Nat /\ kr \in Nat
  BY <1>1, ScriptFacts DEF PlaceOk
<1>9. b = Timeline(sc)[kr].batches
  <2>1. Makes(sc, kr, Timeline(sc)[kr - 1])
    BY <1>1 DEF PlaceOk
  <2>2. Batches(sc, kr, "gen") = Timeline(sc)[kr - 1].batches
    BY DEF Batches
  <2>3. QED
    BY <1>7, <1>8, <2>1, <2>2, CallCounts
<1>10. /\ PlaceOk(sc, y2, k2) /\ y2 \in RecvPhases /\ y2 \in {"idle", "expand"}
       /\ Batches(sc, k2, y2) = b /\ Expands(sc, k2, y2) = Expands(sc, kr, "gen")
       /\ \A j \in 1..Len(sc) : IsRun(sc, j) => (k2 > j <=> kr > j)
  <2>1. CASE sc[kr].op = "gen" /\ k2 = kr + 1 /\ y2 = "idle"
    <3>1. Timeline(sc)[kr].expands = Timeline(sc)[kr - 1].expands + 0 /\ Timeline(sc)[kr - 1].expands \in Nat
      BY <1>8, <2>1, CallCounts
    <3>2. Expands(sc, kr, "gen") = Timeline(sc)[kr - 1].expands
      BY DEF Expands
    <3>3. \A j \in 1..Len(sc) : IsRun(sc, j) => kr # j
      BY <2>1 DEF IsRun
    <3>4. QED
      BY <1>8, <1>9, <2>1, <3>1, <3>2, <3>3, NextPlace
  <2>2. CASE sc[kr].op = "run" /\ k2 = kr /\ y2 = "expand"
    BY <1>8, <1>9, <2>2 DEF PlaceOk, RecvPhases, Batches, Expands, IsRun
  <2>3. QED
    BY <2>1, <2>2
<1>11. Together(sc, ks, x, k2, y2, b)
  <2>1. \A k \in 1..Len(sc) : MalRun(sc, k) =>
            (Opened(k, kr, "gen") => Opened(k, k2, y2)) /\ (k2 > k => kr > k)
    BY <1>10 DEF MalRun, Opened
  <2>2. \A k \in 1..Len(sc) : ChosenRun(sc, k) => (kr > k => k2 > k)
    BY <1>10 DEF ChosenRun
  <2>3. b = Batches(sc, k2, y2) + (IF y2 = "gen" THEN 1 ELSE 0) /\ y2 # "check"
    BY <1>7, <1>10
  <2>4. Batches(sc, k2, y2) <= Batches(sc, ks, x) /\ Batches(sc, ks, x) <= b
    BY <1>7, <1>10
  <2>5. QED
    BY <1>1, <1>10, <2>1, <2>2, <2>3, <2>4, RecvSync DEF Sync
<1>12. ASSUME NEW q, ToSender(sc, ks, x, kr, "gen", b, q) PROVE ToSender(sc, ks, x, k2, y2, b, q)
  <2>1. x = "correct" => IsRun(sc, ks) /\ ks \in 1..Len(sc)
    BY <1>1 DEF PlaceOk, IsRun
  <2>2. x = "correct" => (k2 > ks <=> kr > ks)
    BY <1>10, <2>1
  <2>3. QED
    BY <1>10, <1>12, <2>2 DEF ToSender
<1>13. ToReceiver(sc, ks, x, k2, y2, used, Tail(qr))
  <2>1. ~(Batches(sc, ks, x) > Batches(sc, k2, y2)) /\ y2 # "check"
    BY <1>7, <1>10
  <2>2. PICK m : m = PprfMsg(Len(used), used[Len(used)])
    OBVIOUS
  <2>3. PICK a : a = [kind |-> "otAck"]
    OBVIOUS
  <2>4. qr = <<a>> \o leaves
    BY <1>4, <1>5, <1>6, <2>3
  <2>5. Tail(qr) = leaves /\ << >> \o leaves = leaves
    <3>1. CASE leaves = << >>
      <4>1. qr = <<a>>
        BY <2>4, <3>1, Queues
      <4>2. QED
        BY <3>1, <4>1, Queues
    <3>2. CASE leaves = <<m>>
      <4>1. qr = <<a, m>>
        BY <2>4, <3>2, Queues
      <4>2. QED
        BY <3>2, <4>1, Queues
    <3>3. QED
      BY <1>3, <2>2, <3>1, <3>2
  <2>6. Expands(sc, ks, x) > Expands(sc, k2, y2) <=> Expands(sc, ks, x) > Expands(sc, kr, "gen")
    BY <1>10
  <2>7. Tail(qr) = << >> \o (IF Expands(sc, ks, x) > Expands(sc, k2, y2)
                               THEN << PprfMsg(Len(used), used[Len(used)]) >> ELSE << >>)
    BY <1>2, <2>5, <2>6
  <2>8. QED
    BY <2>1, <2>7 DEF ToReceiver
<1>14. QED
  BY <1>8, <1>9, <1>10, <1>11, <1>12, <1>13

(* The receiver finds its leaves.                                          *)
LEMMA LeavesReady ==
    ASSUME NEW sc \in Scripts, NEW ks, NEW x, NEW kr, NEW b, Together(sc, ks, x, kr, "expand", b),
           NEW used, NEW qr, ToReceiver(sc, ks, x, kr, "expand", used, qr), Ready(qr, "pprf")
    PROVE  /\ Head(qr) = PprfMsg(Len(used), used[Len(used)]) /\ Tail(qr) = << >>
           /\ Expands(sc, kr, "expand") < Expands(sc, ks, x)
           /\ b \in Nat /\ Batches(sc, ks, x) = b /\ Batches(sc, kr, "expand") = b /\ b = Timeline(sc)[kr].batches
<1> USE DEF Ready
<1>1. /\ b \in Nat /\ Batches(sc, ks, x) = b /\ Batches(sc, kr, "expand") = b
      /\ Expands(sc, ks, x) \in Nat /\ Expands(sc, kr, "expand") \in Nat
  BY SyncFacts
<1>2. PICK m : m = PprfMsg(Len(used), used[Len(used)])
  OBVIOUS
<1>3. PICK leaves : leaves = IF Expands(sc, ks, x) > Expands(sc, kr, "expand") THEN <<m>> ELSE << >>
  OBVIOUS
<1>4. qr = << >> \o leaves
  BY <1>1, <1>2, <1>3 DEF ToReceiver
<1>5. leaves = <<m>> /\ Expands(sc, ks, x) > Expands(sc, kr, "expand")
  BY <1>3, <1>4, Queues
<1>6. qr = <<m>>
  BY <1>4, <1>5, Queues
<1>7. Head(qr) = m /\ Tail(qr) = << >>
  BY <1>6, Queues
<1>8. QED
  BY <1>1, <1>2, <1>5, <1>7 DEF Batches

(* A receiver that checks opens its leaves.                                *)
LEMMA RecvOpens ==
    ASSUME NEW sc \in Scripts, NEW ks, NEW x, NEW kr, NEW b, Together(sc, ks, x, kr, "expand", b),
           Expands(sc, kr, "expand") < Expands(sc, ks, x), MalRun(sc, kr)
    PROVE  /\ Together(sc, ks, x, kr, "check", b)
           /\ Batches(sc, kr, "check") = Batches(sc, kr, "expand")
           /\ Expands(sc, kr, "check") = Expands(sc, kr, "expand") + 1 /\ Expands(sc, kr, "check") = Expands(sc, ks, x)
           /\ \A q : ToSender(sc, ks, x, kr, "expand", b, q) =>
                 ToSender(sc, ks, x, kr, "check", b, Append(q, [kind |-> "seed"]))
           /\ \A used : ToReceiver(sc, ks, x, kr, "check", used, << >>)
<1>1. Sync(sc, ks, x, kr, "expand", b) /\ PlaceOk(sc, x, ks) /\ x \in SendPhases /\ PlaceOk(sc, "expand", kr)
  BY DEF Together
<1>2. /\ Expands(sc, ks, x) = Expands(sc, kr, "expand") + 1 /\ Expands(sc, ks, x) = Timeline(sc)[kr].expands
      /\ x = "check" /\ ks = kr
  BY AtLeaves
<1>3. /\ b \in Nat /\ Batches(sc, ks, x) = b /\ Batches(sc, kr, "expand") = b
      /\ Expands(sc, ks, x) \in Nat /\ Expands(sc, kr, "expand") \in Nat /\ kr \in Nat
  BY SyncFacts
<1>4. Batches(sc, kr, "check") = Batches(sc, kr, "expand") /\ Expands(sc, kr, "check") = Timeline(sc)[kr].expands
  BY DEF Batches, Expands
<1>5. Together(sc, ks, x, kr, "check", b)
  <2>1. "check" \in RecvPhases /\ PlaceOk(sc, "check", kr)
    BY <1>1 DEF RecvPhases, PlaceOk
  <2>2. \A k \in 1..Len(sc) : MalRun(sc, k) =>
            (Opened(k, kr, "expand") => Opened(k, kr, "check")) /\ (kr > k => kr > k \/ Voted(k, ks, x))
    BY DEF Opened
  <2>3. b = Batches(sc, kr, "check") + (IF "check" = "gen" THEN 1 ELSE 0)
    BY <1>3, <1>4
  <2>4. QED
    BY <1>1, <1>2, <1>3, <1>4, <2>1, <2>2, <2>3, RecvSync
<1>6. ASSUME NEW q, ToSender(sc, ks, x, kr, "expand", b, q)
      PROVE  ToSender(sc, ks, x, kr, "check", b, Append(q, [kind |-> "seed"]))
  <2>1. q = << >>
    BY <1>2, <1>3, <1>6 DEF ToSender
  <2>2. Append(q, [kind |-> "seed"]) = << [kind |-> "seed"] >>
    BY <2>1, Queues
  <2>3. QED
    BY <1>2, <2>2 DEF ToSender
<1>7. ASSUME NEW used PROVE ToReceiver(sc, ks, x, kr, "check", used, << >>)
  <2>1. ~Voted(kr, ks, x)
    BY <1>2, <1>3 DEF Voted
  <2>2. ~(Batches(sc, ks, x) > Batches(sc, kr, "check")) /\ ~(Expands(sc, ks, x) > Expands(sc, kr, "check"))
    BY <1>2, <1>3, <1>4
  <2>3. QED
    BY <2>1, <2>2, Queues DEF ToReceiver
<1>8. QED
  BY <1>2, <1>4, <1>5, <1>6, <1>7

(* The receiver is done with a run: it expands without a check, or checks.  *)
CanFinish(sc, ks, x, kr, y) ==
    \/ y = "expand" /\ ~MalRun(sc, kr) /\ Expands(sc, kr, y) < Expands(sc, ks, x)
    \/ y = "check" /\ Voted(kr, ks, x)
LEMMA RecvFinishes ==
    ASSUME NEW sc \in Scripts, NEW ks, NEW x, NEW kr, NEW y, NEW b, Together(sc, ks, x, kr, y, b),
           CanFinish(sc, ks, x, kr, y)
    PROVE  /\ kr \in 1..Len(sc) /\ kr \in Nat /\ IsRun(sc, kr) /\ Voted(kr, ks, x)
           /\ Together(sc, ks, x, kr + 1, "idle", b)
           /\ Batches(sc, kr + 1, "idle") = Batches(sc, kr, y)
           /\ Expands(sc, kr + 1, "idle") = Expands(sc, ks, x) /\ Expands(sc, kr + 1, "idle") = Timeline(sc)[kr].expands
           /\ ChosenRun(sc, kr) => ks = kr /\ x = "correct"
           /\ \A used : ToReceiver(sc, ks, x, kr + 1, "idle", used, << >>)
<1>1. /\ Sync(sc, ks, x, kr, y, b) /\ PlaceOk(sc, x, ks) /\ x \in SendPhases /\ PlaceOk(sc, y, kr)
      /\ y \in {"expand", "check"} /\ y \in SendPhases
  BY DEF Together, SendPhases, CanFinish
<1>2. /\ IsRun(sc, kr) /\ kr \in 1..Len(sc) /\ kr \in Nat /\ Len(sc) \in Nat
      /\ Timeline(sc)[kr].expands = Timeline(sc)[kr - 1].expands + 1 /\ Timeline(sc)[kr - 1].expands \in Nat
  BY <1>1, PlaceFacts
<1>3. /\ b \in Nat /\ Batches(sc, ks, x) = b /\ Batches(sc, kr, y) = b /\ ks \in Nat
      /\ Expands(sc, ks, x) \in Nat /\ Expands(sc, kr, y) \in Nat
  BY <1>1, SyncFacts
<1>4. /\ Voted(kr, ks, x) /\ (ChosenRun(sc, kr) => x = "correct" /\ ks = kr)
      /\ Expands(sc, ks, x) = Timeline(sc)[kr].expands
      /\ Expands(sc, ks, x) = Expands(sc, kr, y) + (IF y = "expand" THEN 1 ELSE 0)
  <2>1. CASE y = "expand"
    BY <2>1, AtLeaves DEF CanFinish
  <2>2. CASE y = "check"
    <3>1. Expands(sc, ks, x) = Expands(sc, kr, y)
      BY <1>1, <2>2 DEF Sync
    <3>2. Expands(sc, kr, y) = Timeline(sc)[kr].expands
      BY <2>2 DEF Expands
    <3>3. QED
      BY <1>3, <2>2, <3>1, <3>2, AtVotes DEF CanFinish
  <2>3. QED
    BY <1>1, <2>1, <2>2
<1>5. /\ PlaceOk(sc, "idle", kr + 1) /\ "idle" \in RecvPhases
      /\ Batches(sc, kr + 1, "idle") = Timeline(sc)[kr].batches /\ Expands(sc, kr + 1, "idle") = Timeline(sc)[kr].expands
  BY <1>2, NextPlace
<1>6. Batches(sc, kr + 1, "idle") = Batches(sc, kr, y)
  BY <1>1, <1>5 DEF Batches
<1>7. Together(sc, ks, x, kr + 1, "idle", b)
  <2>1. \A k \in 1..Len(sc) : MalRun(sc, k) =>
            (Opened(k, kr, y) => Opened(k, kr + 1, "idle")) /\ (kr + 1 > k => kr > k \/ Voted(k, ks, x))
    <3>1. ASSUME NEW k \in 1..Len(sc) PROVE kr + 1 > k <=> kr > k \/ k = kr
      BY <1>2
    <3>2. QED
      BY <1>1, <1>4, <3>1 DEF Opened
  <2>2. \A k \in 1..Len(sc) : ChosenRun(sc, k) => (kr > k => kr + 1 > k)
    BY <1>2
  <2>3. b = Batches(sc, kr + 1, "idle") + (IF "idle" = "gen" THEN 1 ELSE 0)
    BY <1>3, <1>6
  <2>4. /\ Batches(sc, kr + 1, "idle") <= Batches(sc, ks, x) /\ Batches(sc, ks, x) <= b
        /\ Expands(sc, kr + 1, "idle") <= Expands(sc, ks, x) /\ Expands(sc, ks, x) <= Expands(sc, kr + 1, "idle") + 1
    BY <1>3, <1>4, <1>5, <1>6
  <2>5. QED
    BY <1>5, <2>1, <2>2, <2>3, <2>4, RecvSync
<1>8. \A used : ToReceiver(sc, ks, x, kr + 1, "idle", used, << >>)
  BY <1>3, <1>4, <1>5, <1>6, Queues DEF ToReceiver
<1>9. QED
  BY <1>2, <1>4, <1>5, <1>6, <1>7, <1>8

Answered(sc, kr, q, bits) == IF ChosenRun(sc, kr) THEN Append(q, CorrectionMsg(bits)) ELSE q
LEMMA RecvAnswers ==
    ASSUME NEW sc \in Scripts, NEW ks, NEW x, NEW kr, NEW y, NEW b, Together(sc, ks, x, kr, y, b),
           CanFinish(sc, ks, x, kr, y),
           NEW q, ToSender(sc, ks, x, kr, y, b, q), NEW bits, NEW q2,
           q2 = Answered(sc, kr, q, bits)
    PROVE  /\ ToSender(sc, ks, x, kr + 1, "idle", b, q2)
           /\ ChosenRun(sc, kr) => q2[1].bits = bits
<1>1. y \in {"expand", "check"} /\ y \in SendPhases /\ PlaceOk(sc, y, kr) /\ PlaceOk(sc, x, ks) /\ x \in SendPhases
  BY DEF Together, SendPhases, CanFinish
<1>2. kr \in Nat /\ Voted(kr, ks, x) /\ (ChosenRun(sc, kr) => ks = kr /\ x = "correct")
  BY RecvFinishes
<1>3. b \in Nat /\ Batches(sc, ks, x) = b /\ ks \in Nat
  BY <1>1, SyncFacts
<1>4. q = << >>
  <2>1. ~(x = "check" /\ y = "check")
    <3>1. ASSUME x = "check", y = "check" PROVE FALSE
      <4>1. ks = kr
        BY <3>1, AtCheck
      <4>2. QED
        BY <1>2, <1>3, <3>1, <4>1 DEF Voted
    <3>2. QED
      BY <3>1
  <2>2. ~(kr > ks)
    BY <1>2, <1>3 DEF Voted
  <2>3. ~(Batches(sc, ks, x) < b)
    BY <1>3
  <2>4. QED
    BY <2>1, <2>2, <2>3 DEF ToSender
<1>5. CASE ChosenRun(sc, kr)
  <2>1. PICK m : m = CorrectionMsg(bits)
    OBVIOUS
  <2>2. q2 = <<m>> /\ <<m>> = <<m>> \o << >>
    BY <1>4, <1>5, <2>1, Queues DEF Answered
  <2>3. q2[1] = m /\ q2[1].bits = bits
    BY <2>1, <2>2 DEF CorrectionMsg
  <2>4. CorrectionMsg(q2[1].bits) = m
    BY <2>1, <2>3
  <2>5. kr + 1 > ks /\ x = "correct" /\ ~(Batches(sc, ks, x) < b)
    BY <1>2, <1>3, <1>5
  <2>6. ToSender(sc, ks, x, kr + 1, "idle", b, q2)
    BY <2>2, <2>4, <2>5 DEF ToSender
  <2>7. QED
    BY <2>3, <2>6
<1>6. CASE ~ChosenRun(sc, kr)
  <2>1. ~(x = "correct" /\ kr + 1 > ks)
    <3>1. ASSUME x = "correct", kr + 1 > ks PROVE FALSE
      <4>1. ks = kr
        BY <1>2, <1>3, <3>1 DEF Voted
      <4>2. QED
        BY <1>1, <1>6, <3>1, <4>1 DEF PlaceOk
    <3>2. QED
      BY <3>1
  <2>2. q2 = q /\ ~(Batches(sc, ks, x) < b)
    BY <1>3, <1>6 DEF Answered
  <2>3. ToSender(sc, ks, x, kr + 1, "idle", b, q2)
    BY <1>4, <2>1, <2>2 DEF ToSender
  <2>4. QED
    BY <1>6, <2>3
<1>7. QED
  BY <1>5, <1>6

(* The receiver finds the sender's part of the check.                      *)
LEMMA VoteReady ==
    ASSUME NEW sc \in Scripts, NEW ks, NEW x, NEW kr, NEW b, Together(sc, ks, x, kr, "check", b),
           NEW used, NEW qr, ToReceiver(sc, ks, x, kr, "check", used, qr), Len(qr) >= 2
    PROVE  /\ Voted(kr, ks, x) /\ Tail(Tail(qr)) = << >>
           /\ qr[1] = VoleMsg(Timeline(sc)[kr].batches) /\ qr[2] = HashMsg(Timeline(sc)[kr].expands)
<1>1. Voted(kr, ks, x)
  <2> SUFFICES ASSUME ~Voted(kr, ks, x) PROVE FALSE
    OBVIOUS
  <2>1. Batches(sc, ks, x) = Batches(sc, kr, "check") /\ Batches(sc, kr, "check") \in Nat
    BY SyncFacts
  <2>2. Expands(sc, ks, x) = Expands(sc, kr, "check") /\ Expands(sc, kr, "check") \in Nat
    BY SyncFacts DEF Together, Sync
  <2>3. qr = << >>
    BY <2>1, <2>2, Queues DEF ToReceiver
  <2>4. QED
    BY <2>3
<1>2. PICK v, h : v = VoleMsg(Timeline(sc)[kr].batches) /\ h = HashMsg(Timeline(sc)[kr].expands)
  OBVIOUS
<1>3. qr = <<v, h>>
  BY <1>1, <1>2 DEF ToReceiver
<1>4. Tail(qr) = <<h>> /\ Tail(<<h>>) = << >> /\ qr[1] = v /\ qr[2] = h
  <2>1. Tail(qr) = <<h>> /\ Tail(<<h>>) = << >>
    BY <1>3, Queues
  <2>2. QED
    BY <1>3, <2>1
<1>5. QED
  BY <1>1, <1>2, <1>4
---------------------------------------------------------------------------
(* Blocks: what the outputs are. *)

LEMMA NoiseFacts ==
    /\ IsFiniteSet(Noise) /\ Noise \subseteq Nat
    /\ \A T \in SUBSET Noise : IsFiniteSet(T)
<1>1. SizePer * Partitions - 1 \in Int
  BY SilentOtAssumption
<1>2. IsFiniteSet(Noise) /\ Noise \subseteq Nat
  BY <1>1, FS_Interval DEF Noise
<1>3. QED
  BY <1>2, FS_Subset

(* The choices that the code makes of the noise.                           *)
BitsOf(n, S) == { i \in 0..(n - 1) : Cardinality(Code[n][i] \cap S) % 2 = 1 }

(* The sum of unspoilt leaves: that of the sender's leaves, and delta when  *)
(* the points among them are odd in number.                                *)
LEMMA SumOfLeaves ==
    ASSUME NEW e, NEW S, NEW T \in SUBSET Noise, NEW A,
           \A q \in Noise : A[q] = Xor(LeafOf(e, q), BitTimes(q \in S, Delta(e)))
    PROVE  XorSum(A, T) = Xor(XorSum(Leaves(e), T), BitTimes(Cardinality(T \cap S) % 2 = 1, Delta(e)))
<1> DEFINE L == Leaves(e)
           D == [q \in Noise |-> BitTimes(q \in S, Delta(e))]
<1>1. IsFiniteSet(T) /\ IsFiniteSet(T \cap S)
  BY NoiseFacts, FS_Subset, T \cap S \in SUBSET T
<1>2. \A q \in T : A[q] = Xor(L[q], D[q])
  BY DEF Leaves
<1>3. XorSum(A, T) = Xor(XorSum(L, T), XorSum(D, T))
  <2> HIDE DEF L, D
  <2>1. QED
    BY <1>1, <1>2, XorSumOfXor
<1>4. XorSum(D, T) = BitTimes(Cardinality(T \cap S) % 2 = 1, Delta(e))
  <2>1. ASSUME NEW z PROVE z \in XorSum(D, T) <=> z \in BitTimes(Cardinality(T \cap S) % 2 = 1, Delta(e))
    <3>1. z \in XorSum(D, T) <=> Cardinality({ q \in T : z \in D[q] }) % 2 = 1
      <4> HIDE DEF D
      <4>1. QED
        BY <1>1, InXorSum
    <3>2. CASE z \in Delta(e)
      <4>1. { q \in T : z \in D[q] } = T \cap S
        BY <3>2 DEF BitTimes, ZeroBlock
      <4>2. QED
        BY <3>1, <3>2, <4>1 DEF BitTimes, ZeroBlock
    <3>3. CASE z \notin Delta(e)
      <4>1. { q \in T : z \in D[q] } = {}
        BY <3>3 DEF BitTimes, ZeroBlock
      <4>2. Cardinality({}) = 0
        BY FS_EmptySet
      <4>3. ~(Cardinality({ q \in T : z \in D[q] }) % 2 = 1)
        <5>1. PICK c : c = Cardinality({ q \in T : z \in D[q] })
          OBVIOUS
        <5>2. c = 0
          BY <4>1, <4>2, <5>1
        <5>3. ~(c % 2 = 1)
          BY <5>2
        <5>4. QED
          BY <5>1, <5>3
      <4>4. z \notin BitTimes(Cardinality(T \cap S) % 2 = 1, Delta(e))
        BY <3>3 DEF BitTimes, ZeroBlock
      <4>5. QED
        BY <3>1, <4>3, <4>4
    <3>4. QED
      BY <3>2, <3>3
  <2>2. QED
    BY <2>1
<1>5. QED
  BY <1>3, <1>4

(* And packed: the same without the least significant bits, and the parity  *)
(* of the points in their place.                                           *)
LEMMA SumOfPacked ==
    ASSUME NEW A, NEW S, NEW T \in SUBSET Noise
    PROVE  /\ NoLsb(XorSum(Pack(A, S), T)) = NoLsb(XorSum(A, T))
           /\ Lsb(XorSum(Pack(A, S), T)) = IF Cardinality(T \cap S) % 2 = 1 THEN {One} ELSE {}
<1> DEFINE P == Pack(A, S)
<1>1. IsFiniteSet(T)
  BY NoiseFacts
<1>2. \A q \in T : P[q] = NoLsb(A[q]) \cup (IF q \in S THEN {One} ELSE {})
  BY DEF Pack
<1>3. One[1] = "lo"
  BY DEF One
<1> HIDE DEF P
<1>4. ASSUME NEW z PROVE /\ z \in XorSum(P, T) <=> Cardinality({ q \in T : z \in P[q] }) % 2 = 1
                         /\ z \in XorSum(A, T) <=> Cardinality({ q \in T : z \in A[q] }) % 2 = 1
  BY <1>1, InXorSum
<1>5. NoLsb(XorSum(P, T)) = NoLsb(XorSum(A, T))
  <2>1. ASSUME NEW z, z[1] # "lo" PROVE z \in XorSum(P, T) <=> z \in XorSum(A, T)
    <3>1. { q \in T : z \in P[q] } = { q \in T : z \in A[q] }
      BY <1>2, <1>3, <2>1 DEF NoLsb, Lsb
    <3>2. QED
      BY <1>4, <3>1
  <2>2. \A z : z \in NoLsb(XorSum(P, T)) <=> z \in XorSum(P, T) /\ z[1] # "lo"
    BY DEF NoLsb, Lsb
  <2>3. \A z : z \in NoLsb(XorSum(A, T)) <=> z \in XorSum(A, T) /\ z[1] # "lo"
    BY DEF NoLsb, Lsb
  <2>4. QED
    BY <2>1, <2>2, <2>3
<1>6. Lsb(XorSum(P, T)) = IF Cardinality(T \cap S) % 2 = 1 THEN {One} ELSE {}
  <2>1. ASSUME NEW z, z[1] = "lo", z # One PROVE z \notin XorSum(P, T)
    <3>1. { q \in T : z \in P[q] } = {}
      BY <1>2, <2>1 DEF NoLsb, Lsb
    <3>2. Cardinality({}) = 0
      BY FS_EmptySet
    <3>3. ~(Cardinality({ q \in T : z \in P[q] }) % 2 = 1)
      <4>1. PICK c : c = Cardinality({ q \in T : z \in P[q] })
        OBVIOUS
      <4>2. c = 0
        BY <3>1, <3>2, <4>1
      <4>3. ~(c % 2 = 1)
        BY <4>2
      <4>4. QED
        BY <4>1, <4>3
    <3>4. QED
      BY <1>4, <3>3
  <2>2. One \in XorSum(P, T) <=> Cardinality(T \cap S) % 2 = 1
    <3>1. { q \in T : One \in P[q] } = T \cap S
      BY <1>2, <1>3 DEF NoLsb, Lsb
    <3>2. QED
      BY <1>4, <3>1
  <2>3. \A z : z \in Lsb(XorSum(P, T)) <=> z \in XorSum(P, T) /\ z[1] = "lo"
    BY DEF Lsb
  <2>4. QED
    BY <1>3, <2>1, <2>2, <2>3
<1>7. QED
  BY <1>5, <1>6 DEF P

(* What a receiver with unspoilt leaves finds.                             *)
LEMMA FoundBlocks ==
    ASSUME NEW n \in DOMAIN Code, NEW e, NEW S, NEW A,
           \A q \in Noise : A[q] = Xor(LeafOf(e, q), BitTimes(q \in S, Delta(e)))
    PROVE  /\ \A i \in 0..(n - 1) :
                 /\ Encode(n, A)[i] = Xor(Encode(n, Leaves(e))[i], BitTimes(i \in BitsOf(n, S), Delta(e)))
                 /\ Hash(Encode(n, Pack(A, S))[i])
                      = Hash(Xor(Encode(n, Leaves(e))[i], BitTimes(i \in BitsOf(n, S), Delta(e))))
           /\ PackedBits(Encode(n, Pack(A, S))) = BitsOf(n, S)
<1>1. ASSUME NEW i \in 0..(n - 1)
      PROVE  /\ Encode(n, A)[i] = Xor(Encode(n, Leaves(e))[i], BitTimes(i \in BitsOf(n, S), Delta(e)))
             /\ Hash(Encode(n, Pack(A, S))[i])
                  = Hash(Xor(Encode(n, Leaves(e))[i], BitTimes(i \in BitsOf(n, S), Delta(e))))
             /\ Lsb(Encode(n, Pack(A, S))[i]) = IF i \in BitsOf(n, S) THEN {One} ELSE {}
  <2>1. PICK T : T = Code[n][i]
    OBVIOUS
  <2>2. T \in SUBSET Noise
    BY <2>1, SilentOtAssumption
  <2>3. /\ Encode(n, A)[i] = XorSum(A, T) /\ Encode(n, Leaves(e))[i] = XorSum(Leaves(e), T)
        /\ Encode(n, Pack(A, S))[i] = XorSum(Pack(A, S), T)
    BY <2>1 DEF Encode
  <2>4. i \in BitsOf(n, S) <=> Cardinality(T \cap S) % 2 = 1
    BY <2>1 DEF BitsOf
  <2>5. BitTimes(i \in BitsOf(n, S), Delta(e)) = BitTimes(Cardinality(T \cap S) % 2 = 1, Delta(e))
    BY <2>4 DEF BitTimes
  <2>6. XorSum(A, T) = Xor(XorSum(Leaves(e), T), BitTimes(i \in BitsOf(n, S), Delta(e)))
    <3>1. XorSum(A, T) = Xor(XorSum(Leaves(e), T), BitTimes(Cardinality(T \cap S) % 2 = 1, Delta(e)))
      BY <2>2, SumOfLeaves
    <3>2. QED
      BY <2>5, <3>1
  <2>7. /\ NoLsb(XorSum(Pack(A, S), T)) = NoLsb(XorSum(A, T))
        /\ Lsb(XorSum(Pack(A, S), T)) = IF i \in BitsOf(n, S) THEN {One} ELSE {}
    BY <2>2, <2>4, SumOfPacked
  <2>8. QED
    BY <2>3, <2>6, <2>7 DEF Hash
<1>2. PackedBits(Encode(n, Pack(A, S))) = BitsOf(n, S)
  <2>1. DOMAIN Encode(n, Pack(A, S)) = 0..(n - 1)
    BY DEF Encode
  <2>2. BitsOf(n, S) \subseteq 0..(n - 1)
    BY DEF BitsOf
  <2>3. QED
    BY <1>1, <2>1, <2>2 DEF PackedBits
<1>3. QED
  BY <1>1, <1>2

(* The two messages of an OT differ.                                       *)
LEMMA MessagesDiffer ==
    ASSUME NEW e, NEW m
    PROVE  m # Xor(m, Delta(e)) /\ Hash(m) # Hash(Xor(m, Delta(e)))
<1>1. PICK d : d = <<"hi", e, -1>>
  OBVIOUS
<1>2. d \in Delta(e) /\ d[1] # "lo"
  BY <1>1 DEF Delta
<1>3. d \in Xor(m, Delta(e)) <=> d \notin m
  BY <1>2, InXor
<1>4. \A z : d \in Hash(z) <=> d \in z
  BY <1>2 DEF Hash, NoLsb, Lsb
<1>5. QED
  BY <1>3, <1>4

(* The check: it holds when and only when no leaf is spoilt.                *)
LEMMA InPolySum ==
    ASSUME NEW v
    PROVE  /\ \A q \in Noise : \A a : <<a, q + 1>> \in PolySum(v) <=> a \in v[q]
           /\ \A z \in PolySum(v) : \E q \in Noise : \E a : z = <<a, q + 1>>
<1>1. ASSUME NEW q \in Noise, NEW a PROVE <<a, q + 1>> \in PolySum(v) <=> a \in v[q]
  <2>1. ASSUME NEW p \in Noise, NEW c, <<a, q + 1>> = <<c, p + 1>> PROVE a = c /\ p = q
    <3>1. a = c /\ q + 1 = p + 1
      BY <2>1
    <3>2. q \in Nat /\ p \in Nat
      BY NoiseFacts
    <3>3. QED
      BY <3>1, <3>2
  <2>2. QED
    BY <2>1 DEF PolySum
<1>2. ASSUME NEW z \in PolySum(v) PROVE \E q \in Noise : \E a : z = <<a, q + 1>>
  BY DEF PolySum
<1>3. QED
  BY <1>1, <1>2

LEMMA CheckExact ==
    ASSUME NEW e, NEW S \in SUBSET Noise, NEW bd, NEW A, A = LeavesAt(e, S, bd)
    PROVE  Xor(PolySum(A), VoleOf(e)) = Xor(PolySum(Leaves(e)), Xor(VoleOf(e), DeltaTimes(e, Powers(S))))
             <=> ~Spoilt(bd, e)
<1> DEFINE P == PolySum(A)
           L == PolySum(Leaves(e))
           D == DeltaTimes(e, Powers(S))
           V == VoleOf(e)
<1>1. ASSUME NEW q \in Noise, NEW a
      PROVE  /\ <<a, q + 1>> \in P <=> a \in A[q]
             /\ <<a, q + 1>> \in L <=> a \in LeafOf(e, q)
             /\ <<a, q + 1>> \in D <=> a \in Delta(e) /\ q \in S
  <2>1. <<a, q + 1>> \in P <=> a \in A[q]
    BY InPolySum
  <2>2. <<a, q + 1>> \in L <=> a \in LeafOf(e, q)
    BY InPolySum DEF Leaves
  <2>3. <<a, q + 1>> \in D <=> a \in Delta(e) /\ q \in S
    <3>1. q + 1 \in Powers(S) <=> q \in S
      BY NoiseFacts DEF Powers
    <3>2. <<a, q + 1>> \in D <=> a \in Delta(e) /\ q + 1 \in Powers(S)
      BY DEF DeltaTimes
    <3>3. QED
      BY <3>1, <3>2
  <2>4. QED
    BY <2>1, <2>2, <2>3
<1>2. ASSUME NEW z, z \in P \/ z \in L \/ z \in D PROVE \E q \in Noise : \E a : z = <<a, q + 1>>
  <2>1. CASE z \in D
    <3>1. PICK a \in Delta(e), k \in Powers(S) : z = <<a, k>>
      BY <2>1 DEF DeltaTimes
    <3>2. PICK q \in S : k = q + 1
      BY DEF Powers
    <3>3. QED
      BY <3>1, <3>2
  <2>2. QED
    BY <1>2, <2>1, InPolySum
<1>3. ASSUME NEW q \in Noise, NEW a
      PROVE  a \in A[q] <=> ~((a \in LeafOf(e, q) <=> ~(a \in Delta(e) /\ q \in S)) <=> (<<e, q>> \in bd /\ a \in Err(e)))
  <2>1. A[q] = Xor(Xor(LeafOf(e, q), BitTimes(q \in S, Delta(e))), BitTimes(<<e, q>> \in bd, Err(e)))
    BY DEF LeavesAt
  <2>2. a \in BitTimes(q \in S, Delta(e)) <=> a \in Delta(e) /\ q \in S
    BY DEF BitTimes, ZeroBlock
  <2>3. a \in BitTimes(<<e, q>> \in bd, Err(e)) <=> <<e, q>> \in bd /\ a \in Err(e)
    BY DEF BitTimes, ZeroBlock
  <2>4. QED
    BY <2>1, <2>2, <2>3, InXor
<1> HIDE DEF P, L, D, V
<1>4. Xor(P, V) = Xor(L, Xor(V, D)) <=> P = Xor(L, D)
  <2>1. ASSUME NEW z
        PROVE  (z \in Xor(P, V) <=> z \in Xor(L, Xor(V, D))) <=> (z \in P <=> z \in Xor(L, D))
    BY InXor
  <2>2. QED
    BY <2>1
<1>5. ASSUME ~Spoilt(bd, e) PROVE P = Xor(L, D)
  <2>1. ASSUME NEW z PROVE z \in P <=> z \in Xor(L, D)
    <3>1. z \in Xor(L, D) <=> ~(z \in L <=> z \in D)
      BY InXor
    <3>2. CASE \E q \in Noise : \E a : z = <<a, q + 1>>
      <4>0. PICK q \in Noise : \E c : z = <<c, q + 1>>
        BY <3>2
      <4>1. PICK a : z = <<a, q + 1>>
        BY <4>0
      <4>2. <<e, q>> \notin bd
        BY <1>5 DEF Spoilt
      <4>3. QED
        BY <1>1, <1>3, <3>1, <4>1, <4>2
    <3>3. CASE ~(\E q \in Noise : \E a : z = <<a, q + 1>>)
      BY <1>2, <3>1, <3>3
    <3>4. QED
      BY <3>2, <3>3
  <2>2. QED
    BY <2>1
<1>6. ASSUME Spoilt(bd, e) PROVE P # Xor(L, D)
  <2>1. PICK q \in Noise : <<e, q>> \in bd
    BY <1>6 DEF Spoilt
  <2>2. PICK a : a = <<"hi", e, -2>>
    OBVIOUS
  <2>3. a \in Err(e) /\ a \notin Delta(e) /\ a \notin LeafOf(e, q)
    <3>1. a[1] = "hi" /\ a[3] = -2 /\ a \in Err(e)
      BY <2>2 DEF Err
    <3>2. \A c \in Delta(e) : c[3] = -1
      BY DEF Delta
    <3>3. \A c \in LeafOf(e, q) : c[3] = q
      BY DEF LeafOf
    <3>4. q \in Nat
      BY NoiseFacts
    <3>5. QED
      BY <3>1, <3>2, <3>3, <3>4
  <2>4. <<a, q + 1>> \in P /\ <<a, q + 1>> \notin L /\ <<a, q + 1>> \notin D
    BY <1>1, <1>3, <2>1, <2>3
  <2>5. QED
    BY <2>4, InXor
<1>7. QED
  BY <1>4, <1>5, <1>6 DEF P, L, D, V

LEMMA LeavesUnspoilt ==
    ASSUME NEW e, NEW S, NEW bd, ~Spoilt(bd, e)
    PROVE  \A q \in Noise : LeavesAt(e, S, bd)[q] = Xor(LeafOf(e, q), BitTimes(q \in S, Delta(e)))
<1>1. ASSUME NEW q \in Noise PROVE LeavesAt(e, S, bd)[q] = Xor(LeafOf(e, q), BitTimes(q \in S, Delta(e)))
  <2>1. BitTimes(<<e, q>> \in bd, Err(e)) = {}
    BY DEF Spoilt, BitTimes, ZeroBlock
  <2>2. LeavesAt(e, S, bd)[q] = Xor(Xor(LeafOf(e, q), BitTimes(q \in S, Delta(e))), BitTimes(<<e, q>> \in bd, Err(e)))
    BY DEF LeavesAt
  <2>3. QED
    BY <2>1, <2>2, XorNothing
<1>2. QED
  BY <1>1

(* What the receiver returns from unspoilt leaves opens the sender's        *)
(* messages at its choices.                                                *)
FoundBits(p) == IF Packs(p) THEN PackedBits(Compressed(p)) ELSE NoiseBits(p)
FoundOut(p) ==
    [c |-> IF Call(p).type = "chosen" THEN want[p.call] ELSE FoundBits(p),
     m |-> [i \in 0..(p.n - 1) |-> IF Packs(p) THEN Hash(Compressed(p)[i]) ELSE Compressed(p)[i]]]

LEMMA OutputOpens ==
    ASSUME script \in Scripts, NEW p, NEW k, k = p.call, IsRun(script, k), p.n = script[k].n,
           NEW bd, p.A = LeavesAt(RunOf(script, k), p.S, bd), ~Spoilt(bd, RunOf(script, k))
    PROVE  Opens(script, k, want, FoundBits(p), FoundOut(p))
<1> DEFINE n == script[k].n
           e == RunOf(script, k)
           bits == BitsOf(n, p.S)
<1>1. k \in 1..Len(script) /\ n \in DOMAIN Code
  BY ScriptFacts DEF IsRun
<1>2. \A q \in Noise : p.A[q] = Xor(LeafOf(e, q), BitTimes(q \in p.S, Delta(e)))
  BY LeavesUnspoilt
<1>3. /\ \A i \in 0..(n - 1) :
            /\ Encode(n, p.A)[i] = Xor(Encode(n, Leaves(e))[i], BitTimes(i \in BitsOf(n, p.S), Delta(e)))
            /\ Hash(Encode(n, Pack(p.A, p.S))[i])
                 = Hash(Xor(Encode(n, Leaves(e))[i], BitTimes(i \in BitsOf(n, p.S), Delta(e))))
      /\ PackedBits(Encode(n, Pack(p.A, p.S))) = BitsOf(n, p.S)
  <2> HIDE DEF n, e
  <2>1. QED
    BY <1>1, <1>2, FoundBlocks, SMTT(30)
<1>4. Packs(p) <=> Hashed(script, k)
  BY DEF Packs, Hashed, Call
<1>5. NoiseBits(p) = bits
  BY DEF NoiseBits, BitsOf
<1>6. Compressed(p) = IF Hashed(script, k) THEN Encode(n, Pack(p.A, p.S)) ELSE Encode(n, p.A)
  BY <1>4 DEF Compressed
<1>7. FoundBits(p) = bits /\ bits \subseteq 0..(n - 1)
  <2>1. bits \subseteq 0..(n - 1)
    BY DEF BitsOf
  <2>2. QED
    BY <1>3, <1>4, <1>5, <1>6, <2>1 DEF FoundBits
<1>8. FoundOut(p).c = IF script[k].type = "chosen" THEN want[k] ELSE bits
  BY <1>7 DEF FoundOut, Call
<1>9. ASSUME NEW i \in 0..(n - 1)
      PROVE  FoundOut(p).m[i] = SentOf(script, k)[i][IF i \in bits THEN 2 ELSE 1]
  <2>1. PICK m : m = SentBlocks(script, k)[i]
    OBVIOUS
  <2>2. m = Encode(n, Leaves(e))[i]
    BY <2>1 DEF SentBlocks
  <2>3. SentOf(script, k)[i] = IF Hashed(script, k) THEN <<Hash(m), Hash(Xor(m, Delta(e)))>> ELSE <<m, Xor(m, Delta(e))>>
    BY <2>1 DEF SentOf
  <2>4. FoundOut(p).m[i] = IF Hashed(script, k) THEN Hash(Compressed(p)[i]) ELSE Compressed(p)[i]
    BY <1>4 DEF FoundOut
  <2>5. Xor(m, BitTimes(i \in bits, Delta(e))) = IF i \in bits THEN Xor(m, Delta(e)) ELSE m
    BY XorNothing DEF BitTimes, ZeroBlock
  <2> HIDE DEF e, n, bits
  <2>6. CASE Hashed(script, k)
    <3>1. FoundOut(p).m[i] = Hash(IF i \in bits THEN Xor(m, Delta(e)) ELSE m)
      BY <1>3, <1>6, <2>2, <2>4, <2>5, <2>6 DEF bits
    <3>2. QED
      BY <2>3, <2>6, <3>1
  <2>7. CASE ~Hashed(script, k)
    <3>1. FoundOut(p).m[i] = IF i \in bits THEN Xor(m, Delta(e)) ELSE m
      BY <1>3, <1>6, <2>2, <2>4, <2>5, <2>7 DEF bits
    <3>2. QED
      BY <2>3, <2>7, <3>1
  <2>8. QED
    BY <2>6, <2>7
<1>10. QED
  BY <1>7, <1>8, <1>9 DEF Opens
---------------------------------------------------------------------------
(* What becomes of a party. *)

LEMMA HasBatch ==
    ASSUME NEW sc \in Scripts, NEW x \in SendPhases, NEW k, PlaceOk(sc, x, k), Timeline(sc)[k - 1].has
    PROVE  Timeline(sc)[k - 1].batches > 0
<1>1. k \in Nat /\ k >= 1 /\ k - 1 \in 0..Len(sc) /\ Len(sc) \in Nat
  BY PlaceFacts
<1>2. k - 1 # 0
  BY TimelineFacts DEF Start
<1>3. k - 1 \in 1..Len(sc)
  BY <1>1, <1>2
<1>4. Makes(sc, k - 1, Timeline(sc)[(k - 1) - 1])
  BY <1>3, CallCounts DEF Makes
<1>5. /\ Timeline(sc)[k - 1].batches = Timeline(sc)[(k - 1) - 1].batches + 1
      /\ Timeline(sc)[(k - 1) - 1].batches \in Nat
  BY <1>3, <1>4, CallCounts
<1>6. QED
  BY <1>5

(* Configured.                                                             *)
LEMMA PartyConfigures ==
    ASSUME NEW sc \in Scripts, NEW p, PartyOk(sc, "idle", p), NEW k, k = p.call, k <= Len(sc), sc[k].op = "configure",
           NEW p2, p2.call = k + 1, p2.n = sc[k].n, p2.mal = sc[k].mal, p2.base = 0, p2.malOts = p.malOts
    PROVE  /\ PartyOk(sc, "idle", p2) /\ PlaceOk(sc, "idle", k + 1) /\ ~Timeline(sc)[k].has
           /\ Batches(sc, k + 1, "idle") = Batches(sc, k, "idle") /\ Expands(sc, k + 1, "idle") = Expands(sc, k, "idle")
           /\ \A j \in 1..Len(sc) : IsRun(sc, j) => (k + 1 > j <=> k > j)
<1>1. /\ PlaceOk(sc, "idle", k) /\ "idle" \in SendPhases
      /\ p.malOts \in 0..Batches(sc, k, "idle")
  BY DEF PartyOk, SendPhases
<1>2. k \in 1..Len(sc) /\ k \in Nat /\ (k + 1) - 1 = k /\ Len(sc) \in Nat
  BY <1>1, PlaceFacts
<1>3. PICK e, f : e = Timeline(sc)[k - 1] /\ f = Timeline(sc)[k]
  OBVIOUS
<1>4. e \in Entry /\ f \in Entry /\ f.n = sc[k].n /\ f.mal = sc[k].mal /\ ~f.has
  BY <1>2, <1>3, CallStep
<1>5. ~Makes(sc, k, e) /\ e.batches \in Nat /\ e.expands \in Nat
  BY <1>4 DEF Makes, Entry
<1>6. f.batches = e.batches /\ f.expands = e.expands
  <2>1. f.batches = e.batches + 0 /\ f.expands = e.expands + 0
    BY <1>2, <1>3, <1>5, CallStep, SMTT(30)
  <2>2. QED
    BY <1>5, <2>1
<1>7. /\ PlaceOk(sc, "idle", k + 1) /\ Batches(sc, k + 1, "idle") = f.batches /\ Expands(sc, k + 1, "idle") = f.expands
  BY <1>2, <1>3, NextPlace
<1>8. Batches(sc, k, "idle") = e.batches /\ Expands(sc, k, "idle") = e.expands
  BY <1>3 DEF Batches, Expands
<1>9. \A j \in 1..Len(sc) : IsRun(sc, j) => (k + 1 > j <=> k > j)
  <2>1. \A j \in 1..Len(sc) : IsRun(sc, j) => j # k
    BY DEF IsRun
  <2>2. QED
    BY <1>2, <2>1
<1>10. PartyOk(sc, "idle", p2)
  <2>1. Timeline(sc)[p2.call - 1] = f
    BY <1>2, <1>3
  <2>2. p2.base \in 0..Batches(sc, p2.call, "idle") /\ p2.malOts \in 0..Batches(sc, p2.call, "idle")
    BY <1>1, <1>5, <1>6, <1>7, <1>8
  <2>3. PlaceOk(sc, "idle", p2.call) /\ p2.mal = f.mal /\ p2.n = f.n /\ p2.base = 0 /\ ~f.has
    BY <1>4, <1>7
  <2>4. QED
    BY <2>1, <2>2, <2>3 DEF PartyOk
<1>11. QED
  BY <1>3, <1>4, <1>6, <1>7, <1>8, <1>9, <1>10

(* At the start of gen or of a run that is not rejected.                    *)
LEMMA PartyEnters ==
    ASSUME NEW sc \in Scripts, NEW p, PartyOk(sc, "idle", p), NEW k, k = p.call, k <= Len(sc),
           sc[k].op \in {"gen", "run"}, sc[k].op = "gen" => p.n # 0,
           NEW p2, p2.call = k, p2.mal = p.mal, p2.malOts = p.malOts,
           p2.n = IF sc[k].op = "run" /\ p.n = 0 THEN sc[k].n ELSE p.n,
           p2.base = IF sc[k].op = "run" /\ p.n = 0 THEN 0 ELSE p.base,
           sc[k].op = "run" => p2.n = sc[k].n,
           NEW x2, x2 = IF sc[k].op = "gen" \/ p2.base = 0 THEN "gen" ELSE "expand"
    PROVE  /\ PartyOk(sc, x2, p2) /\ PlaceOk(sc, x2, k)
           /\ x2 = "expand" => Timeline(sc)[k - 1].has
           /\ Batches(sc, k, x2) = Batches(sc, k, "idle") /\ Expands(sc, k, x2) = Expands(sc, k, "idle")
<1>1. PICK e : e = Timeline(sc)[k - 1]
  OBVIOUS
<1>2. /\ PlaceOk(sc, "idle", k) /\ "idle" \in SendPhases
      /\ p.malOts \in 0..Batches(sc, k, "idle") /\ p.base \in 0..Batches(sc, k, "idle")
      /\ p.mal = e.mal /\ p.n = e.n /\ p.base = IF e.has THEN e.batches ELSE 0
      /\ (p.mal /\ e.has) => p.malOts = Batches(sc, k, "idle")
  BY <1>1 DEF PartyOk, SendPhases
<1>3. k \in 1..Len(sc) /\ k \in Nat /\ Len(sc) \in Nat
  BY <1>2, PlaceFacts
<1>4. e \in Entry /\ e.batches \in Nat /\ e.expands \in Nat
  BY <1>1, <1>3, CallCounts
<1>5. e.has => e.batches # 0
  <2>1. e.has => e.batches > 0
    BY <1>1, <1>2, HasBatch
  <2>2. QED
    BY <1>4, <2>1
<1>6. x2 = "gen" <=> Makes(sc, k, e)
  <2>1. CASE sc[k].op = "gen"
    BY <2>1 DEF Makes
  <2>2. CASE sc[k].op = "run"
    <3>1. x2 = "gen" <=> p2.base = 0
      BY <2>2
    <3>2. p2.base = 0 <=> e.n = 0 \/ ~e.has
      BY <1>2, <1>5, <2>2
    <3>3. Makes(sc, k, e) <=> e.n = 0 \/ ~e.has
      BY <2>2 DEF Makes
    <3>4. QED
      BY <3>1, <3>2, <3>3
  <2>3. QED
    BY <2>1, <2>2
<1>7. Batches(sc, k, "idle") = e.batches /\ Expands(sc, k, "idle") = e.expands
  BY <1>1 DEF Batches, Expands
<1>8. CASE Makes(sc, k, e)
  <2>1. x2 = "gen"
    BY <1>6, <1>8
  <2>2. PlaceOk(sc, x2, k)
    BY <1>1, <1>2, <1>3, <1>8, <2>1 DEF PlaceOk
  <2>3. Batches(sc, k, x2) = e.batches /\ Expands(sc, k, x2) = e.expands
    BY <1>1, <2>1 DEF Batches, Expands
  <2>4. p2.base \in 0..e.batches /\ p2.malOts \in 0..e.batches
    BY <1>2, <1>4, <1>7
  <2>5. p2.n = IF sc[k].op = "run" THEN sc[k].n ELSE e.n
    BY <1>2
  <2>6. PartyOk(sc, x2, p2)
    BY <1>1, <1>2, <2>1, <2>2, <2>3, <2>4, <2>5 DEF PartyOk
  <2>7. QED
    BY <1>7, <2>1, <2>2, <2>3, <2>6
<1>9. CASE ~Makes(sc, k, e)
  <2>1. x2 = "expand" /\ sc[k].op = "run" /\ e.n # 0 /\ e.has
    BY <1>6, <1>9 DEF Makes
  <2>2. PlaceOk(sc, x2, k)
    BY <1>2, <1>3, <2>1 DEF PlaceOk, IsRun
  <2>3. Batches(sc, k, x2) = e.batches /\ Expands(sc, k, x2) = e.expands
    <3>1. Timeline(sc)[k].batches = e.batches + 0
      BY <1>1, <1>3, <1>9, CallCounts
    <3>2. QED
      BY <1>1, <1>4, <2>1, <3>1 DEF Batches, Expands
  <2>4. p2.base = e.batches /\ p2.malOts = p.malOts /\ p2.malOts \in 0..e.batches /\ p2.base \in 0..e.batches
    BY <1>2, <1>4, <1>7, <2>1
  <2>5. p2.n = sc[k].n
    BY <2>1
  <2>6. p2.mal = e.mal /\ (p2.mal => p2.malOts = e.batches)
    BY <1>2, <1>7, <2>1
  <2>7. PartyOk(sc, x2, p2)
    BY <1>1, <2>1, <2>2, <2>3, <2>4, <2>5, <2>6 DEF PartyOk
  <2>8. QED
    BY <1>1, <1>7, <2>1, <2>2, <2>3, <2>7
<1>10. QED
  BY <1>8, <1>9

(* With the base OTs of a batch b.                                         *)
LEMMA PartyGetsBase ==
    ASSUME NEW sc \in Scripts, NEW p, PartyOk(sc, "gen", p), NEW k, k = p.call, NEW b, b = Timeline(sc)[k].batches,
           NEW k2, NEW x2, (sc[k].op = "gen" /\ k2 = k + 1 /\ x2 = "idle") \/ (sc[k].op = "run" /\ k2 = k /\ x2 = "expand"),
           NEW p2, p2.call = k2, p2.mal = p.mal, p2.n = p.n, p2.base = b, p2.malOts \in {0, b, p.malOts},
           p.mal => p2.malOts = b
    PROVE  /\ PartyOk(sc, x2, p2)
           /\ x2 = "idle" => Timeline(sc)[k2 - 1].has
<1>1. PICK e, f : e = Timeline(sc)[k - 1] /\ f = Timeline(sc)[k]
  OBVIOUS
<1>2. /\ PlaceOk(sc, "gen", k) /\ "gen" \in SendPhases
      /\ p.mal = e.mal /\ p.n = IF sc[k].op = "run" THEN sc[k].n ELSE e.n
      /\ p.malOts \in 0..Batches(sc, k, "gen") /\ Batches(sc, k, "gen") = e.batches
      /\ sc[k].op = "gen" => e.n # 0
  BY <1>1 DEF PartyOk, SendPhases, Batches
<1>3. k \in 1..Len(sc) /\ k \in Nat /\ Len(sc) \in Nat
  BY <1>2, PlaceFacts
<1>4. Makes(sc, k, e)
  BY <1>1, <1>2 DEF PlaceOk
<1>5. e.batches \in Nat /\ f.batches = e.batches + 1 /\ b = f.batches
  BY <1>1, <1>3, <1>4, CallCounts
<1>6. p2.base \in 0..b /\ p2.malOts \in 0..b
  BY <1>2, <1>5
<1>7. CASE sc[k].op = "gen" /\ k2 = k + 1 /\ x2 = "idle"
  <2>1. f.n = e.n /\ f.mal = e.mal /\ f.has
    BY <1>1, <1>3, <1>7, CallStep
  <2>2. PlaceOk(sc, "idle", k + 1) /\ Batches(sc, k + 1, "idle") = b /\ (k + 1) - 1 = k
    BY <1>1, <1>3, <1>5, NextPlace
  <2>3. p2.n = f.n /\ p2.mal = f.mal
    BY <1>2, <1>7, <2>1
  <2>4. PartyOk(sc, x2, p2)
    BY <1>1, <1>2, <1>5, <1>6, <1>7, <2>1, <2>2, <2>3 DEF PartyOk
  <2>5. QED
    BY <1>1, <1>7, <2>1, <2>2, <2>4
<1>8. CASE sc[k].op = "run" /\ k2 = k /\ x2 = "expand"
  <2>1. PlaceOk(sc, "expand", k) /\ Batches(sc, k, "expand") = b
    BY <1>1, <1>3, <1>5, <1>8 DEF PlaceOk, IsRun, Batches
  <2>2. p2.mal = e.mal /\ p2.n = sc[k].n
    BY <1>2, <1>8
  <2>3. PartyOk(sc, x2, p2)
    BY <1>1, <1>2, <1>6, <1>8, <2>1, <2>2 DEF PartyOk
  <2>4. QED
    BY <1>8, <2>3
<1>9. QED
  BY <1>7, <1>8

(* At work in a run, and done with it.                                     *)
LEMMA PartyRuns ==
    ASSUME NEW sc \in Scripts, NEW x \in {"expand", "check", "correct"}, NEW p, PartyOk(sc, x, p), NEW k, k = p.call
    PROVE  /\ IsRun(sc, k) /\ sc[k].op = "run" /\ k \in 1..Len(sc) /\ k \in Nat /\ sc[k].n \in DOMAIN Code
           /\ p.mal = Timeline(sc)[k - 1].mal /\ (p.mal <=> MalRun(sc, k))
           /\ x # "correct" => p.n = sc[k].n
           /\ x # "expand" => p.base = 0
           /\ x = "expand" => p.base = Timeline(sc)[k].batches
           /\ x \in {"expand", "check"} /\ p.mal => p.malOts = Timeline(sc)[k].batches
           /\ sc[k].type \in Types /\ (ChosenRun(sc, k) <=> sc[k].type = "chosen")
           /\ Timeline(sc)[k].mal = Timeline(sc)[k - 1].mal /\ ~Timeline(sc)[k].has
           /\ Timeline(sc)[k].n = IF sc[k].type = "inplace" THEN sc[k].n ELSE 0
<1>1. PlaceOk(sc, x, k) /\ x \in SendPhases
  BY DEF PartyOk, SendPhases
<1>2. IsRun(sc, k) /\ sc[k].op = "run" /\ k \in 1..Len(sc) /\ k \in Nat
  BY <1>1, PlaceFacts DEF IsRun
<1>3. sc[k].n \in DOMAIN Code /\ sc[k].type \in Types
  BY <1>2, ScriptFacts
<1>4. /\ p.mal = Timeline(sc)[k - 1].mal /\ (x # "correct" => p.n = sc[k].n)
      /\ (x # "expand" => p.base = 0) /\ (x = "expand" => p.base = Timeline(sc)[k].batches)
      /\ x \in {"expand", "check"} /\ p.mal => p.malOts = Timeline(sc)[k].batches
  BY <1>2 DEF PartyOk, Batches
<1>5. /\ Timeline(sc)[k].mal = Timeline(sc)[k - 1].mal /\ ~Timeline(sc)[k].has
      /\ Timeline(sc)[k].n = IF sc[k].type = "inplace" THEN sc[k].n ELSE 0
  BY <1>2, CallStep
<1>6. p.mal <=> MalRun(sc, k)
  BY <1>2, <1>4 DEF MalRun
<1>7. ChosenRun(sc, k) <=> sc[k].type = "chosen"
  BY <1>2 DEF ChosenRun
<1>8. QED
  BY <1>2, <1>3, <1>4, <1>5, <1>6, <1>7

LEMMA PartyGoesOn ==
    ASSUME NEW sc \in Scripts, NEW x \in {"expand", "check", "correct"}, NEW p, PartyOk(sc, x, p), NEW k, k = p.call,
           NEW p2, NEW k2, p2.call = k2, NEW x2, p2.mal = p.mal, p2.base = 0, p2.malOts = p.malOts,
           \/ k2 = k /\ x2 = "check" /\ x = "expand" /\ MalRun(sc, k) /\ p2.n = p.n
           \/ k2 = k /\ x2 = "correct" /\ ChosenRun(sc, k) /\ p2.n = 0
           \/ k2 = k + 1 /\ x2 = "idle" /\ p2.n = IF sc[k].type = "inplace" THEN sc[k].n ELSE 0
    PROVE  PartyOk(sc, x2, p2) /\ PlaceOk(sc, x2, k2) /\ (x2 = "idle" => ~Timeline(sc)[k2 - 1].has)
<1>1. /\ IsRun(sc, k) /\ sc[k].op = "run" /\ k \in 1..Len(sc) /\ k \in Nat /\ Len(sc) \in Nat
      /\ p.mal = Timeline(sc)[k - 1].mal
      /\ x # "correct" => p.n = sc[k].n
      /\ x \in {"expand", "check"} /\ p.mal => p.malOts = Timeline(sc)[k].batches
      /\ Timeline(sc)[k].mal = Timeline(sc)[k - 1].mal /\ ~Timeline(sc)[k].has
      /\ Timeline(sc)[k].n = IF sc[k].type = "inplace" THEN sc[k].n ELSE 0
  BY PartyRuns, ScriptFacts
<1>2. PICK ba : ba = Timeline(sc)[k].batches
  OBVIOUS
<1>3. /\ p.malOts \in 0..ba /\ ba \in Nat
  BY <1>1, <1>2, CallCounts DEF PartyOk, Batches
<1>4. p2.base \in 0..ba /\ p2.malOts \in 0..ba /\ p2.base = 0
  BY <1>3
<1>5. CASE k2 = k /\ x2 \in {"check", "correct"}
  <2>1. x2 = "check" => MalRun(sc, k) /\ x = "expand" /\ p2.n = sc[k].n
    BY <1>1, <1>5
  <2>2. x2 = "correct" => ChosenRun(sc, k) /\ p2.n = 0
    BY <1>5
  <2>3. PlaceOk(sc, x2, k2)
    BY <1>1, <1>5, <2>1, <2>2 DEF PlaceOk
  <2>4. Batches(sc, k2, x2) = ba
    BY <1>2, <1>5 DEF Batches
  <2>5. x2 = "check" /\ p2.mal => p2.malOts = ba
    BY <1>1, <1>2, <2>1
  <2>6. p2.n = IF x2 = "idle" THEN Timeline(sc)[k - 1].n
               ELSE IF x2 = "correct" THEN 0 ELSE IF sc[k].op = "run" THEN sc[k].n ELSE Timeline(sc)[k - 1].n
    BY <1>1, <1>5, <2>1, <2>2
  <2>7. PartyOk(sc, x2, p2)
    BY <1>1, <1>4, <1>5, <2>3, <2>4, <2>5, <2>6 DEF PartyOk
  <2>8. QED
    BY <1>5, <2>3, <2>7
<1>6. CASE k2 = k + 1 /\ x2 = "idle" /\ p2.n = IF sc[k].type = "inplace" THEN sc[k].n ELSE 0
  <2>1. k2 - 1 = k
    BY <1>1, <1>6
  <2>2. PlaceOk(sc, "idle", k2) /\ Batches(sc, k2, "idle") = ba
    BY <1>1, <1>2, <1>6, NextPlace
  <2>3. PartyOk(sc, x2, p2)
    BY <1>1, <1>4, <1>6, <2>1, <2>2 DEF PartyOk
  <2>4. QED
    BY <1>1, <1>6, <2>1, <2>2, <2>3
<1>7. QED
  BY <1>5, <1>6
---------------------------------------------------------------------------
(* The sender's steps. *)

LEMMA TogetherInv ==
    ASSUME script \in Scripts, NEW x \in SendPhases, NEW y \in RecvPhases, InvAt(x, y)
    PROVE  Together(script, s.call, x, r.call, y, batches)
  BY DEF InvAt, SendOk, RecvOk, PartyOk, Together

(* A run the receiver is done with is one the sender has expanded.          *)
LEMMA Behind ==
    ASSUME NEW sc \in Scripts, NEW ks, NEW x, NEW kr, NEW y, NEW b, Together(sc, ks, x, kr, y, b),
           NEW j, IsRun(sc, j), kr > j
    PROVE  /\ Timeline(sc)[j].expands <= Expands(sc, kr, y) /\ Timeline(sc)[j].expands \in Nat
           /\ ks > j \/ (ks = j /\ x \in {"check", "correct"})
           /\ ChosenRun(sc, j) => ks > j \/ (ks = j /\ x = "correct")
<1>1. /\ PlaceOk(sc, x, ks) /\ PlaceOk(sc, y, kr) /\ x \in SendPhases /\ y \in SendPhases /\ Sync(sc, ks, x, kr, y, b)
  BY DEF Together, SendPhases, RecvPhases
<1>2. /\ kr \in Nat /\ kr - 1 \in 0..Len(sc) /\ Len(sc) \in Nat /\ ks \in Nat /\ ks - 1 \in 0..Len(sc)
      /\ Timeline(sc)[kr - 1].expands <= Expands(sc, kr, y) /\ Expands(sc, kr, y) \in Nat
      /\ Expands(sc, ks, x) \in Nat /\ Timeline(sc)[kr - 1].expands \in Nat
  BY <1>1, PlaceFacts
<1>3. j \in 0..Len(sc) /\ j \in 1..Len(sc) /\ j \in Nat /\ j <= kr - 1
  BY <1>2 DEF IsRun
<1>4. Timeline(sc)[j].expands <= Timeline(sc)[kr - 1].expands /\ Timeline(sc)[j].expands \in Nat
  BY <1>2, <1>3, Later
<1>5. Timeline(sc)[j].expands <= Expands(sc, kr, y) /\ Timeline(sc)[j].expands <= Expands(sc, ks, x)
  BY <1>1, <1>2, <1>4, SMTT(30) DEF Sync
<1>6. ks > j \/ (ks = j /\ x \in {"check", "correct"})
  <2> SUFFICES ASSUME ks <= j, ~(ks = j /\ x \in {"check", "correct"}) PROVE FALSE
    BY <1>2, <1>3
  <2>1. /\ Timeline(sc)[j].expands = Timeline(sc)[j - 1].expands + 1 /\ Timeline(sc)[j - 1].expands \in Nat
        /\ j - 1 \in 0..Len(sc)
    BY <1>2, <1>3, CallCounts DEF IsRun
  <2>2. CASE x \notin {"check", "correct"}
    <3>1. Expands(sc, ks, x) = Timeline(sc)[ks - 1].expands
      BY <2>2 DEF Expands
    <3>2. ks - 1 <= j - 1
      BY <1>2, <1>3
    <3>3. Timeline(sc)[ks - 1].expands <= Timeline(sc)[j - 1].expands /\ Timeline(sc)[ks - 1].expands \in Nat
      BY <1>2, <2>1, <3>2, Later
    <3>4. QED
      BY <1>5, <2>1, <3>1, <3>3
  <2>3. CASE x \in {"check", "correct"}
    <3>1. ks < j /\ IsRun(sc, ks) /\ Expands(sc, ks, x) = Timeline(sc)[ks].expands
      BY <1>1, <1>2, <1>3, <2>3, PlaceFacts DEF Expands
    <3>2. Timeline(sc)[ks].expands < Timeline(sc)[j].expands
      BY <3>1, RunUnique
    <3>3. QED
      BY <1>2, <1>4, <1>5, <3>1, <3>2
  <2>4. QED
    BY <2>2, <2>3
<1>7. ASSUME ChosenRun(sc, j), ks = j, x = "check" PROVE FALSE
  <2>1. MalRun(sc, j)
    BY <1>1, <1>7 DEF PlaceOk
  <2>2. Voted(j, ks, x)
    BY <1>1, <1>3, <2>1 DEF Sync
  <2>3. QED
    BY <1>3, <1>7, <2>2 DEF Voted
<1>8. QED
  BY <1>4, <1>5, <1>6, <1>7

LEMMA SenderMoves ==
    ASSUME script \in Scripts, NEW x \in SendPhases, NEW y \in RecvPhases, InvAt(x, y), UNCHANGED sendFrame,
           NEW x2 \in SendPhases, s'.pc \in {x2, "failed"}, (s'.pc = "failed" \/ r.pc = "failed") => closed',
           SendOk(script, x2, s'), Together(script, s'.call, x2, r.call, y, batches),
           ToSender(script, s'.call, x2, r.call, y, batches, toS'),
           ToReceiver(script, s'.call, x2, r.call, y, sUsed', toR') \/ (r.pc = "failed" /\ toR' = << >>),
           UsedOk(script, sUsed', Expands(script, s'.call, x2)),
           bad \subseteq (1..Len(sUsed')) \X Noise,
           SendOut(script, s'.call, x2, sOut'),
           RecvOut(script, s'.call, r.call, bad, want, sOut', rOut, toS')
    PROVE  InvAt(x2, y)'
<1>1. script' = script /\ r' = r /\ want' = want /\ rOut' = rOut /\ batches' = batches /\ rUsed' = rUsed /\ bad' = bad
  BY DEF sendFrame
<1>2. Sync(script, s'.call, x2, r.call, y, batches)
  BY DEF Together
<1>3. /\ r.pc \in {y, "failed"} /\ RecvOk(script, bad, y, r)
      /\ UsedOk(script, rUsed, Expands(script, r.call, y)) /\ Caught(script, r.call, bad)
  BY DEF InvAt
<1>4. QED
  BY <1>1, <1>2, <1>3 DEF InvAt

LEMMA SendOutKept ==
    ASSUME NEW sc, NEW ks, NEW x, NEW so, SendOut(sc, ks, x, so), NEW k2, NEW x2, NEW so2,
           \A j \in 1..Len(sc) : (IsRun(sc, j) /\ Voted(j, k2, x2) /\ (ChosenRun(sc, j) => k2 = j)) =>
               \/ so2[j] = SentOf(sc, j)
               \/ so2[j] = so[j] /\ Voted(j, ks, x) /\ (ChosenRun(sc, j) => ks = j)
    PROVE  SendOut(sc, k2, x2, so2)
  BY DEF SendOut

LEMMA RecvOutKept ==
    ASSUME NEW sc, NEW ks, NEW kr, NEW bd, NEW w, NEW so, NEW ro, NEW q, RecvOut(sc, ks, kr, bd, w, so, ro, q),
           NEW k2, NEW so2, NEW q2,
           \A j \in 1..Len(sc) : ChosenRun(sc, j) /\ kr > j =>
               (k2 > j <=> ks > j) /\ (ks > j => so2[j] = so[j]) /\ (ks > j \/ q2 = q)
    PROVE  RecvOut(sc, k2, kr, bd, w, so2, ro, q2)
<1>1. ASSUME NEW k \in 1..Len(sc), IsRun(sc, k), kr > k, ~Spoilt(bd, RunOf(sc, k))
      PROVE  \E bits \in SUBSET (0..(sc[k].n - 1)) :
                /\ Opens(sc, k, w, bits, ro[k])
                /\ ChosenRun(sc, k) => IF k2 > k THEN so2[k] = Swap(SentOf(sc, k), Xor(bits, w[k]))
                                       ELSE q2[1].bits = Xor(bits, w[k])
  <2>1. PICK bits \in SUBSET (0..(sc[k].n - 1)) :
                /\ Opens(sc, k, w, bits, ro[k])
                /\ ChosenRun(sc, k) => IF ks > k THEN so[k] = Swap(SentOf(sc, k), Xor(bits, w[k]))
                                       ELSE q[1].bits = Xor(bits, w[k])
    BY <1>1 DEF RecvOut
  <2>2. ChosenRun(sc, k) => IF k2 > k THEN so2[k] = Swap(SentOf(sc, k), Xor(bits, w[k]))
                            ELSE q2[1].bits = Xor(bits, w[k])
    BY <1>1, <2>1
  <2>3. QED
    BY <2>1, <2>2
<1>2. QED
  BY <1>1 DEF RecvOut

(* Steps of an idle sender that change nothing but itself.                  *)
LEMMA SenderQuiet ==
    ASSUME script \in Scripts, NEW y \in RecvPhases, InvAt("idle", y), s.pc = "idle", UNCHANGED sendFrame,
           UNCHANGED <<sOut, toS, toR, closed, sUsed>>,
           NEW x2 \in {"idle", "gen", "expand"}, s'.pc = x2, SendOk(script, x2, s'),
           Batches(script, s'.call, x2) = Batches(script, s.call, "idle"),
           Expands(script, s'.call, x2) = Expands(script, s.call, "idle"),
           \A k \in 1..Len(script) : IsRun(script, k) => (s'.call > k <=> s.call > k)
    PROVE  InvAt(x2, y)'
<1>1. "idle" \in SendPhases /\ x2 \in SendPhases /\ x2 # "failed"
  BY DEF SendPhases
<1>2. Together(script, s.call, "idle", r.call, y, batches)
  BY <1>1, TogetherInv
<1>3. PlaceOk(script, x2, s'.call)
  BY DEF SendOk, PartyOk
<1>4. /\ Together(script, s'.call, x2, r.call, y, batches)
      /\ \A q : ToSender(script, s.call, "idle", r.call, y, batches, q) =>
            ToSender(script, s'.call, x2, r.call, y, batches, q)
      /\ \A used, q : ToReceiver(script, s.call, "idle", r.call, y, used, q) =>
            ToReceiver(script, s'.call, x2, r.call, y, used, q)
  BY <1>2, <1>3, QuietSend
<1>5. sOut' = sOut /\ toS' = toS /\ toR' = toR /\ closed' = closed /\ sUsed' = sUsed
  OBVIOUS
<1>6. /\ (s.pc = "failed" \/ r.pc = "failed") => closed
      /\ ToSender(script, s.call, "idle", r.call, y, batches, toS)
      /\ ToReceiver(script, s.call, "idle", r.call, y, sUsed, toR) \/ (r.pc = "failed" /\ toR = << >>)
      /\ UsedOk(script, sUsed, Expands(script, s.call, "idle"))
      /\ bad \subseteq (1..Len(sUsed)) \X Noise
      /\ SendOut(script, s.call, "idle", sOut)
      /\ RecvOut(script, s.call, r.call, bad, want, sOut, rOut, toS)
  BY DEF InvAt
<1>7. SendOut(script, s'.call, x2, sOut)
  <2>1. \A j \in 1..Len(script) : (IsRun(script, j) /\ Voted(j, s'.call, x2) /\ (ChosenRun(script, j) => s'.call = j)) =>
               sOut[j] = sOut[j] /\ Voted(j, s.call, "idle") /\ (ChosenRun(script, j) => s.call = j)
    <3>1. ASSUME NEW j \in 1..Len(script), IsRun(script, j), Voted(j, s'.call, x2)
          PROVE  Voted(j, s.call, "idle") /\ s'.call # j
      <4>1. s'.call > j
        BY <3>1 DEF Voted
      <4>2. s.call > j /\ s'.call \in Nat
        BY <1>4, <3>1, <4>1, SyncFacts
      <4>3. QED
        BY <4>1, <4>2 DEF Voted
    <3>2. QED
      BY <3>1
  <2>2. QED
    BY <1>6, <2>1, SendOutKept
<1>8. RecvOut(script, s'.call, r.call, bad, want, sOut, rOut, toS)
  <2>1. \A j \in 1..Len(script) : ChosenRun(script, j) => (s'.call > j <=> s.call > j)
    BY DEF ChosenRun
  <2>2. QED
    BY <1>6, <2>1, RecvOutKept
<1>9. QED
  BY <1>1, <1>4, <1>5, <1>6, <1>7, <1>8, SenderMoves

LEMMA SendConfigureStep ==
    ASSUME script \in Scripts, NEW x \in SendPhases, NEW y \in RecvPhases, InvAt(x, y), SendConfigure
    PROVE  InvAt("idle", y)'
<1> DEFINE k == s.call
<1>1. /\ s.pc = "idle" /\ k <= Len(script) /\ script[k].op = "configure"
      /\ s' = Returned(Configured(s, script[k].n, script[k].mal))
      /\ UNCHANGED sendFrame /\ UNCHANGED <<sOut, toS, toR, closed, sUsed>>
  BY DEF SendConfigure, Busy, Call, Calls
<1>2. x = "idle" /\ SendOk(script, "idle", s)
  BY <1>1 DEF InvAt, SendPhases
<1>3. DOMAIN s = SenderFields /\ PartyOk(script, "idle", s) /\ s.delta \in 0..Expands(script, k, "idle")
  BY <1>2 DEF SendOk
<1>4. /\ DOMAIN s' = SenderFields /\ s'.pc = "idle" /\ s'.call = k + 1 /\ s'.n = script[k].n
      /\ s'.mal = script[k].mal /\ s'.base = 0 /\ s'.malOts = s.malOts /\ s'.delta = s.delta
  BY <1>1, <1>3 DEF Returned, Configured, SenderFields, CommonFields
<1>5. /\ PartyOk(script, "idle", s')
      /\ Batches(script, k + 1, "idle") = Batches(script, k, "idle")
      /\ Expands(script, k + 1, "idle") = Expands(script, k, "idle")
      /\ \A j \in 1..Len(script) : IsRun(script, j) => (k + 1 > j <=> k > j)
  <2> HIDE DEF k
  <2>1. QED
    BY <1>1, <1>3, <1>4, PartyConfigures DEF k
<1>6. SendOk(script, "idle", s')
  BY <1>3, <1>4, <1>5 DEF SendOk, SendPhases
<1>7. QED
  BY <1>1, <1>2, <1>4, <1>5, <1>6, SenderQuiet

LEMMA SendEnterStep ==
    ASSUME script \in Scripts, NEW x \in SendPhases, NEW y \in RecvPhases, InvAt(x, y), SendEnter
    PROVE  \E x2 \in SendPhases : InvAt(x2, y)'
<1> DEFINE k == s.call
           p == IF script[k].op = "run" THEN Entered(s, script[k].n) ELSE s
           x2 == IF script[k].op = "gen" \/ p.base = 0 THEN "gen" ELSE "expand"
<1>1. /\ s.pc = "idle" /\ k <= Len(script) /\ script[k].op \in {"gen", "run"} /\ ~Rejected(s)
      /\ s' = [p EXCEPT !.pc = x2]
      /\ UNCHANGED sendFrame /\ UNCHANGED <<sOut, toS, toR, closed, sUsed>>
  BY DEF SendEnter, Busy, Call, Calls
<1>2. x = "idle" /\ SendOk(script, "idle", s)
  BY <1>1 DEF InvAt, SendPhases
<1>3. DOMAIN s = SenderFields /\ PartyOk(script, "idle", s) /\ s.delta \in 0..Expands(script, k, "idle")
  BY <1>2 DEF SendOk
<1>4. /\ DOMAIN p = SenderFields /\ p.call = k /\ p.mal = s.mal /\ p.malOts = s.malOts /\ p.delta = s.delta
      /\ p.n = (IF script[k].op = "run" /\ s.n = 0 THEN script[k].n ELSE s.n)
      /\ p.base = (IF script[k].op = "run" /\ s.n = 0 THEN 0 ELSE s.base)
  BY <1>3 DEF Entered, Configured, SenderFields, CommonFields
<1>5. (script[k].op = "gen" => s.n # 0) /\ (script[k].op = "run" => p.n = script[k].n)
  BY <1>1 DEF Rejected, Call
<1> HIDE DEF p
<1>6. PICK h : h = x2
  OBVIOUS
<1>7. h \in {"gen", "expand"}
  BY <1>6
<1>8. /\ DOMAIN s' = SenderFields /\ s'.pc = h /\ s'.call = k /\ s'.n = p.n
      /\ s'.mal = p.mal /\ s'.base = p.base /\ s'.malOts = p.malOts /\ s'.delta = p.delta
  BY <1>1, <1>4, <1>6 DEF SenderFields, CommonFields
<1>9. h = IF script[k].op = "gen" \/ s'.base = 0 THEN "gen" ELSE "expand"
  BY <1>6, <1>8
<1>10. /\ PartyOk(script, h, s')
       /\ Batches(script, k, h) = Batches(script, k, "idle") /\ Expands(script, k, h) = Expands(script, k, "idle")
  <2>1. /\ s'.call = s.call /\ s'.mal = s.mal /\ s'.malOts = s.malOts
        /\ s'.n = (IF script[k].op = "run" /\ s.n = 0 THEN script[k].n ELSE s.n)
        /\ s'.base = (IF script[k].op = "run" /\ s.n = 0 THEN 0 ELSE s.base)
        /\ script[k].op = "run" => s'.n = script[k].n
    BY <1>4, <1>5, <1>8
  <2>2. PICK k0 : k0 = s.call
    OBVIOUS
  <2>3. /\ PartyOk(script, h, s') /\ Batches(script, k0, h) = Batches(script, k0, "idle")
        /\ Expands(script, k0, h) = Expands(script, k0, "idle")
    <3>1. PICK p1, p2 : p1 = s /\ p2 = s'
      OBVIOUS
    <3>2. /\ PartyOk(script, "idle", p1) /\ k0 = p1.call /\ k0 <= Len(script) /\ script[k0].op \in {"gen", "run"}
          /\ script[k0].op = "gen" => p1.n # 0
      BY <1>1, <1>3, <1>5, <2>2, <3>1
    <3>3. /\ p2.call = k0 /\ p2.mal = p1.mal /\ p2.malOts = p1.malOts
          /\ p2.n = (IF script[k0].op = "run" /\ p1.n = 0 THEN script[k0].n ELSE p1.n)
          /\ p2.base = (IF script[k0].op = "run" /\ p1.n = 0 THEN 0 ELSE p1.base)
          /\ script[k0].op = "run" => p2.n = script[k0].n
      BY <2>1, <2>2, <3>1
    <3>4. h = IF script[k0].op = "gen" \/ p2.base = 0 THEN "gen" ELSE "expand"
      BY <1>9, <2>2, <3>1
    <3>5. /\ PartyOk(script, h, p2) /\ Batches(script, k0, h) = Batches(script, k0, "idle")
          /\ Expands(script, k0, h) = Expands(script, k0, "idle")
      BY <3>2, <3>3, <3>4, PartyEnters
    <3>6. QED
      BY <3>1, <3>5
  <2>4. QED
    BY <2>2, <2>3
<1>11. SendOk(script, h, s')
  BY <1>3, <1>4, <1>7, <1>8, <1>10 DEF SendOk, SendPhases
<1>12. InvAt(h, y)'
  BY <1>1, <1>2, <1>7, <1>8, <1>10, <1>11, SenderQuiet
<1>13. h \in SendPhases
  BY <1>7 DEF SendPhases
<1>14. QED
  BY <1>12, <1>13

LEMMA SendBaseStep ==
    ASSUME script \in Scripts, NEW x \in SendPhases, NEW y \in RecvPhases, InvAt(x, y), SendBase
    PROVE  \E x2 \in SendPhases : InvAt(x2, y)'
<1> DEFINE k == s.call
           b == Head(toS).batch
           p == [s EXCEPT !.base = b, !.malOts = IF s.mal THEN b ELSE 0]
<1>1. /\ s.pc = "gen" /\ Ready(toS, "ot") /\ ~closed
      /\ s' = IF script[k].op = "gen" THEN Returned(p) ELSE [p EXCEPT !.pc = "expand"]
      /\ toS' = Tail(toS) /\ toR' = Append(toR, [kind |-> "otAck"])
      /\ UNCHANGED sendFrame /\ UNCHANGED <<sOut, closed, sUsed>>
  BY DEF SendBase, Call
<1>2. x = "gen" /\ r.pc # "failed"
  BY <1>1 DEF InvAt, SendPhases
<1>3. /\ SendOk(script, "gen", s)
      /\ ToSender(script, k, "gen", r.call, y, batches, toS)
      /\ ToReceiver(script, k, "gen", r.call, y, sUsed, toR)
      /\ UsedOk(script, sUsed, Expands(script, k, "gen"))
      /\ bad \subseteq (1..Len(sUsed)) \X Noise
      /\ SendOut(script, k, "gen", sOut)
      /\ RecvOut(script, k, r.call, bad, want, sOut, rOut, toS)
  BY <1>2 DEF InvAt
<1>4. DOMAIN s = SenderFields /\ PartyOk(script, "gen", s) /\ s.delta \in 0..Expands(script, k, "gen")
  BY <1>3 DEF SendOk
<1>5. Together(script, k, "gen", r.call, y, batches)
  BY <1>2, TogetherInv
<1>6. script[k].op \in {"gen", "run"}
  BY <1>4 DEF PartyOk, PlaceOk
<1>7. PICK k2, x2 : k2 = (IF script[k].op = "gen" THEN k + 1 ELSE k) /\ x2 = (IF script[k].op = "gen" THEN "idle" ELSE "expand")
  OBVIOUS
<1>8. (script[k].op = "gen" /\ k2 = k + 1 /\ x2 = "idle") \/ (script[k].op = "run" /\ k2 = k /\ x2 = "expand")
  BY <1>6, <1>7
<1>9. /\ k \in 1..Len(script) /\ batches = Timeline(script)[k].batches /\ toS = <<OtMsg(batches)>>
      /\ Together(script, k2, x2, r.call, y, batches)
      /\ Batches(script, k2, x2) = batches /\ Expands(script, k2, x2) = Expands(script, k, "gen")
      /\ \A j \in 1..Len(script) : IsRun(script, j) => (k2 > j <=> k > j)
      /\ ToSender(script, k2, x2, r.call, y, batches, << >>)
      /\ \A used, qr : ToReceiver(script, k, "gen", r.call, y, used, qr) =>
            ToReceiver(script, k2, x2, r.call, y, used, Append(qr, [kind |-> "otAck"]))
  <2> HIDE DEF k
  <2>1. QED
    BY <1>1, <1>3, <1>5, <1>8, SendGetsBase
<1>10. b = batches /\ Tail(toS) = << >>
  <2>1. PICK o : o = OtMsg(batches)
    OBVIOUS
  <2>2. Head(toS) = o /\ Tail(toS) = << >>
    BY <1>9, <2>1, Queues
  <2>3. QED
    BY <2>1, <2>2 DEF OtMsg
<1>11. /\ DOMAIN s' = SenderFields /\ s'.pc = x2 /\ s'.call = k2 /\ s'.n = s.n /\ s'.mal = s.mal
       /\ s'.base = batches /\ s'.malOts = (IF s.mal THEN batches ELSE 0) /\ s'.delta = s.delta
  <2>1. /\ DOMAIN p = SenderFields /\ p.call = k /\ p.n = s.n /\ p.mal = s.mal
        /\ p.base = batches /\ p.malOts = (IF s.mal THEN batches ELSE 0) /\ p.delta = s.delta
    BY <1>4, <1>10 DEF SenderFields, CommonFields
  <2> HIDE DEF p, b
  <2>2. CASE script[k].op = "gen"
    <3>1. s' = Returned(p)
      BY <1>1, <2>2
    <3>2. k2 = k + 1 /\ x2 = "idle"
      BY <1>7, <2>2
    <3>3. QED
      BY <2>1, <3>1, <3>2 DEF Returned, SenderFields, CommonFields
  <2>3. CASE script[k].op # "gen"
    <3>1. s' = [p EXCEPT !.pc = "expand"]
      BY <1>1, <2>3
    <3>2. k2 = k /\ x2 = "expand"
      BY <1>7, <2>3
    <3>3. QED
      BY <2>1, <3>1, <3>2 DEF SenderFields, CommonFields
  <2>4. QED
    BY <2>2, <2>3
<1>12. PartyOk(script, x2, s')
  <2>1. s'.malOts \in {0, batches, s.malOts} /\ (s.mal => s'.malOts = batches)
    BY <1>11
  <2> HIDE DEF k, p, b
  <2>2. QED
    BY <1>4, <1>8, <1>9, <1>11, <2>1, PartyGetsBase, ZenonT(40) DEF k
<1>13. x2 \in SendPhases /\ x2 \in {"idle", "expand"}
  BY <1>8 DEF SendPhases
<1>14. SendOk(script, x2, s')
  BY <1>4, <1>9, <1>11, <1>12, <1>13 DEF SendOk
<1>15. Batches(script, k, "gen") < batches
  <2>1. toS # << >>
    BY <1>1 DEF Ready
  <2>2. QED
    BY <1>3, <2>1 DEF ToSender
<1>16. r.call = k
  BY <1>5, <1>15, AtGen
<1>17. SendOut(script, k2, x2, sOut)
  <2>1. ASSUME NEW j \in 1..Len(script), IsRun(script, j), Voted(j, k2, x2) PROVE Voted(j, k, "gen") /\ k2 # j
    <3>1. k2 > j /\ k2 \in Nat
      BY <1>9, <1>13, <2>1, SyncFacts DEF Voted
    <3>2. QED
      BY <1>9, <2>1, <3>1 DEF Voted
  <2>2. \A j \in 1..Len(script) : (IsRun(script, j) /\ Voted(j, k2, x2) /\ (ChosenRun(script, j) => k2 = j)) =>
               sOut[j] = sOut[j] /\ Voted(j, k, "gen") /\ (ChosenRun(script, j) => k = j)
    BY <2>1
  <2>3. QED
    BY <1>3, <2>2, SendOutKept
<1>18. RecvOut(script, k2, r.call, bad, want, sOut, rOut, << >>)
  <2>1. \A j \in 1..Len(script) : ChosenRun(script, j) /\ r.call > j => (k2 > j <=> k > j) /\ k > j
    BY <1>9, <1>16 DEF ChosenRun
  <2>2. QED
    BY <1>3, <2>1, RecvOutKept
<1>19. ToReceiver(script, k2, x2, r.call, y, sUsed, toR')
  BY <1>1, <1>3, <1>9
<1>20. toS' = << >> /\ sOut' = sOut /\ sUsed' = sUsed /\ closed' = closed
  BY <1>1, <1>10
<1>21. InvAt(x2, y)'
  <2>1. s'.pc # "failed"
    BY <1>11, <1>13
  <2> HIDE DEF k, p, b
  <2>2. QED
    BY <1>1, <1>2, <1>3, <1>9, <1>11, <1>13, <1>14, <1>17, <1>18, <1>19, <1>20, <2>1, SenderMoves
<1>22. QED
  BY <1>13, <1>21

LEMMA SenderFails ==
    ASSUME script \in Scripts, NEW x \in SendPhases, NEW y \in RecvPhases, InvAt(x, y), UNCHANGED sendFrame,
           UNCHANGED <<sOut, toS, toR, sUsed>>, s' = Failed(s), closed'
    PROVE  InvAt(x, y)'
<1>1. /\ SendOk(script, x, s)
      /\ ToSender(script, s.call, x, r.call, y, batches, toS)
      /\ ToReceiver(script, s.call, x, r.call, y, sUsed, toR) \/ (r.pc = "failed" /\ toR = << >>)
      /\ UsedOk(script, sUsed, Expands(script, s.call, x))
      /\ bad \subseteq (1..Len(sUsed)) \X Noise
      /\ SendOut(script, s.call, x, sOut)
      /\ RecvOut(script, s.call, r.call, bad, want, sOut, rOut, toS)
  BY DEF InvAt
<1>2. DOMAIN s = SenderFields
  BY <1>1 DEF SendOk
<1>3. /\ DOMAIN s' = SenderFields /\ s'.pc = "failed" /\ s'.call = s.call /\ s'.n = s.n /\ s'.mal = s.mal
      /\ s'.base = s.base /\ s'.malOts = s.malOts /\ s'.delta = s.delta /\ s'.B = s.B
  BY <1>2 DEF Failed, SenderFields, CommonFields
<1>4. SendOk(script, x, s')
  <2>1. PartyOk(script, x, s')
    BY <1>1, <1>3 DEF SendOk, PartyOk
  <2>2. QED
    BY <1>1, <1>3, <2>1 DEF SendOk
<1>5. Together(script, s'.call, x, r.call, y, batches)
  BY <1>3, TogetherInv
<1>6. sOut' = sOut /\ toS' = toS /\ toR' = toR /\ sUsed' = sUsed
  OBVIOUS
<1>7. QED
  BY <1>1, <1>3, <1>4, <1>5, <1>6, SenderMoves

(* The sender at the end of its expansion or of its check.                 *)
AfterFinish(p) ==
    LET kept == [p EXCEPT !.B = Encode(p.n, p.B)]
        done == IF Call(p).type = "inplace" THEN kept ELSE ClearedSender(kept)
    IN  IF Call(p).type = "chosen" THEN [done EXCEPT !.pc = "correct"] ELSE Returned(done)

LEMMA SendFinishFacts ==
    ASSUME script \in Scripts, NEW p, DOMAIN p = SenderFields, IsRun(script, p.call), p.n = script[p.call].n, p.base = 0,
           p.delta = RunOf(script, p.call), p.B = Leaves(p.delta), SendFinish(p), NEW k, k = p.call,
           DOMAIN sOut = 1..Len(script)
    PROVE  /\ s' = AfterFinish(p) /\ sOut' = [sOut EXCEPT ![k] = SentOf(script, k)]
           /\ DOMAIN s' = SenderFields
           /\ \/ s'.call = k /\ s'.pc = "correct" /\ ChosenRun(script, k) /\ s'.n = 0
              \/ s'.call = k + 1 /\ s'.pc = "idle" /\ ~ChosenRun(script, k)
                   /\ s'.n = IF script[k].type = "inplace" THEN script[k].n ELSE 0
           /\ s'.mal = p.mal /\ s'.base = 0 /\ s'.malOts = p.malOts /\ s'.delta \in {0, p.delta}
<1>1. s' = AfterFinish(p)
  BY DEF SendFinish, AfterFinish
<1>2. SenderResult(p, Encode(p.n, p.B)) = SentOf(script, k)
  <2>1. PICK B : B = Encode(p.n, p.B)
    OBVIOUS
  <2>2. B = SentBlocks(script, k)
    BY <2>1 DEF SentBlocks
  <2>3. Call(p).type = script[k].type
    BY DEF Call
  <2>4. CASE script[k].type \in {"random", "chosen"}
    <3>1. SenderResult(p, B) = [i \in 0..(p.n - 1) |-> <<Hash(B[i]), Hash(Xor(B[i], Delta(p.delta)))>>]
      BY <2>3, <2>4 DEF SenderResult
    <3>2. SentOf(script, k) = [i \in 0..(p.n - 1) |-> <<Hash(B[i]), Hash(Xor(B[i], Delta(p.delta)))>>]
      BY <2>2, <2>4 DEF SentOf, Hashed
    <3>3. QED
      BY <2>1, <3>1, <3>2
  <2>5. CASE script[k].type \notin {"random", "chosen"}
    <3>1. SenderResult(p, B) = [i \in 0..(p.n - 1) |-> <<B[i], Xor(B[i], Delta(p.delta))>>]
      BY <2>3, <2>5 DEF SenderResult
    <3>2. SentOf(script, k) = [i \in 0..(p.n - 1) |-> <<B[i], Xor(B[i], Delta(p.delta))>>]
      BY <2>2, <2>5 DEF SentOf, Hashed
    <3>3. QED
      BY <2>1, <3>1, <3>2
  <2>6. QED
    BY <2>4, <2>5
<1>3. sOut' = [sOut EXCEPT ![k] = SentOf(script, k)]
  BY <1>2 DEF SendFinish
<1>4. ChosenRun(script, k) <=> script[k].type = "chosen"
  BY DEF ChosenRun
<1>5. PICK d : d = [p EXCEPT !.B = Encode(p.n, p.B)]
  OBVIOUS
<1>6. DOMAIN d = SenderFields /\ d.call = k /\ d.n = p.n /\ d.mal = p.mal /\ d.base = 0 /\ d.malOts = p.malOts /\ d.delta = p.delta
  BY <1>5 DEF SenderFields, CommonFields
<1>7. PICK c : c = IF script[k].type = "inplace" THEN d ELSE ClearedSender(d)
  OBVIOUS
<1>8. /\ DOMAIN c = SenderFields /\ c.call = k /\ c.mal = p.mal /\ c.base = 0 /\ c.malOts = p.malOts
      /\ c.delta \in {0, p.delta} /\ c.n = IF script[k].type = "inplace" THEN script[k].n ELSE 0
  <2>1. CASE script[k].type = "inplace"
    BY <1>6, <1>7, <2>1
  <2>2. CASE script[k].type # "inplace"
    <3>1. c = ClearedSender(d)
      BY <1>7, <2>2
    <3>2. QED
      BY <1>6, <2>2, <3>1 DEF ClearedSender, SenderFields, CommonFields
  <2>3. QED
    BY <2>1, <2>2
<1>9. s' = IF script[k].type = "chosen" THEN [c EXCEPT !.pc = "correct"] ELSE Returned(c)
  BY <1>1, <1>5, <1>7 DEF AfterFinish, Call
<1>10. CASE script[k].type = "chosen"
  <2>1. s' = [c EXCEPT !.pc = "correct"]
    BY <1>9, <1>10
  <2>2. QED
    BY <1>1, <1>3, <1>4, <1>8, <1>10, <2>1 DEF SenderFields, CommonFields
<1>11. CASE script[k].type # "chosen"
  <2>1. s' = Returned(c)
    BY <1>9, <1>11
  <2>2. QED
    BY <1>1, <1>3, <1>4, <1>8, <1>11, <2>1 DEF Returned, SenderFields, CommonFields
<1>12. QED
  BY <1>10, <1>11

LEMMA UsedAppend ==
    ASSUME NEW sc \in Scripts, NEW n \in Nat, NEW used, UsedOk(sc, used, n), NEW k, IsRun(sc, k),
           Timeline(sc)[k].expands = n + 1, NEW v, v = Timeline(sc)[k].batches
    PROVE  UsedOk(sc, Append(used, v), n + 1) /\ v \in Nat
<1>1. k \in 1..Len(sc) /\ v \in Nat
  BY CallCounts DEF IsRun
<1>2. /\ used \in Seq(Nat) /\ Len(used) = n
      /\ \A e \in 1..n : \E j \in 1..Len(sc) :
            IsRun(sc, j) /\ Timeline(sc)[j].expands = e /\ used[e] = Timeline(sc)[j].batches
  BY DEF UsedOk
<1>3. PICK u : u = Append(used, v)
  OBVIOUS
<1>4. u \in Seq(Nat) /\ Len(u) = n + 1 /\ (\A e \in 1..n : u[e] = used[e]) /\ u[n + 1] = v
  BY <1>1, <1>2, <1>3, AppendProperties
<1>5. ASSUME NEW e \in 1..(n + 1)
      PROVE  \E j \in 1..Len(sc) : IsRun(sc, j) /\ Timeline(sc)[j].expands = e /\ u[e] = Timeline(sc)[j].batches
  <2>1. CASE e = n + 1
    BY <1>1, <1>4, <2>1
  <2>2. CASE e # n + 1
    <3>1. e \in 1..n
      BY <2>2
    <3>2. QED
      BY <1>2, <1>4, <3>1, SMTT(30)
  <2>3. QED
    BY <2>1, <2>2
<1>6. UsedOk(sc, u, n + 1)
  BY <1>4, <1>5 DEF UsedOk
<1>7. QED
  BY <1>1, <1>3, <1>6

LEMMA SendExpandStep ==
    ASSUME script \in Scripts, NEW x \in SendPhases, NEW y \in RecvPhases, InvAt(x, y), SendExpand,
           DOMAIN sOut = 1..Len(script)
    PROVE  \E x2 \in SendPhases : InvAt(x2, y)'
<1>1. PICK k : k = s.call
  OBVIOUS
<1>2. PICK e : e = Len(sUsed) + 1
  OBVIOUS
<1>3. PICK p : p = Expanded([s EXCEPT !.delta = e, !.B = Leaves(e)])
  OBVIOUS
<1>4. /\ s.pc = "expand" /\ ~closed
      /\ toR' = Append(toR, PprfMsg(e, s.base)) /\ sUsed' = Append(sUsed, s.base)
      /\ UNCHANGED sendFrame /\ toS' = toS /\ closed' = closed
      /\ IF s.mal THEN s' = [p EXCEPT !.pc = "check"] /\ sOut' = sOut ELSE SendFinish(p)
  BY <1>2, <1>3 DEF SendExpand, PprfMsg
<1>5. x = "expand" /\ r.pc # "failed"
  BY <1>4 DEF InvAt, SendPhases
<1>6. /\ SendOk(script, "expand", s)
      /\ ToSender(script, k, "expand", r.call, y, batches, toS)
      /\ ToReceiver(script, k, "expand", r.call, y, sUsed, toR)
      /\ UsedOk(script, sUsed, Expands(script, k, "expand"))
      /\ bad \subseteq (1..Len(sUsed)) \X Noise
      /\ SendOut(script, k, "expand", sOut)
      /\ RecvOut(script, k, r.call, bad, want, sOut, rOut, toS)
  BY <1>1, <1>5 DEF InvAt
<1>7. DOMAIN s = SenderFields /\ PartyOk(script, "expand", s) /\ s.delta \in 0..Expands(script, k, "expand")
  BY <1>1, <1>6 DEF SendOk
<1>8. Together(script, k, "expand", r.call, y, batches)
  BY <1>1, <1>5, TogetherInv
<1>9. /\ IsRun(script, k) /\ script[k].op = "run" /\ k \in 1..Len(script) /\ k \in Nat
      /\ (s.mal <=> MalRun(script, k)) /\ s.n = script[k].n /\ s.base = Timeline(script)[k].batches
  BY <1>1, <1>7, PartyRuns
<1>10. /\ Expands(script, k, "expand") = Len(sUsed) /\ Len(sUsed) \in Nat /\ sUsed \in Seq(Nat)
       /\ Timeline(script)[k].expands = e
  <2>1. Expands(script, k, "expand") = Timeline(script)[k - 1].expands
    BY DEF Expands
  <2>2. Timeline(script)[k].expands = Timeline(script)[k - 1].expands + 1
    BY <1>9, CallCounts
  <2>3. Len(sUsed) = Expands(script, k, "expand") /\ sUsed \in Seq(Nat) /\ Len(sUsed) \in Nat
    BY <1>6 DEF UsedOk
  <2>4. QED
    BY <1>2, <2>1, <2>2, <2>3
<1>11. /\ UsedOk(script, sUsed', e) /\ s.base \in Nat /\ bad \subseteq (1..Len(sUsed')) \X Noise
  <2>1. UsedOk(script, Append(sUsed, s.base), Len(sUsed) + 1) /\ s.base \in Nat
    BY <1>2, <1>6, <1>9, <1>10, UsedAppend
  <2>2. Len(sUsed') = Len(sUsed) + 1
    BY <1>4, <2>1 DEF UsedOk
  <2>3. 1..Len(sUsed) \subseteq 1..Len(sUsed')
    BY <1>10, <2>2
  <2>4. QED
    BY <1>2, <1>4, <1>6, <2>1, <2>3
<1>12. /\ DOMAIN p = SenderFields /\ p.call = k /\ p.n = s.n /\ p.mal = s.mal /\ p.base = 0 /\ p.malOts = s.malOts
       /\ p.delta = e /\ p.B = Leaves(e)
  BY <1>1, <1>3, <1>7 DEF Expanded, SenderFields, CommonFields
<1>13. PICK k2, x2 : k2 = s'.call /\ x2 = s'.pc
  OBVIOUS
<1>14. /\ DOMAIN s' = SenderFields
       /\ \/ MalRun(script, k) /\ k2 = k /\ x2 = "check" /\ s'.n = s.n /\ s'.delta = e /\ s'.B = Leaves(e) /\ sOut' = sOut
          \/ ~MalRun(script, k) /\ ChosenRun(script, k) /\ k2 = k /\ x2 = "correct" /\ s'.n = 0
               /\ sOut' = [sOut EXCEPT ![k] = SentOf(script, k)]
          \/ ~MalRun(script, k) /\ ~ChosenRun(script, k) /\ k2 = k + 1 /\ x2 = "idle"
               /\ s'.n = (IF script[k].type = "inplace" THEN script[k].n ELSE 0)
               /\ sOut' = [sOut EXCEPT ![k] = SentOf(script, k)]
       /\ s'.mal = s.mal /\ s'.base = 0 /\ s'.malOts = s.malOts /\ s'.delta \in {0, e}
  <2>1. CASE MalRun(script, k)
    <3>1. s' = [p EXCEPT !.pc = "check"] /\ sOut' = sOut
      BY <1>4, <1>9, <2>1
    <3>2. QED
      BY <1>12, <1>13, <2>1, <3>1 DEF SenderFields, CommonFields
  <2>2. CASE ~MalRun(script, k)
    <3>1. SendFinish(p)
      BY <1>4, <1>9, <2>2
    <3>2. p.n = script[p.call].n /\ p.delta = RunOf(script, p.call) /\ p.B = Leaves(p.delta) /\ IsRun(script, p.call)
      BY <1>9, <1>10, <1>12 DEF RunOf
    <3>3. /\ sOut' = [sOut EXCEPT ![k] = SentOf(script, k)]
          /\ DOMAIN s' = SenderFields
          /\ \/ s'.call = k /\ s'.pc = "correct" /\ ChosenRun(script, k) /\ s'.n = 0
             \/ s'.call = k + 1 /\ s'.pc = "idle" /\ ~ChosenRun(script, k)
                  /\ s'.n = IF script[k].type = "inplace" THEN script[k].n ELSE 0
          /\ s'.mal = p.mal /\ s'.base = 0 /\ s'.malOts = p.malOts /\ s'.delta \in {0, p.delta}
      BY <1>12, <3>1, <3>2, SendFinishFacts
    <3>4. QED
      BY <1>12, <1>13, <2>2, <3>3
  <2>3. QED
    BY <2>1, <2>2
<1>15. /\ Together(script, k2, x2, r.call, y, batches)
       /\ Expands(script, k2, x2) = e
       /\ \A j \in 1..Len(script) : IsRun(script, j) =>
             /\ Voted(j, k2, x2) <=> Voted(j, k, "expand") \/ (j = k /\ x2 # "check")
             /\ k2 > j <=> k > j \/ (j = k /\ x2 = "idle")
       /\ ToSender(script, k2, x2, r.call, y, batches, toS)
       /\ \A used \in Seq(Nat), v \in Nat : \A qr : ToReceiver(script, k, "expand", r.call, y, used, qr) =>
             ToReceiver(script, k2, x2, r.call, y, Append(used, v), Append(qr, PprfMsg(Len(used) + 1, v)))
  <2>1. \/ MalRun(script, k) /\ k2 = k /\ x2 = "check"
        \/ ~MalRun(script, k) /\ ChosenRun(script, k) /\ k2 = k /\ x2 = "correct"
        \/ ~MalRun(script, k) /\ ~ChosenRun(script, k) /\ k2 = k + 1 /\ x2 = "idle"
    BY <1>14
  <2>2. QED
    BY <1>6, <1>8, <1>10, <2>1, SendExpands
<1>16. ToReceiver(script, k2, x2, r.call, y, sUsed', toR')
  BY <1>2, <1>4, <1>6, <1>10, <1>11, <1>15
<1>17. x2 \in SendPhases /\ x2 # "failed"
  BY <1>14 DEF SendPhases
<1>18. SendOk(script, x2, s')
  <2>1. PartyOk(script, x2, s')
    <3>1. PICK p1, p2 : p1 = s /\ p2 = s'
      OBVIOUS
    <3>2. /\ PartyOk(script, "expand", p1) /\ k = p1.call /\ p2.call = k2 /\ p2.mal = p1.mal /\ p2.base = 0
          /\ p2.malOts = p1.malOts
          /\ \/ k2 = k /\ x2 = "check" /\ "expand" = "expand" /\ MalRun(script, k) /\ p2.n = p1.n
             \/ k2 = k /\ x2 = "correct" /\ ChosenRun(script, k) /\ p2.n = 0
             \/ k2 = k + 1 /\ x2 = "idle" /\ p2.n = IF script[k].type = "inplace" THEN script[k].n ELSE 0
      BY <1>1, <1>7, <1>13, <1>14, <3>1
    <3>3. PartyOk(script, x2, p2)
      BY <3>2, PartyGoesOn
    <3>4. QED
      BY <3>1, <3>3
  <2>2. s'.delta \in 0..Expands(script, s'.call, x2)
    BY <1>2, <1>10, <1>13, <1>14, <1>15
  <2>3. x2 = "check" => s'.delta = e /\ s'.B = Leaves(e) /\ Expands(script, s'.call, x2) = e
    BY <1>13, <1>14, <1>15
  <2>4. QED
    BY <1>14, <1>17, <2>1, <2>2, <2>3 DEF SendOk
<1>19. SendOut(script, k2, x2, sOut')
  <2>1. ASSUME NEW j \in 1..Len(script), IsRun(script, j), Voted(j, k2, x2), ChosenRun(script, j) => k2 = j
        PROVE  \/ sOut'[j] = SentOf(script, j)
               \/ sOut'[j] = sOut[j] /\ Voted(j, k, "expand") /\ (ChosenRun(script, j) => k = j)
    <3>1. CASE j = k
      <4>1. x2 # "check" \/ k2 > k
        BY <2>1, <3>1 DEF Voted
      <4>2. sOut' = [sOut EXCEPT ![k] = SentOf(script, k)]
        BY <1>9, <1>14, <4>1
      <4>3. QED
        BY <1>9, <3>1, <4>2
    <3>2. CASE j # k
      <4>1. Voted(j, k, "expand")
        BY <1>15, <2>1, <3>2
      <4>2. sOut'[j] = sOut[j]
        BY <1>14, <3>2
      <4>3. k > j
        BY <3>2, <4>1 DEF Voted
      <4>4. ChosenRun(script, j) => FALSE
        BY <1>9, <1>14, <2>1, <4>3
      <4>5. QED
        BY <4>1, <4>2, <4>4
    <3>3. QED
      BY <3>1, <3>2
  <2>2. QED
    BY <1>6, <2>1, SendOutKept
<1>20. RecvOut(script, k2, r.call, bad, want, sOut', rOut, toS)
  <2>1. ASSUME NEW j \in 1..Len(script), ChosenRun(script, j), r.call > j
        PROVE  (k2 > j <=> k > j) /\ (k > j => sOut'[j] = sOut[j]) /\ k > j
    <3>1. IsRun(script, j)
      BY <2>1 DEF ChosenRun
    <3>2. k > j
      BY <1>8, <2>1, <3>1, Behind
    <3>3. k2 > j
      BY <1>15, <3>1, <3>2
    <3>4. j # k
      BY <1>9, <3>2
    <3>5. sOut'[j] = sOut[j]
      BY <1>14, <3>4
    <3>6. QED
      BY <3>2, <3>3, <3>5
  <2>2. QED
    BY <1>6, <2>1, RecvOutKept
<1>21. InvAt(x2, y)'
  <2>1. s'.pc = x2 /\ s'.call = k2 /\ x2 # "failed" /\ toS' = toS
    BY <1>4, <1>13, <1>17
  <2>2. UsedOk(script, sUsed', Expands(script, s'.call, x2))
    BY <1>11, <1>15, <2>1
  <2>3. (s'.pc = "failed" \/ r.pc = "failed") => closed'
    BY <1>5, <2>1
  <2>4. UNCHANGED sendFrame
    BY <1>4
  <2>5. QED
    BY <1>5, <1>11, <1>15, <1>16, <1>17, <1>18, <1>19, <1>20, <2>1, <2>2, <2>3, <2>4, SenderMoves
<1>22. QED
  BY <1>17, <1>21

LEMMA SendCheckStep ==
    ASSUME script \in Scripts, NEW x \in SendPhases, NEW y \in RecvPhases, InvAt(x, y), SendCheck,
           DOMAIN sOut = 1..Len(script)
    PROVE  \E x2 \in SendPhases : InvAt(x2, y)'
<1>1. PICK k : k = s.call
  OBVIOUS
<1>2. /\ s.pc = "check" /\ Ready(toS, "seed") /\ ~closed /\ toS' = Tail(toS)
      /\ toR' = toR \o << VoleMsg(s.malOts), [kind |-> "hash", sum |-> PolySum(s.B), e |-> s.delta] >>
      /\ SendFinish(s) /\ UNCHANGED sendFrame /\ closed' = closed /\ sUsed' = sUsed
  BY DEF SendCheck, VoleMsg
<1>3. x = "check" /\ r.pc # "failed"
  BY <1>2 DEF InvAt, SendPhases
<1>4. /\ SendOk(script, "check", s)
      /\ ToSender(script, k, "check", r.call, y, batches, toS)
      /\ ToReceiver(script, k, "check", r.call, y, sUsed, toR)
      /\ UsedOk(script, sUsed, Expands(script, k, "check"))
      /\ bad \subseteq (1..Len(sUsed)) \X Noise
      /\ SendOut(script, k, "check", sOut)
      /\ RecvOut(script, k, r.call, bad, want, sOut, rOut, toS)
  BY <1>1, <1>3 DEF InvAt
<1>5. /\ DOMAIN s = SenderFields /\ PartyOk(script, "check", s)
      /\ s.delta = Expands(script, k, "check") /\ s.B = Leaves(s.delta)
  BY <1>1, <1>4 DEF SendOk
<1>6. Together(script, k, "check", r.call, y, batches)
  BY <1>1, <1>3, TogetherInv
<1>7. /\ IsRun(script, k) /\ k \in 1..Len(script) /\ k \in Nat /\ MalRun(script, k)
      /\ (s.mal <=> MalRun(script, k)) /\ s.n = script[k].n /\ s.base = 0
      /\ (s.mal => s.malOts = Timeline(script)[k].batches)
  <2>1. PlaceOk(script, "check", k)
    BY <1>1, <1>5 DEF PartyOk
  <2>2. MalRun(script, k)
    BY <2>1 DEF PlaceOk
  <2>3. QED
    BY <1>1, <1>5, <2>2, PartyRuns
<1>8. s.malOts = Timeline(script)[k].batches /\ s.delta = Timeline(script)[k].expands /\ s.delta \in Nat
  <2>1. Timeline(script)[k].expands \in Nat
    BY <1>7, CallCounts
  <2>2. QED
    BY <1>5, <1>7, <2>1 DEF Expands
<1>9. toR' = toR \o << VoleMsg(Timeline(script)[k].batches), HashMsg(Timeline(script)[k].expands) >>
  <2>1. HashMsg(s.delta) = [kind |-> "hash", sum |-> PolySum(s.B), e |-> s.delta]
    BY <1>5 DEF HashMsg
  <2>2. QED
    BY <1>2, <1>8, <2>1
<1>10. /\ sOut' = [sOut EXCEPT ![k] = SentOf(script, k)]
       /\ DOMAIN s' = SenderFields
       /\ \/ s'.call = k /\ s'.pc = "correct" /\ ChosenRun(script, k) /\ s'.n = 0
          \/ s'.call = k + 1 /\ s'.pc = "idle" /\ ~ChosenRun(script, k)
               /\ s'.n = IF script[k].type = "inplace" THEN script[k].n ELSE 0
       /\ s'.mal = s.mal /\ s'.base = 0 /\ s'.malOts = s.malOts /\ s'.delta \in {0, s.delta}
  <2>1. PICK p : p = s
    OBVIOUS
  <2>2. /\ DOMAIN p = SenderFields /\ k = p.call /\ IsRun(script, p.call) /\ p.n = script[p.call].n /\ p.base = 0
        /\ p.delta = RunOf(script, p.call) /\ p.B = Leaves(p.delta) /\ SendFinish(p)
    BY <1>1, <1>2, <1>5, <1>7, <1>8, <2>1 DEF RunOf
  <2>3. /\ sOut' = [sOut EXCEPT ![k] = SentOf(script, k)]
        /\ DOMAIN s' = SenderFields
        /\ \/ s'.call = k /\ s'.pc = "correct" /\ ChosenRun(script, k) /\ s'.n = 0
           \/ s'.call = k + 1 /\ s'.pc = "idle" /\ ~ChosenRun(script, k)
                /\ s'.n = IF script[k].type = "inplace" THEN script[k].n ELSE 0
        /\ s'.mal = p.mal /\ s'.base = 0 /\ s'.malOts = p.malOts /\ s'.delta \in {0, p.delta}
    BY <2>2, SendFinishFacts
  <2>4. QED
    BY <2>1, <2>3
<1>11. PICK k2, x2 : k2 = s'.call /\ x2 = s'.pc
  OBVIOUS
<1>12. \/ ChosenRun(script, k) /\ k2 = k /\ x2 = "correct" /\ s'.n = 0
       \/ ~ChosenRun(script, k) /\ k2 = k + 1 /\ x2 = "idle"
            /\ s'.n = IF script[k].type = "inplace" THEN script[k].n ELSE 0
  BY <1>10, <1>11
<1>13. /\ y = "check" /\ r.call = k /\ toS' = << >>
       /\ Together(script, k2, x2, r.call, y, batches)
       /\ Expands(script, k2, x2) = Expands(script, k, "check")
       /\ \A j \in 1..Len(script) : IsRun(script, j) =>
             /\ Voted(j, k2, x2) <=> Voted(j, k, "check") \/ j = k
             /\ k2 > j <=> k > j \/ (j = k /\ x2 = "idle")
       /\ ToSender(script, k2, x2, r.call, y, batches, << >>)
       /\ \A used, qr : ToReceiver(script, k, "check", r.call, y, used, qr) =>
             ToReceiver(script, k2, x2, r.call, y, used,
                        qr \o << VoleMsg(Timeline(script)[k].batches), HashMsg(Timeline(script)[k].expands) >>)
  <2>1. \/ ChosenRun(script, k) /\ k2 = k /\ x2 = "correct"
        \/ ~ChosenRun(script, k) /\ k2 = k + 1 /\ x2 = "idle"
    BY <1>12
  <2>2. PICK b, kr, q : b = batches /\ kr = r.call /\ q = toS
    OBVIOUS
  <2>3. /\ Together(script, k, "check", kr, y, b)
        /\ ToSender(script, k, "check", kr, y, b, q) /\ Ready(q, "seed")
    BY <1>2, <1>4, <1>6, <2>2
  <2>4. y = "check" /\ kr = k /\ Tail(q) = << >>
    BY <2>3, SeedSeen
  <2>5. Together(script, k, "check", k, "check", b)
    BY <2>3, <2>4
  <2>6. /\ Together(script, k2, x2, k, "check", b)
        /\ Expands(script, k2, x2) = Expands(script, k, "check")
        /\ \A j \in 1..Len(script) : IsRun(script, j) =>
              /\ Voted(j, k2, x2) <=> Voted(j, k, "check") \/ j = k
              /\ k2 > j <=> k > j \/ (j = k /\ x2 = "idle")
        /\ ToSender(script, k2, x2, k, "check", b, << >>)
        /\ \A used, qr : ToReceiver(script, k, "check", k, "check", used, qr) =>
              ToReceiver(script, k2, x2, k, "check", used,
                         qr \o << VoleMsg(Timeline(script)[k].batches), HashMsg(Timeline(script)[k].expands) >>)
    BY <2>1, <2>5, SendVotes, SMTT(30)
  <2>7. QED
    BY <1>2, <2>2, <2>4, <2>6
<1>14. ToReceiver(script, k2, x2, r.call, y, sUsed', toR')
  BY <1>2, <1>4, <1>9, <1>13
<1>15. x2 \in SendPhases /\ x2 # "failed"
  BY <1>12 DEF SendPhases
<1>16. SendOk(script, x2, s')
  <2>1. PartyOk(script, x2, s')
    <3>1. PICK p1, p2 : p1 = s /\ p2 = s'
      OBVIOUS
    <3>2. /\ PartyOk(script, "check", p1) /\ k = p1.call /\ p2.call = k2 /\ p2.mal = p1.mal /\ p2.base = 0
          /\ p2.malOts = p1.malOts
          /\ \/ k2 = k /\ x2 = "correct" /\ ChosenRun(script, k) /\ p2.n = 0
             \/ k2 = k + 1 /\ x2 = "idle" /\ p2.n = IF script[k].type = "inplace" THEN script[k].n ELSE 0
      BY <1>1, <1>5, <1>10, <1>11, <1>12, <3>1
    <3>3. PartyOk(script, x2, p2)
      BY <3>2, PartyGoesOn
    <3>4. QED
      BY <3>1, <3>3
  <2>2. s'.delta \in 0..Expands(script, s'.call, x2)
    BY <1>5, <1>8, <1>10, <1>11, <1>13
  <2>3. x2 # "check"
    BY <1>12
  <2>4. QED
    BY <1>10, <1>15, <2>1, <2>2, <2>3 DEF SendOk
<1>17. SendOut(script, k2, x2, sOut')
  <2>1. ASSUME NEW j \in 1..Len(script), IsRun(script, j), Voted(j, k2, x2), ChosenRun(script, j) => k2 = j
        PROVE  \/ sOut'[j] = SentOf(script, j)
               \/ sOut'[j] = sOut[j] /\ Voted(j, k, "check") /\ (ChosenRun(script, j) => k = j)
    <3>1. CASE j = k
      BY <1>7, <1>10, <3>1
    <3>2. CASE j # k
      <4>1. Voted(j, k, "check")
        BY <1>13, <2>1, <3>2
      <4>2. sOut'[j] = sOut[j]
        BY <1>10, <3>2
      <4>3. k > j
        BY <3>2, <4>1 DEF Voted
      <4>4. ChosenRun(script, j) => FALSE
        BY <1>7, <1>12, <2>1, <4>3
      <4>5. QED
        BY <4>1, <4>2, <4>4
    <3>3. QED
      BY <3>1, <3>2
  <2>2. QED
    BY <1>4, <2>1, SendOutKept
<1>18. RecvOut(script, k2, r.call, bad, want, sOut', rOut, toS')
  <2>1. ASSUME NEW j \in 1..Len(script), ChosenRun(script, j), r.call > j
        PROVE  (k2 > j <=> k > j) /\ (k > j => sOut'[j] = sOut[j]) /\ k > j
    <3>1. IsRun(script, j) /\ k > j
      BY <1>13, <2>1 DEF ChosenRun
    <3>2. k2 > j /\ j # k
      BY <1>7, <1>13, <3>1
    <3>3. sOut'[j] = sOut[j]
      BY <1>10, <3>2
    <3>4. QED
      BY <3>1, <3>2, <3>3
  <2>2. QED
    BY <1>4, <2>1, RecvOutKept
<1>19. InvAt(x2, y)'
  <2>1. s'.pc = x2 /\ s'.call = k2 /\ x2 # "failed"
    BY <1>11, <1>15
  <2>2. UsedOk(script, sUsed', Expands(script, s'.call, x2)) /\ bad \subseteq (1..Len(sUsed')) \X Noise
    BY <1>2, <1>4, <1>13, <2>1
  <2>3. (s'.pc = "failed" \/ r.pc = "failed") => closed'
    BY <1>3, <2>1
  <2>4. UNCHANGED sendFrame
    BY <1>2
  <2>5. ToSender(script, s'.call, x2, r.call, y, batches, toS')
    BY <1>13, <2>1
  <2>6. QED
    BY <1>3, <1>13, <1>14, <1>15, <1>16, <1>17, <1>18, <2>1, <2>2, <2>3, <2>4, <2>5, SenderMoves
<1>20. QED
  BY <1>15, <1>19

LEMMA SendCorrectStep ==
    ASSUME script \in Scripts, NEW x \in SendPhases, NEW y \in RecvPhases, InvAt(x, y), SendCorrect,
           DOMAIN sOut = 1..Len(script)
    PROVE  InvAt("idle", y)'
<1>1. PICK k : k = s.call
  OBVIOUS
<1>2. /\ s.pc = "correct" /\ Ready(toS, "correction") /\ toS' = Tail(toS)
      /\ sOut' = [sOut EXCEPT ![k] = Swap(sOut[k], Head(toS).bits)]
      /\ s' = Returned(s) /\ UNCHANGED sendFrame /\ toR' = toR /\ closed' = closed /\ sUsed' = sUsed
  BY <1>1 DEF SendCorrect
<1>3. x = "correct"
  BY <1>2 DEF InvAt, SendPhases
<1>4. /\ SendOk(script, "correct", s)
      /\ ToSender(script, k, "correct", r.call, y, batches, toS)
      /\ ToReceiver(script, k, "correct", r.call, y, sUsed, toR) \/ (r.pc = "failed" /\ toR = << >>)
      /\ UsedOk(script, sUsed, Expands(script, k, "correct"))
      /\ bad \subseteq (1..Len(sUsed)) \X Noise
      /\ SendOut(script, k, "correct", sOut)
      /\ RecvOut(script, k, r.call, bad, want, sOut, rOut, toS)
      /\ r.pc = "failed" => closed
  BY <1>1, <1>3 DEF InvAt
<1>5. DOMAIN s = SenderFields /\ PartyOk(script, "correct", s) /\ s.delta \in 0..Expands(script, k, "correct")
  BY <1>1, <1>4 DEF SendOk
<1>6. Together(script, k, "correct", r.call, y, batches)
  BY <1>1, <1>3, TogetherInv
<1>7. /\ DOMAIN s' = SenderFields /\ s'.pc = "idle" /\ s'.call = k + 1 /\ s'.n = s.n /\ s'.mal = s.mal
      /\ s'.base = s.base /\ s'.malOts = s.malOts /\ s'.delta = s.delta
  BY <1>1, <1>2, <1>5 DEF Returned, SenderFields, CommonFields
<1>8. /\ r.call > k /\ k \in 1..Len(script) /\ ChosenRun(script, k) /\ Head(toS) = toS[1]
      /\ Together(script, k + 1, "idle", r.call, y, batches)
      /\ Expands(script, k + 1, "idle") = Expands(script, k, "correct")
      /\ \A j \in 1..Len(script) : /\ Voted(j, k + 1, "idle") <=> Voted(j, k, "correct")
                                   /\ k + 1 > j <=> k > j \/ j = k
      /\ ToSender(script, k + 1, "idle", r.call, y, batches, Tail(toS))
      /\ \A used, qr : ToReceiver(script, k, "correct", r.call, y, used, qr) =>
            ToReceiver(script, k + 1, "idle", r.call, y, used, qr)
  <2>1. PICK kr, q : kr = r.call /\ q = toS
    OBVIOUS
  <2>2. /\ Together(script, k, "correct", kr, y, batches)
        /\ ToSender(script, k, "correct", kr, y, batches, q) /\ Ready(q, "correction")
    BY <1>2, <1>4, <1>6, <2>1
  <2>3. /\ kr > k /\ k \in 1..Len(script) /\ ChosenRun(script, k) /\ Head(q) = q[1]
        /\ Together(script, k + 1, "idle", kr, y, batches)
        /\ Expands(script, k + 1, "idle") = Expands(script, k, "correct")
        /\ \A j \in 1..Len(script) : /\ Voted(j, k + 1, "idle") <=> Voted(j, k, "correct")
                                     /\ k + 1 > j <=> k > j \/ j = k
        /\ ToSender(script, k + 1, "idle", kr, y, batches, Tail(q))
        /\ \A used, qr : ToReceiver(script, k, "correct", kr, y, used, qr) =>
              ToReceiver(script, k + 1, "idle", kr, y, used, qr)
    BY <2>2, SendGetsCorrection
  <2>4. QED
    BY <2>1, <2>3
<1>9. /\ IsRun(script, k) /\ script[k].type = "chosen" /\ k \in Nat /\ s.base = 0
      /\ s.n = 0
  <2>1. IsRun(script, k) /\ script[k].type = "chosen"
    BY <1>8 DEF ChosenRun
  <2>2. s.base = 0 /\ s.n = 0
    BY <1>5 DEF PartyOk
  <2>3. QED
    BY <1>8, <2>1, <2>2
<1>10. SendOk(script, "idle", s')
  <2>1. PICK p1, p2 : p1 = s /\ p2 = s'
    OBVIOUS
  <2>2. PICK k2 : k2 = k + 1
    OBVIOUS
  <2>3. /\ PartyOk(script, "correct", p1) /\ k = p1.call /\ p2.call = k2 /\ p2.mal = p1.mal /\ p2.base = 0
        /\ p2.malOts = p1.malOts
        /\ k2 = k + 1 /\ "idle" = "idle" /\ p2.n = IF script[k].type = "inplace" THEN script[k].n ELSE 0
    BY <1>1, <1>5, <1>7, <1>9, <2>1, <2>2
  <2>4. PartyOk(script, "idle", p2)
    BY <2>3, PartyGoesOn
  <2>5. s'.delta \in 0..Expands(script, s'.call, "idle")
    BY <1>5, <1>7, <1>8
  <2>6. QED
    BY <1>7, <2>1, <2>4, <2>5 DEF SendOk, SendPhases
<1>11. sOut[k] = SentOf(script, k)
  <2>1. Voted(k, k, "correct")
    BY DEF Voted
  <2>2. QED
    BY <1>4, <1>8, <1>9, <2>1 DEF SendOut
<1>12. SendOut(script, k + 1, "idle", sOut')
  <2>1. ASSUME NEW j \in 1..Len(script), IsRun(script, j), Voted(j, k + 1, "idle"), ChosenRun(script, j) => k + 1 = j
        PROVE  sOut'[j] = sOut[j] /\ Voted(j, k, "correct") /\ (ChosenRun(script, j) => k = j)
    <3>1. Voted(j, k, "correct") /\ k + 1 > j
      BY <1>8, <2>1 DEF Voted
    <3>2. ~ChosenRun(script, j)
      BY <1>9, <2>1, <3>1
    <3>3. j # k
      BY <1>8, <3>2
    <3>4. sOut'[j] = sOut[j]
      BY <1>2, <3>3
    <3>5. QED
      BY <3>1, <3>2, <3>4
  <2>2. PICK k2, so2 : k2 = k + 1 /\ so2 = sOut'
    OBVIOUS
  <2>3. \A j \in 1..Len(script) : (IsRun(script, j) /\ Voted(j, k2, "idle") /\ (ChosenRun(script, j) => k2 = j)) =>
               so2[j] = sOut[j] /\ Voted(j, k, "correct") /\ (ChosenRun(script, j) => k = j)
    BY <2>1, <2>2
  <2>4. SendOut(script, k2, "idle", so2)
    BY <1>4, <2>3, SendOutKept
  <2>5. QED
    BY <2>2, <2>4
<1>13. RecvOut(script, k + 1, r.call, bad, want, sOut', rOut, toS')
  <2>1. ASSUME NEW j \in 1..Len(script), IsRun(script, j), r.call > j, ~Spoilt(bad, RunOf(script, j))
        PROVE  \E bits \in SUBSET (0..(script[j].n - 1)) :
                  /\ Opens(script, j, want, bits, rOut[j])
                  /\ ChosenRun(script, j) => IF k + 1 > j THEN sOut'[j] = Swap(SentOf(script, j), Xor(bits, want[j]))
                                             ELSE toS'[1].bits = Xor(bits, want[j])
    <3>1. PICK bits \in SUBSET (0..(script[j].n - 1)) :
                  /\ Opens(script, j, want, bits, rOut[j])
                  /\ ChosenRun(script, j) => IF k > j THEN sOut[j] = Swap(SentOf(script, j), Xor(bits, want[j]))
                                             ELSE toS[1].bits = Xor(bits, want[j])
      BY <1>4, <2>1 DEF RecvOut
    <3>2. ASSUME ChosenRun(script, j)
          PROVE  k + 1 > j /\ sOut'[j] = Swap(SentOf(script, j), Xor(bits, want[j]))
      <4>1. k > j \/ k = j
        BY <1>6, <2>1, Behind
      <4>2. CASE k = j
        <5>1. sOut'[k] = Swap(sOut[k], Head(toS).bits)
          BY <1>2, <1>8
        <5>2. Head(toS).bits = Xor(bits, want[j])
          BY <1>8, <1>9, <3>1, <3>2, <4>2
        <5>3. QED
          BY <1>9, <1>11, <4>2, <5>1, <5>2
      <4>3. CASE k # j
        <5>1. k > j
          BY <4>1, <4>3
        <5>2. sOut'[j] = sOut[j]
          BY <1>2, <4>3
        <5>3. QED
          BY <1>9, <3>1, <3>2, <5>1, <5>2
      <4>4. QED
        BY <4>2, <4>3
    <3>3. QED
      BY <3>1, <3>2
  <2>2. QED
    BY <2>1 DEF RecvOut
<1>14. QED
  <2>1. script' = script /\ UNCHANGED sendFrame
    BY <1>2 DEF sendFrame
  <2>2. (s'.pc = "failed" \/ r.pc = "failed") => closed'
    BY <1>2, <1>4, <1>7
  <2>3. ToReceiver(script, s'.call, "idle", r.call, y, sUsed', toR') \/ (r.pc = "failed" /\ toR' = << >>)
    BY <1>2, <1>4, <1>7, <1>8
  <2>4. "idle" \in SendPhases /\ s'.pc \in {"idle", "failed"}
    BY <1>7 DEF SendPhases
  <2>5. /\ UsedOk(script, sUsed', Expands(script, s'.call, "idle")) /\ bad \subseteq (1..Len(sUsed')) \X Noise
        /\ ToSender(script, s'.call, "idle", r.call, y, batches, toS')
        /\ Together(script, s'.call, "idle", r.call, y, batches)
        /\ SendOut(script, s'.call, "idle", sOut')
        /\ RecvOut(script, s'.call, r.call, bad, want, sOut', rOut, toS')
    BY <1>2, <1>4, <1>7, <1>8, <1>12, <1>13
  <2>6. QED
    BY <1>10, <2>1, <2>2, <2>3, <2>4, <2>5, SenderMoves

---------------------------------------------------------------------------
(* The steps of the receiver.                                              *)

LEMMA ReceiverMoves ==
    ASSUME script \in Scripts, NEW x \in SendPhases, NEW y \in RecvPhases, InvAt(x, y), UNCHANGED recvFrame,
           NEW y2 \in RecvPhases, r'.pc \in {y2, "failed"}, (s.pc = "failed" \/ r'.pc = "failed") => closed',
           RecvOk(script, bad, y2, r'), Together(script, s.call, x, r'.call, y2, batches'),
           ToSender(script, s.call, x, r'.call, y2, batches', toS'),
           ToReceiver(script, s.call, x, r'.call, y2, sUsed, toR') \/ (r'.pc = "failed" /\ toR' = << >>),
           UsedOk(script, rUsed', Expands(script, r'.call, y2)),
           RecvOut(script, s.call, r'.call, bad, want, sOut, rOut', toS'),
           Caught(script, r'.call, bad)
    PROVE  InvAt(x, y2)'
<1>1. script' = script /\ s' = s /\ want' = want /\ sOut' = sOut /\ sUsed' = sUsed /\ bad' = bad
  BY DEF recvFrame
<1>2. Sync(script, s.call, x, r'.call, y2, batches')
  BY DEF Together
<1>3. /\ s.pc \in {x, "failed"} /\ SendOk(script, x, s)
      /\ UsedOk(script, sUsed, Expands(script, s.call, x))
      /\ bad \subseteq (1..Len(sUsed)) \X Noise
      /\ SendOut(script, s.call, x, sOut)
  BY DEF InvAt
<1>4. QED
  BY <1>1, <1>2, <1>3 DEF InvAt

LEMMA RecvOutMoved ==
    ASSUME NEW sc, NEW ks, NEW kr, NEW bd, NEW w, NEW so, NEW ro, NEW q, RecvOut(sc, ks, kr, bd, w, so, ro, q),
           NEW k2, NEW q2, \A j \in 1..Len(sc) : IsRun(sc, j) => (k2 > j <=> kr > j),
           \A j \in 1..Len(sc) : ChosenRun(sc, j) /\ kr > j => ks > j \/ q2[1] = q[1]
    PROVE  RecvOut(sc, ks, k2, bd, w, so, ro, q2)
<1>1. ASSUME NEW k \in 1..Len(sc), IsRun(sc, k), k2 > k, ~Spoilt(bd, RunOf(sc, k))
      PROVE  \E bits \in SUBSET (0..(sc[k].n - 1)) :
                /\ Opens(sc, k, w, bits, ro[k])
                /\ ChosenRun(sc, k) => IF ks > k THEN so[k] = Swap(SentOf(sc, k), Xor(bits, w[k]))
                                       ELSE q2[1].bits = Xor(bits, w[k])
  <2>1. kr > k
    BY <1>1
  <2>2. PICK bits \in SUBSET (0..(sc[k].n - 1)) :
                /\ Opens(sc, k, w, bits, ro[k])
                /\ ChosenRun(sc, k) => IF ks > k THEN so[k] = Swap(SentOf(sc, k), Xor(bits, w[k]))
                                       ELSE q[1].bits = Xor(bits, w[k])
    BY <1>1, <2>1 DEF RecvOut
  <2>3. ChosenRun(sc, k) => IF ks > k THEN so[k] = Swap(SentOf(sc, k), Xor(bits, w[k]))
                            ELSE q2[1].bits = Xor(bits, w[k])
    BY <1>1, <2>1, <2>2
  <2>4. QED
    BY <2>2, <2>3
<1>2. QED
  BY <1>1 DEF RecvOut

LEMMA CaughtMoved ==
    ASSUME NEW sc, NEW kr, NEW bd, Caught(sc, kr, bd), NEW k2,
           \A j \in 1..Len(sc) : IsRun(sc, j) => (k2 > j <=> kr > j)
    PROVE  Caught(sc, k2, bd)
  BY DEF Caught, MalRun

(* Steps of an idle receiver that change nothing but itself.                *)
LEMMA ReceiverQuiet ==
    ASSUME script \in Scripts, NEW x \in SendPhases, InvAt(x, "idle"), r.pc = "idle", UNCHANGED recvFrame,
           UNCHANGED <<rOut, toS, toR, closed, batches, rUsed>>,
           NEW y2 \in {"idle", "expand"}, r'.pc = y2, RecvOk(script, bad, y2, r'),
           Batches(script, r'.call, y2) = Batches(script, r.call, "idle"),
           Expands(script, r'.call, y2) = Expands(script, r.call, "idle"),
           \A k \in 1..Len(script) : IsRun(script, k) => (r'.call > k <=> r.call > k)
    PROVE  InvAt(x, y2)'
<1>1. "idle" \in RecvPhases /\ y2 \in RecvPhases /\ y2 # "failed"
  BY DEF RecvPhases
<1>2. Together(script, s.call, x, r.call, "idle", batches)
  BY <1>1, TogetherInv
<1>3. PlaceOk(script, y2, r'.call)
  BY DEF RecvOk, PartyOk
<1>4. /\ Together(script, s.call, x, r'.call, y2, batches)
      /\ \A q : ToSender(script, s.call, x, r.call, "idle", batches, q) =>
            ToSender(script, s.call, x, r'.call, y2, batches, q)
      /\ \A used, q : ToReceiver(script, s.call, x, r.call, "idle", used, q) =>
            ToReceiver(script, s.call, x, r'.call, y2, used, q)
  BY <1>2, <1>3, QuietRecv
<1>5. rOut' = rOut /\ toS' = toS /\ toR' = toR /\ closed' = closed /\ batches' = batches /\ rUsed' = rUsed
  OBVIOUS
<1>6. /\ (s.pc = "failed" \/ r.pc = "failed") => closed
      /\ ToSender(script, s.call, x, r.call, "idle", batches, toS)
      /\ ToReceiver(script, s.call, x, r.call, "idle", sUsed, toR)
      /\ UsedOk(script, rUsed, Expands(script, r.call, "idle"))
      /\ RecvOut(script, s.call, r.call, bad, want, sOut, rOut, toS)
      /\ Caught(script, r.call, bad)
  BY DEF InvAt
<1>7. RecvOut(script, s.call, r'.call, bad, want, sOut, rOut, toS)
  BY <1>6, RecvOutMoved
<1>8. Caught(script, r'.call, bad)
  BY <1>6, CaughtMoved
<1>9. QED
  BY <1>1, <1>4, <1>5, <1>6, <1>7, <1>8, ReceiverMoves

LEMMA ReceiverFails ==
    ASSUME script \in Scripts, NEW x \in SendPhases, NEW y \in RecvPhases, InvAt(x, y), UNCHANGED recvFrame,
           UNCHANGED <<rOut, toS, batches, rUsed>>, toR' = toR \/ toR' = << >>, r' = Failed(r), closed'
    PROVE  InvAt(x, y)'
<1>1. /\ RecvOk(script, bad, y, r)
      /\ ToSender(script, s.call, x, r.call, y, batches, toS)
      /\ ToReceiver(script, s.call, x, r.call, y, sUsed, toR) \/ (r.pc = "failed" /\ toR = << >>)
      /\ UsedOk(script, rUsed, Expands(script, r.call, y))
      /\ RecvOut(script, s.call, r.call, bad, want, sOut, rOut, toS)
      /\ Caught(script, r.call, bad)
  BY DEF InvAt
<1>2. DOMAIN r = ReceiverFields
  BY <1>1 DEF RecvOk
<1>3. /\ DOMAIN r' = ReceiverFields /\ r'.pc = "failed" /\ r'.call = r.call /\ r'.n = r.n /\ r'.mal = r.mal
      /\ r'.base = r.base /\ r'.malOts = r.malOts /\ r'.S = r.S /\ r'.X = r.X /\ r'.A = r.A
  BY <1>2 DEF Failed, ReceiverFields, CommonFields
<1>4. RecvOk(script, bad, y, r')
  <2>1. PartyOk(script, y, r')
    BY <1>1, <1>3 DEF RecvOk, PartyOk
  <2>2. QED
    BY <1>1, <1>3, <2>1 DEF RecvOk
<1>5. Together(script, s.call, x, r'.call, y, batches)
  BY <1>3, TogetherInv
<1>6. rOut' = rOut /\ toS' = toS /\ batches' = batches /\ rUsed' = rUsed
  OBVIOUS
<1>7. ToReceiver(script, s.call, x, r'.call, y, sUsed, toR') \/ (r'.pc = "failed" /\ toR' = << >>)
  BY <1>1, <1>3
<1>8. QED
  BY <1>1, <1>3, <1>4, <1>5, <1>6, <1>7, ReceiverMoves

LEMMA RecvConfigureStep ==
    ASSUME script \in Scripts, NEW x \in SendPhases, NEW y \in RecvPhases, InvAt(x, y), RecvConfigure
    PROVE  InvAt(x, "idle")'
<1>1. PICK k : k = r.call
  OBVIOUS
<1>2. /\ r.pc = "idle" /\ k <= Len(script) /\ script[k].op = "configure"
      /\ r' = Returned(Configured(r, script[k].n, script[k].mal))
      /\ UNCHANGED recvFrame /\ UNCHANGED <<rOut, toS, toR, closed, batches, rUsed>>
  BY <1>1 DEF RecvConfigure, Busy, Call, Calls
<1>3. y = "idle" /\ RecvOk(script, bad, "idle", r)
  BY <1>2 DEF InvAt, RecvPhases
<1>4. /\ DOMAIN r = ReceiverFields /\ PartyOk(script, "idle", r)
      /\ r.S \subseteq Noise /\ r.X \subseteq { q + 1 : q \in Noise }
  BY <1>3 DEF RecvOk
<1>5. /\ DOMAIN r' = ReceiverFields /\ r'.pc = "idle" /\ r'.call = k + 1 /\ r'.n = script[k].n
      /\ r'.mal = script[k].mal /\ r'.base = 0 /\ r'.malOts = r.malOts /\ r'.S = r.S /\ r'.X = r.X
  BY <1>1, <1>2, <1>4 DEF Returned, Configured, ReceiverFields, CommonFields
<1>6. /\ PartyOk(script, "idle", r') /\ ~Timeline(script)[k].has /\ k \in Nat
      /\ Batches(script, k + 1, "idle") = Batches(script, k, "idle")
      /\ Expands(script, k + 1, "idle") = Expands(script, k, "idle")
      /\ \A j \in 1..Len(script) : IsRun(script, j) => (k + 1 > j <=> k > j)
  <2>1. PICK p1, p2 : p1 = r /\ p2 = r'
    OBVIOUS
  <2>2. /\ PartyOk(script, "idle", p1) /\ k = p1.call /\ k <= Len(script) /\ script[k].op = "configure"
        /\ p2.call = k + 1 /\ p2.n = script[k].n /\ p2.mal = script[k].mal /\ p2.base = 0 /\ p2.malOts = p1.malOts
    BY <1>1, <1>2, <1>4, <1>5, <2>1
  <2>3. /\ PartyOk(script, "idle", p2) /\ ~Timeline(script)[k].has
        /\ Batches(script, k + 1, "idle") = Batches(script, k, "idle")
        /\ Expands(script, k + 1, "idle") = Expands(script, k, "idle")
        /\ \A j \in 1..Len(script) : IsRun(script, j) => (k + 1 > j <=> k > j)
    BY <2>2, PartyConfigures
  <2>4. k \in Nat
    <3>1. PlaceOk(script, "idle", k) /\ "idle" \in SendPhases
      BY <2>2 DEF PartyOk, SendPhases
    <3>2. QED
      BY <3>1, PlaceFacts
  <2>5. QED
    BY <2>1, <2>3, <2>4
<1>7. RecvOk(script, bad, "idle", r')
  <2>1. r'.call - 1 = k
    BY <1>5, <1>6
  <2>2. QED
    BY <1>4, <1>5, <1>6, <2>1 DEF RecvOk, RecvPhases
<1>8. QED
  BY <1>1, <1>2, <1>3, <1>5, <1>6, <1>7, ReceiverQuiet

LEMMA RecvEnterStep ==
    ASSUME script \in Scripts, NEW x \in SendPhases, NEW y \in RecvPhases, InvAt(x, y), RecvEnter
    PROVE  InvAt(x, "expand")'
<1>1. PICK k : k = r.call
  OBVIOUS
<1>2. PICK p : p = Entered(r, script[k].n)
  OBVIOUS
<1>3. /\ r.pc = "idle" /\ k <= Len(script) /\ script[k].op = "run" /\ ~Rejected(r) /\ p.base # 0
      /\ r' = [p EXCEPT !.pc = "expand"]
      /\ UNCHANGED recvFrame /\ UNCHANGED <<rOut, toS, toR, closed, batches, rUsed>>
  BY <1>1, <1>2 DEF RecvEnter, Busy, Call, Calls
<1>4. y = "idle" /\ RecvOk(script, bad, "idle", r)
  BY <1>3 DEF InvAt, RecvPhases
<1>5. /\ DOMAIN r = ReceiverFields /\ PartyOk(script, "idle", r)
      /\ r.S \subseteq Noise /\ r.X \subseteq { q + 1 : q \in Noise }
      /\ (r.mal /\ Timeline(script)[k - 1].has) => r.X = Powers(r.S)
  BY <1>1, <1>4 DEF RecvOk
<1>6. /\ DOMAIN p = ReceiverFields /\ p.call = k /\ p.mal = r.mal /\ p.malOts = r.malOts /\ p.S = r.S /\ p.X = r.X
      /\ p.n = (IF r.n = 0 THEN script[k].n ELSE r.n)
      /\ p.base = (IF r.n = 0 THEN 0 ELSE r.base)
  BY <1>1, <1>2, <1>5 DEF Entered, Configured, ReceiverFields, CommonFields
<1>7. p.n = script[k].n
  BY <1>1, <1>2, <1>3 DEF Rejected, Call
<1>8. /\ DOMAIN r' = ReceiverFields /\ r'.pc = "expand" /\ r'.call = k /\ r'.n = p.n
      /\ r'.mal = p.mal /\ r'.base = p.base /\ r'.malOts = p.malOts /\ r'.S = p.S /\ r'.X = p.X
  BY <1>3, <1>6 DEF ReceiverFields, CommonFields
<1>9. /\ PartyOk(script, "expand", r') /\ Timeline(script)[k - 1].has
      /\ Batches(script, k, "expand") = Batches(script, k, "idle") /\ Expands(script, k, "expand") = Expands(script, k, "idle")
  <2>1. PICK p1, p2 : p1 = r /\ p2 = r'
    OBVIOUS
  <2>2. /\ PartyOk(script, "idle", p1) /\ k = p1.call /\ k <= Len(script) /\ script[k].op \in {"gen", "run"}
        /\ script[k].op = "gen" => p1.n # 0
    BY <1>1, <1>3, <1>5, <2>1
  <2>3. /\ p2.call = k /\ p2.mal = p1.mal /\ p2.malOts = p1.malOts
        /\ p2.n = (IF script[k].op = "run" /\ p1.n = 0 THEN script[k].n ELSE p1.n)
        /\ p2.base = (IF script[k].op = "run" /\ p1.n = 0 THEN 0 ELSE p1.base)
        /\ script[k].op = "run" => p2.n = script[k].n
    BY <1>3, <1>6, <1>7, <1>8, <2>1
  <2>4. PICK h : h = IF script[k].op = "gen" \/ p2.base = 0 THEN "gen" ELSE "expand"
    OBVIOUS
  <2>5. h = "expand"
    BY <1>3, <1>8, <2>1, <2>4
  <2>6. /\ PartyOk(script, h, p2) /\ (h = "expand" => Timeline(script)[k - 1].has)
        /\ Batches(script, k, h) = Batches(script, k, "idle") /\ Expands(script, k, h) = Expands(script, k, "idle")
    BY <2>2, <2>3, <2>4, PartyEnters
  <2>7. QED
    BY <2>1, <2>5, <2>6
<1>10. RecvOk(script, bad, "expand", r')
  BY <1>5, <1>6, <1>8, <1>9 DEF RecvOk, RecvPhases
<1>11. \A j \in 1..Len(script) : IsRun(script, j) => (r'.call > j <=> r.call > j)
  BY <1>1, <1>8
<1>12. QED
  <2>1. r'.call = k /\ r.call = k /\ InvAt(x, "idle")
    BY <1>1, <1>4, <1>8
  <2>2. QED
    BY <1>3, <1>8, <1>9, <1>10, <1>11, <2>1, ReceiverQuiet

LEMMA CorrectionWaits ==
    ASSUME NEW sc, NEW ks, NEW kr, NEW y, NEW b, NEW q, ToSender(sc, ks, "correct", kr, y, b, q), kr > ks
    PROVE  q # << >>
<1>1. PICK c : c = CorrectionMsg(q[1].bits)
  OBVIOUS
<1>2. PICK ots : ots = IF Batches(sc, ks, "correct") < b THEN <<OtMsg(b)>> ELSE << >>
  OBVIOUS
<1>3. q = <<c>> \o ots
  BY <1>1, <1>2 DEF ToSender
<1>4. CASE ots = << >>
  BY <1>3, <1>4, Queues
<1>5. CASE ots = <<OtMsg(b)>>
  <2>1. PICK o : o = OtMsg(b)
    OBVIOUS
  <2>2. q = <<c, o>>
    BY <1>3, <1>5, <2>1, Queues
  <2>3. QED
    BY <2>2
<1>6. QED
  BY <1>2, <1>4, <1>5

LEMMA RecvSampleStep ==
    ASSUME script \in Scripts, NEW x \in SendPhases, NEW y \in RecvPhases, InvAt(x, y), NEW S \in Positions, RecvSample(S)
    PROVE  InvAt(x, "gen")'
<1>1. PICK k : k = r.call
  OBVIOUS
<1>2. PICK p : p = IF script[k].op = "run" THEN Entered(r, script[k].n) ELSE r
  OBVIOUS
<1>3. /\ r.pc = "idle" /\ k <= Len(script) /\ script[k].op \in {"gen", "run"} /\ ~Rejected(r) /\ ~closed
      /\ script[k].op = "gen" \/ p.base = 0
      /\ r' = [p EXCEPT !.pc = "gen", !.S = S, !.X = IF p.mal THEN Powers(S) ELSE @]
      /\ toS' = Append(toS, OtMsg(batches + 1)) /\ batches' = batches + 1
      /\ UNCHANGED recvFrame /\ rOut' = rOut /\ toR' = toR /\ closed' = closed /\ rUsed' = rUsed
  BY <1>1, <1>2 DEF RecvSample, Busy, Call, Calls, OtMsg
<1>4. y = "idle" /\ s.pc # "failed"
  BY <1>3 DEF InvAt, RecvPhases
<1>5. /\ RecvOk(script, bad, "idle", r)
      /\ ToSender(script, s.call, x, k, "idle", batches, toS)
      /\ ToReceiver(script, s.call, x, k, "idle", sUsed, toR)
      /\ UsedOk(script, rUsed, Expands(script, k, "idle"))
      /\ RecvOut(script, s.call, k, bad, want, sOut, rOut, toS)
      /\ Caught(script, k, bad)
  BY <1>1, <1>3, <1>4 DEF InvAt
<1>6. /\ DOMAIN r = ReceiverFields /\ PartyOk(script, "idle", r)
      /\ r.S \subseteq Noise /\ r.X \subseteq { q + 1 : q \in Noise }
  BY <1>5 DEF RecvOk
<1>7. /\ DOMAIN p = ReceiverFields /\ p.call = k /\ p.mal = r.mal /\ p.malOts = r.malOts /\ p.S = r.S /\ p.X = r.X
      /\ p.n = (IF script[k].op = "run" /\ r.n = 0 THEN script[k].n ELSE r.n)
      /\ p.base = (IF script[k].op = "run" /\ r.n = 0 THEN 0 ELSE r.base)
  BY <1>1, <1>2, <1>6 DEF Entered, Configured, ReceiverFields, CommonFields
<1>8. (script[k].op = "gen" => r.n # 0) /\ (script[k].op = "run" => p.n = script[k].n)
  BY <1>1, <1>2, <1>3 DEF Rejected, Call
<1>9. /\ DOMAIN r' = ReceiverFields /\ r'.pc = "gen" /\ r'.call = k /\ r'.n = p.n
      /\ r'.mal = p.mal /\ r'.base = p.base /\ r'.malOts = p.malOts /\ r'.S = S
      /\ r'.X = IF p.mal THEN Powers(S) ELSE p.X
  BY <1>3, <1>7 DEF ReceiverFields, CommonFields
<1>10. /\ PartyOk(script, "gen", r') /\ PlaceOk(script, "gen", k)
       /\ Expands(script, k, "gen") = Expands(script, k, "idle")
  <2>1. PICK p1, p2 : p1 = r /\ p2 = r'
    OBVIOUS
  <2>2. /\ PartyOk(script, "idle", p1) /\ k = p1.call /\ k <= Len(script) /\ script[k].op \in {"gen", "run"}
        /\ script[k].op = "gen" => p1.n # 0
    BY <1>1, <1>3, <1>6, <1>8, <2>1
  <2>3. /\ p2.call = k /\ p2.mal = p1.mal /\ p2.malOts = p1.malOts
        /\ p2.n = (IF script[k].op = "run" /\ p1.n = 0 THEN script[k].n ELSE p1.n)
        /\ p2.base = (IF script[k].op = "run" /\ p1.n = 0 THEN 0 ELSE p1.base)
        /\ script[k].op = "run" => p2.n = script[k].n
    BY <1>3, <1>7, <1>8, <1>9, <2>1
  <2>4. PICK h : h = IF script[k].op = "gen" \/ p2.base = 0 THEN "gen" ELSE "expand"
    OBVIOUS
  <2>5. h = "gen"
    BY <1>3, <1>9, <2>1, <2>4
  <2>6. /\ PartyOk(script, h, p2) /\ PlaceOk(script, h, k)
        /\ Batches(script, k, h) = Batches(script, k, "idle") /\ Expands(script, k, h) = Expands(script, k, "idle")
    BY <2>2, <2>3, <2>4, PartyEnters
  <2>7. QED
    BY <2>1, <2>5, <2>6
<1>11. RecvOk(script, bad, "gen", r')
  <2>1. S \subseteq Noise /\ Powers(S) \subseteq { q + 1 : q \in Noise }
    BY DEF Positions, Powers
  <2>2. r'.X \subseteq { q + 1 : q \in Noise } /\ (r'.mal => r'.X = Powers(r'.S))
    BY <1>6, <1>7, <1>9, <2>1
  <2>3. QED
    BY <1>9, <1>10, <2>1, <2>2 DEF RecvOk, RecvPhases
<1>12. Together(script, s.call, x, k, "idle", batches)
  BY <1>1, <1>4, TogetherInv
<1>13. /\ Together(script, s.call, x, k, "gen", batches + 1)
       /\ \A q : ToSender(script, s.call, x, k, "idle", batches, q) =>
             /\ ToSender(script, s.call, x, k, "gen", batches + 1, Append(q, OtMsg(batches + 1)))
             /\ q # << >> => Append(q, OtMsg(batches + 1))[1] = q[1]
       /\ \A used, q : ToReceiver(script, s.call, x, k, "idle", used, q) => ToReceiver(script, s.call, x, k, "gen", used, q)
  BY <1>10, <1>12, RecvSamples
<1>14. RecvOut(script, s.call, k, bad, want, sOut, rOut, toS')
  <2>1. ASSUME NEW j \in 1..Len(script), ChosenRun(script, j), k > j PROVE s.call > j \/ toS'[1] = toS[1]
    <3>1. IsRun(script, j)
      BY <2>1 DEF ChosenRun
    <3>2. s.call > j \/ (s.call = j /\ x = "correct")
      BY <1>12, <2>1, <3>1, Behind
    <3>3. ASSUME s.call = j, x = "correct" PROVE toS # << >>
      <4>1. ToSender(script, s.call, "correct", k, "idle", batches, toS) /\ k > s.call
        BY <1>5, <2>1, <3>3
      <4>2. QED
        BY <4>1, CorrectionWaits
    <3>4. QED
      BY <1>3, <1>5, <1>13, <3>2, <3>3
  <2>2. QED
    BY <1>5, <2>1, RecvOutMoved
<1>15. /\ ToSender(script, s.call, x, k, "gen", batches + 1, toS')
       /\ ToReceiver(script, s.call, x, k, "gen", sUsed, toR)
  BY <1>3, <1>5, <1>13
<1>16. QED
  <2>1. "gen" \in RecvPhases /\ r'.pc \in {"gen", "failed"} /\ ~(s.pc = "failed" \/ r'.pc = "failed")
    BY <1>4, <1>9 DEF RecvPhases
  <2>2. UsedOk(script, rUsed', Expands(script, r'.call, "gen")) /\ Caught(script, r'.call, bad)
    BY <1>3, <1>5, <1>9, <1>10
  <2>3. Together(script, s.call, x, r'.call, "gen", batches') /\ ToSender(script, s.call, x, r'.call, "gen", batches', toS')
    BY <1>3, <1>9, <1>13, <1>15
  <2>4. ToReceiver(script, s.call, x, r'.call, "gen", sUsed, toR')
    BY <1>3, <1>9, <1>15
  <2>5. RecvOut(script, s.call, r'.call, bad, want, sOut, rOut', toS')
    BY <1>3, <1>9, <1>14
  <2>6. UNCHANGED recvFrame
    BY <1>3
  <2>7. QED
    BY <1>11, <2>1, <2>2, <2>3, <2>4, <2>5, <2>6, ReceiverMoves

LEMMA RecvBaseStep ==
    ASSUME script \in Scripts, NEW x \in SendPhases, NEW y \in RecvPhases, InvAt(x, y), RecvBase
    PROVE  \E y2 \in RecvPhases : InvAt(x, y2)'
<1>1. PICK k, b : k = r.call /\ b = batches
  OBVIOUS
<1>2. PICK p : p = [r EXCEPT !.base = batches, !.malOts = IF r.mal THEN batches ELSE @]
  OBVIOUS
<1>3. /\ r.pc = "gen" /\ Ready(toR, "otAck") /\ toR' = Tail(toR)
      /\ r' = IF script[k].op = "gen" THEN Returned(p) ELSE [p EXCEPT !.pc = "expand"]
      /\ UNCHANGED recvFrame /\ rOut' = rOut /\ toS' = toS /\ closed' = closed /\ batches' = batches /\ rUsed' = rUsed
  BY <1>1, <1>2 DEF RecvBase, Call
<1>4. y = "gen"
  BY <1>3 DEF InvAt, RecvPhases
<1>5. /\ RecvOk(script, bad, "gen", r)
      /\ ToSender(script, s.call, x, k, "gen", b, toS)
      /\ ToReceiver(script, s.call, x, k, "gen", sUsed, toR)
      /\ UsedOk(script, rUsed, Expands(script, k, "gen"))
      /\ RecvOut(script, s.call, k, bad, want, sOut, rOut, toS)
      /\ Caught(script, k, bad)
      /\ s.pc = "failed" => closed
  BY <1>1, <1>3, <1>4 DEF InvAt
<1>6. /\ DOMAIN r = ReceiverFields /\ PartyOk(script, "gen", r)
      /\ r.S \subseteq Noise /\ r.X \subseteq { q + 1 : q \in Noise } /\ (r.mal => r.X = Powers(r.S))
  BY <1>5 DEF RecvOk
<1>7. Together(script, s.call, x, k, "gen", b)
  BY <1>1, <1>4, TogetherInv
<1>8. script[k].op \in {"gen", "run"}
  BY <1>1, <1>6 DEF PartyOk, PlaceOk
<1>9. PICK k2, y2 : k2 = (IF script[k].op = "gen" THEN k + 1 ELSE k) /\ y2 = (IF script[k].op = "gen" THEN "idle" ELSE "expand")
  OBVIOUS
<1>10. (script[k].op = "gen" /\ k2 = k + 1 /\ y2 = "idle") \/ (script[k].op = "run" /\ k2 = k /\ y2 = "expand")
  BY <1>8, <1>9
<1>11. /\ k \in 1..Len(script) /\ b = Timeline(script)[k].batches
       /\ Together(script, s.call, x, k2, y2, b)
       /\ Batches(script, k2, y2) = b /\ Expands(script, k2, y2) = Expands(script, k, "gen")
       /\ \A j \in 1..Len(script) : IsRun(script, j) => (k2 > j <=> k > j)
       /\ \A q : ToSender(script, s.call, x, k, "gen", b, q) => ToSender(script, s.call, x, k2, y2, b, q)
       /\ ToReceiver(script, s.call, x, k2, y2, sUsed, Tail(toR))
  <2>1. PICK ks, q : ks = s.call /\ q = toR
    OBVIOUS
  <2>2. /\ Together(script, ks, x, k, "gen", b) /\ ToReceiver(script, ks, x, k, "gen", sUsed, q) /\ Ready(q, "otAck")
    BY <1>3, <1>5, <1>7, <2>1
  <2>3. /\ k \in 1..Len(script) /\ b = Timeline(script)[k].batches
        /\ Together(script, ks, x, k2, y2, b)
        /\ Batches(script, k2, y2) = b /\ Expands(script, k2, y2) = Expands(script, k, "gen")
        /\ \A j \in 1..Len(script) : IsRun(script, j) => (k2 > j <=> k > j)
        /\ \A c : ToSender(script, ks, x, k, "gen", b, c) => ToSender(script, ks, x, k2, y2, b, c)
        /\ ToReceiver(script, ks, x, k2, y2, sUsed, Tail(q))
    BY <1>10, <2>2, RecvGetsBase
  <2>4. QED
    BY <2>1, <2>3
<1>12. /\ DOMAIN p = ReceiverFields /\ p.call = k /\ p.mal = r.mal /\ p.n = r.n /\ p.base = b
       /\ p.malOts = (IF r.mal THEN b ELSE r.malOts) /\ p.S = r.S /\ p.X = r.X
  BY <1>1, <1>2, <1>6 DEF ReceiverFields, CommonFields
<1>13. /\ DOMAIN r' = ReceiverFields /\ r'.pc = y2 /\ r'.call = k2 /\ r'.mal = r.mal /\ r'.n = r.n /\ r'.base = b
       /\ r'.malOts = (IF r.mal THEN b ELSE r.malOts) /\ r'.S = r.S /\ r'.X = r.X
  <2>1. CASE script[k].op = "gen"
    <3>1. r' = Returned(p)
      BY <1>3, <2>1
    <3>2. QED
      BY <1>10, <1>12, <2>1, <3>1 DEF Returned, ReceiverFields, CommonFields
  <2>2. CASE script[k].op = "run"
    <3>1. r' = [p EXCEPT !.pc = "expand"]
      BY <1>3, <2>2
    <3>2. QED
      BY <1>10, <1>12, <2>2, <3>1 DEF ReceiverFields, CommonFields
  <2>3. QED
    BY <1>8, <2>1, <2>2
<1>14. PartyOk(script, y2, r')
  <2>1. PICK p1, p2 : p1 = r /\ p2 = r'
    OBVIOUS
  <2>2. /\ PartyOk(script, "gen", p1) /\ k = p1.call /\ b = Timeline(script)[k].batches
        /\ p2.call = k2 /\ p2.mal = p1.mal /\ p2.n = p1.n /\ p2.base = b /\ p2.malOts \in {0, b, p1.malOts}
        /\ p1.mal => p2.malOts = b
    BY <1>1, <1>6, <1>11, <1>13, <2>1
  <2>3. PartyOk(script, y2, p2)
    BY <1>10, <2>2, PartyGetsBase
  <2>4. QED
    BY <2>1, <2>3
<1>15. y2 \in RecvPhases /\ y2 \in {"idle", "expand"} /\ y2 # "failed"
  BY <1>10 DEF RecvPhases
<1>16. RecvOk(script, bad, y2, r')
  BY <1>6, <1>13, <1>14, <1>15 DEF RecvOk
<1>17. RecvOut(script, s.call, k2, bad, want, sOut, rOut, toS)
  BY <1>5, <1>11, RecvOutMoved
<1>18. Caught(script, k2, bad)
  BY <1>5, <1>11, CaughtMoved
<1>19. InvAt(x, y2)'
  <2>1. r'.pc \in {y2, "failed"} /\ ((s.pc = "failed" \/ r'.pc = "failed") => closed')
    BY <1>3, <1>5, <1>13, <1>15
  <2>2. UsedOk(script, rUsed', Expands(script, r'.call, y2)) /\ Caught(script, r'.call, bad)
    BY <1>3, <1>5, <1>11, <1>13, <1>18
  <2>3. /\ Together(script, s.call, x, r'.call, y2, batches') /\ ToSender(script, s.call, x, r'.call, y2, batches', toS')
        /\ ToReceiver(script, s.call, x, r'.call, y2, sUsed, toR')
    BY <1>1, <1>3, <1>5, <1>11, <1>13
  <2>4. RecvOut(script, s.call, r'.call, bad, want, sOut, rOut', toS')
    BY <1>3, <1>13, <1>17
  <2>5. UNCHANGED recvFrame
    BY <1>3
  <2>6. QED
    BY <1>15, <1>16, <2>1, <2>2, <2>3, <2>4, <2>5, ReceiverMoves
<1>20. QED
  BY <1>15, <1>19

LEMMA RecvFinishFacts ==
    ASSUME script \in Scripts, NEW p, DOMAIN p = ReceiverFields, IsRun(script, p.call), p.n = script[p.call].n, p.base = 0,
           RecvFinish(p), NEW k, k = p.call, DOMAIN rOut = 1..Len(script)
    PROVE  /\ rOut' = [rOut EXCEPT ![k] = FoundOut(p)]
           /\ toS' = IF ChosenRun(script, k) THEN Append(toS, CorrectionMsg(Xor(FoundBits(p), want[k]))) ELSE toS
           /\ DOMAIN r' = ReceiverFields /\ r'.pc = "idle" /\ r'.call = k + 1
           /\ r'.n = IF script[k].type = "inplace" THEN script[k].n ELSE 0
           /\ r'.mal = p.mal /\ r'.base = 0 /\ r'.malOts = p.malOts /\ r'.X = p.X /\ r'.S \in {p.S, {}}
<1>1. rOut' = [rOut EXCEPT ![k] = FoundOut(p)]
  BY DEF RecvFinish, FoundOut, FoundBits
<1>2. ChosenRun(script, k) <=> Call(p).type = "chosen"
  BY DEF ChosenRun, Call
<1>3. toS' = IF ChosenRun(script, k) THEN Append(toS, CorrectionMsg(Xor(FoundBits(p), want[k]))) ELSE toS
  BY <1>2 DEF RecvFinish, FoundBits, CorrectionMsg
<1>4. PICK c : c = IF Packs(p) THEN {} ELSE FoundBits(p)
  OBVIOUS
<1>5. PICK d : d = [p EXCEPT !.A = Compressed(p), !.C = c]
  OBVIOUS
<1>6. r' = Returned(IF script[k].type = "inplace" THEN d ELSE ClearedReceiver(d))
  BY <1>4, <1>5 DEF RecvFinish, FoundBits, Call
<1>7. /\ DOMAIN d = ReceiverFields /\ d.call = k /\ d.n = p.n /\ d.mal = p.mal /\ d.base = 0 /\ d.malOts = p.malOts
      /\ d.X = p.X /\ d.S = p.S
  BY <1>5 DEF ReceiverFields, CommonFields
<1>8. PICK f : f = IF script[k].type = "inplace" THEN d ELSE ClearedReceiver(d)
  OBVIOUS
<1>9. /\ DOMAIN f = ReceiverFields /\ f.call = k /\ f.mal = p.mal /\ f.base = 0 /\ f.malOts = p.malOts
      /\ f.X = p.X /\ f.S \in {p.S, {}} /\ f.n = IF script[k].type = "inplace" THEN script[k].n ELSE 0
  <2>1. CASE script[k].type = "inplace"
    BY <1>7, <1>8, <2>1
  <2>2. CASE script[k].type # "inplace"
    <3>1. f = ClearedReceiver(d)
      BY <1>8, <2>2
    <3>2. QED
      BY <1>7, <2>2, <3>1 DEF ClearedReceiver, ReceiverFields, CommonFields
  <2>3. QED
    BY <2>1, <2>2
<1>10. r' = Returned(f)
  BY <1>6, <1>8
<1>11. QED
  BY <1>1, <1>3, <1>9, <1>10 DEF Returned, ReceiverFields, CommonFields

(* The receiver p gets its output.                                         *)
LEMMA ReceiverGetsOutput ==
    ASSUME script \in Scripts, NEW x \in SendPhases, NEW y \in {"expand", "check"}, InvAt(x, y), UNCHANGED recvFrame,
           r.pc = y, DOMAIN rOut = 1..Len(script), NEW k, k = r.call,
           NEW p, DOMAIN p = ReceiverFields, p.call = k, p.n = r.n, p.mal = r.mal, p.base = 0, p.malOts = r.malOts,
           p.S = r.S, p.X = r.X, p.A = LeavesAt(RunOf(script, k), p.S, bad), RecvFinish(p),
           CanFinish(script, s.call, x, k, y), MalRun(script, k) => ~Spoilt(bad, RunOf(script, k)),
           toR' = << >>, batches' = batches, UsedOk(script, rUsed', RunOf(script, k)), s.pc = "failed" => closed'
    PROVE  InvAt(x, "idle")'
<1>1. /\ RecvOk(script, bad, y, r)
      /\ ToSender(script, s.call, x, k, y, batches, toS)
      /\ RecvOut(script, s.call, k, bad, want, sOut, rOut, toS)
      /\ Caught(script, k, bad)
  BY DEF InvAt
<1>2. /\ PartyOk(script, y, r) /\ y \in RecvPhases /\ r.S \subseteq Noise /\ r.X \subseteq { q + 1 : q \in Noise }
  BY <1>1 DEF RecvOk
<1>3. Together(script, s.call, x, k, y, batches)
  BY <1>2, TogetherInv
<1>4. IsRun(script, k) /\ k \in 1..Len(script) /\ k \in Nat /\ r.n = script[k].n
  BY <1>2, PartyRuns
<1>5. PICK bits, sent : bits = FoundBits(p) /\ sent = Xor(FoundBits(p), want[k])
  OBVIOUS
<1>6. /\ rOut' = [rOut EXCEPT ![k] = FoundOut(p)]
      /\ toS' = IF ChosenRun(script, k) THEN Append(toS, CorrectionMsg(sent)) ELSE toS
      /\ DOMAIN r' = ReceiverFields /\ r'.pc = "idle" /\ r'.call = k + 1
      /\ r'.n = IF script[k].type = "inplace" THEN script[k].n ELSE 0
      /\ r'.mal = r.mal /\ r'.base = 0 /\ r'.malOts = r.malOts /\ r'.X = r.X /\ r'.S \in {r.S, {}}
  BY <1>4, <1>5, RecvFinishFacts
<1>7. /\ Voted(k, s.call, x)
      /\ Together(script, s.call, x, k + 1, "idle", batches)
      /\ Expands(script, k + 1, "idle") = RunOf(script, k)
      /\ ToSender(script, s.call, x, k + 1, "idle", batches, toS')
      /\ ChosenRun(script, k) => s.call = k /\ x = "correct" /\ toS'[1].bits = sent
      /\ ~ChosenRun(script, k) => toS' = toS
      /\ \A used : ToReceiver(script, s.call, x, k + 1, "idle", used, << >>)
  <2>1. PICK ks, q, q2 : ks = s.call /\ q = toS /\ q2 = toS'
    OBVIOUS
  <2>2. /\ Together(script, ks, x, k, y, batches) /\ CanFinish(script, ks, x, k, y)
        /\ ToSender(script, ks, x, k, y, batches, q)
        /\ q2 = Answered(script, k, q, sent)
    BY <1>1, <1>3, <1>6, <2>1 DEF Answered
  <2>3. /\ Voted(k, ks, x)
        /\ Together(script, ks, x, k + 1, "idle", batches)
        /\ Expands(script, k + 1, "idle") = Timeline(script)[k].expands
        /\ ChosenRun(script, k) => ks = k /\ x = "correct"
        /\ \A used : ToReceiver(script, ks, x, k + 1, "idle", used, << >>)
    BY <2>2, RecvFinishes
  <2>4. /\ ToSender(script, ks, x, k + 1, "idle", batches, q2)
        /\ ChosenRun(script, k) => q2[1].bits = sent
    BY <2>2, RecvAnswers
  <2>5. QED
    BY <1>6, <2>1, <2>2, <2>3, <2>4 DEF RunOf
<1>8. PartyOk(script, "idle", r') /\ ~Timeline(script)[k].has
  <2>1. PICK p1, p2, k2 : p1 = r /\ p2 = r' /\ k2 = k + 1
    OBVIOUS
  <2>2. /\ y \in {"expand", "check", "correct"} /\ PartyOk(script, y, p1) /\ k = p1.call /\ p2.call = k2
        /\ p2.mal = p1.mal /\ p2.base = 0 /\ p2.malOts = p1.malOts
        /\ k2 = k + 1 /\ "idle" = "idle" /\ p2.n = IF script[k].type = "inplace" THEN script[k].n ELSE 0
    BY <1>2, <1>6, <2>1
  <2>3. PartyOk(script, "idle", p2)
    BY <2>2, PartyGoesOn
  <2>4. ~Timeline(script)[k].has
    BY <1>2, PartyRuns
  <2>5. QED
    BY <2>1, <2>3, <2>4
<1>9. RecvOk(script, bad, "idle", r')
  <2>1. r'.call - 1 = k
    BY <1>4, <1>6
  <2>2. r'.S \subseteq Noise /\ r'.X \subseteq { q + 1 : q \in Noise }
    BY <1>2, <1>6
  <2>3. QED
    BY <1>6, <1>8, <2>1, <2>2 DEF RecvOk, RecvPhases
<1>10. RecvOut(script, s.call, k + 1, bad, want, sOut, rOut', toS')
  <2>1. ASSUME NEW j \in 1..Len(script), IsRun(script, j), k + 1 > j, ~Spoilt(bad, RunOf(script, j))
        PROVE  \E bs \in SUBSET (0..(script[j].n - 1)) :
                  /\ Opens(script, j, want, bs, rOut'[j])
                  /\ ChosenRun(script, j) => IF s.call > j THEN sOut[j] = Swap(SentOf(script, j), Xor(bs, want[j]))
                                             ELSE toS'[1].bits = Xor(bs, want[j])
    <3>1. CASE j = k
      <4>1. rOut'[j] = FoundOut(p)
        BY <1>4, <1>6, <3>1
      <4>2. Opens(script, k, want, FoundBits(p), FoundOut(p))
        BY <1>4, <2>1, <3>1, OutputOpens
      <4>3. bits \in SUBSET (0..(script[j].n - 1))
        BY <1>5, <3>1, <4>2 DEF Opens
      <4>4. ChosenRun(script, j) => s.call = j /\ toS'[1].bits = Xor(bits, want[j])
        BY <1>5, <1>7, <3>1
      <4>5. ~(j > j)
        BY <1>4, <3>1
      <4>6. QED
        BY <1>5, <3>1, <4>1, <4>2, <4>3, <4>4, <4>5
    <3>2. CASE j # k
      <4>1. k > j /\ rOut'[j] = rOut[j]
        BY <1>4, <1>6, <2>1, <3>2
      <4>2. PICK bs \in SUBSET (0..(script[j].n - 1)) :
                  /\ Opens(script, j, want, bs, rOut[j])
                  /\ ChosenRun(script, j) => IF s.call > j THEN sOut[j] = Swap(SentOf(script, j), Xor(bs, want[j]))
                                             ELSE toS[1].bits = Xor(bs, want[j])
        BY <1>1, <2>1, <4>1 DEF RecvOut
      <4>3. s.call > j \/ toS' = toS
        BY <1>7, <4>1
      <4>4. QED
        BY <4>1, <4>2, <4>3
    <3>3. QED
      BY <3>1, <3>2
  <2>2. QED
    BY <2>1 DEF RecvOut
<1>11. Caught(script, k + 1, bad)
  <2>1. ASSUME NEW j \in 1..Len(script), MalRun(script, j), k + 1 > j PROVE ~Spoilt(bad, RunOf(script, j))
    <3>1. CASE j = k
      BY <2>1, <3>1
    <3>2. CASE j # k
      <4>1. k > j
        BY <1>4, <2>1, <3>2
      <4>2. QED
        BY <1>1, <2>1, <4>1 DEF Caught
    <3>3. QED
      BY <3>1, <3>2
  <2>2. QED
    BY <2>1 DEF Caught
<1>12. QED
  <2>1. "idle" \in RecvPhases /\ r'.pc \in {"idle", "failed"} /\ ((s.pc = "failed" \/ r'.pc = "failed") => closed')
    BY <1>6 DEF RecvPhases
  <2>2. UsedOk(script, rUsed', Expands(script, r'.call, "idle")) /\ Caught(script, r'.call, bad)
    BY <1>6, <1>7, <1>11
  <2>3. /\ Together(script, s.call, x, r'.call, "idle", batches') /\ ToSender(script, s.call, x, r'.call, "idle", batches', toS')
        /\ ToReceiver(script, s.call, x, r'.call, "idle", sUsed, toR')
    BY <1>6, <1>7
  <2>4. RecvOut(script, s.call, r'.call, bad, want, sOut, rOut', toS')
    BY <1>6, <1>10
  <2>5. QED
    BY <1>2, <1>9, <2>1, <2>2, <2>3, <2>4, ReceiverMoves

LEMMA RecvExpandStep ==
    ASSUME script \in Scripts, NEW x \in SendPhases, NEW y \in RecvPhases, InvAt(x, y), RecvExpand,
           DOMAIN rOut = 1..Len(script)
    PROVE  \E y2 \in RecvPhases : InvAt(x, y2)'
<1>1. PICK k, b, e : k = r.call /\ b = batches /\ e = Len(sUsed)
  OBVIOUS
<1>2. PICK leaves : leaves = Received(Head(toR))
  OBVIOUS
<1>3. PICK p : p = Expanded([r EXCEPT !.A = leaves, !.C = {}])
  OBVIOUS
<1>4. /\ r.pc = "expand" /\ Ready(toR, "pprf") /\ toR' = Tail(toR) /\ rUsed' = Append(rUsed, r.base)
      /\ r.mal => r' = [p EXCEPT !.pc = "check"] /\ toS' = Append(toS, [kind |-> "seed"]) /\ rOut' = rOut
      /\ ~r.mal => RecvFinish(p)
      /\ UNCHANGED recvFrame /\ closed' = closed /\ batches' = batches
  BY <1>2, <1>3 DEF RecvExpand
<1>5. y = "expand"
  BY <1>4 DEF InvAt, RecvPhases
<1>6. /\ RecvOk(script, bad, "expand", r)
      /\ ToSender(script, s.call, x, k, "expand", b, toS)
      /\ ToReceiver(script, s.call, x, k, "expand", sUsed, toR)
      /\ UsedOk(script, sUsed, Expands(script, s.call, x))
      /\ UsedOk(script, rUsed, Expands(script, k, "expand"))
      /\ RecvOut(script, s.call, k, bad, want, sOut, rOut, toS)
      /\ Caught(script, k, bad)
      /\ s.pc = "failed" => closed
  BY <1>1, <1>4, <1>5 DEF InvAt
<1>7. /\ DOMAIN r = ReceiverFields /\ PartyOk(script, "expand", r)
      /\ r.S \subseteq Noise /\ r.X \subseteq { q + 1 : q \in Noise } /\ (r.mal => r.X = Powers(r.S))
  BY <1>6 DEF RecvOk
<1>8. Together(script, s.call, x, k, "expand", b)
  BY <1>1, <1>5, TogetherInv
<1>9. /\ IsRun(script, k) /\ script[k].op = "run" /\ k \in 1..Len(script) /\ k \in Nat
      /\ (r.mal <=> MalRun(script, k)) /\ r.n = script[k].n /\ r.base = Timeline(script)[k].batches
  BY <1>1, <1>7, PartyRuns
<1>10. /\ Head(toR) = PprfMsg(e, sUsed[e]) /\ Tail(toR) = << >>
       /\ Expands(script, k, "expand") < Expands(script, s.call, x)
       /\ b = Timeline(script)[k].batches
  <2>1. PICK ks, q : ks = s.call /\ q = toR
    OBVIOUS
  <2>2. /\ Together(script, ks, x, k, "expand", b) /\ ToReceiver(script, ks, x, k, "expand", sUsed, q) /\ Ready(q, "pprf")
    BY <1>4, <1>6, <1>8, <2>1
  <2>3. /\ Head(q) = PprfMsg(Len(sUsed), sUsed[Len(sUsed)]) /\ Tail(q) = << >>
        /\ Expands(script, k, "expand") < Expands(script, ks, x) /\ b = Timeline(script)[k].batches
    BY <2>2, LeavesReady
  <2>4. QED
    BY <1>1, <2>1, <2>3
<1>11. /\ Expands(script, s.call, x) = Timeline(script)[k].expands
       /\ MalRun(script, k) => x = "check" /\ s.call = k
  BY <1>8, <1>10, AtLeaves
<1>12. e = Timeline(script)[k].expands /\ e \in Nat /\ e = Expands(script, k, "expand") + 1 /\ Expands(script, k, "expand") \in Nat
  <2>1. Len(sUsed) = Expands(script, s.call, x) /\ Expands(script, k, "expand") = Timeline(script)[k - 1].expands
    BY <1>6 DEF UsedOk, Expands
  <2>2. /\ Timeline(script)[k].expands = Timeline(script)[k - 1].expands + 1
        /\ Timeline(script)[k].expands \in Nat /\ Timeline(script)[k - 1].expands \in Nat
    BY <1>9, CallCounts
  <2>3. QED
    BY <1>1, <1>11, <2>1, <2>2
<1>13. sUsed[e] = r.base
  <2>1. e \in 1..Expands(script, s.call, x)
    BY <1>11, <1>12
  <2>2. PICK j \in 1..Len(script) : IsRun(script, j) /\ Timeline(script)[j].expands = e /\ sUsed[e] = Timeline(script)[j].batches
    BY <1>6, <2>1 DEF UsedOk
  <2>3. j = k
    <3>1. IsRun(script, j) /\ IsRun(script, k) /\ Timeline(script)[j].expands = Timeline(script)[k].expands
      BY <1>9, <1>12, <2>2
    <3>2. QED
      BY <3>1, RunUnique
  <2>4. QED
    BY <1>9, <2>2, <2>3
<1>14. leaves = LeavesAt(RunOf(script, k), r.S, bad)
  <2>1. PICK m : m = Head(toR)
    OBVIOUS
  <2>2. m.e = e /\ m.batch = r.base
    BY <1>10, <1>13, <2>1 DEF PprfMsg
  <2>3. Received(m) = LeavesAt(e, r.S, bad)
    BY <2>2 DEF Received, LeavesAt
  <2>4. QED
    BY <1>2, <1>12, <2>1, <2>3 DEF RunOf
<1>15. UsedOk(script, rUsed', RunOf(script, k))
  <2>1. PICK n : n = Expands(script, k, "expand")
    OBVIOUS
  <2>2. n \in Nat /\ UsedOk(script, rUsed, n) /\ Timeline(script)[k].expands = n + 1
    BY <1>6, <1>12, <2>1
  <2>3. UsedOk(script, Append(rUsed, r.base), n + 1)
    BY <1>9, <2>2, UsedAppend
  <2>4. QED
    BY <1>4, <2>2, <2>3 DEF RunOf
<1>16. /\ DOMAIN p = ReceiverFields /\ p.call = k /\ p.n = r.n /\ p.mal = r.mal /\ p.base = 0 /\ p.malOts = r.malOts
       /\ p.S = r.S /\ p.X = r.X /\ p.A = leaves
  BY <1>1, <1>3, <1>7 DEF Expanded, ReceiverFields, CommonFields
<1>17. CASE r.mal
  <2>1. /\ MalRun(script, k) /\ r' = [p EXCEPT !.pc = "check"] /\ toS' = Append(toS, [kind |-> "seed"]) /\ rOut' = rOut
    BY <1>4, <1>9, <1>17
  <2>2. /\ DOMAIN r' = ReceiverFields /\ r'.pc = "check" /\ r'.call = k /\ r'.n = r.n /\ r'.mal = r.mal /\ r'.base = 0
        /\ r'.malOts = r.malOts /\ r'.S = r.S /\ r'.X = r.X /\ r'.A = leaves
    BY <1>16, <2>1 DEF ReceiverFields, CommonFields
  <2>3. /\ Together(script, s.call, x, k, "check", b)
        /\ Expands(script, k, "check") = Expands(script, k, "expand") + 1
        /\ ToSender(script, s.call, x, k, "check", b, toS')
        /\ \A used : ToReceiver(script, s.call, x, k, "check", used, << >>)
    <3>1. PICK ks : ks = s.call
      OBVIOUS
    <3>2. /\ Together(script, ks, x, k, "expand", b) /\ Expands(script, k, "expand") < Expands(script, ks, x)
      BY <1>8, <1>10, <3>1
    <3>3. /\ Together(script, ks, x, k, "check", b)
          /\ Expands(script, k, "check") = Expands(script, k, "expand") + 1
          /\ \A q : ToSender(script, ks, x, k, "expand", b, q) =>
                ToSender(script, ks, x, k, "check", b, Append(q, [kind |-> "seed"]))
          /\ \A used : ToReceiver(script, ks, x, k, "check", used, << >>)
      BY <2>1, <3>2, RecvOpens
    <3>4. QED
      BY <1>6, <2>1, <3>1, <3>3
  <2>4. PartyOk(script, "check", r')
    <3>1. PICK p1, p2 : p1 = r /\ p2 = r'
      OBVIOUS
    <3>2. /\ PartyOk(script, "expand", p1) /\ k = p1.call /\ p2.call = k /\ p2.mal = p1.mal /\ p2.base = 0
          /\ p2.malOts = p1.malOts /\ MalRun(script, k) /\ p2.n = p1.n
      BY <1>1, <1>7, <2>1, <2>2, <3>1
    <3>3. PartyOk(script, "check", p2)
      BY <3>2, PartyGoesOn
    <3>4. QED
      BY <3>1, <3>3
  <2>5. RecvOk(script, bad, "check", r')
    <3>1. Expands(script, r'.call, "check") = RunOf(script, k)
      BY <2>2 DEF Expands, RunOf
    <3>2. r'.A = LeavesAt(Expands(script, r'.call, "check"), r'.S, bad)
      BY <1>14, <2>2, <3>1
    <3>3. QED
      BY <1>7, <2>2, <2>4, <3>2 DEF RecvOk, RecvPhases
  <2>6. RecvOut(script, s.call, k, bad, want, sOut, rOut, toS')
    <3>1. \A j \in 1..Len(script) : ChosenRun(script, j) /\ k > j => s.call > j
      BY <1>9, <1>11, <2>1
    <3>2. QED
      BY <1>6, <3>1, RecvOutMoved
  <2>7. InvAt(x, "check")'
    <3>1. "check" \in RecvPhases /\ r'.pc \in {"check", "failed"} /\ ((s.pc = "failed" \/ r'.pc = "failed") => closed')
      BY <1>4, <1>6, <2>2 DEF RecvPhases
    <3>2. UsedOk(script, rUsed', Expands(script, r'.call, "check")) /\ Caught(script, r'.call, bad)
      BY <1>6, <1>15, <2>2 DEF Expands, RunOf
    <3>3. /\ Together(script, s.call, x, r'.call, "check", batches') /\ ToSender(script, s.call, x, r'.call, "check", batches', toS')
          /\ ToReceiver(script, s.call, x, r'.call, "check", sUsed, toR')
      BY <1>1, <1>4, <1>10, <2>2, <2>3
    <3>4. RecvOut(script, s.call, r'.call, bad, want, sOut, rOut', toS')
      BY <2>1, <2>2, <2>6
    <3>5. UNCHANGED recvFrame
      BY <1>4
    <3>6. QED
      BY <2>5, <3>1, <3>2, <3>3, <3>4, <3>5, ReceiverMoves
  <2>8. QED
    BY <2>7 DEF RecvPhases
<1>18. CASE ~r.mal
  <2>1. RecvFinish(p) /\ ~MalRun(script, k)
    BY <1>4, <1>9, <1>18
  <2>2. CanFinish(script, s.call, x, k, "expand")
    BY <1>10, <2>1 DEF CanFinish
  <2>3. /\ "expand" \in {"expand", "check"} /\ InvAt(x, "expand") /\ UNCHANGED recvFrame /\ r.pc = "expand" /\ k = r.call
        /\ p.A = LeavesAt(RunOf(script, k), p.S, bad) /\ toR' = << >> /\ batches' = batches
        /\ s.pc = "failed" => closed'
    BY <1>1, <1>4, <1>5, <1>6, <1>10, <1>14, <1>16
  <2>4. InvAt(x, "idle")'
    BY <1>15, <1>16, <2>1, <2>2, <2>3, ReceiverGetsOutput
  <2>5. QED
    BY <2>4 DEF RecvPhases
<1>19. QED
  BY <1>17, <1>18

LEMMA RecvCheckStep ==
    ASSUME script \in Scripts, NEW x \in SendPhases, NEW y \in RecvPhases, InvAt(x, y), RecvCheck,
           DOMAIN rOut = 1..Len(script)
    PROVE  /\ \E y2 \in RecvPhases : InvAt(x, y2)'
           /\ bad = {} => closed' = closed
<1>1. PICK k, b, e : k = r.call /\ b = batches /\ e = RunOf(script, k)
  OBVIOUS
<1>2. /\ r.pc = "check" /\ Len(toR) >= 2 /\ toR' = Tail(Tail(toR))
      /\ CheckHolds(r, toR[1], toR[2]) => RecvFinish(r) /\ closed' = closed
      /\ ~CheckHolds(r, toR[1], toR[2]) => r' = Failed(r) /\ closed' = TRUE /\ rOut' = rOut /\ toS' = toS
      /\ UNCHANGED recvFrame /\ batches' = batches /\ rUsed' = rUsed
  BY DEF RecvCheck
<1>3. y = "check"
  BY <1>2 DEF InvAt, RecvPhases
<1>4. /\ RecvOk(script, bad, "check", r)
      /\ ToReceiver(script, s.call, x, k, "check", sUsed, toR)
      /\ UsedOk(script, rUsed, Expands(script, k, "check"))
      /\ s.pc = "failed" => closed
  BY <1>1, <1>2, <1>3 DEF InvAt
<1>5. /\ DOMAIN r = ReceiverFields /\ PartyOk(script, "check", r) /\ r.S \subseteq Noise
      /\ (r.mal => r.X = Powers(r.S)) /\ r.A = LeavesAt(Expands(script, k, "check"), r.S, bad)
  BY <1>1, <1>4 DEF RecvOk
<1>6. Together(script, s.call, x, k, "check", b)
  BY <1>1, <1>3, TogetherInv
<1>7. /\ IsRun(script, k) /\ k \in 1..Len(script) /\ MalRun(script, k) /\ r.mal /\ r.n = script[k].n /\ r.base = 0
      /\ r.malOts = Timeline(script)[k].batches
  <2>1. MalRun(script, k)
    BY <1>1, <1>5 DEF PartyOk, PlaceOk
  <2>2. QED
    BY <1>1, <1>5, <2>1, PartyRuns
<1>8. /\ Voted(k, s.call, x) /\ Tail(Tail(toR)) = << >>
      /\ toR[1] = VoleMsg(Timeline(script)[k].batches) /\ toR[2] = HashMsg(Timeline(script)[k].expands)
  <2>1. PICK ks, q : ks = s.call /\ q = toR
    OBVIOUS
  <2>2. Together(script, ks, x, k, "check", b) /\ ToReceiver(script, ks, x, k, "check", sUsed, q) /\ Len(q) >= 2
    BY <1>2, <1>4, <1>6, <2>1
  <2>3. /\ Voted(k, ks, x) /\ Tail(Tail(q)) = << >>
        /\ q[1] = VoleMsg(Timeline(script)[k].batches) /\ q[2] = HashMsg(Timeline(script)[k].expands)
    BY <2>2, VoteReady
  <2>4. QED
    BY <2>1, <2>3
<1>9. Expands(script, k, "check") = e
  BY <1>1 DEF Expands, RunOf
<1>10. CheckHolds(r, toR[1], toR[2]) <=> ~Spoilt(bad, e)
  <2>1. PICK v, h : v = toR[1] /\ h = toR[2]
    OBVIOUS
  <2>2. v.ots = r.malOts
    BY <1>7, <1>8, <2>1 DEF VoleMsg
  <2>3. h.e = e /\ h.sum = PolySum(Leaves(e))
    BY <1>1, <1>8, <2>1 DEF HashMsg, RunOf
  <2>4. PICK A, S : A = r.A /\ S = r.S
    OBVIOUS
  <2>5. Xor(PolySum(A), VoleOf(e)) = Xor(PolySum(Leaves(e)), Xor(VoleOf(e), DeltaTimes(e, Powers(S)))) <=> ~Spoilt(bad, e)
    <3>1. S \in SUBSET Noise /\ A = LeavesAt(e, S, bad)
      BY <1>5, <1>9, <2>4
    <3>2. QED
      BY <3>1, CheckExact
  <2>6. CheckHolds(r, v, h) <=> Xor(PolySum(A), VoleOf(e)) = Xor(PolySum(Leaves(e)), Xor(VoleOf(e), DeltaTimes(e, Powers(S))))
    BY <1>5, <1>7, <2>2, <2>3, <2>4 DEF CheckHolds
  <2>7. QED
    BY <2>1, <2>5, <2>6
<1>11. CASE ~Spoilt(bad, e)
  <2>1. RecvFinish(r) /\ closed' = closed
    BY <1>2, <1>10, <1>11
  <2>2. CanFinish(script, s.call, x, k, "check")
    BY <1>8 DEF CanFinish
  <2>3. PICK p : p = r
    OBVIOUS
  <2>4. /\ "check" \in {"expand", "check"} /\ InvAt(x, "check") /\ UNCHANGED recvFrame /\ r.pc = "check" /\ k = r.call
        /\ DOMAIN p = ReceiverFields /\ p.call = k /\ p.n = r.n /\ p.mal = r.mal /\ p.base = 0 /\ p.malOts = r.malOts
        /\ p.S = r.S /\ p.X = r.X /\ p.A = LeavesAt(RunOf(script, k), p.S, bad) /\ RecvFinish(p)
        /\ MalRun(script, k) => ~Spoilt(bad, RunOf(script, k))
        /\ toR' = << >> /\ batches' = batches /\ UsedOk(script, rUsed', RunOf(script, k))
        /\ s.pc = "failed" => closed'
    BY <1>1, <1>2, <1>3, <1>4, <1>5, <1>7, <1>8, <1>9, <1>11, <2>1, <2>3
  <2>5. InvAt(x, "idle")'
    BY <2>2, <2>4, ReceiverGetsOutput
  <2>6. QED
    BY <2>1, <2>5 DEF RecvPhases
<1>12. CASE Spoilt(bad, e)
  <2>1. r' = Failed(r) /\ closed' /\ rOut' = rOut /\ toS' = toS /\ toR' = << >>
    BY <1>2, <1>8, <1>10, <1>12
  <2>2. InvAt(x, y)'
    BY <1>2, <2>1, ReceiverFails
  <2>3. bad # {}
    BY <1>12 DEF Spoilt
  <2>4. QED
    BY <2>2, <2>3
<1>13. QED
  BY <1>11, <1>12

---------------------------------------------------------------------------
(* A corrupted message, and a step of any kind.                            *)

LEMMA LeavesOnWay ==
    ASSUME NEW sc, NEW ks, NEW x, NEW kr, NEW y, NEW used, NEW q, ToReceiver(sc, ks, x, kr, y, used, q),
           NEW k \in 1..Len(q), q[k].kind = "pprf"
    PROVE  Expands(sc, ks, x) > Expands(sc, kr, y) /\ q[k].e = Len(used)
<1>1. PICK m, a : m = PprfMsg(Len(used), used[Len(used)]) /\ a = [kind |-> "otAck"]
  OBVIOUS
<1>2. CASE y = "check" /\ Voted(kr, ks, x)
  <2>1. PICK v, h : v = VoleMsg(Timeline(sc)[kr].batches) /\ h = HashMsg(Timeline(sc)[kr].expands)
    OBVIOUS
  <2>2. q = <<v, h>>
    BY <1>2, <2>1 DEF ToReceiver
  <2>3. k = 1 \/ k = 2
    BY <2>2
  <2>4. v.kind = "vole" /\ h.kind = "hash"
    BY <2>1 DEF VoleMsg, HashMsg
  <2>5. QED
    BY <2>2, <2>3, <2>4
<1>3. CASE ~(y = "check" /\ Voted(kr, ks, x))
  <2>1. PICK acks : acks = IF Batches(sc, ks, x) > Batches(sc, kr, y) THEN << a >> ELSE << >>
    OBVIOUS
  <2>2. PICK leaves : leaves = IF Expands(sc, ks, x) > Expands(sc, kr, y) THEN <<m>> ELSE << >>
    OBVIOUS
  <2>3. q = acks \o leaves
    BY <1>1, <1>3, <2>1, <2>2 DEF ToReceiver
  <2>4. (acks = <<a>> \/ acks = << >>) /\ (leaves = <<m>> \/ leaves = << >>)
    BY <2>1, <2>2
  <2>5. q = << >> \/ q = <<a>> \/ (leaves = <<m>> /\ (q = <<m>> \/ q = <<a, m>>))
    <3>1. CASE acks = <<a>> /\ leaves = <<m>>
      <4>1. <<a>> \o <<m>> = <<a, m>>
        BY Queues
      <4>2. QED
        BY <2>3, <3>1, <4>1
    <3>2. CASE acks = <<a>> /\ leaves = << >>
      <4>1. <<a>> \o << >> = <<a>>
        BY Queues
      <4>2. QED
        BY <2>3, <3>2, <4>1
    <3>3. CASE acks = << >> /\ leaves = <<m>>
      <4>1. << >> \o <<m>> = <<m>>
        BY Queues
      <4>2. QED
        BY <2>3, <3>3, <4>1
    <3>4. CASE acks = << >> /\ leaves = << >>
      <4>1. << >> \o << >> = << >>
        BY Queues
      <4>2. QED
        BY <2>3, <3>4, <4>1
    <3>5. QED
      BY <2>4, <3>1, <3>2, <3>3, <3>4
  <2>6. a.kind = "otAck" /\ m.kind = "pprf" /\ m.e = Len(used)
    BY <1>1 DEF PprfMsg
  <2>7. leaves = <<m>> /\ q[k] = m
    <3>1. CASE q = << >>
      BY <3>1
    <3>2. CASE q = <<a>>
      BY <2>6, <3>2
    <3>3. CASE leaves = <<m>> /\ q = <<m>>
      BY <3>3
    <3>4. CASE leaves = <<m>> /\ q = <<a, m>>
      <4>1. k = 1 \/ k = 2
        BY <3>4
      <4>2. QED
        BY <2>6, <3>4, <4>1
    <3>5. QED
      BY <2>5, <3>1, <3>2, <3>3, <3>4
  <2>8. <<m>> # << >>
    BY Queues
  <2>9. QED
    BY <2>2, <2>6, <2>7, <2>8
<1>4. QED
  BY <1>2, <1>3

LEMMA CorruptStep ==
    ASSUME script \in Scripts, NEW x \in SendPhases, NEW y \in RecvPhases, InvAt(x, y), Corrupt
    PROVE  InvAt(x, y)' /\ bad' # {}
<1>1. PICK i \in 1..Len(toR), q \in Noise : toR[i].kind = "pprf" /\ bad' = bad \cup {<<toR[i].e, q>>}
  BY DEF Corrupt
<1>2. PICK e : e = toR[i].e
  OBVIOUS
<1>3. /\ script' = script /\ s' = s /\ r' = r /\ want' = want /\ sOut' = sOut /\ rOut' = rOut /\ toS' = toS /\ toR' = toR
      /\ closed' = closed /\ batches' = batches /\ sUsed' = sUsed /\ rUsed' = rUsed
  BY DEF Corrupt
<1>4. /\ RecvOk(script, bad, y, r) /\ Sync(script, s.call, x, r.call, y, batches)
      /\ UsedOk(script, sUsed, Expands(script, s.call, x))
      /\ bad \subseteq (1..Len(sUsed)) \X Noise
      /\ RecvOut(script, s.call, r.call, bad, want, sOut, rOut, toS)
      /\ Caught(script, r.call, bad)
  BY DEF InvAt
<1>5. toR # << >>
  BY <1>1
<1>6. ToReceiver(script, s.call, x, r.call, y, sUsed, toR)
  BY <1>5 DEF InvAt
<1>7. Expands(script, s.call, x) > Expands(script, r.call, y) /\ e = Len(sUsed)
  BY <1>1, <1>2, <1>6, LeavesOnWay
<1>8. Together(script, s.call, x, r.call, y, batches)
  BY TogetherInv
<1>9. Expands(script, s.call, x) \in Nat /\ Expands(script, r.call, y) \in Nat
  BY <1>8, SyncFacts
<1>10. e = Expands(script, s.call, x) /\ e \in 1..Len(sUsed)
  BY <1>4, <1>7, <1>9 DEF UsedOk
<1>11. y # "check"
  BY <1>4, <1>7, <1>9 DEF Sync
<1>12. RecvOk(script, bad', y, r)
  BY <1>4, <1>11 DEF RecvOk
<1>13. bad' \subseteq (1..Len(sUsed)) \X Noise
  BY <1>1, <1>2, <1>4, <1>10
<1>14. ASSUME NEW j \in 1..Len(script), IsRun(script, j), r.call > j
       PROVE  Spoilt(bad', RunOf(script, j)) <=> Spoilt(bad, RunOf(script, j))
  <2>1. Timeline(script)[j].expands <= Expands(script, r.call, y) /\ Timeline(script)[j].expands \in Nat
    BY <1>8, <1>14, Behind
  <2>2. RunOf(script, j) # e
    BY <1>7, <1>9, <1>10, <2>1 DEF RunOf
  <2>3. \A p : <<RunOf(script, j), p>> \in bad' <=> <<RunOf(script, j), p>> \in bad
    BY <1>1, <1>2, <2>2
  <2>4. QED
    BY <2>3 DEF Spoilt
<1>15. RecvOut(script, s.call, r.call, bad', want, sOut, rOut, toS)
  BY <1>4, <1>14 DEF RecvOut
<1>16. Caught(script, r.call, bad')
  BY <1>4, <1>14 DEF Caught, MalRun
<1>17. bad' # {}
  BY <1>1
<1>18. InvAt(x, y)'
  BY <1>3, <1>12, <1>13, <1>15, <1>16 DEF InvAt
<1>19. QED
  BY <1>17, <1>18

(* A rejected call stays the reason of the failure.                        *)
LEMMA SameRejection ==
    ASSUME NEW p, NEW q, CommonFields \subseteq DOMAIN p, CommonFields \subseteq DOMAIN q, q.call = p.call, q.n = p.n
    PROVE  Rejected(q) <=> Rejected(p)
<1>1. ASSUME NEW t, CommonFields \subseteq DOMAIN t, NEW m PROVE Entered(t, m).n = IF t.n = 0 THEN m ELSE t.n
  BY <1>1 DEF Entered, Configured, CommonFields
<1>2. PICK m : m = script[p.call].n
  OBVIOUS
<1>3. Entered(q, m).n = Entered(p, m).n
  BY <1>1
<1>4. QED
  BY <1>2, <1>3 DEF Rejected, Call

LEMMA FailsRejected ==
    ASSUME NEW p, CommonFields \subseteq DOMAIN p, Busy(p), Rejected(p), NEW q, q = Failed(p)
    PROVE  Blamed(q)
<1>1. CommonFields \subseteq DOMAIN q /\ q.pc = "failed" /\ q.call = p.call /\ q.n = p.n
  BY DEF Failed, CommonFields
<1>2. Rejected(q)
  BY <1>1, SameRejection
<1>3. QED
  BY <1>1, <1>2 DEF Blamed, Busy

LEMMA BlamedNext ==
    ASSUME script' = script
    PROVE  (Blamed(s') => Blamed(s)') /\ (Blamed(r') => Blamed(r)')
  BY DEF Blamed, Rejected, Call, Calls, Entered, Configured

(* What every step of the sender does.                                     *)
LEMMA SenderStep ==
    ASSUME SilentInv, SendNext
    PROVE  SilentInv'
<1>1. PICK x \in SendPhases, y \in RecvPhases : InvAt(x, y)
  BY DEF SilentInv
<1>2. /\ script \in Scripts /\ closed \in BOOLEAN /\ DOMAIN sOut = 1..Len(script) /\ DOMAIN rOut = 1..Len(script) /\ Honest
  BY DEF SilentInv
<1>3. CommonFields \subseteq DOMAIN s
  BY <1>1 DEF InvAt, SendOk, SenderFields
<1>4. /\ \E x2 \in SendPhases : InvAt(x2, y)'
      /\ UNCHANGED sendFrame /\ DOMAIN sOut' = DOMAIN sOut /\ s.pc # "failed"
      /\ closed' = closed \/ (closed' = TRUE /\ (Blamed(s') \/ script \in FailScripts))
  <2>1. CASE SendConfigure
    <3>1. InvAt("idle", y)'
      BY <1>1, <1>2, <2>1, SendConfigureStep
    <3>2. QED
      BY <2>1, <3>1 DEF SendConfigure, Busy, SendPhases
  <2>2. CASE SendReject
    <3>1. s' = Failed(s) /\ closed' = TRUE /\ Busy(s) /\ Rejected(s) /\ UNCHANGED sendFrame /\ UNCHANGED <<sOut, toS, toR, sUsed>>
      BY <2>2 DEF SendReject
    <3>2. InvAt(x, y)'
      BY <1>1, <1>2, <3>1, SenderFails
    <3>3. Blamed(s')
      BY <1>3, <3>1, FailsRejected
    <3>4. QED
      BY <3>1, <3>2, <3>3 DEF Busy
  <2>3. CASE SendEnter
    <3>1. \E x2 \in SendPhases : InvAt(x2, y)'
      BY <1>1, <1>2, <2>3, SendEnterStep
    <3>2. QED
      BY <2>3, <3>1 DEF SendEnter, Busy
  <2>4. CASE SendBase
    <3>1. \E x2 \in SendPhases : InvAt(x2, y)'
      BY <1>1, <1>2, <2>4, SendBaseStep
    <3>2. QED
      BY <2>4, <3>1 DEF SendBase
  <2>5. CASE SendBaseFails
    <3>1. /\ s' = Failed(s) /\ closed' = TRUE /\ s.pc = "gen" /\ script \in FailScripts
          /\ UNCHANGED sendFrame /\ UNCHANGED <<sOut, toS, toR, sUsed>>
      BY <2>5 DEF SendBaseFails
    <3>2. InvAt(x, y)'
      BY <1>1, <1>2, <3>1, SenderFails
    <3>3. QED
      BY <3>1, <3>2
  <2>6. CASE SendExpand
    <3>1. \E x2 \in SendPhases : InvAt(x2, y)'
      BY <1>1, <1>2, <2>6, SendExpandStep
    <3>2. DOMAIN sOut' = DOMAIN sOut
      BY <2>6 DEF SendExpand, SendFinish
    <3>3. QED
      BY <2>6, <3>1, <3>2 DEF SendExpand
  <2>7. CASE SendCheck
    <3>1. \E x2 \in SendPhases : InvAt(x2, y)'
      BY <1>1, <1>2, <2>7, SendCheckStep
    <3>2. DOMAIN sOut' = DOMAIN sOut
      BY <2>7 DEF SendCheck, SendFinish
    <3>3. QED
      BY <2>7, <3>1, <3>2 DEF SendCheck
  <2>8. CASE SendCorrect
    <3>1. InvAt("idle", y)'
      BY <1>1, <1>2, <2>8, SendCorrectStep
    <3>2. QED
      BY <2>8, <3>1 DEF SendCorrect, SendPhases
  <2>9. CASE SendClosed
    <3>1. s' = Failed(s) /\ closed /\ closed' = closed /\ s.pc # "failed" /\ UNCHANGED sendFrame /\ UNCHANGED <<sOut, toS, toR, sUsed>>
      BY <2>9 DEF SendClosed
    <3>2. InvAt(x, y)'
      BY <1>1, <1>2, <3>1, SenderFails
    <3>3. QED
      BY <3>1, <3>2
  <2>10. QED
    BY <2>1, <2>2, <2>3, <2>4, <2>5, <2>6, <2>7, <2>8, <2>9 DEF SendNext
<1>5. script' = script /\ r' = r /\ rOut' = rOut /\ bad' = bad
  BY <1>4 DEF sendFrame
<1>6. Honest'
  <2>1. ASSUME script \notin FailScripts, bad = {}, closed' PROVE Blamed(s)' \/ Blamed(r)'
    <3>1. CASE closed
      <4>1. Blamed(r)
        BY <1>2, <1>4, <2>1, <3>1 DEF Honest, Blamed
      <4>2. QED
        BY <1>5, <4>1, BlamedNext
    <3>2. CASE ~closed
      <4>1. Blamed(s')
        BY <1>4, <2>1, <3>2
      <4>2. QED
        BY <1>5, <4>1, BlamedNext
    <3>3. QED
      BY <3>1, <3>2
  <2>2. QED
    BY <1>5, <2>1 DEF Honest
<1>7. QED
  BY <1>2, <1>4, <1>5, <1>6 DEF SilentInv

(* And every step of the receiver.                                         *)
LEMMA ReceiverStep ==
    ASSUME SilentInv, RecvNext
    PROVE  SilentInv'
<1>1. PICK x \in SendPhases, y \in RecvPhases : InvAt(x, y)
  BY DEF SilentInv
<1>2. /\ script \in Scripts /\ closed \in BOOLEAN /\ DOMAIN sOut = 1..Len(script) /\ DOMAIN rOut = 1..Len(script) /\ Honest
  BY DEF SilentInv
<1>3. CommonFields \subseteq DOMAIN r
  BY <1>1 DEF InvAt, RecvOk, ReceiverFields
<1>4. /\ \E y2 \in RecvPhases : InvAt(x, y2)'
      /\ UNCHANGED recvFrame /\ DOMAIN rOut' = DOMAIN rOut /\ r.pc # "failed"
      /\ closed' = closed \/ (closed' = TRUE /\ (Blamed(r') \/ script \in FailScripts \/ bad # {}))
  <2>1. CASE RecvConfigure
    <3>1. InvAt(x, "idle")'
      BY <1>1, <1>2, <2>1, RecvConfigureStep
    <3>2. QED
      BY <2>1, <3>1 DEF RecvConfigure, Busy, RecvPhases
  <2>2. CASE RecvReject
    <3>1. /\ r' = Failed(r) /\ closed' = TRUE /\ Busy(r) /\ Rejected(r) /\ UNCHANGED recvFrame
          /\ UNCHANGED <<rOut, toS, batches, rUsed>> /\ toR' = toR
      BY <2>2 DEF RecvReject
    <3>2. InvAt(x, y)'
      BY <1>1, <1>2, <3>1, ReceiverFails
    <3>3. Blamed(r')
      BY <1>3, <3>1, FailsRejected
    <3>4. QED
      BY <1>1, <3>1, <3>2, <3>3 DEF Busy
  <2>3. CASE RecvEnter
    <3>1. InvAt(x, "expand")'
      BY <1>1, <1>2, <2>3, RecvEnterStep
    <3>2. QED
      BY <2>3, <3>1 DEF RecvEnter, Busy, RecvPhases
  <2>4. CASE RecvBase
    <3>1. \E y2 \in RecvPhases : InvAt(x, y2)'
      BY <1>1, <1>2, <2>4, RecvBaseStep
    <3>2. QED
      BY <2>4, <3>1 DEF RecvBase
  <2>5. CASE RecvBaseFails
    <3>1. /\ r' = Failed(r) /\ closed' = TRUE /\ r.pc = "gen" /\ script \in FailScripts
          /\ UNCHANGED recvFrame /\ UNCHANGED <<rOut, toS, batches, rUsed>> /\ toR' = toR
      BY <2>5 DEF RecvBaseFails
    <3>2. InvAt(x, y)'
      BY <1>1, <1>2, <3>1, ReceiverFails
    <3>3. QED
      BY <1>1, <3>1, <3>2
  <2>6. CASE RecvExpand
    <3>1. \E y2 \in RecvPhases : InvAt(x, y2)'
      BY <1>1, <1>2, <2>6, RecvExpandStep
    <3>2. DOMAIN rOut' = DOMAIN rOut
      BY <2>6 DEF RecvExpand, RecvFinish
    <3>3. QED
      BY <2>6, <3>1, <3>2 DEF RecvExpand
  <2>7. CASE RecvCheck
    <3>1. (\E y2 \in RecvPhases : InvAt(x, y2)') /\ (bad = {} => closed' = closed)
      BY <1>1, <1>2, <2>7, RecvCheckStep
    <3>2. DOMAIN rOut' = DOMAIN rOut
      BY <2>7 DEF RecvCheck, RecvFinish
    <3>3. closed' = closed \/ closed' = TRUE
      BY <2>7 DEF RecvCheck
    <3>4. QED
      BY <2>7, <3>1, <3>2, <3>3 DEF RecvCheck
  <2>8. CASE RecvClosed
    <3>1. /\ r' = Failed(r) /\ closed /\ closed' = closed /\ UNCHANGED recvFrame
          /\ UNCHANGED <<rOut, toS, batches, rUsed>> /\ toR' = toR
      BY <2>8 DEF RecvClosed
    <3>2. r.pc # "failed"
      BY <2>8 DEF RecvClosed, RecvStuck, Busy
    <3>3. InvAt(x, y)'
      BY <1>1, <1>2, <3>1, ReceiverFails
    <3>4. QED
      BY <1>1, <3>1, <3>2, <3>3
  <2>9. ASSUME NEW S \in Positions, RecvSample(S)
        PROVE  /\ \E y2 \in RecvPhases : InvAt(x, y2)'
               /\ UNCHANGED recvFrame /\ DOMAIN rOut' = DOMAIN rOut /\ r.pc # "failed" /\ closed' = closed
    <3>1. InvAt(x, "gen")'
      BY <1>1, <1>2, <2>9, RecvSampleStep
    <3>2. QED
      BY <2>9, <3>1 DEF RecvSample, Busy, RecvPhases
  <2>10. QED
    BY <2>1, <2>2, <2>3, <2>4, <2>5, <2>6, <2>7, <2>8, <2>9 DEF RecvNext
<1>5. script' = script /\ s' = s /\ sOut' = sOut /\ bad' = bad
  BY <1>4 DEF recvFrame
<1>6. Honest'
  <2>1. ASSUME script \notin FailScripts, bad = {}, closed' PROVE Blamed(s)' \/ Blamed(r)'
    <3>1. CASE closed
      <4>1. Blamed(s)
        BY <1>2, <1>4, <2>1, <3>1 DEF Honest, Blamed
      <4>2. QED
        BY <1>5, <4>1, BlamedNext
    <3>2. CASE ~closed
      <4>1. Blamed(r')
        BY <1>4, <2>1, <3>2
      <4>2. QED
        BY <1>5, <4>1, BlamedNext
    <3>3. QED
      BY <3>1, <3>2
  <2>2. QED
    BY <1>5, <2>1 DEF Honest
<1>7. QED
  BY <1>1, <1>2, <1>4, <1>5, <1>6 DEF SilentInv

---------------------------------------------------------------------------
LEMMA SilentInit ==
    ASSUME Init
    PROVE  SilentInv
<1>1. /\ script \in Scripts /\ s = FreshSender /\ r = FreshReceiver /\ closed = FALSE
      /\ DOMAIN sOut = 1..Len(script) /\ DOMAIN rOut = 1..Len(script)
      /\ toS = << >> /\ toR = << >> /\ batches = 0 /\ sUsed = << >> /\ rUsed = << >> /\ bad = {}
  BY DEF Init, Calls
<1>2. Len(script) \in Nat
  BY <1>1, ScriptFacts
<1>3. Timeline(script)[0] = Start
  BY <1>1, TimelineFacts
<1>4. /\ Batches(script, 1, "idle") = 0 /\ Expands(script, 1, "idle") = 0 /\ PlaceOk(script, "idle", 1)
  BY <1>2, <1>3 DEF Batches, Expands, PlaceOk, Start
<1>5. PartyOk(script, "idle", FreshSender) /\ PartyOk(script, "idle", FreshReceiver)
  <2>1. ASSUME NEW p, p.call = 1, p.n = 0, p.mal = FALSE, p.base = 0, p.malOts = 0
        PROVE  PartyOk(script, "idle", p)
    <3>1. PICK e : e = Timeline(script)[p.call - 1]
      OBVIOUS
    <3>2. e = Start
      BY <1>3, <2>1, <3>1
    <3>3. e.n = 0 /\ e.mal = FALSE /\ e.has = FALSE
      BY <3>2 DEF Start
    <3>4. p.base \in 0..Batches(script, p.call, "idle") /\ p.malOts \in 0..Batches(script, p.call, "idle")
      BY <1>4, <2>1
    <3>5. PlaceOk(script, "idle", p.call) /\ p.mal = e.mal /\ p.n = e.n /\ ~p.mal
      BY <1>4, <2>1, <3>3
    <3>6. p.base = IF e.has THEN e.batches ELSE 0
      BY <2>1, <3>3
    <3>7. QED
      BY <3>1, <3>4, <3>5, <3>6 DEF PartyOk
  <2>2. PICK p, q : p = FreshSender /\ q = FreshReceiver
    OBVIOUS
  <2>3. p.call = 1 /\ p.n = 0 /\ p.mal = FALSE /\ p.base = 0 /\ p.malOts = 0
    BY <2>2 DEF FreshSender
  <2>4. q.call = 1 /\ q.n = 0 /\ q.mal = FALSE /\ q.base = 0 /\ q.malOts = 0
    BY <2>2 DEF FreshReceiver
  <2>5. QED
    BY <2>1, <2>2, <2>3, <2>4
<1>6. SendOk(script, "idle", s)
  <2>1. s.pc = "idle" /\ s.call = 1 /\ s.delta = 0 /\ DOMAIN s = SenderFields
    BY <1>1 DEF FreshSender, SenderFields, CommonFields
  <2>2. QED
    BY <1>1, <1>4, <1>5, <2>1 DEF SendOk, SendPhases
<1>7. RecvOk(script, bad, "idle", r)
  <2>1. r.pc = "idle" /\ r.call = 1 /\ r.S = {} /\ r.X = {} /\ r.mal = FALSE /\ DOMAIN r = ReceiverFields
    BY <1>1 DEF FreshReceiver, ReceiverFields, CommonFields
  <2>2. QED
    BY <1>1, <1>5, <2>1 DEF RecvOk, RecvPhases
<1>8. s.call = 1 /\ r.call = 1 /\ s.pc = "idle" /\ r.pc = "idle"
  BY <1>1 DEF FreshSender, FreshReceiver
<1>9. Sync(script, 1, "idle", 1, "idle", 0)
  BY <1>2, <1>4 DEF Sync, Voted
<1>10. ToSender(script, 1, "idle", 1, "idle", 0, << >>) /\ ToReceiver(script, 1, "idle", 1, "idle", << >>, << >>)
  BY <1>4, Queues DEF ToSender, ToReceiver
<1>11. UsedOk(script, << >>, 0)
  BY DEF UsedOk
<1>12. /\ SendOut(script, 1, "idle", sOut) /\ RecvOut(script, 1, 1, {}, want, sOut, rOut, << >>)
       /\ Caught(script, 1, {})
  BY <1>2 DEF SendOut, RecvOut, Caught, Voted
<1>13. InvAt("idle", "idle")
  BY <1>1, <1>4, <1>6, <1>7, <1>8, <1>9, <1>10, <1>11, <1>12 DEF InvAt
<1>14. "idle" \in SendPhases /\ "idle" \in RecvPhases
  BY DEF SendPhases, RecvPhases
<1>15. QED
  BY <1>1, <1>13, <1>14 DEF SilentInv, Honest

LEMMA SilentNext ==
    ASSUME SilentInv, [Next]_vars
    PROVE  SilentInv'
<1>1. ASSUME UNCHANGED vars PROVE SilentInv'
  BY <1>1 DEF vars, SilentInv, InvAt, Honest, Blamed, Rejected, Call, Calls, Entered, Configured
<1>2. CASE SendNext
  BY <1>2, SenderStep
<1>3. CASE RecvNext
  BY <1>3, ReceiverStep
<1>4. CASE Corrupt
  <2>1. PICK x \in SendPhases, y \in RecvPhases : InvAt(x, y)
    BY DEF SilentInv
  <2>2. InvAt(x, y)' /\ bad' # {}
    BY <1>4, <2>1, CorruptStep DEF SilentInv
  <2>3. script' = script /\ closed' = closed /\ sOut' = sOut /\ rOut' = rOut
    BY <1>4 DEF Corrupt
  <2>4. Honest'
    BY <2>2 DEF Honest
  <2>5. QED
    BY <2>1, <2>2, <2>3, <2>4 DEF SilentInv
<1>5. CASE Done
  BY <1>1, <1>5 DEF Done
<1>6. QED
  BY <1>1, <1>2, <1>3, <1>4, <1>5 DEF Next

---------------------------------------------------------------------------
(* What the invariant says of the properties.                              *)

LEMMA FreshBaseFollows ==
    ASSUME SilentInv
    PROVE  FreshBase
<1>1. PICK x \in SendPhases, y \in RecvPhases : InvAt(x, y)
  BY DEF SilentInv
<1>2. script \in Scripts /\ Len(script) \in Nat
  BY ScriptFacts DEF SilentInv
<1>3. PICK ns, nr : ns = Expands(script, s.call, x) /\ nr = Expands(script, r.call, y)
  OBVIOUS
<1>4. /\ UsedOk(script, sUsed, ns) /\ UsedOk(script, rUsed, nr) /\ ns \in Nat /\ nr \in Nat /\ nr <= ns
  <2>1. Together(script, s.call, x, r.call, y, batches)
    BY <1>1, <1>2, TogetherInv
  <2>2. nr <= ns
    BY <1>3, <2>1 DEF Together, Sync
  <2>3. QED
    BY <1>1, <1>2, <1>3, <2>1, <2>2, SyncFacts DEF InvAt
<1>5. ASSUME NEW d \in 1..Len(sUsed), NEW e \in 1..Len(sUsed), d < e PROVE sUsed[d] # sUsed[e]
  <2>1. PICK j \in 1..Len(script) : IsRun(script, j) /\ Timeline(script)[j].expands = d /\ sUsed[d] = Timeline(script)[j].batches
    BY <1>4 DEF UsedOk
  <2>2. PICK k \in 1..Len(script) : IsRun(script, k) /\ Timeline(script)[k].expands = e /\ sUsed[e] = Timeline(script)[k].batches
    BY <1>4 DEF UsedOk
  <2>3. j < k
    <3>1. k < j => Timeline(script)[k].expands < Timeline(script)[j].expands
      BY <1>2, <2>1, <2>2, RunUnique
    <3>2. QED
      BY <1>2, <1>4, <1>5, <2>1, <2>2, <3>1 DEF UsedOk
  <2>4. ~Timeline(script)[j].has /\ j \in 0..Len(script)
    BY <1>2, <2>1, CallCounts DEF IsRun
  <2>5. Timeline(script)[j].batches < Timeline(script)[k].batches
    BY <1>2, <2>2, <2>3, <2>4, NewBatch
  <2>6. Timeline(script)[j].batches \in Nat /\ Timeline(script)[k].batches \in Nat
    BY <1>2, CallCounts
  <2>7. QED
    BY <2>1, <2>2, <2>5, <2>6
<1>6. ASSUME NEW e \in 1..Len(rUsed) PROVE rUsed[e] = sUsed[e]
  <2>1. e \in 1..nr /\ e \in 1..ns
    BY <1>4 DEF UsedOk
  <2>2. PICK j \in 1..Len(script) : IsRun(script, j) /\ Timeline(script)[j].expands = e /\ rUsed[e] = Timeline(script)[j].batches
    BY <1>4, <2>1 DEF UsedOk
  <2>3. PICK k \in 1..Len(script) : IsRun(script, k) /\ Timeline(script)[k].expands = e /\ sUsed[e] = Timeline(script)[k].batches
    BY <1>4, <2>1 DEF UsedOk
  <2>4. j = k
    <3>1. IsRun(script, j) /\ IsRun(script, k) /\ Timeline(script)[j].expands = Timeline(script)[k].expands
      BY <2>2, <2>3
    <3>2. QED
      BY <1>2, <3>1, RunUnique
  <2>5. QED
    BY <2>2, <2>3, <2>4
<1>7. ASSUME NEW e \in 1..Len(sUsed) PROVE sUsed[e] # 0
  <2>1. PICK k \in 1..Len(script) : IsRun(script, k) /\ sUsed[e] = Timeline(script)[k].batches
    BY <1>4 DEF UsedOk
  <2>2. Timeline(script)[0] = Start /\ ~Timeline(script)[0].has /\ Timeline(script)[0].batches = 0
    BY <1>2, TimelineFacts DEF Start
  <2>3. PICK a : a = 0
    OBVIOUS
  <2>4. a \in 0..Len(script) /\ a < k /\ ~Timeline(script)[a].has
    BY <1>2, <2>2, <2>3
  <2>5. Timeline(script)[a].batches < Timeline(script)[k].batches
    BY <1>2, <2>1, <2>4, NewBatch
  <2>6. QED
    BY <2>1, <2>2, <2>3, <2>5
<1>8. Len(sUsed) \in Nat
  BY <1>4 DEF UsedOk
<1>9. ASSUME NEW d \in 1..Len(sUsed), NEW e \in 1..Len(sUsed), sUsed[d] = sUsed[e] PROVE d = e
  <2>1. ~(d < e) /\ ~(e < d)
    BY <1>5, <1>9
  <2>2. QED
    BY <1>8, <2>1
<1>10. QED
  BY <1>6, <1>7, <1>9 DEF FreshBase

(* The expand of a run and the security of a call, counted from the script. *)
LEMMA RunCount ==
    ASSUME script \in Scripts
    PROVE  \A k \in 0..Len(script) : RunIdx(k) = Timeline(script)[k].expands
<1> DEFINE R(k) == { j \in 1..k : script[j].op = "run" }
           G == { k \in 0..Len(script) : IsFiniteSet(R(k)) /\ Cardinality(R(k)) = Timeline(script)[k].expands }
<1>1. Len(script) \in Nat
  BY ScriptFacts
<1>2. 0 \in G
  <2>1. R(0) = {}
    OBVIOUS
  <2>2. Timeline(script)[0].expands = 0
    BY TimelineFacts DEF Start
  <2>3. 0 \in 0..Len(script)
    BY <1>1
  <2>4. QED
    BY <2>1, <2>2, <2>3, FS_EmptySet
<1>3. ASSUME NEW k \in 1..Len(script), k - 1 \in G PROVE k \in G
  <2>1. /\ Timeline(script)[k].expands = Timeline(script)[k - 1].expands + (IF script[k].op = "run" THEN 1 ELSE 0)
        /\ Timeline(script)[k - 1].expands \in Nat
    BY CallCounts
  <2>2. IsFiniteSet(R(k - 1)) /\ Cardinality(R(k - 1)) = Timeline(script)[k - 1].expands
    BY <1>3
  <2>3. k \in 0..Len(script) /\ \A j : j \in 1..k <=> j \in 1..(k - 1) \/ j = k
    BY <1>1
  <2>4. CASE script[k].op = "run"
    <3>1. R(k) = R(k - 1) \cup {k} /\ k \notin R(k - 1)
      BY <1>1, <2>3, <2>4
    <3>2. IsFiniteSet(R(k)) /\ Cardinality(R(k)) = Cardinality(R(k - 1)) + 1
      <4>1. PICK T : T = R(k - 1)
        OBVIOUS
      <4>2. IsFiniteSet(T) /\ k \notin T
        BY <2>2, <3>1, <4>1
      <4>3. IsFiniteSet(T \cup {k}) /\ Cardinality(T \cup {k}) = Cardinality(T) + 1
        BY <4>2, FS_AddElement
      <4>4. QED
        BY <3>1, <4>1, <4>3
    <3>3. QED
      BY <2>1, <2>2, <2>3, <2>4, <3>2
  <2>5. CASE script[k].op # "run"
    <3>1. R(k) = R(k - 1)
      BY <2>3, <2>5
    <3>2. PICK T : T = R(k - 1)
      OBVIOUS
    <3>3. IsFiniteSet(T) /\ Cardinality(T) = Timeline(script)[k].expands
      BY <2>1, <2>2, <2>5, <3>2
    <3>4. IsFiniteSet(R(k)) /\ Cardinality(R(k)) = Timeline(script)[k].expands
      BY <3>1, <3>2, <3>3
    <3>5. QED
      BY <2>3, <3>4
  <2>6. QED
    BY <2>4, <2>5
<1>4. 0..Len(script) \subseteq G
  <2> HIDE DEF G
  <2>1. QED
    BY <1>1, <1>2, <1>3, IntervalInduction
<1>5. QED
  BY <1>4 DEF RunIdx

LEMMA LastConfigure ==
    ASSUME script \in Scripts
    PROVE  \A k \in 0..Len(script) : MalAt(k) <=> Timeline(script)[k].mal
<1> DEFINE Cfgs(k) == { j \in 1..k : script[j].op = "configure" }
           G == { k \in 0..Len(script) : MalAt(k) <=> Timeline(script)[k].mal }
<1>1. Len(script) \in Nat
  BY ScriptFacts
<1>2. \A k : MalAt(k) <=> Cfgs(k) # {} /\ script[Max(Cfgs(k))].mal
  BY DEF MalAt
<1>3. 0 \in G
  <2>1. Cfgs(0) = {}
    OBVIOUS
  <2>2. Timeline(script)[0].mal = FALSE
    BY TimelineFacts DEF Start
  <2>3. 0 \in 0..Len(script)
    BY <1>1
  <2>4. QED
    BY <1>2, <2>1, <2>2, <2>3
<1>4. ASSUME NEW k \in 1..Len(script), k - 1 \in G PROVE k \in G
  <2>1. Timeline(script)[k].mal = IF script[k].op = "configure" THEN script[k].mal ELSE Timeline(script)[k - 1].mal
    BY CallStep
  <2>2. k \in 0..Len(script) /\ \A j : j \in 1..k <=> j \in 1..(k - 1) \/ j = k
    BY <1>1
  <2>3. CASE script[k].op = "configure"
    <3>1. k \in Cfgs(k) /\ \A j \in Cfgs(k) : k >= j
      BY <1>1, <2>2, <2>3
    <3>2. Max(Cfgs(k)) = k
      <4>1. PICK T : T = Cfgs(k)
        OBVIOUS
      <4>2. T \subseteq Nat /\ k \in T /\ \A j \in T : k >= j
        BY <1>1, <3>1, <4>1
      <4>3. \A m \in T : (\A j \in T : m >= j) => m = k
        BY <4>2
      <4>4. Max(T) = k
        BY <4>2, <4>3 DEF Max
      <4>5. QED
        BY <4>1, <4>4
    <3>3. QED
      BY <1>2, <2>1, <2>2, <2>3, <3>1, <3>2
  <2>4. CASE script[k].op # "configure"
    <3>1. Cfgs(k) = Cfgs(k - 1)
      BY <2>2, <2>4
    <3>2. MalAt(k) <=> MalAt(k - 1)
      <4>1. PICK T : T = Cfgs(k)
        OBVIOUS
      <4>2. (MalAt(k) <=> T # {} /\ script[Max(T)].mal) /\ (MalAt(k - 1) <=> T # {} /\ script[Max(T)].mal)
        BY <1>2, <3>1, <4>1
      <4>3. QED
        BY <4>2
    <3>3. QED
      BY <1>4, <2>1, <2>2, <2>4, <3>2
  <2>5. QED
    BY <2>3, <2>4
<1>5. 0..Len(script) \subseteq G
  <2> HIDE DEF G
  <2>1. QED
    BY <1>1, <1>3, <1>4, IntervalInduction
<1>6. QED
  BY <1>5

(* The two messages of the sender that a run gives, and what becomes of them.*)
LEMMA SentPair ==
    ASSUME NEW k, NEW i \in 0..(script[k].n - 1)
    PROVE  \E a, b : a # b /\ SentOf(script, k)[i] = <<a, b>>
<1>1. PICK m, d : m = SentBlocks(script, k)[i] /\ d = RunOf(script, k)
  OBVIOUS
<1>2. SentOf(script, k)[i] = IF Hashed(script, k) THEN <<Hash(m), Hash(Xor(m, Delta(d)))>> ELSE <<m, Xor(m, Delta(d))>>
  BY <1>1 DEF SentOf
<1>3. m # Xor(m, Delta(d)) /\ Hash(m) # Hash(Xor(m, Delta(d)))
  BY MessagesDiffer
<1>4. QED
  BY <1>2, <1>3

LEMMA OtCorrectFollows ==
    ASSUME SilentInv
    PROVE  OtCorrect
<1>1. PICK x \in SendPhases, y \in RecvPhases : InvAt(x, y)
  BY DEF SilentInv
<1>2. script \in Scripts /\ Len(script) \in Nat
  BY ScriptFacts DEF SilentInv
<1>3. ASSUME NEW k \in 1..Len(script), RunDone(s, k), RunDone(r, k), ~Corrupted(k)
      PROVE  \A i \in 0..(script[k].n - 1) :
                 /\ rOut[k].m[i] = sOut[k][i][IF i \in rOut[k].c THEN 2 ELSE 1]
                 /\ rOut[k].m[i] # sOut[k][i][3 - (IF i \in rOut[k].c THEN 2 ELSE 1)]
  <2>1. IsRun(script, k) /\ s.call > k /\ r.call > k
    BY <1>3 DEF IsRun, RunDone
  <2>2. ~Spoilt(bad, RunOf(script, k))
    <3>1. k \in 0..Len(script)
      BY <1>2
    <3>2. RunIdx(k) = RunOf(script, k)
      BY <1>2, <3>1, RunCount DEF RunOf
    <3>3. QED
      BY <1>3, <3>2 DEF Corrupted, Spoilt
  <2>3. /\ SendOut(script, s.call, x, sOut)
        /\ RecvOut(script, s.call, r.call, bad, want, sOut, rOut, toS)
    BY <1>1 DEF InvAt
  <2>4. PICK bits \in SUBSET (0..(script[k].n - 1)) :
            /\ Opens(script, k, want, bits, rOut[k])
            /\ ChosenRun(script, k) => sOut[k] = Swap(SentOf(script, k), Xor(bits, want[k]))
    BY <2>1, <2>2, <2>3 DEF RecvOut
  <2>5. ~ChosenRun(script, k) => sOut[k] = SentOf(script, k)
    BY <2>1, <2>3 DEF SendOut, Voted
  <2>6. ASSUME NEW i \in 0..(script[k].n - 1)
        PROVE  /\ rOut[k].m[i] = sOut[k][i][IF i \in rOut[k].c THEN 2 ELSE 1]
               /\ rOut[k].m[i] # sOut[k][i][3 - (IF i \in rOut[k].c THEN 2 ELSE 1)]
    <3>1. PICK a, b : a # b /\ SentOf(script, k)[i] = <<a, b>>
      BY SentPair
    <3>2. rOut[k].m[i] = IF i \in bits THEN b ELSE a
      <4>1. rOut[k].m[i] = SentOf(script, k)[i][IF i \in bits THEN 2 ELSE 1]
        BY <2>4 DEF Opens
      <4>2. QED
        BY <3>1, <4>1
    <3>3. CASE ChosenRun(script, k)
      <4>1. rOut[k].c = want[k]
        BY <2>4, <3>3 DEF Opens, ChosenRun
      <4>2. i \in DOMAIN SentOf(script, k)
        BY DEF SentOf
      <4>3. sOut[k][i] = IF i \in Xor(bits, want[k]) THEN <<b, a>> ELSE <<a, b>>
        <5>1. PICK f : f = SentOf(script, k)
          OBVIOUS
        <5>2. i \in DOMAIN f /\ f[i] = <<a, b>> /\ sOut[k] = Swap(f, Xor(bits, want[k]))
          BY <2>4, <3>1, <3>3, <4>2, <5>1
        <5>3. QED
          BY <5>2 DEF Swap
      <4>4. i \in Xor(bits, want[k]) <=> ~(i \in bits <=> i \in want[k])
        BY InXor
      <4>5. QED
        BY <3>1, <3>2, <4>1, <4>3, <4>4
    <3>4. CASE ~ChosenRun(script, k)
      <4>1. rOut[k].c = bits
        BY <2>1, <2>4, <3>4 DEF Opens, ChosenRun
      <4>2. sOut[k][i] = <<a, b>>
        BY <2>5, <3>1, <3>4
      <4>3. QED
        BY <3>1, <3>2, <4>1, <4>2
    <3>5. QED
      BY <3>3, <3>4
  <2>7. QED
    BY <2>6
<1>4. QED
  BY <1>3 DEF OtCorrect, Calls

LEMMA CorruptionCaughtFollows ==
    ASSUME SilentInv
    PROVE  CorruptionCaught
<1>1. PICK x \in SendPhases, y \in RecvPhases : InvAt(x, y)
  BY DEF SilentInv
<1>2. script \in Scripts /\ Len(script) \in Nat
  BY ScriptFacts DEF SilentInv
<1>3. ASSUME NEW k \in 1..Len(script), RunDone(r, k), MalAt(k) PROVE ~Corrupted(k)
  <2>1. script[k].op = "run" /\ IsRun(script, k) /\ r.call > k /\ k \in 0..Len(script)
    BY <1>2, <1>3 DEF IsRun, RunDone
  <2>2. Timeline(script)[k].mal
    BY <1>2, <1>3, <2>1, LastConfigure
  <2>3. Timeline(script)[k - 1].mal
    <3>1. PICK e, f : e = Timeline(script)[k - 1] /\ f = Timeline(script)[k]
      OBVIOUS
    <3>2. f.mal = IF script[k].op = "configure" THEN script[k].mal ELSE e.mal
      BY <1>2, <3>1, CallStep
    <3>3. f.mal = e.mal
      BY <2>1, <3>2
    <3>4. QED
      BY <2>2, <3>1, <3>3
  <2>4. ~Spoilt(bad, RunOf(script, k))
    BY <1>1, <2>1, <2>3 DEF InvAt, Caught, MalRun
  <2>5. RunIdx(k) = RunOf(script, k)
    BY <1>2, <2>1, RunCount DEF RunOf
  <2>6. QED
    BY <2>4, <2>5 DEF Corrupted, Spoilt
<1>4. QED
  BY <1>3 DEF CorruptionCaught, Calls

LEMMA HonestFollows ==
    ASSUME SilentInv
    PROVE  HonestNeverFails
<1>1. PICK x \in SendPhases, y \in RecvPhases : InvAt(x, y)
  BY DEF SilentInv
<1>2. ASSUME script \notin FailScripts, bad = {}, closed \/ "failed" \in {s.pc, r.pc}
      PROVE  \E p \in {s, r} : p.pc = "failed" /\ p.call <= Calls /\ Rejected(p)
  <2>1. closed
    BY <1>1, <1>2 DEF InvAt
  <2>2. Blamed(s) \/ Blamed(r)
    BY <1>2, <2>1 DEF SilentInv, Honest
  <2>3. QED
    BY <2>2 DEF Blamed
<1>3. QED
  BY <1>2 DEF HonestNeverFails
(* A call makes at most one batch and one expand.                          *)
LEMMA CallBounds ==
    ASSUME NEW sc \in Scripts
    PROVE  \A k \in 0..Len(sc) : Timeline(sc)[k].batches <= k /\ Timeline(sc)[k].expands <= k
<1> DEFINE G == { k \in 0..Len(sc) : Timeline(sc)[k].batches <= k /\ Timeline(sc)[k].expands <= k }
<1>1. Len(sc) \in Nat
  BY ScriptFacts
<1>2. 0 \in G
  <2>1. Timeline(sc)[0].batches = 0 /\ Timeline(sc)[0].expands = 0
    BY TimelineFacts DEF Start
  <2>2. 0 \in 0..Len(sc)
    BY <1>1
  <2>3. QED
    BY <2>1, <2>2
<1>3. ASSUME NEW k \in 1..Len(sc), k - 1 \in G PROVE k \in G
  <2>1. PICK a, b : a = Timeline(sc)[k - 1].batches /\ b = Timeline(sc)[k].batches
    OBVIOUS
  <2>2. PICK u, v : u = Timeline(sc)[k - 1].expands /\ v = Timeline(sc)[k].expands
    OBVIOUS
  <2>3. /\ a \in Nat /\ u \in Nat /\ (b = a + 1 \/ b = a) /\ (v = u + 1 \/ v = u)
    <3>1. /\ a \in Nat /\ u \in Nat
          /\ b = a + (IF Makes(sc, k, Timeline(sc)[k - 1]) THEN 1 ELSE 0)
          /\ v = u + (IF sc[k].op = "run" THEN 1 ELSE 0)
      BY <2>1, <2>2, CallCounts
    <3>2. QED
      BY <3>1
  <2>4. a <= k - 1 /\ u <= k - 1 /\ k \in 0..Len(sc)
    BY <1>1, <1>3, <2>1, <2>2
  <2>5. b <= k /\ v <= k
    BY <2>3, <2>4
  <2>6. QED
    BY <2>1, <2>2, <2>4, <2>5
<1>4. 0..Len(sc) \subseteq G
  <2> HIDE DEF G
  <2>1. QED
    BY <1>1, <1>2, <1>3, IntervalInduction
<1>5. QED
  BY <1>4

(* The counts of a party, bounded by the script.                           *)
LEMMA PlaceBounds ==
    ASSUME NEW sc \in Scripts, NEW x \in SendPhases, NEW k, PlaceOk(sc, x, k)
    PROVE  /\ Batches(sc, k, x) <= Len(sc) /\ Expands(sc, k, x) <= Len(sc)
           /\ x = "gen" => Batches(sc, k, x) + 1 <= Len(sc)
<1>1. /\ k \in Nat /\ k >= 1 /\ k - 1 \in 0..Len(sc) /\ Len(sc) \in Nat
      /\ Batches(sc, k, x) \in Nat /\ Expands(sc, k, x) \in Nat
      /\ x # "idle" => k \in 0..Len(sc)
  BY PlaceFacts
<1>2. PICK e : e = Timeline(sc)[k - 1]
  OBVIOUS
<1>3. e.batches <= k - 1 /\ e.expands <= k - 1 /\ e.batches \in Nat /\ e.expands \in Nat
  BY <1>1, <1>2, CallBounds, PlaceFacts
<1>4. PICK f : f = Timeline(sc)[k]
  OBVIOUS
<1>5. x # "idle" => f.batches <= k /\ f.expands <= k /\ k <= Len(sc)
  BY <1>1, <1>4, CallBounds
<1>6. CASE x \in {"expand", "check", "correct"}
  <2>1. Batches(sc, k, x) = f.batches /\ (Expands(sc, k, x) = f.expands \/ Expands(sc, k, x) = e.expands) /\ x # "idle" /\ x # "gen"
    BY <1>2, <1>4, <1>6 DEF Batches, Expands
  <2>2. QED
    BY <1>1, <1>3, <1>5, <2>1
<1>7. CASE x \notin {"expand", "check", "correct"}
  <2>1. Batches(sc, k, x) = e.batches /\ Expands(sc, k, x) = e.expands
    BY <1>2, <1>7 DEF Batches, Expands
  <2>2. x = "gen" => k <= Len(sc)
    BY <1>5
  <2>3. QED
    BY <1>1, <1>3, <2>1, <2>2
<1>8. QED
  BY <1>6, <1>7

LEMMA PartyType ==
    ASSUME NEW sc \in Scripts, NEW x \in SendPhases, NEW p, PartyOk(sc, x, p)
    PROVE  /\ p.call \in 1..(Len(sc) + 1) /\ p.n \in DOMAIN Code \cup {0} /\ p.mal \in BOOLEAN
           /\ p.base \in 0..Batches(sc, p.call, x) /\ p.malOts \in 0..Batches(sc, p.call, x)
<1>1. PICK k, e : k = p.call /\ e = Timeline(sc)[k - 1]
  OBVIOUS
<1>2. PlaceOk(sc, x, k)
  BY <1>1 DEF PartyOk
<1>3. e \in Entry /\ k \in 1..(Len(sc) + 1) /\ (x # "idle" => k \in 1..Len(sc))
  BY <1>1, <1>2, PlaceFacts DEF PlaceOk
<1>4. p.mal = e.mal /\ e.mal \in BOOLEAN /\ e.n \in DOMAIN Code \cup {0}
  BY <1>1, <1>3 DEF PartyOk, Entry
<1>5. p.n = IF x = "idle" THEN e.n ELSE IF x = "correct" THEN 0 ELSE IF sc[k].op = "run" THEN sc[k].n ELSE e.n
  BY <1>1 DEF PartyOk
<1>6. p.n \in DOMAIN Code \cup {0}
  <2>1. x # "idle" /\ sc[k].op = "run" => sc[k].n \in DOMAIN Code
    BY <1>3, ScriptFacts
  <2>2. QED
    BY <1>4, <1>5, <2>1
<1>7. p.base \in 0..Batches(sc, k, x) /\ p.malOts \in 0..Batches(sc, k, x)
  BY <1>1 DEF PartyOk
<1>8. QED
  BY <1>1, <1>3, <1>4, <1>6, <1>7

LEMMA QueueBounds ==
    ASSUME NEW a, NEW b, NEW c, NEW P, NEW Q
    PROVE  /\ Len(IF P THEN <<a>> ELSE << >>) <= 1
           /\ Len((IF P THEN <<a>> ELSE << >>) \o (IF Q THEN <<b>> ELSE << >>)) <= 2
           /\ Len(<<c>> \o (IF P THEN <<a>> ELSE << >>)) <= 2
<1>1. (<< >> \o << >>) = << >> /\ (<<a>> \o << >>) = <<a>> /\ (<< >> \o <<b>>) = <<b>> /\ (<<a>> \o <<b>>) = <<a, b>>
  BY Queues
<1>2. (<<c>> \o << >>) = <<c>> /\ (<<c>> \o <<a>>) = <<c, a>>
  BY Queues
<1>3. QED
  BY <1>1, <1>2

LEMMA TypeFollows ==
    ASSUME SilentInv
    PROVE  TypeOK
<1>1. PICK x \in SendPhases, y \in RecvPhases : InvAt(x, y)
  BY DEF SilentInv
<1>2. script \in Scripts /\ Len(script) \in Nat /\ closed \in BOOLEAN
  BY ScriptFacts DEF SilentInv
<1>3. PICK ks, kr : ks = s.call /\ kr = r.call
  OBVIOUS
<1>4. PICK bs, br, es, er : /\ bs = Batches(script, ks, x) /\ br = Batches(script, kr, y)
                            /\ es = Expands(script, ks, x) /\ er = Expands(script, kr, y)
  OBVIOUS
<1>5. Together(script, ks, x, kr, y, batches) /\ y \in SendPhases
  BY <1>1, <1>2, <1>3, TogetherInv DEF SendPhases, RecvPhases
<1>6. /\ batches \in Nat /\ bs \in Nat /\ br \in Nat /\ es \in Nat /\ er \in Nat
      /\ br <= bs /\ bs <= batches /\ er <= es
      /\ y = "gen" => batches = br + 1
      /\ y # "gen" => batches = br
  <2>1. er <= es
    BY <1>4, <1>5 DEF Together, Sync
  <2>2. QED
    BY <1>2, <1>4, <1>5, <2>1, SyncFacts
<1>7. /\ br <= Len(script) /\ es <= Len(script) /\ (y = "gen" => br + 1 <= Len(script))
  <2>1. PlaceOk(script, x, ks) /\ PlaceOk(script, y, kr)
    BY <1>5 DEF Together
  <2>2. QED
    BY <1>2, <1>4, <1>5, <2>1, PlaceBounds
<1>8. batches \in 0..Len(script)
  BY <1>2, <1>6, <1>7
<1>9. PartyOk(script, x, s) /\ PartyOk(script, y, r) /\ s.delta \in 0..es /\ r.S \subseteq Noise /\ r.X \subseteq { q + 1 : q \in Noise }
  BY <1>1, <1>3, <1>4 DEF InvAt, SendOk, RecvOk
<1>10. ASSUME NEW p \in {s, r}
       PROVE  /\ p.call \in 1..(Calls + 1) /\ p.n \in DOMAIN Code \cup {0} /\ p.mal \in BOOLEAN
              /\ p.base \in 0..batches /\ p.malOts \in 0..batches
  <2>1. CASE p = s
    <3>1. /\ p.call \in 1..(Len(script) + 1) /\ p.n \in DOMAIN Code \cup {0} /\ p.mal \in BOOLEAN
          /\ p.base \in 0..bs /\ p.malOts \in 0..bs
      BY <1>2, <1>3, <1>4, <1>9, <2>1, PartyType
    <3>2. QED
      BY <1>6, <3>1 DEF Calls
  <2>2. CASE p = r
    <3>1. /\ p.call \in 1..(Len(script) + 1) /\ p.n \in DOMAIN Code \cup {0} /\ p.mal \in BOOLEAN
          /\ p.base \in 0..br /\ p.malOts \in 0..br
      BY <1>2, <1>3, <1>4, <1>5, <1>9, <2>2, PartyType
    <3>2. QED
      BY <1>6, <3>1 DEF Calls
  <2>3. QED
    BY <2>1, <2>2
<1>11. Len(sUsed) = es /\ Len(rUsed) = er
  BY <1>1, <1>3, <1>4 DEF InvAt, UsedOk
<1>12. Len(toS) <= 2
  <2>1. ToSender(script, ks, x, kr, y, batches, toS)
    BY <1>1, <1>3 DEF InvAt
  <2>2. PICK P : P = (Batches(script, ks, x) < batches)
    OBVIOUS
  <2>3. \/ toS = << [kind |-> "seed"] >>
        \/ toS = <<CorrectionMsg(toS[1].bits)>> \o (IF P THEN <<OtMsg(batches)>> ELSE << >>)
        \/ toS = IF P THEN <<OtMsg(batches)>> ELSE << >>
    BY <2>1, <2>2 DEF ToSender
  <2>4. PICK c, a : c = CorrectionMsg(toS[1].bits) /\ a = OtMsg(batches)
    OBVIOUS
  <2>5. Len(<<c>> \o (IF P THEN <<a>> ELSE << >>)) <= 2 /\ Len(IF P THEN <<a>> ELSE << >>) <= 1
    BY QueueBounds
  <2>6. CASE toS = << [kind |-> "seed"] >>
    BY <2>6
  <2>7. CASE toS = <<c>> \o (IF P THEN <<a>> ELSE << >>)
    BY <2>5, <2>7
  <2>8. CASE toS = IF P THEN <<a>> ELSE << >>
    BY <2>8
  <2>9. QED
    BY <2>3, <2>4, <2>6, <2>7, <2>8
<1>13. Len(toR) <= 3
  <2>1. ToReceiver(script, ks, x, kr, y, sUsed, toR) \/ toR = << >>
    BY <1>1, <1>3 DEF InvAt
  <2>2. PICK P, Q : P = (Batches(script, ks, x) > Batches(script, kr, y)) /\ Q = (Expands(script, ks, x) > Expands(script, kr, y))
    OBVIOUS
  <2>3. PICK a, b, u, v : /\ a = [kind |-> "otAck"] /\ b = PprfMsg(Len(sUsed), sUsed[Len(sUsed)])
                          /\ u = VoleMsg(Timeline(script)[kr].batches) /\ v = HashMsg(Timeline(script)[kr].expands)
    OBVIOUS
  <2>4. \/ toR = << >> \/ toR = <<u, v>>
        \/ toR = (IF P THEN <<a>> ELSE << >>) \o (IF Q THEN <<b>> ELSE << >>)
    BY <2>1, <2>2, <2>3 DEF ToReceiver
  <2>5. Len((IF P THEN <<a>> ELSE << >>) \o (IF Q THEN <<b>> ELSE << >>)) <= 2
    BY QueueBounds
  <2>6. CASE toR = << >> \/ toR = <<u, v>>
    BY <2>6
  <2>7. CASE toR = (IF P THEN <<a>> ELSE << >>) \o (IF Q THEN <<b>> ELSE << >>)
    <3>1. PICK q : q = (IF P THEN <<a>> ELSE << >>) \o (IF Q THEN <<b>> ELSE << >>)
      OBVIOUS
    <3>2. Len(q) <= 2 /\ Len(q) \in Nat
      <4>1. q = << >> \/ q = <<a>> \/ q = <<b>> \/ q = <<a, b>>
        BY <3>1, Queues
      <4>2. Len(<< >>) = 0 /\ Len(<<a>>) = 1 /\ Len(<<b>>) = 1 /\ Len(<<a, b>>) = 2
        OBVIOUS
      <4>3. Len(q) \in {0, 1, 2}
        BY <4>1, <4>2, Zenon
      <4>4. PICK l : l = Len(q)
        OBVIOUS
      <4>5. l <= 2 /\ l \in Nat
        BY <4>3, <4>4
      <4>6. QED
        BY <4>4, <4>5
    <3>3. QED
      BY <2>7, <3>1, <3>2
  <2>8. QED
    BY <2>4, <2>6, <2>7
<1>14. s.pc \in Phases \cup {"correct"} /\ r.pc \in Phases /\ bad \subseteq (1..Len(sUsed)) \X Noise
  BY <1>1 DEF InvAt, SendPhases, RecvPhases, Phases
<1>15. /\ s.delta \in 0..Len(sUsed) /\ Len(sUsed) <= Calls /\ Len(rUsed) <= Len(sUsed)
  BY <1>6, <1>7, <1>9, <1>11 DEF Calls
<1>16. QED
  BY <1>2, <1>8, <1>9, <1>10, <1>12, <1>13, <1>14, <1>15 DEF TypeOK, Calls

---------------------------------------------------------------------------
(* The invariant holds in every reachable state: wherever the two parties   *)
(* are, each is where the script says, at most one step of the protocol     *)
(* apart, with the messages of that step and no others on their way, and    *)
(* every finished run has given the two applications matching outputs.      *)
THEOREM SilentInvariant == Spec => []SilentInv
<1>1. Init => SilentInv
  BY SilentInit
<1>2. SilentInv /\ [Next]_vars => SilentInv'
  BY SilentNext
<1>3. QED
  BY <1>1, <1>2, PTL DEF Spec

(* The two objects, the outputs and the socket keep their shape: no counter *)
(* passes the script's length and no queue holds more than three messages.  *)
THEOREM TypeCorrect == Spec => []TypeOK
<1>1. SilentInv => TypeOK
  BY TypeFollows
<1>2. QED
  BY <1>1, SilentInvariant, PTL

(* No batch of base OTs serves two expands, and both parties expand from    *)
(* the same one, however the applications configure, generate and clear.    *)
THEOREM BasesFresh == Spec => []FreshBase
<1>1. SilentInv => FreshBase
  BY FreshBaseFollows
<1>2. QED
  BY <1>1, SilentInvariant, PTL

(* Of a run that both finished on unspoilt leaves, the receiver has exactly *)
(* the sender's message at its choice: for every way of calling.            *)
THEOREM OtsCorrect == Spec => []OtCorrect
<1>1. SilentInv => OtCorrect
  BY OtCorrectFollows
<1>2. QED
  BY <1>1, SilentInvariant, PTL

(* The malicious check lets no spoilt expansion through.                    *)
THEOREM SpoiltCaught == Spec => []CorruptionCaught
<1>1. SilentInv => CorruptionCaught
  BY CorruptionCaughtFollows
<1>2. QED
  BY <1>1, SilentInvariant, PTL

(* Honest parties fail only on a call that the code rejects: the malicious  *)
(* check never accuses them.                                                *)
THEOREM HonestSucceed == Spec => []HonestNeverFails
<1>1. SilentInv => HonestNeverFails
  BY HonestFollows
<1>2. QED
  BY <1>1, SilentInvariant, PTL
=============================================================================
