------------------------------ MODULE Tungsten ------------------------------
(***************************************************************************)
(* TungstenCode::dualEncode: the parity part of the noise vector is         *)
(* accumulated and permuted between two buffers mNumIter times, accumulated *)
(* again, and added to the message part.                                   *)
(*                                                                         *)
(* accumulate adds every row to rows after it, around the end, and hands    *)
(* chunks over to the permutation or the adder as soon as it can: a chunk   *)
(* must not leave before the last row that reaches it. An element is the    *)
(* formal sum of the elements that were passed in; mulConst is the identity.*)
(***************************************************************************)
EXTENDS XorAlgebra, Sequences

CONSTANTS
    TungstenConfs,   \* message size, code size, and mPerm
    ChunkSize,       \* 8
    Table,           \* Table::data: the rows, four distances each
    TableMax,        \* Table::max, the longest of them
    NumIter          \* mNumIter

TableSize == Len(Table)
Ways == 1..4

TungstenAssumption ==
    /\ ChunkSize \in Nat \ {0} /\ NumIter \in Nat /\ TableMax \in Nat
    /\ TableSize % ChunkSize = 0 /\ TableSize > TableMax /\ TableSize - ChunkSize < TableMax
    /\ \A j \in 1..TableSize :
          /\ Table[j] \in [Ways -> 1..TableMax]
          /\ \A p, q \in Ways : p # q => Table[j][p] # Table[j][q]
    /\ \A c \in TungstenConfs :
          /\ c.message % ChunkSize = 0 /\ c.n % ChunkSize = 0
          /\ c.message \in Nat \ {0} /\ c.message <= c.n - c.message
          /\ DOMAIN c.perm = 0..((c.n - c.message) \div ChunkSize - 1)
          /\ { c.perm[m] : m \in DOMAIN c.perm } = DOMAIN c.perm

VARIABLES
    conf,
    e,    \* the message part, the parity part and temp
    at    \* the call of accumulate, and how far it has come

vars == <<conf, e, at>>

Parity == conf.n - conf.message
MinOf(a, b) == IF a < b THEN a ELSE b
Elements(part, n) == [j \in 0..(n - 1) |-> { <<part, j>> }]

(* buffs[0], and where its chunks go.                                      *)
From(k) == IF k % 2 = 0 THEN "parity" ELSE "temp"
To(k) == IF k = NumIter THEN "message" ELSE From(k + 1)
Size == IF at.call = NumIter THEN conf.message ELSE Parity

---------------------------------------------------------------------------
(* One row of accumulateBlock. With the range check, distances wrap, and    *)
(* may meet each other or the row itself; without, they do neither.         *)
CheckedRow(x, i) ==
    LET last == (i + TableMax + 1) % Size
        y == [x EXCEPT ![last] = Xor(@, x[i])]
        Hits(k) == { p \in Ways : (i + Table[(i % TableSize) + 1][p]) % Size = k }
    IN [k \in DOMAIN y |->
           IF k # i /\ Cardinality(Hits(k)) % 2 = 1 THEN Xor(y[k], y[i]) ELSE y[k]]
UncheckedRow(x, i) ==
    LET Targets == { i + TableMax + 1 } \cup { i + Table[(i % TableSize) + 1][p] : p \in Ways } IN
    [k \in DOMAIN x \cup Targets |-> IF k \in Targets THEN Xor(x[k], x[i]) ELSE x[k]]

(* The blocks that begin before Main reach no further than the end.         *)
MainOf(tables) == IF tables > 0 THEN (tables - 1) * TableSize ELSE 0
Main == MainOf(Size \div TableSize)

(* A chunk of rows, of the block that begins at start.                     *)
RowsOf(x, i, start) ==
    LET upTo[n \in 0..ChunkSize] ==
            IF n = 0 THEN x
            ELSE LET y == upTo[n - 1] IN
                 IF start < Main THEN UncheckedRow(y, i + n - 1) ELSE CheckedRow(y, i + n - 1)
    IN upTo[ChunkSize]

(* applyChunk: the permutation copies chunk number m to its place, the      *)
(* adder adds it at the same place.                                        *)
Apply(k, y, x, i, m) ==
    LET base == IF k = NumIter THEN m * ChunkSize ELSE conf.perm[m] * ChunkSize IN
    [j \in DOMAIN y |->
        IF j - base \notin 0..(ChunkSize - 1) THEN y[j]
        ELSE IF k = NumIter THEN Xor(y[j], x[i + j - base]) ELSE x[i + j - base]]

---------------------------------------------------------------------------
Call(k, input) == [call |-> k, stage |-> "rows", i |-> 0, m |-> 0, input |-> input]

TungstenInit ==
    /\ conf \in TungstenConfs
    /\ e = [message |-> Elements("message", conf.message), parity |-> Elements("parity", Parity),
            temp |-> Elements("temp", Parity)]
    /\ at = Call(0, e["parity"])

Start(i) == i - (i % TableSize)
(* The first blocks, which the last rows reach, are not handed over yet.    *)
HeldBackNone(start) == FALSE
HeldBack(start) == start <= TableMax
Held == (TableMax \div TableSize + 1) * TableSize

(* A chunk of rows, and its output.                                        *)
Chunk ==
    /\ at.stage = "rows" /\ at.i < Size
    /\ LET x == RowsOf(e[From(at.call)], at.i, Start(at.i))
           m == IF at.i = Held THEN Held \div ChunkSize ELSE at.m    \* map.skip
       IN IF HeldBack(Start(at.i))
            THEN /\ e' = [e EXCEPT ![From(at.call)] = x]
                 /\ at' = [at EXCEPT !.i = @ + ChunkSize]
            ELSE /\ e' = [e EXCEPT ![From(at.call)] = x,
                                   ![To(at.call)] = Apply(at.call, @, x, at.i, m)]
                 /\ at' = [at EXCEPT !.i = @ + ChunkSize, !.m = m + 1]
    /\ UNCHANGED conf

MapMissing ==
    /\ at.stage = "rows" /\ at.i >= Size
    /\ at' = [at EXCEPT !.stage = "missing", !.i = 0, !.m = 0]
    /\ UNCHANGED <<conf, e>>

MissingEnd == MinOf(TableMax, Size)
MissingChunk ==
    /\ at.stage = "missing" /\ at.i < MissingEnd
    /\ e' = [e EXCEPT ![To(at.call)] = Apply(at.call, @, e[From(at.call)], at.i, at.m)]
    /\ at' = [at EXCEPT !.i = @ + ChunkSize, !.m = @ + 1]
    /\ UNCHANGED conf

(* The buffers are swapped for the next iteration.                         *)
NextCall ==
    /\ at.stage = "missing" /\ at.i >= MissingEnd
    /\ at' = IF at.call = NumIter THEN [at EXCEPT !.stage = "done"]
             ELSE Call(at.call + 1, e[To(at.call)])
    /\ UNCHANGED <<conf, e>>

TungstenDone == at.stage = "done" /\ UNCHANGED vars

TungstenNext == Chunk \/ MapMissing \/ MissingChunk \/ NextCall \/ TungstenDone

---------------------------------------------------------------------------
(* The branch of accumulate that is switched off, as the reference: all     *)
(* rows first, around the end, then all chunks.                            *)
AllRows(x) ==
    LET upTo[n \in 0..Size] == IF n = 0 THEN x ELSE LET y == upTo[n - 1] IN CheckedRow(y, n - 1)
    IN upTo[Size]
Lazily(k, x, j) == IF k = NumIter THEN Xor({<<"message", j>>}, x[j]) ELSE
    LET m == CHOOSE c \in DOMAIN conf.perm : conf.perm[c] = j \div ChunkSize IN x[m * ChunkSize + (j % ChunkSize)]

(* Handing the chunks over early gives what handing them over at the end    *)
(* would: every chunk leaves exactly once, after the last row that reaches  *)
(* it, and no row leaves its buffer.                                       *)
EagerIsLazy ==
    /\ DOMAIN e["parity"] = 0..(Parity - 1) /\ DOMAIN e["temp"] = 0..(Parity - 1)
    /\ DOMAIN e["message"] = 0..(conf.message - 1)
    /\ (at.stage = "missing" /\ at.i >= MissingEnd) =>
          \E x \in { AllRows(at.input) } :
              \A j \in 0..(Size - 1) : e[To(at.call)][j] = Lazily(at.call, x, j)
===========================================================================
