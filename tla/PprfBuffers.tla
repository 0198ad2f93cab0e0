---------------------------- MODULE PprfBuffers ----------------------------
(***************************************************************************)
(* How a GGM tree is expanded in two alternating buffers: allocateExpandTree*)
(* lays the levels of a tree over one allocation, expandOne fills level     *)
(* after level, one parent at a time, and the leaf pass reads the last one. *)
(* A cell is what the code calls an AlignedArray<block, 8>.                *)
(***************************************************************************)
EXTENDS XorAlgebra

CONSTANT Domains   \* the values of mDomain

DomainsAssumption == \A n \in Domains : n \in Nat \ {0} /\ n % 2 = 0

VARIABLES
    domain,   \* mDomain
    d,        \* the level expandOne is expanding
    parent,   \* parentIdx
    cell      \* what each cell of the allocation holds: the level and index of a node

vars == <<domain, d, parent, cell>>

mDepth == Log2Ceil(domain)
Width(level) == DivCeil(domain, 2^(mDepth - level))

---------------------------------------------------------------------------
(* allocateExpandTree, called for the parents of the leaves.               *)

Parents == IF domain > 2 THEN RoundUpTo((domain + 1) \div 2, 2) ELSE 1
Depth == Log2Ceil(Parents)
SecondLastTight == (Parents + 1) \div 2
SecondLast == RoundUpTo((Parents + 1) \div 2, 2)
AllocSize == RoundUpTo(Parents + SecondLast, 2)

SpanStartSame(level) == IF level = Depth THEN SecondLast ELSE 0
(* The last level has the big buffer; below it the two alternate.          *)
SpanStart(level) == IF (Depth - level) % 2 = 0 THEN SecondLast ELSE 0
SpanSize(level) ==
    LET width == DivCeil(Parents, 2^(Depth - level)) IN
    IF level = Depth THEN Parents ELSE IF width > 1 THEN RoundUpTo(width, 2) ELSE width
BufferSize(level) == IF SpanStart(level) = 0 THEN SecondLast ELSE Parents

---------------------------------------------------------------------------
Unset == <<-1, -1>>

Init ==
    /\ domain \in Domains
    /\ d = 0 /\ parent = 0
    /\ cell = [c \in 0..(AllocSize - 1) |-> IF c = SpanStart(0) THEN <<0, 0>> ELSE Unset]

(* Both children of the next parent of level d are written to level d + 1. *)
ExpandParent ==
    /\ d < mDepth - 1 /\ parent < Width(d)
    /\ cell' = [c \in DOMAIN cell |->
                   IF c - SpanStart(d + 1) \in {2 * parent, 2 * parent + 1}
                     THEN <<d + 1, c - SpanStart(d + 1)>> ELSE cell[c]]
    /\ parent' = parent + 1
    /\ UNCHANGED <<domain, d>>

NextLevelPast ==
    /\ d <= mDepth - 1 /\ parent = Width(d)
    /\ d' = d + 1 /\ parent' = 0
    /\ UNCHANGED <<domain, cell>>
NextLevel ==
    /\ d < mDepth - 1 /\ parent = Width(d)
    /\ d' = d + 1 /\ parent' = 0
    /\ UNCHANGED <<domain, cell>>

(* The leaf pass hashes each parent into the output, not into the buffers.  *)
HashLeaves ==
    /\ d = mDepth - 1 /\ parent < Width(d)
    /\ parent' = parent + 1
    /\ UNCHANGED <<domain, d, cell>>

Done == d = mDepth - 1 /\ parent = Width(d) /\ UNCHANGED vars

Next == ExpandParent \/ NextLevel \/ HashLeaves \/ Done
Spec == Init /\ [][Next]_vars /\ WF_vars(Next)

---------------------------------------------------------------------------
TypeOK ==
    /\ domain \in Domains /\ d \in 0..(mDepth - 1) /\ parent \in 0..Width(d)
    /\ \A c \in DOMAIN cell : cell[c] = Unset \/ (cell[c][1] \in 0..(mDepth - 1) /\ cell[c][2] \in Nat)

(* expandOne never reads a node that its own writes, or a level further     *)
(* down, have overwritten, or that was never written.                      *)
ParentsIntact ==
    \A p \in parent..(Width(d) - 1) : cell[SpanStart(d) + p] = <<d, p>>

(* Every node is written inside the span of its level, and every span lies  *)
(* inside its buffer; the spans have the sizes the receiver's expandOne     *)
(* asserts, and there is one level for each d of expandOne, the root alone  *)
(* in the first and every leaf below a parent of the last.                 *)
WritesInSpan ==
    /\ (d < mDepth - 1 /\ parent < Width(d)) =>
          2 * parent + 1 < SpanSize(d + 1) /\ SpanSize(d + 1) = 2 * Width(d)
    /\ SpanSize(d) \in {Width(d), Width(d) + 1} /\ SpanSize(d) <= BufferSize(d)
    /\ Depth = mDepth - 1 /\ SpanSize(0) = 1
    /\ 2 * Width(mDepth - 1) = domain
===========================================================================
