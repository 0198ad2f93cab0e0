--------------------------- MODULE MCOosNcoOt ---------------------------
(* Instances of OosNcoOt for TLC: two columns, one input bit, one to three *)
(* OTs streamed in correction steps of different sizes.       *)
EXTENDS OosNcoOt

TwoCols == {1, 2}
ThreeCols == {1, 2, 3}
OneBit == {1}
TwoBits == {1, 2}

(* The repetition code: one input bit, repeated in every column.           *)
Repetition == [b \in OneBit |-> Cols]
(* The parity code: two input bits and their sum.                          *)
Parity == [b \in TwoBits |-> {b, 3}]

(* Two OTs, one per step; three OTs, as 2 + 1; a single OT.                *)
OneAndOne == <<1, 2>>
TwoAndOne == <<2, 3>>
OnlyOne == <<1>>

(* Challenges: of one relation, over no row, the first row, or all rows.   *)
ChallengeSeeds == {"none", "first", "all"}
Challenges ==
    [seed \in ChallengeSeeds |->
        [l \in 0..(Stat - 1) |->
            CASE seed = "none" -> {} [] seed = "first" -> {l} [] OTHER -> 0..(N - 1)]]
===========================================================================
