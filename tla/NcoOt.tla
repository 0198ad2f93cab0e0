------------------------------- MODULE NcoOt -------------------------------
(***************************************************************************)
(* What a streaming 1-out-of-N OT extension promises its two applications   *)
(* (the contract of NcoOtExt.h and of the encode / sendCorrection /         *)
(* recvCorrection comments): the receiver fixes one word per row, or skips  *)
(* the row; in round after round, batch after batch and in order, rows     *)
(* become open, and the sender's encodings of an open row are the           *)
(* receiver's encoding at the receiver's word and at no other.              *)
(***************************************************************************)
EXTENDS Naturals

CONSTANTS
    Round,    \* how often the extension is initialised
    NumRows,  \* the OTs of one init
    Word,     \* the words a row can be fixed to
    NoWord,   \* the row has not been fixed
    Skipped   \* the row was zero-encoded: nobody will read it

VARIABLES
    chosen,   \* chosen[g][i]: what row i of round g was fixed to
    upto,     \* upto[g]: how many rows of round g the sender can encode
    open      \* open[g]: the rows on which the two encodings agree as promised

vars == <<chosen, upto, open>>

Rows == 0..(NumRows - 1)

Init ==
    /\ chosen = [g \in 1..Round |-> [i \in Rows |-> NoWord]]
    /\ upto = [g \in 1..Round |-> 0]
    /\ open = [g \in 1..Round |-> {}]

Fix(g, i, w) ==
    /\ chosen[g][i] = NoWord
    /\ chosen' = [chosen EXCEPT ![g][i] = w]
    /\ UNCHANGED <<upto, open>>

(* The next rows up to n of the round become open, once they are fixed.     *)
Open(g, n) ==
    /\ n > upto[g] /\ n <= NumRows
    /\ \A h \in 1..(g - 1) : upto[h] = NumRows
    /\ \A i \in 0..(n - 1) : chosen[g][i] # NoWord
    /\ upto' = [upto EXCEPT ![g] = n]
    /\ open' = [open EXCEPT ![g] = @ \cup
                    { i \in upto[g]..(n - 1) : chosen[g][i] # Skipped }]
    /\ UNCHANGED chosen

Next ==
    \E g \in 1..Round :
        \/ \E i \in Rows, w \in Word \cup {Skipped} : Fix(g, i, w)
        \/ \E n \in 1..NumRows : Open(g, n)

Spec == Init /\ [][Next]_vars
===========================================================================
