------------------------------ MODULE MCKosOt ------------------------------
(* Instances of KosOt for TLC: three columns, so that splitBase derives     *)
(* some of the base OTs of a receiver and not others; calls of one block    *)
(* and of two, the second partial, and without a hash also of three.        *)
EXTENDS KosOt

Ext(n, payload) == [op |-> "ext", n |-> n, payload |-> payload]
NewBase == [op |-> "base"]
Split == [op |-> "split", child |-> 1]

Conf(iknp, fs, hash, root, child) ==
    [iknp |-> iknp, fs |-> fs, hash |-> hash, script |-> [i \in {0, 1} |-> IF i = 0 THEN root ELSE child]]

(* A call, new base OTs or a split, another call.                          *)
Again == <<Ext(4, FALSE), NewBase, Ext(2, TRUE)>>
AfterSplit == <<Ext(4, TRUE), Split, Ext(2, FALSE)>>
(* Without a hash: calls of one block, partial or full, and of more, in one *)
(* message and in two.                                                      *)
Unhashed == { <<Ext(2, TRUE)>>, <<Ext(4, FALSE), Ext(3, TRUE)>>, <<Ext(7, FALSE), Ext(2, FALSE)>> }
UnhashedConfs == { Conf(iknp, FALSE, "NoHash", root, << >>) : iknp \in BOOLEAN, root \in Unhashed }
RootConfs ==
    { Conf(iknp, fs, "AesHash", root, << >>) :
        iknp \in BOOLEAN, fs \in BOOLEAN, root \in {Again, AfterSplit} }
    \cup UnhashedConfs
(* The split instance runs concurrently with the one it came from.         *)
SplitConfs == { Conf(FALSE, FALSE, "AesHash", AfterSplit, <<Ext(2, FALSE)>>) }
(* A split IKNP sender runs the check, a split IKNP receiver does not.      *)
IknpSplitConfs == { Conf(TRUE, FALSE, "AesHash", AfterSplit, <<Ext(2, TRUE)>>) }
MainConfs == RootConfs \cup SplitConfs \cup IknpSplitConfs
===========================================================================
