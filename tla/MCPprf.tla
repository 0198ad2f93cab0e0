------------------------------ MODULE MCPprf ------------------------------
(* Instances of Pprf for TLC: batches of two trees; domains that are and    *)
(* are not powers of two, and the domain of depth one.                     *)
EXTENDS Pprf

Conf(domain, trees, eager, program, values, sFormat, rFormat) ==
    [domain |-> domain, trees |-> trees, eager |-> eager, program |-> program,
     values |-> values, sFormat |-> sFormat, rFormat |-> rFormat]

(* Every mode, over the smallest domains, with a partial last batch.       *)
SmallConfs ==
    { Conf(c[1], c[2], e, p, v, f, f) : c \in {<<2, 1>>, <<2, 3>>, <<4, 1>>, <<4, 2>>}, e \in BOOLEAN,
                                        p \in BOOLEAN, v \in {1, 3}, f \in Formats }
    \cup { Conf(4, 3, e, p, 3, "tree", "tree") : e \in BOOLEAN, p \in BOOLEAN }
    \cup { Conf(2, 4, e, TRUE, 1, "inter", "inter") : e \in BOOLEAN }
    \cup { Conf(6, 1, e, p, 1, f, g) : e \in BOOLEAN, p \in BOOLEAN, f \in Formats, g \in Formats }
(* One and two trees of larger domains that are no power of two.           *)
WideConfs ==
    { Conf(d, t, TRUE, p, 1, "tree", "tree") : d \in {6, 10, 12}, t \in {1, 2}, p \in BOOLEAN }
(* Accepted and rejected arguments of either party.                        *)
LiveConfs ==
    { Conf(2, t, e, TRUE, v, f, g) : t \in {1, 3}, e \in BOOLEAN, v \in {1, 2},
                                     f \in {"tree", "inter"}, g \in {"tree", "inter"} }
AllConfs == SmallConfs \cup WideConfs \cup LiveConfs
(* Fairness of both parties; ENABLED is costly to compute for the wide       *)
(* domains, and the control flow does not depend on them.                  *)
Live == conf \in LiveConfs
LiveSpec == Spec /\ WF_vars(Live /\ SendNext) /\ WF_vars(Live /\ RecvNext)

(* Expansion ends for both parties, whichever of them throws: with the base *)
(* OTs used up where all arguments are accepted, and else with the socket   *)
(* closed under the one that waits.                                        *)
BothEnd == Live => Terminates
===========================================================================
