----------------------------- MODULE MCSilentOt -----------------------------
(* Two trees of two leaves, requests of one and two OTs, and sequences of   *)
(* up to six calls: fresh, configured, with base OTs generated ahead,       *)
(* reconfigured, and reused with and without clear.                        *)
EXTENDS SilentOt, TLC

MCCode == 1 :> [i \in {0} |-> {0, 2, 3}] @@ 2 :> (0 :> {0, 3} @@ 1 :> {1, 2, 3})

Configure(n, mal) == [op |-> "configure", n |-> n, mal |-> mal]
Gen == [op |-> "gen"]
Run(n, type) == [op |-> "run", n |-> n, type |-> type]

(* One run, prepared in every way the code offers.                         *)
OneRun ==
    { <<Run(n, t)>> : n \in {1, 2}, t \in Types }
    \cup { <<Configure(n, m), Run(2, t)>> : n \in {1, 2}, m \in BOOLEAN, t \in Types }
    \cup { <<Configure(2, m), Gen, Run(2, t)>> : m \in BOOLEAN, t \in Types }
    \cup { <<Configure(1, m), Gen, Configure(1, ~m), Run(1, t)>> : m \in BOOLEAN, t \in Types }
    \cup { <<Gen, Run(1, "random")>> }
(* Two runs on the same objects.                                           *)
TwoRuns ==
    { <<Configure(1, m), Run(1, t), Run(n, u)>> :
        m \in BOOLEAN, t \in Types, n \in {1, 2}, u \in Types }
    \cup { <<Configure(1, m), Gen, Gen, Run(1, t), Gen, Run(1, t)>> : m \in BOOLEAN, t \in {"inplace"} }
(* Both, and in some the base OT protocol may throw.                       *)
ThrowingRuns ==
    { <<Run(2, "random"), Run(2, "random")>> }
    \cup { <<Configure(1, m), Gen, Run(1, t)>> : m \in BOOLEAN, t \in Types }
AllRuns == OneRun \cup TwoRuns \cup ThrowingRuns
===========================================================================
