------------------------------ MODULE TwoParty ------------------------------
(***************************************************************************)
(* Two parties 0 and 1, each a coroutine that runs from one co_await to     *)
(* the next, joined by a socket that delivers in order.                    *)
(***************************************************************************)
EXTENDS Integers, Sequences

VARIABLES
    conf,   \* what the applications ask for
    party,  \* party[p]: the objects and the running call of party p
    net     \* net[p]: the messages that are on their way to p

vars == <<conf, party, net>>

Parties == {0, 1}
Peer(p) == 1 - p

EmptyNet == [p \in Parties |-> << >>]

(* Party p goes on without receiving, or with the message it waits for, to  *)
(* the state st, and sends ms.                                             *)
Goes(p, st, ms) ==
    /\ party' = [party EXCEPT ![p] = st]
    /\ net' = [net EXCEPT ![Peer(p)] = @ \o ms]
    /\ UNCHANGED conf
Takes(p, st, ms) ==
    /\ party' = [party EXCEPT ![p] = st]
    /\ net' = [net EXCEPT ![p] = Tail(@), ![Peer(p)] = @ \o ms]
    /\ UNCHANGED conf

HasMessage(p) == net[p] # << >>
Message(p) == Head(net[p])

(* Forks of the socket carry their messages apart: the first that waits on  *)
(* one of them, and going on with it.                                      *)
On(p, chan) == { i \in 1..Len(net[p]) : net[p][i].chan = chan }
Available(p, chan) == On(p, chan) # {}
FirstOn(p, chan) == CHOOSE i \in On(p, chan) : \A j \in On(p, chan) : i <= j
First(p, chan) == net[p][FirstOn(p, chan)]
TakesOn(p, chan, st, ms) ==
    /\ party' = [party EXCEPT ![p] = st]
    /\ net' = [net EXCEPT
                 ![p] = SubSeq(@, 1, FirstOn(p, chan) - 1) \o SubSeq(@, FirstOn(p, chan) + 1, Len(@)),
                 ![Peer(p)] = @ \o ms]
    /\ UNCHANGED conf
===========================================================================
