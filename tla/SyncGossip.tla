----------------------------- MODULE SyncGossip -----------------------------
(***************************************************************************)
(* What a decentralised round promises, however the exchanges are carried: *)
(* in its k-th round a node takes in exactly one payload from each of its  *)
(* neighbours, the one that neighbour produced in its own k-th round, and  *)
(* no node enters a round before it has finished the one before.  A node   *)
(* may stop between rounds, and may fail at any time.                      *)
(***************************************************************************)
EXTENDS Naturals

CONSTANT Nodes

VARIABLES links,    \* the graph: a set of unordered pairs of nodes
          round,    \* the round a node is in; 0 before its first
          heard,    \* <<neighbour, round of its payload>> taken in this round
          status    \* "up", "closed" (stopped between rounds), "failed"

vars == <<links, round, heard, status>>

Neighbours(n) == {p \in Nodes : {n, p} \in links /\ p # n}

Finished(n) == heard[n] = {<<p, round[n]>> : p \in Neighbours(n)}

Init == /\ links \in SUBSET {{n, p} : n \in Nodes, p \in Nodes}
        /\ round = [n \in Nodes |-> 0]
        /\ heard = [n \in Nodes |-> {}]
        /\ status = [n \in Nodes |-> "up"]

Enter(n) == /\ status[n] = "up"
            /\ round[n] = 0 \/ Finished(n)
            /\ round' = [round EXCEPT ![n] = @ + 1]
            /\ heard' = [heard EXCEPT ![n] = {}]
            /\ UNCHANGED <<links, status>>

Hear(n, p) == /\ status[n] = "up"
              /\ p \in Neighbours(n)
              /\ <<p, round[n]>> \notin heard[n]
              /\ 0 < round[n] /\ round[n] <= round[p]
              /\ heard' = [heard EXCEPT ![n] = @ \cup {<<p, round[n]>>}]
              /\ UNCHANGED <<links, round, status>>

Stop(n) == /\ status[n] = "up"
           /\ round[n] = 0 \/ Finished(n)
           /\ status' = [status EXCEPT ![n] = "closed"]
           /\ UNCHANGED <<links, round, heard>>

Fail(n) == /\ status[n] = "up"
           /\ status' = [status EXCEPT ![n] = "failed"]
           /\ UNCHANGED <<links, round, heard>>

Next == \E n \in Nodes : \/ Enter(n) \/ Stop(n) \/ Fail(n)
                         \/ \E p \in Nodes : Hear(n, p)

Spec == Init /\ [][Next]_vars

-----------------------------------------------------------------------------
(* The two ends of an edge are never more than one round apart, although   *)
(* no coordinator paces them.  It follows from the promise, and so holds of*)
(* whatever keeps it.                                                      *)
NeighboursInStep ==
  \A n \in Nodes : \A p \in Neighbours(n) : round[n] <= round[p] + 1
=============================================================================
