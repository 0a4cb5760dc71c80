------------------------------- MODULE MCWorkers -------------------------------
\* The work tree of MCWorkTree, and the slots of a worker. They share no state here: a
\* behaviour is one of the tree or one of the slots.
EXTENDS MCWorkTree, WorkerSlots
CONSTANTS urgent, small, whole, here, there

\* One project asks for urgent and for small work, the other for the whole worker.
ProjectOf == [j \in Leases |-> IF j = whole THEN there ELSE here]
NeedOf == [j \in Leases |-> IF j = whole THEN 2 ELSE 1]
UrgencyOf == [j \in Leases |-> IF j = urgent THEN 0 ELSE 1]

VARIABLE part
everything == <<vars, slotVars, part>>
EitherInit == Init /\ SlotInit /\ part \in {"tree", "slots"}
EitherNext ==
  /\ UNCHANGED part
  /\ \/ part = "tree" /\ Next /\ UNCHANGED slotVars
     \/ part = "slots" /\ SlotNext /\ UNCHANGED vars
EitherSpec == EitherInit /\ [][EitherNext]_everything /\ Fairness /\ SlotFairness
===============================================================================
