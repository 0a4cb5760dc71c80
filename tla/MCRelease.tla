------------------------------- MODULE MCRelease -------------------------------
\* The deliveries of MCDelivery, the release checks, and the resources of the
\* controller. They share no state here: a behaviour is one of the three.
EXTENDS MCDelivery, ReleaseQueue, Workspaces
CONSTANTS good, bad, root, kid, kin
OneFamily == [i \in Items |-> IF i = root THEN NoItem ELSE root]
Alike == Permutations({kid, kin})

VARIABLE part
everything == <<vars, releaseVars, resourceVars, part>>
EitherInit == Init /\ ReleaseInit /\ ResourceInit /\ part \in {"delivery", "release", "resources"}
EitherNext ==
  /\ UNCHANGED part
  /\ \/ part = "delivery" /\ Next /\ UNCHANGED <<releaseVars, resourceVars>>
     \/ part = "release" /\ ReleaseNext /\ UNCHANGED <<vars, resourceVars>>
     \/ part = "resources" /\ ResourceNext /\ UNCHANGED <<vars, releaseVars>>
EitherSpec == EitherInit /\ [][EitherNext]_everything
TypesOK == TypeOK /\ ReleaseTypeOK /\ ResourceTypeOK
===============================================================================
