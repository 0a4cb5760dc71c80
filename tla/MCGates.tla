-------------------------------- MODULE MCGates --------------------------------
\* Instances of the verification plans and of the cache. The two do not interact here:
\* a behaviour is one of the plans or one of the cache.
EXTENDS GateDispatch, ProofCache, TLC
CONSTANTS a, b, x, y, z,  \* a plan on this machine
          s, t, u,        \* plans on the cluster
          l, v,
          e, f, fs, t1, t2, t3

AllPlans == {{a, b, x, y, z}, {s, t}, {t, u}}
LaneOf == [c \in Commands |-> IF c \in {a, b, s, t} THEN 0 ELSE IF c = z THEN 2 ELSE 1]
RankOf == [c \in Commands |-> IF c \in {b, y, t} THEN 2 ELSE 1]
SlotsOf == [c \in Commands |-> CASE c = a -> 4 [] c = b -> 0 [] c = y -> 2 [] OTHER -> 1]
RoomOf == [w \in Endpoints |-> 1]
AbleTo == [c \in Commands |-> CASE c = s -> {v} [] c = u -> {l} [] OTHER -> Endpoints]

\* Two trees differ in what the command does not read.
ContextOf == e :> Shared @@ f :> fs
ReadsOf == t1 :> 1 @@ t2 :> 1 @@ t3 :> 2

VARIABLE part
gates == <<gateVars, cacheVars, part>>
Init ==
  /\ GateInit /\ DispatchInit /\ CacheInit
  /\ \/ part = "plans" /\ tree = t1
     \/ part = "cache" /\ waiting = {s, t}
Next ==
  /\ UNCHANGED part
  /\ \/ part = "plans" /\ DispatchNext /\ UNCHANGED cacheVars
     \/ part = "cache" /\ CacheNext /\ UNCHANGED gateVars
Spec == Init /\ [][Next]_gates /\ GateFairness
TypesOK == GateTypeOK /\ CacheTypeOK
===============================================================================
