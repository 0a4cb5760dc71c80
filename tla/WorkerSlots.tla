------------------------------ MODULE WorkerSlots ------------------------------
\* The slots of one worker (src/auto_agents/workers.py, WorkerSlotLease): commands of
\* several projects, each a process of its own, wait with a ticket in the queue
\* directory, take the slots they need under the allocation lock, and give them back
\* when they end or die.
EXTENDS Integers, Sequences, FiniteSets
LOCAL INSTANCE SequencesExt
LOCAL INSTANCE FiniteSetsExt
CONSTANTS
  Leases,        \* commands that may ask, again and again
  Project,     \* the fairness_key of a command
  Need,        \* the slots it requires
  Urgency,     \* its declared priority, the smallest first
  SlotCount,   \* the slots of the worker
  MaxAge,      \* bound: minutes the oldest ticket waits before time stands still
  MaxLost      \* bound: commands that die

ASSUME SlotAssumption ==
  /\ SlotCount \in Nat \ {0} /\ MaxAge \in Nat \ {0} /\ MaxLost \in Nat
  /\ Urgency \in [Leases -> Nat] /\ Need \in [Leases -> 1..SlotCount]

VARIABLES
  phase,   \* what each command does
  line,    \* the living tickets in the order they were created
  age,     \* their age in whole minutes
  served   \* scheduler.json: the projects in the order they last had a turn
slotVars == <<phase, line, age, served>>

SlotInit ==
  /\ phase = [j \in Leases |-> "idle"] /\ line = <<>> /\ age = [j \in Leases |-> 0] /\ served = <<>>

Queued == {j \in Leases : phase[j] = "waiting"}
Available == SlotCount - MapThenSumSet(LAMBDA j : Need[j], {j \in Leases : phase[j] = "holding"})
Place(s, x) == IF Contains(s, x) THEN CHOOSE n \in DOMAIN s : s[n] = x ELSE 0

\* A ticket gains one step of priority a minute. Among equals goes the project that has
\* had no turn for longest, then the oldest ticket.
Declared(j) == Urgency[j]
Effective(j) == Urgency[j] - age[j]
Precedes(i, j) ==
  LET Key(k) == <<Effective(k), Place(served, Project[k]), Place(line, k)>>
      differs == {n \in 1..3 : Key(i)[n] # Key(j)[n]}
  IN  differs # {} /\ Key(i)[Min(differs)] < Key(j)[Min(differs)]
Foremost(S) == CHOOSE j \in S : \A i \in S \ {j} : Precedes(j, i)

\* Ready work passes work that does not fit, until that has waited a minute: then the
\* worker drains for it.
SlotsSuffice(j) == Need[j] <= Available
DrainsNot == FALSE
Drains == LET first == Foremost(Queued) IN ~SlotsSuffice(first) /\ age[first] >= 1
_queue_turn(j) == /\ ~Drains /\ SlotsSuffice(j) /\ j = Foremost({i \in Queued : SlotsSuffice(i)})

-----------------------------------------------------------------------------
Leaves(j, to) ==
  /\ phase' = [phase EXCEPT ![j] = to]
  /\ line' = SelectSeq(line, LAMBDA i : i # j) /\ age' = [age EXCEPT ![j] = 0]

Ask(j) ==
  /\ phase[j] = "idle" /\ phase' = [phase EXCEPT ![j] = "waiting"]
  /\ line' = Append(line, j) /\ UNCHANGED <<age, served>>

Acquires(j) ==
  /\ j \in Queued /\ _queue_turn(j)
  /\ Leaves(j, "holding")
  /\ served' = Append(SelectSeq(served, LAMBDA p : p # Project[j]), Project[j])

\* Cancelled, or its time to wait is over.
Withdraws(j) == phase[j] = "waiting" /\ Leaves(j, "idle") /\ UNCHANGED served

Frees(j) == phase[j] = "holding" /\ phase' = [phase EXCEPT ![j] = "idle"] /\ UNCHANGED <<line, age, served>>

\* The locks of a dead process are free; the next turn removes its ticket.
Lost(j) ==
  /\ Cardinality({i \in Leases : phase[i] = "dead"}) < MaxLost
  /\ phase[j] # "dead" /\ Leaves(j, "dead") /\ UNCHANGED served

Minute ==
  /\ Queued # {} /\ \A j \in Queued : age[j] < MaxAge
  /\ age' = [j \in Leases |-> IF j \in Queued THEN age[j] + 1 ELSE 0]
  /\ UNCHANGED <<phase, line, served>>

SlotNext == Minute \/ \E j \in Leases : Ask(j) \/ Acquires(j) \/ Withdraws(j) \/ Frees(j) \/ Lost(j)

\* A ticket polls every 0.2 s, a command that holds slots has a timeout, and time passes.
SlotFairness ==
  /\ WF_slotVars(Minute)
  /\ \A j \in Leases : WF_slotVars(Acquires(j)) /\ WF_slotVars(Frees(j))

-----------------------------------------------------------------------------
\* Neither urgent commands that come again and again, nor small ones beside one that
\* needs the whole worker, keep a command waiting for ever.
EveryoneServed == \A j \in Leases : phase[j] = "waiting" ~> phase[j] # "waiting"
===============================================================================
