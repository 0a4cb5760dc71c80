-------------------------------- MODULE GatePlan -------------------------------
\* The scheduler of a verification plan (gates.py, _run_overlapped_gate_plan): one
\* thread hands commands to worker threads under a limit of jobs and of slots, the
\* serial lane one by one in order, the parallel groups behind each other, and
\* collects what they return. What a thread does with its command is its executor's
\* affair (GateDispatch); here it ends with an outcome.
EXTENDS Naturals, Sequences, FiniteSetsExt
CONSTANTS
  Commands,
  Lane,       \* of each command: 0 the serial lane, otherwise its parallel group
  Rank,       \* its place in the lane: the declared order, or the executor's priority
  Slots,      \* the slots it asks for
  Exclusive,  \* the commands that run alone
  Capacity,   \* slots of the executor
  Workers,    \* parallel_workers
  CollectAll

ASSUME GatePlanAssumption ==
  /\ Lane \in [Commands -> Nat] /\ Rank \in [Commands -> Nat] /\ Slots \in [Commands -> Nat]
  /\ Exclusive \subseteq Commands
  /\ Capacity \in Nat \ {0} /\ Workers \in Nat \ {0} /\ CollectAll \in BOOLEAN

VARIABLES
  waiting,   \* commands not handed out yet
  running,   \* commands handed out and not collected
  outcome,   \* what the thread of a command returned
  cancelled, \* cancel_event, which all threads of the plan share
  halted,    \* stop_dispatch
  fatal,     \* fatal_error: the command whose refusal the plan will raise
  turn       \* where the scheduler is, and whether this turn handed anything out

planVars == <<waiting, running, outcome, cancelled, halted, fatal, turn>>

Returned == {"ok", "failed", "infra", "timeout", "cancelled", "raised"}
Turn(at, progress) == [at |-> at, progress |-> progress]

PlanInit(plan) ==
  /\ waiting = plan /\ running = {}
  /\ outcome = [c \in Commands |-> "none"]
  /\ cancelled = FALSE /\ halted = FALSE /\ fatal = {}
  /\ turn = Turn("serial", "no")

-----------------------------------------------------------------------------
\* Room.

RequiredAsDeclared(c) == Slots[c]
Required(c) == IF Slots[c] = 0 THEN 1 ELSE IF Slots[c] > Capacity THEN Capacity ELSE Slots[c]
Jobs == IF Workers < Capacity THEN Workers ELSE Capacity

\* The slots that a set of commands takes together, one by one.
SlotsTaken(set) == UNION {{c} \X (1..Required(c)) : c \in set}
Used == Cardinality(SlotsTaken(running))
AloneBySlots == TRUE
Alone == running \cap Exclusive = {}
FitsBeside(c) == Used + Required(c) <= Capacity
Fits(c) == FitsBeside(c) /\ (c \in Exclusive => running = {})
Free == Cardinality(running) < Jobs /\ Alone

Of(lane) == {c \in Commands : Lane[c] = lane}
FirstOf(set) == CHOOSE c \in set : \A d \in set : Rank[c] <= Rank[d]

\* group_index: a group is behind us once all its commands were collected.
OpenGroups == {Lane[c] : c \in (waiting \cup running)} \ {0}
HeadGroup == Min(OpenGroups)

-----------------------------------------------------------------------------
\* The scheduler.

HandOut(c) == waiting' = waiting \ {c} /\ running' = running \cup {c}
Scheduling == UNCHANGED <<outcome, cancelled, halted, fatal>>

DispatchSerial ==
  /\ turn.at = "serial"
  /\ LET left == waiting \cap Of(0)
         possible == left # {} /\ running \cap Of(0) = {} /\ Free /\ Fits(FirstOf(left))
     IN  IF ~halted /\ possible
         THEN HandOut(FirstOf(left)) /\ turn' = Turn("groups", "yes")
         ELSE turn' = Turn(IF halted THEN "settle" ELSE "groups", turn.progress) /\ UNCHANGED <<waiting, running>>
  /\ Scheduling

\* The first command of the head group that fits; when none does, one of a later
\* group fills the room, but only while the head group still has commands to hand out.
Candidates ==
  LET pending == waiting \cap Of(HeadGroup)
      fitting(group) == {c \in waiting \cap Of(group) : Fits(c)}
      later == {g \in OpenGroups : g > HeadGroup /\ fitting(g) # {}}
  IN  IF pending = {} THEN {}
      ELSE IF fitting(HeadGroup) # {} THEN fitting(HeadGroup)
      ELSE IF later # {} THEN fitting(Min(later)) ELSE {}

DispatchGroup ==
  /\ turn.at = "groups"
  /\ IF OpenGroups # {} /\ Free /\ Candidates # {}
     THEN HandOut(FirstOf(Candidates)) /\ turn' = Turn("groups", "yes")
     ELSE turn' = Turn("settle", turn.progress) /\ UNCHANGED <<waiting, running>>
  /\ Scheduling

Exhausted == running = {} /\ (halted \/ waiting = {})
Settle ==
  /\ turn.at = "settle"
  /\ turn' = CASE Exhausted -> Turn("ended", "no")
               [] ~Exhausted /\ running = {} /\ turn.progress = "no" -> Turn("stuck", "no")
               [] ~Exhausted /\ turn.progress = "yes" /\ Cardinality(running) < Jobs -> Turn("serial", "no")
               [] OTHER -> Turn("waiting", "no")
  /\ UNCHANGED <<waiting, running>> /\ Scheduling

\* FIRST_COMPLETED: whatever has returned by now is collected together.
Stops(result) == result \in {"infra", "timeout", "cancelled"} \/ (result = "failed" /\ ~CollectAll)
\* The first refusal is kept; of several that are collected together, any one.
Refusing(done) == {{c} : c \in {d \in done : outcome[d] = "raised"}}
KeepsRefusal(done) == IF fatal = {} /\ Refusing(done) # {} THEN Refusing(done) ELSE {fatal}
ForgetsRefusal(done) == IF Refusing(done) # {} THEN Refusing(done) ELSE {{}}
Refusal(done) == KeepsRefusal(done)

Collect ==
  /\ turn.at = "waiting"
  /\ LET done == {c \in running : outcome[c] \in Returned} IN
     /\ done # {}
     /\ running' = running \ done
     /\ halted' = (halted \/ \E c \in done : Stops(outcome[c]) \/ outcome[c] = "raised")
     /\ fatal' \in Refusal(done)
     /\ cancelled' = (cancelled \/ \E c \in done : outcome[c] = "raised")
  /\ turn' = Turn("serial", "no")
  /\ UNCHANGED <<waiting, outcome>>

-----------------------------------------------------------------------------
\* The threads. The supervision of a process sets the event of the whole plan when it
\* gives a command up; a thread that sees the event gives its own command up too.

Busy(c) == c \in running /\ outcome[c] \notin Returned

GiveUp(c) ==
  /\ Busy(c) /\ outcome[c] = "none"
  /\ cancelled' = TRUE /\ outcome' = [outcome EXCEPT ![c] = "expired"]
  /\ UNCHANGED <<waiting, running, halted, fatal, turn>>

MayReturn(c, result) ==
  /\ result = "cancelled" => cancelled
  /\ outcome[c] = "expired" => result \in {"timeout", "raised"}

Return(c, result) ==
  /\ Busy(c) /\ MayReturn(c, result)
  /\ outcome' = [outcome EXCEPT ![c] = result]
  /\ UNCHANGED <<waiting, running, cancelled, halted, fatal, turn>>

Scheduler == DispatchSerial \/ DispatchGroup \/ Settle \/ Collect
Thread(c) == GiveUp(c) \/ \E result \in Returned : Return(c, result)
PlanNext == Scheduler \/ \E c \in Commands : Thread(c)
PlanSpec == PlanInit(Commands) /\ [][PlanNext]_planVars

\* The scheduler is a loop of its own; a command ends by its timeout at the latest.
PlanFairness ==
  /\ WF_planVars(Scheduler)
  /\ \A c \in Commands : WF_planVars(\E result \in Returned : Return(c, result))
PlanLiveSpec == PlanSpec /\ PlanFairness

-----------------------------------------------------------------------------
Ended == turn.at = "ended"
Failures == {c \in Commands : outcome[c] \in Returned \ {"ok", "raised"}}
\* GateResult.ok
Passed == Ended /\ fatal = {} /\ waiting = {} /\ Failures = {}

PlanTypeOK ==
  /\ waiting \subseteq Commands /\ running \subseteq Commands \ waiting
  /\ outcome \in [Commands -> Returned \cup {"none", "expired"}]
  /\ cancelled \in BOOLEAN /\ halted \in BOOLEAN /\ fatal \subseteq Commands
  /\ turn \in [at : {"serial", "groups", "settle", "waiting", "ended", "stuck"}, progress : {"yes", "no"}]

\* What runs together never asks for more than the executor has: not more jobs or
\* slots than there are, one command of the serial lane, and nothing beside an
\* exclusive command, though four places hand commands out (serial, head group,
\* backfill, and the turn after a collection).
RunsTogether ==
  /\ Cardinality(running) <= Jobs /\ Used <= Capacity
  /\ \A c, d \in running : c # d => ~(Lane[c] = 0 /\ Lane[d] = 0) /\ c \notin Exclusive

\* A plan that ends without passing says why: it raises the refusal of a thread, or
\* it reports a failure that is not merely the cancellation one of its peers caused
\* ("Later cancellation errors must not erase its cause", gates.py:2012).
CauseNamed ==
  Ended /\ ~Passed => fatal # {} \/ \E c \in Failures : outcome[c] # "cancelled"

\* A plan comes to its end whatever its commands ask for: the scheduler never finds
\* that it could hand out none of them (gates.py:1993).
PlanEnds == <>Ended
===============================================================================
