------------------------------- MODULE GateProofs ------------------------------
\* What the verification plans and the cache keep for every set of commands, endpoints
\* and trees: room is never overbooked, a failed plan names a cause, nothing is started
\* beside a job known to be unfinished, the serial lane stays where it has passed, and a
\* replay is sound; each under the conditions its property states.
EXTENDS GateDispatch, ProofCache, FiniteSetTheorems, SequenceTheorems, WellFoundedInduction, TLAPS

-----------------------------------------------------------------------------
\* The inductive invariant of the plans.

Outcomes == Returned \cup {"none", "expired"}
Attempting == {"local", "submit", "poll"}
Places == {"idle", "acquire", "repair", "done"} \cup Attempting
Tasks == [at : Places, pass : Passes, end : Endpoints \cup {None}, tried : SUBSET Endpoints, left : 0..RetryLimit]
JobType == [end : Endpoints \ Local, by : Passes, reply : {"got", "lost"},
            thread : {"queued", "running", "ended", "lost"},
            record : {"staging", "running", "requested", "cancelled", "incomplete", "terminal"},
            result : {"none", "ok", "failed", "reported", "infra", "cancelled", "timeout"},
            cancel : {"no", "done"} \cup Cancelling, group : {"none", "alive", "gone"}]
Lanes == [end : Endpoints \cup {None}, wins : SUBSET Endpoints]

Shape ==
  /\ PlanTypeOK /\ IsFiniteSet(running) /\ IsFiniteSet(SlotsTaken(running))
  /\ task \in [Distributed -> Tasks] /\ jobs \in [Distributed -> Seq(JobType)]
  /\ lane \in Lanes /\ faults \in 0..MaxFaults

\* What the plan has seen: an outcome is of a command that was handed out, a refusal is
\* in flight or kept, a plan halts and ends for a reason.
Stopping == {"infra", "timeout", "cancelled", "failed"}
Planned ==
  /\ \A c \in waiting : outcome[c] = "none"
  /\ \A c \in Commands : outcome[c] = "expired" => c \in running
  /\ \A c \in Commands : outcome[c] = "raised" => c \in running \/ fatal # {}
  /\ \A c \in Commands : outcome[c] = "cancelled" => cancelled
  /\ halted => fatal # {} \/ \E c \in Commands : outcome[c] \in Stopping
  /\ turn.at = "ended" => running = {} /\ (halted \/ waiting = {})

\* The event was set by a command that gave up or refused, and that is on record.
Guilty == {"expired", "timeout", "infra", "raised"}
AnyRetried == \E c \in Distributed : Retried(c)
Caused == cancelled /\ ~AnyRetried => fatal # {} \/ \E c \in Commands : outcome[c] \in Guilty

\* A thread that attempts something is busy and holds an endpoint, and the serial lane
\* is where its command is. A command that was given up still runs.
Tasked(c) ==
  /\ task[c].at \in Attempting <=> task[c].end # None
  /\ task[c].at \notin {"idle", "done"} => Busy(c)
  /\ task[c].at = "repair" => task[c].pass = "repair"
  /\ task[c].at = "submit" => task[c].end \notin Local
  /\ task[c].at = "poll" => jobs[c] # <<>> /\ jobs[c][Last(c)].by = task[c].pass
  /\ outcome[c] = "expired" => task[c].at = "local"
  /\ Serial(c) /\ task[c].end # None => lane.end = task[c].end

\* The record of a job: a terminal one is of a thread that has ended; cancellation is by
\* the event.
Recorded(job) ==
  /\ job.record = "terminal" => job.thread = "ended" /\ job.result # "none"
  /\ job.record \in {"cancelled", "incomplete"} => job.cancel = "done"
  /\ job.cancel # "no" \/ job.result = "cancelled" => cancelled

\* Where the thread of a command is while a job of it is not ended that the worker is
\* known to have accepted: it polls that job, is through, repairs blindly, or is about
\* to see the cancellation.
Known(c, n) == Unfinished(jobs[c][n]) /\ jobs[c][n].reply = "got"
Watched(c, n) ==
  \/ task[c].at = "poll" /\ n = Len(jobs[c])
  \/ task[c].at = "done" \/ Blind(task[c].pass, jobs[c][n])
  \/ task[c].at = "acquire" /\ cancelled /\ ~Pinned(c)
LaterEnded(c, n) ==
  \A m \in DOMAIN jobs[c] : m > n /\ ~Blind(jobs[c][m].by, jobs[c][n]) => ~LiveJob(jobs[c][m])
Alive(c) == \A n \in DOMAIN jobs[c] : Known(c, n) => Watched(c, n) /\ LaterEnded(c, n)

Own(c) == Tasked(c) /\ Alive(c) /\ \A n \in DOMAIN jobs[c] : Recorded(jobs[c][n])
Dispatched == \A c \in Distributed : Own(c)

GateInv == Shape /\ RunsTogether /\ Planned /\ Caused /\ Dispatched /\ LaneStays

-----------------------------------------------------------------------------
\* Room.

LEMMA RequiredFits == \A c \in Commands : Required(c) \in 1..Capacity
<1> TAKE c \in Commands
<1>1. Slots[c] \in Nat /\ Capacity \in Nat \ {0}
  BY GatePlanAssumption
<1> QED
  BY <1>1 DEF Required
LEMMA JobsPositive == Jobs \in Nat
BY GatePlanAssumption DEF Jobs

\* The slots of one more command come on top of the others.
LEMMA SlotsAdded ==
  ASSUME NEW set, set \subseteq Commands, IsFiniteSet(SlotsTaken(set)), NEW c \in Commands, c \notin set
  PROVE  /\ IsFiniteSet(SlotsTaken(set \cup {c}))
         /\ Cardinality(SlotsTaken(set \cup {c})) = Cardinality(SlotsTaken(set)) + Required(c)
<1> DEFINE own == {c} \X (1..Required(c))
<1>1. SlotsTaken(set \cup {c}) = SlotsTaken(set) \cup own
  BY DEF SlotsTaken
<1>2. SlotsTaken(set) \cap own = {}
  <2> SUFFICES ASSUME NEW x \in SlotsTaken(set), x \in own PROVE FALSE
    OBVIOUS
  <2>1. PICK d \in set : x \in {d} \X (1..Required(d))
    BY DEF SlotsTaken
  <2> QED
    BY <2>1
<1>3. Required(c) \in Nat /\ Required(c) >= 1
  BY RequiredFits, GatePlanAssumption
<1>4. IsFiniteSet(1..Required(c)) /\ Cardinality(1..Required(c)) = Required(c)
  BY <1>3, FS_Interval
<1>5. IsFiniteSet({c}) /\ Cardinality({c}) = 1
  BY FS_Singleton
<1>6. IsFiniteSet(own) /\ Cardinality(own) = Cardinality({c}) * Cardinality(1..Required(c))
  BY <1>4, <1>5, FS_Product, Zenon
<1> HIDE DEF own
<1>7. /\ IsFiniteSet(SlotsTaken(set) \cup own)
      /\ Cardinality(SlotsTaken(set) \cup own) = Cardinality(SlotsTaken(set)) + Cardinality(own) - Cardinality({})
  BY <1>2, <1>6, FS_Union
<1>8. Cardinality({}) = 0 /\ Cardinality(SlotsTaken(set)) \in Nat
  BY FS_EmptySet, FS_CardinalityType
<1>9. Cardinality(own) = Required(c)
  <2>1. Cardinality(own) = 1 * Required(c)
    BY <1>4, <1>5, <1>6
  <2> QED
    BY <1>3, <2>1
<1>10. Cardinality(SlotsTaken(set) \cup own) = Cardinality(SlotsTaken(set)) + Required(c)
  BY <1>3, <1>7, <1>8, <1>9
<1> QED
  BY <1>1, <1>7, <1>10

LEMMA SlotsDropped ==
  ASSUME NEW set, NEW fewer \in SUBSET set, IsFiniteSet(SlotsTaken(set))
  PROVE  IsFiniteSet(SlotsTaken(fewer)) /\ Cardinality(SlotsTaken(fewer)) <= Cardinality(SlotsTaken(set))
<1>1. SlotsTaken(fewer) \in SUBSET SlotsTaken(set)
  BY DEF SlotsTaken
<1> QED
  BY <1>1, FS_Subset

\* The least of some natural numbers, and the first of some commands, are among them.
LEMMA LeastOf == ASSUME NEW set, set \subseteq Nat, set # {} PROVE \E n \in set : \A m \in set : n <= m
<1>1. PICK n \in set : \A m \in set : ~(<<m, n>> \in OpToRel(<, Nat))
  <2>1. IsWellFoundedOn(OpToRel(<, Nat), Nat)
    BY NatLessThanWellFounded
  <2> QED
    BY <2>1, WFMin
<1>2. \A r \in Nat \X Nat : r[1] < r[2] => r \in OpToRel(<, Nat)
  BY Zenon DEF OpToRel
<1>3. \A m \in Nat : m < n => <<m, n>> \in OpToRel(<, Nat)
  BY <1>2
<1>4. \A m \in set : m \in Nat /\ n \in Nat /\ ~(m < n)
  BY <1>1, <1>3
<1>5. \A m \in set : n <= m
  BY <1>4
<1> QED
  BY <1>5
LEMMA MinIn == ASSUME NEW set, set \subseteq Nat, set # {} PROVE Min(set) \in set
BY LeastOf DEF Min
LEMMA FirstIn == ASSUME NEW set, set \subseteq Commands, set # {} PROVE FirstOf(set) \in set
<1> DEFINE ranks == {Rank[c] : c \in set}
<1>1. ranks \subseteq Nat /\ ranks # {}
  BY GatePlanAssumption
<1>2. PICK r \in ranks : \A q \in ranks : r <= q
  BY <1>1, LeastOf
<1>3. \E c \in set : \A d \in set : Rank[c] <= Rank[d]
  BY <1>2
<1> QED
  BY <1>3 DEF FirstOf

\* Running fewer commands keeps the room.
LEMMA RoomKeptByFewer ==
  ASSUME Shape, RunsTogether, running' \subseteq running
  PROVE  RunsTogether' /\ IsFiniteSet(running') /\ IsFiniteSet(SlotsTaken(running'))
<1>1. IsFiniteSet(running) /\ IsFiniteSet(SlotsTaken(running))
  BY DEF Shape
<1>2. running' \in SUBSET running
  OBVIOUS
<1>3. IsFiniteSet(running') /\ Cardinality(running') <= Cardinality(running)
  BY <1>1, <1>2, FS_Subset
<1>4. IsFiniteSet(SlotsTaken(running')) /\ Cardinality(SlotsTaken(running')) <= Cardinality(SlotsTaken(running))
  BY <1>1, <1>2, SlotsDropped
<1>5. /\ Cardinality(running) \in Nat /\ Cardinality(running') \in Nat
      /\ Cardinality(SlotsTaken(running)) \in Nat /\ Cardinality(SlotsTaken(running')) \in Nat
  BY <1>1, <1>3, <1>4, FS_CardinalityType
<1>6. Cardinality(running) <= Jobs /\ Cardinality(SlotsTaken(running)) <= Capacity
  BY DEF RunsTogether, Used
<1>7. Cardinality(running') <= Jobs /\ Cardinality(SlotsTaken(running')) <= Capacity
  BY <1>3, <1>4, <1>5, <1>6, JobsPositive, GatePlanAssumption
<1>8. \A c, d \in running' : c # d => ~(Lane[c] = 0 /\ Lane[d] = 0) /\ c \notin Exclusive
  BY DEF RunsTogether
<1> QED
  BY <1>3, <1>4, <1>7, <1>8 DEF RunsTogether, Used, Jobs

\* So does handing out a command that fits, when a job is free and it is the only one
\* of the serial lane.
LEMMA RoomKeptByOne ==
  ASSUME Shape, RunsTogether, NEW c \in waiting, Free, Fits(c), running' = running \cup {c},
         Lane[c] = 0 => running \cap Of(0) = {}
  PROVE  RunsTogether' /\ IsFiniteSet(running') /\ IsFiniteSet(SlotsTaken(running'))
<1>1. IsFiniteSet(running) /\ IsFiniteSet(SlotsTaken(running)) /\ c \in Commands /\ c \notin running
      /\ running \subseteq Commands
  BY DEF Shape, PlanTypeOK
<1>2. IsFiniteSet(running') /\ Cardinality(running') = Cardinality(running) + 1
  BY <1>1, FS_AddElement
<1>3. IsFiniteSet(SlotsTaken(running')) /\ Cardinality(SlotsTaken(running')) = Cardinality(SlotsTaken(running)) + Required(c)
  BY <1>1, SlotsAdded
<1>4. Cardinality(running) < Jobs /\ Cardinality(running) \in Nat
  BY <1>1, FS_CardinalityType DEF Free
<1>5. Cardinality(SlotsTaken(running)) + Required(c) <= Capacity
  BY DEF Fits, FitsBeside, Used
<1>6. Cardinality(running') <= Jobs /\ Cardinality(SlotsTaken(running')) <= Capacity
  BY <1>2, <1>3, <1>4, <1>5, JobsPositive
<1>7. \A d \in running : ~(Lane[c] = 0 /\ Lane[d] = 0) /\ c \notin Exclusive /\ d \notin Exclusive
  BY <1>1 DEF Free, Alone, Fits, Of
<1>8. \A d, e \in running' : d # e => ~(Lane[d] = 0 /\ Lane[e] = 0) /\ d \notin Exclusive
  <2> TAKE d, e \in running'
  <2>1. CASE d \in running /\ e \in running
    BY <2>1 DEF RunsTogether
  <2>2. CASE d = c \/ e = c
    BY <1>7, <2>2
  <2> QED
    BY <2>1, <2>2
<1> QED
  BY <1>2, <1>3, <1>6, <1>8 DEF RunsTogether, Used, Jobs

-----------------------------------------------------------------------------
\* The scheduler.

\* A step that leaves the controllers alone and takes no busy command from them.
LEMMA ControllersKept ==
  ASSUME Shape, Dispatched, LaneStays, UNCHANGED <<task, jobs, lane>>, cancelled => cancelled',
         \A c \in Distributed : (Busy(c) => Busy(c)') /\ (outcome'[c] = "expired" => outcome[c] = "expired")
  PROVE  Dispatched' /\ LaneStays'
<1>1. LaneStays'
  BY DEF LaneStays
<1>2. ASSUME NEW c \in Distributed PROVE Own(c)'
  <2>1. Own(c) /\ (Busy(c) => Busy(c)') /\ (outcome'[c] = "expired" => outcome[c] = "expired")
    BY <1>2 DEF Dispatched
  <2>2. Tasked(c)'
    BY <2>1 DEF Own, Tasked, Serial, Last
  <2>3. \A n \in DOMAIN jobs[c] : Known(c, n)' => Known(c, n)
    BY DEF Known
  <2>4. \A n \in DOMAIN jobs[c] : Watched(c, n) => Watched(c, n)'
    BY DEF Watched, Pinned, Serial
  <2>5. \A n \in DOMAIN jobs[c] : LaterEnded(c, n) => LaterEnded(c, n)'
    BY DEF LaterEnded
  <2>6. Alive(c)'
    BY <2>1, <2>3, <2>4, <2>5 DEF Own, Alive
  <2>7. \A n \in DOMAIN jobs[c] : Recorded(jobs[c][n])'
    BY <2>1 DEF Own, Recorded
  <2> QED
    BY <2>2, <2>6, <2>7 DEF Own
<1> QED
  BY <1>1, <1>2 DEF Dispatched

\* What hands commands out or goes to another place of the scheduler.
LEMMA ScheduleKept ==
  ASSUME GateInv, UNCHANGED dispatchVars, Scheduling,
         turn' \in [at : {"serial", "groups", "settle", "waiting", "ended", "stuck"}, progress : {"yes", "no"}],
         turn'.at = "ended" => running' = {} /\ (halted \/ waiting' = {}),
         \/ UNCHANGED <<waiting, running>>
         \/ \E c \in waiting : HandOut(c) /\ Free /\ Fits(c) /\ (Lane[c] = 0 => running \cap Of(0) = {})
  PROVE  GateInv'
<1> USE DEF GateInv
<1>1. RunsTogether' /\ IsFiniteSet(running') /\ IsFiniteSet(SlotsTaken(running'))
  <2>1. CASE UNCHANGED <<waiting, running>>
    BY <2>1, RoomKeptByFewer
  <2>2. CASE \E c \in waiting : HandOut(c) /\ Free /\ Fits(c) /\ (Lane[c] = 0 => running \cap Of(0) = {})
    BY <2>2, RoomKeptByOne DEF HandOut
  <2> QED
    BY <2>1, <2>2
<1>2. running \subseteq running' /\ waiting' \subseteq waiting /\ running' \subseteq Commands \ waiting'
  BY DEF HandOut, Shape, PlanTypeOK
<1>3. UNCHANGED <<task, jobs, lane, faults>> /\ UNCHANGED <<outcome, cancelled, halted, fatal>>
  BY DEF dispatchVars, Scheduling
<1>4. PlanTypeOK'
  BY <1>2, <1>3 DEF Shape, PlanTypeOK
<1>5. Shape'
  BY <1>1, <1>3, <1>4 DEF Shape
<1>6. Planned'
  BY <1>2, <1>3 DEF Planned
<1>7. Caused'
  BY <1>3 DEF Caused, AnyRetried, Retried
<1>8. \A c \in Distributed : Busy(c) => Busy(c)'
  BY <1>2, <1>3 DEF Busy
<1>9. Dispatched' /\ LaneStays'
  BY <1>3, <1>8, ControllersKept
<1> QED
  BY <1>1, <1>5, <1>6, <1>7, <1>9

LEMMA SerialStep == ASSUME GateInv, DispatchSerial, UNCHANGED dispatchVars PROVE GateInv'
<1> DEFINE left == waiting \cap Of(0)
<1>1. turn.progress \in {"yes", "no"} /\ waiting \subseteq Commands
  BY DEF GateInv, Shape, PlanTypeOK
<1>2. Scheduling
  BY DEF DispatchSerial
<1>3. CASE left # {} /\ running \cap Of(0) = {} /\ Free /\ Fits(FirstOf(left)) /\ ~halted
  <2>1. HandOut(FirstOf(left)) /\ turn' = Turn("groups", "yes")
    BY <1>3 DEF DispatchSerial
  <2>2. FirstOf(left) \in waiting
    BY <1>1, <1>3, FirstIn
  <2>3. \E c \in waiting : HandOut(c) /\ Free /\ Fits(c) /\ (Lane[c] = 0 => running \cap Of(0) = {})
    BY <1>3, <2>1, <2>2
  <2> QED
    BY <1>2, <2>1, <2>3, ScheduleKept DEF Turn
<1>4. CASE ~(left # {} /\ running \cap Of(0) = {} /\ Free /\ Fits(FirstOf(left)) /\ ~halted)
  <2>1. turn' = Turn(IF halted THEN "settle" ELSE "groups", turn.progress) /\ UNCHANGED <<waiting, running>>
    BY <1>4 DEF DispatchSerial
  <2> QED
    BY <1>1, <1>2, <2>1, ScheduleKept DEF Turn
<1> QED
  BY <1>3, <1>4

LEMMA GroupStep == ASSUME GateInv, DispatchGroup, UNCHANGED dispatchVars PROVE GateInv'
<1>1. turn.progress \in {"yes", "no"} /\ waiting \subseteq Commands /\ running \subseteq Commands
  BY DEF GateInv, Shape, PlanTypeOK
<1>2. Scheduling
  BY DEF DispatchGroup
<1>3. CASE OpenGroups # {} /\ Free /\ Candidates # {}
  <2>1. HandOut(FirstOf(Candidates)) /\ turn' = Turn("groups", "yes")
    BY <1>3 DEF DispatchGroup
  <2>2. OpenGroups \subseteq Nat \ {0}
    BY <1>1, GatePlanAssumption DEF OpenGroups
  <2>3. HeadGroup \in Nat \ {0}
    BY <1>3, <2>2, MinIn DEF HeadGroup
  <2> DEFINE fitting(group) == {c \in waiting \cap Of(group) : Fits(c)}
             later == {g \in OpenGroups : g > HeadGroup /\ fitting(g) # {}}
  <2>4. later # {} => Min(later) \in Nat \ {0}
    BY <2>2, MinIn
  <2>5. \E g \in Nat \ {0} : Candidates = fitting(g)
    BY <1>3, <2>3, <2>4 DEF Candidates
  <2>6. FirstOf(Candidates) \in Candidates
    BY <1>1, <1>3, <2>5, FirstIn
  <2>7. \E c \in waiting : HandOut(c) /\ Free /\ Fits(c) /\ (Lane[c] = 0 => running \cap Of(0) = {})
    BY <1>3, <2>1, <2>5, <2>6 DEF Of
  <2> QED
    BY <1>2, <2>1, <2>7, ScheduleKept DEF Turn
<1>4. CASE ~(OpenGroups # {} /\ Free /\ Candidates # {})
  <2>1. turn' = Turn("settle", turn.progress) /\ UNCHANGED <<waiting, running>>
    BY <1>4 DEF DispatchGroup
  <2> QED
    BY <1>1, <1>2, <2>1, ScheduleKept DEF Turn
<1> QED
  BY <1>3, <1>4

LEMMA SettleStep == ASSUME GateInv, Settle, UNCHANGED dispatchVars PROVE GateInv'
<1>1. Scheduling /\ UNCHANGED <<waiting, running>>
  BY DEF Settle
<1>2. \/ Exhausted /\ turn' = Turn("ended", "no")
      \/ turn' \in {Turn("stuck", "no"), Turn("serial", "no"), Turn("waiting", "no")}
  BY DEF Settle
<1> QED
  BY <1>1, <1>2, ScheduleKept DEF Turn, Exhausted

LEMMA CollectStep == ASSUME GateInv, Collect, UNCHANGED dispatchVars PROVE GateInv'
<1> USE DEF GateInv
<1> DEFINE done == {c \in running : outcome[c] \in Returned}
<1>1. /\ running' = running \ done /\ UNCHANGED <<waiting, outcome, task, jobs, lane, faults>>
      /\ turn' = Turn("serial", "no")
      /\ halted' = (halted \/ \E c \in done : Stops(outcome[c]) \/ outcome[c] = "raised")
      /\ fatal' \in SUBSET Commands /\ (fatal' # {} <=> fatal # {} \/ \E c \in done : outcome[c] = "raised")
      /\ cancelled' = (cancelled \/ \E c \in done : outcome[c] = "raised")
  <2>1. /\ running' = running \ done /\ UNCHANGED <<waiting, outcome, task, jobs, lane, faults>>
        /\ turn' = Turn("serial", "no")
        /\ halted' = (halted \/ \E c \in done : Stops(outcome[c]) \/ outcome[c] = "raised")
        /\ cancelled' = (cancelled \/ \E c \in done : outcome[c] = "raised")
        /\ fatal' \in KeepsRefusal(done)
    BY DEF Collect, dispatchVars, Refusal
  <2>2. fatal \subseteq Commands /\ done \subseteq Commands
    BY DEF Shape, PlanTypeOK
  <2>3. CASE fatal = {} /\ Refusing(done) # {}
    <3>1. PICK c \in done : outcome[c] = "raised" /\ fatal' = {c}
      BY <2>1, <2>3 DEF KeepsRefusal, Refusing
    <3> QED
      BY <2>1, <2>2, <3>1
  <2>4. CASE ~(fatal = {} /\ Refusing(done) # {})
    <3>1. fatal' = fatal
      BY <2>1, <2>4 DEF KeepsRefusal
    <3>2. fatal # {} \/ ~\E c \in done : outcome[c] = "raised"
      BY <2>4 DEF Refusing
    <3> QED
      BY <2>1, <2>2, <3>1, <3>2
  <2> QED
    BY <2>3, <2>4
<1>2. RunsTogether' /\ IsFiniteSet(running') /\ IsFiniteSet(SlotsTaken(running'))
  BY <1>1, RoomKeptByFewer
<1>3. done \subseteq Commands /\ running \subseteq Commands
  BY DEF Shape, PlanTypeOK
<1>4. halted' \in BOOLEAN /\ fatal' \subseteq Commands /\ cancelled' \in BOOLEAN
  BY <1>1 DEF Shape, PlanTypeOK
<1>5. PlanTypeOK'
  BY <1>1, <1>4 DEF Shape, PlanTypeOK, Turn
<1>6. Shape'
  BY <1>1, <1>2, <1>5 DEF Shape
<1>7. cancelled => cancelled'
  BY <1>1
<1>8. \A c \in done : Stops(outcome[c]) => outcome[c] \in Stopping
  BY DEF Stops, Stopping
<1>9. Planned'
  <2>1. \A c \in Commands : outcome'[c] = "expired" => c \in running'
    BY <1>1 DEF Planned, Returned
  <2>2. \A c \in Commands : outcome'[c] = "raised" => c \in running' \/ fatal' # {}
    BY <1>1 DEF Planned, Returned
  <2>3. halted' => fatal' # {} \/ \E c \in Commands : outcome'[c] \in Stopping
    BY <1>1, <1>3, <1>8 DEF Planned
  <2> QED
    BY <1>1, <1>7, <2>1, <2>2, <2>3 DEF Planned, Turn
<1>10. Caused'
  BY <1>1 DEF Caused, AnyRetried, Retried
<1>11. \A c \in Distributed : Busy(c) => Busy(c)'
  BY <1>1 DEF Busy
<1>12. Dispatched' /\ LaneStays'
  BY <1>1, <1>7, <1>11, ControllersKept
<1> QED
  BY <1>2, <1>6, <1>9, <1>10, <1>12

-----------------------------------------------------------------------------
\* The threads, as the plan sees them.

\* A thread gives its result, or forgets that an attempt was given up; only a busy one
\* does, and it is not waiting.
LEMMA ResultGiven ==
  ASSUME GateInv, NEW c \in Commands, Busy(c), NEW result \in Returned \cup {"none"}, result = "cancelled" => cancelled,
         outcome' = [outcome EXCEPT ![c] = result], Threading
  PROVE  PlanTypeOK' /\ RunsTogether' /\ IsFiniteSet(running') /\ IsFiniteSet(SlotsTaken(running')) /\ Planned'
<1> USE DEF GateInv
<1>1. UNCHANGED <<waiting, running, cancelled, halted, fatal, turn>>
  BY DEF Threading
<1>2. outcome \in [Commands -> Returned \cup {"none", "expired"}] /\ c \in running /\ c \notin waiting
      /\ outcome[c] \notin Returned /\ waiting \subseteq Commands
  BY DEF Shape, PlanTypeOK, Busy
<1>3. PlanTypeOK'
  BY <1>1, <1>2 DEF Shape, PlanTypeOK
<1>4. RunsTogether' /\ IsFiniteSet(running') /\ IsFiniteSet(SlotsTaken(running'))
  BY <1>1, RoomKeptByFewer
<1>5. outcome'[c] = result /\ \A d \in Commands \ {c} : outcome'[d] = outcome[d]
  BY <1>2
<1>6. result # "expired" /\ (result \in Returned => result # "none")
  BY DEF Returned
<1>7. halted' => fatal' # {} \/ \E d \in Commands : outcome'[d] \in Stopping
  <2>1. \A d \in Commands : outcome[d] \in Stopping => outcome'[d] \in Stopping
    BY <1>2, <1>5 DEF Stopping, Returned
  <2> QED
    BY <1>1, <2>1 DEF Planned
<1>8. Planned'
  BY <1>1, <1>2, <1>5, <1>6, <1>7 DEF Planned
<1> QED
  BY <1>3, <1>4, <1>8

\* The supervision gives a command up.
LEMMA GivenUp ==
  ASSUME GateInv, NEW c \in Commands, GiveUp(c)
  PROVE  /\ PlanTypeOK' /\ RunsTogether' /\ IsFiniteSet(running') /\ IsFiniteSet(SlotsTaken(running'))
         /\ Planned' /\ outcome'[c] = "expired" /\ Busy(c)' /\ (\A d \in Commands \ {c} : outcome'[d] = outcome[d])
<1> USE DEF GateInv
<1>1. UNCHANGED <<waiting, running, halted, fatal, turn>> /\ cancelled' = TRUE
      /\ outcome' = [outcome EXCEPT ![c] = "expired"] /\ outcome[c] = "none" /\ c \in running
  BY DEF GiveUp, Busy
<1>2. outcome \in [Commands -> Returned \cup {"none", "expired"}] /\ waiting \subseteq Commands /\ c \notin waiting
  BY <1>1 DEF Shape, PlanTypeOK
<1>3. PlanTypeOK'
  BY <1>1, <1>2 DEF Shape, PlanTypeOK
<1>4. RunsTogether' /\ IsFiniteSet(running') /\ IsFiniteSet(SlotsTaken(running'))
  BY <1>1, RoomKeptByFewer
<1>5. outcome'[c] = "expired" /\ \A d \in Commands \ {c} : outcome'[d] = outcome[d]
  BY <1>1, <1>2
<1>6. halted' => fatal' # {} \/ \E d \in Commands : outcome'[d] \in Stopping
  <2>1. \A d \in Commands : outcome[d] \in Stopping => outcome'[d] \in Stopping
    BY <1>1, <1>5 DEF Stopping
  <2> QED
    BY <1>1, <2>1 DEF Planned
<1>7. Planned'
  BY <1>1, <1>2, <1>5, <1>6 DEF Planned
<1>8. Busy(c)'
  BY <1>1, <1>5 DEF Busy, Returned
<1> QED
  BY <1>3, <1>4, <1>5, <1>7, <1>8

LEMMA GiveUpStep ==
  ASSUME GateInv, NEW c \in Commands, GiveUp(c), UNCHANGED dispatchVars,
         c \in Distributed => task[c].at = "local"
  PROVE  GateInv'
<1> USE DEF GateInv
<1>1. UNCHANGED <<task, jobs, lane, faults>> /\ cancelled' = TRUE /\ running' = running
  BY DEF dispatchVars, GiveUp
<1>2. /\ PlanTypeOK' /\ RunsTogether' /\ IsFiniteSet(running') /\ IsFiniteSet(SlotsTaken(running'))
      /\ Planned' /\ outcome'[c] = "expired" /\ Busy(c)' /\ (\A d \in Commands \ {c} : outcome'[d] = outcome[d])
  BY GivenUp
<1>3. Shape'
  BY <1>1, <1>2 DEF Shape
<1>4. Caused'
  BY <1>2 DEF Caused, Guilty
<1>5. LaneStays'
  BY <1>1 DEF LaneStays
<1>6. ASSUME NEW d \in Distributed PROVE Own(d)'
  <2>1. Own(d) /\ d \in Commands
    BY <1>6, GateDispatchAssumption DEF Dispatched
  <2>2. Busy(d) => Busy(d)'
    BY <1>1, <1>2, <2>1 DEF Busy
  <2>3. outcome'[d] = "expired" => outcome[d] = "expired" \/ task[d].at = "local"
    BY <1>2, <2>1
  <2>4. Tasked(d)'
    BY <1>1, <2>1, <2>2, <2>3 DEF Own, Tasked, Serial, Last
  <2>5. \A n \in DOMAIN jobs[d] : Known(d, n)' => Known(d, n)
    BY <1>1 DEF Known
  <2>6. \A n \in DOMAIN jobs[d] : Watched(d, n) => Watched(d, n)'
    BY <1>1 DEF Watched, Pinned, Serial
  <2>7. \A n \in DOMAIN jobs[d] : LaterEnded(d, n) => LaterEnded(d, n)'
    BY <1>1 DEF LaterEnded
  <2>8. Alive(d)'
    BY <1>1, <2>1, <2>5, <2>6, <2>7 DEF Own, Alive
  <2>9. \A n \in DOMAIN jobs[d] : Recorded(jobs[d][n])'
    BY <1>1, <2>1 DEF Own, Recorded
  <2> QED
    BY <1>1, <2>4, <2>8, <2>9 DEF Own
<1> QED
  BY <1>2, <1>3, <1>4, <1>5, <1>6 DEF Dispatched

\* Given up, a command of a plan on this machine returns a timeout or is refused.
LEMMA ReturnStep ==
  ASSUME GateInv, NEW c \in Commands \ Distributed, NEW result \in Returned, Return(c, result), UNCHANGED dispatchVars
  PROVE  GateInv'
<1> USE DEF GateInv
<1>1. UNCHANGED <<task, jobs, lane, faults>> /\ UNCHANGED <<running, cancelled, fatal>>
  BY DEF dispatchVars, Return
<1>2. Busy(c) /\ outcome' = [outcome EXCEPT ![c] = result] /\ Threading /\ (result = "cancelled" => cancelled)
      /\ (outcome[c] = "expired" => result \in {"timeout", "raised"})
  BY DEF Return, MayReturn, Threading
<1>3. PlanTypeOK' /\ RunsTogether' /\ IsFiniteSet(running') /\ IsFiniteSet(SlotsTaken(running')) /\ Planned'
  BY <1>2, ResultGiven
<1>4. Shape'
  BY <1>1, <1>3 DEF Shape
<1>5. outcome'[c] = result /\ \A d \in Commands \ {c} : outcome'[d] = outcome[d]
  BY <1>2 DEF Shape, PlanTypeOK
<1>6. \A d \in Commands : outcome[d] \in Guilty => outcome'[d] \in Guilty
  BY <1>2, <1>5 DEF Guilty, Busy, Returned
<1>7. Caused'
  BY <1>1, <1>6 DEF Caused, AnyRetried, Retried
<1>8. \A d \in Distributed : (Busy(d) => Busy(d)') /\ (outcome'[d] = "expired" => outcome[d] = "expired")
  BY <1>1, <1>5, GateDispatchAssumption DEF Busy
<1>9. Dispatched' /\ LaneStays'
  BY <1>1, <1>8, ControllersKept
<1> QED
  BY <1>3, <1>4, <1>7, <1>9

-----------------------------------------------------------------------------
\* The controllers.

\* What the thread of one command does is not seen by the others, not even in the
\* serial lane: at most one of its commands runs.
LEMMA OthersKept ==
  ASSUME GateInv, NEW c \in Distributed, Busy(c), UNCHANGED <<running, cancelled>>, Serial(c) \/ lane' = lane,
         \A d \in Distributed \ {c} : task'[d] = task[d] /\ jobs'[d] = jobs[d] /\ outcome'[d] = outcome[d]
  PROVE  \A d \in Distributed \ {c} : Own(d)'
<1> USE DEF GateInv
<1> SUFFICES ASSUME NEW d \in Distributed \ {c} PROVE Own(d)'
  OBVIOUS
<1>1. Own(d) /\ task'[d] = task[d] /\ jobs'[d] = jobs[d] /\ outcome'[d] = outcome[d]
  BY DEF Dispatched
<1>2. Busy(d)' <=> Busy(d)
  BY <1>1 DEF Busy
<1>3. Serial(d) /\ Busy(d) => lane' = lane
  BY DEF RunsTogether, Serial, Busy
<1>4. (Serial(d)' <=> Serial(d)) /\ (Retried(d)' <=> Retried(d))
  BY <1>1 DEF Serial, Retried
<1>5. task[d].end # None => Busy(d)
  BY <1>1 DEF Own, Tasked, Attempting
<1>6. Tasked(d)'
  BY <1>1, <1>2, <1>3, <1>4, <1>5 DEF Own, Tasked, Last
<1>7. \A n \in DOMAIN jobs[d] : Known(d, n)' => Known(d, n)
  BY <1>1 DEF Known
<1>8. \A n \in DOMAIN jobs[d] : Watched(d, n) => Watched(d, n)'
  <2>1. task[d].at = "acquire" => Busy(d)
    BY <1>1 DEF Own, Tasked
  <2> QED
    BY <1>1, <1>3, <1>4, <2>1 DEF Watched, Pinned
<1>9. \A n \in DOMAIN jobs[d] : LaterEnded(d, n) => LaterEnded(d, n)'
  BY <1>1 DEF LaterEnded
<1>10. Alive(d)'
  BY <1>1, <1>7, <1>8, <1>9 DEF Own, Alive
<1>11. \A n \in DOMAIN jobs[d] : Recorded(jobs[d][n])'
  BY <1>1 DEF Own, Recorded
<1> QED
  BY <1>1, <1>6, <1>10, <1>11 DEF Own

\* So a step of a controller is sound when the invariant of its own command survives.
LEMMA ControllerKept ==
  ASSUME GateInv, NEW c \in Distributed, Busy(c), NEW next \in Tasks, Set(c, next),
         next.left <= task[c].left, next.pass = "plain" => task[c].pass = "plain",
         jobs' \in [Distributed -> Seq(JobType)], \A d \in Distributed \ {c} : jobs'[d] = jobs[d],
         lane' \in Lanes, Serial(c) \/ lane' = lane, LaneStays', faults' \in 0..MaxFaults,
         \/ PlanStay
         \/ Give(c, "none") /\ Retried(c)'
         \/ \E result \in Returned :
              /\ Give(c, result) /\ (result = "cancelled" => cancelled)
              /\ outcome[c] = "expired" /\ task[c].at = "local" => result \in Guilty,
         Own(c)'
  PROVE  GateInv'
<1> USE DEF GateInv
<1>1. c \in Commands /\ task \in [Distributed -> Tasks]
  BY GateDispatchAssumption DEF Shape
<1>2. task' = [task EXCEPT ![c] = next] /\ task' \in [Distributed -> Tasks]
  BY <1>1 DEF Set
<1>3. task'[c] = next /\ \A d \in Distributed \ {c} : task'[d] = task[d]
  BY <1>1, <1>2
<1>4. PlanTypeOK' /\ RunsTogether' /\ IsFiniteSet(running') /\ IsFiniteSet(SlotsTaken(running')) /\ Planned'
  <2>1. CASE PlanStay
    <3>1. UNCHANGED <<waiting, running, outcome, cancelled, halted, fatal, turn>>
      BY <2>1 DEF PlanStay, planVars
    <3>2. RunsTogether' /\ IsFiniteSet(running') /\ IsFiniteSet(SlotsTaken(running'))
      BY <3>1, RoomKeptByFewer
    <3> QED
      BY <3>1, <3>2 DEF Shape, PlanTypeOK, Planned
  <2>2. CASE \E result \in Returned \cup {"none"} : Give(c, result) /\ (result = "cancelled" => cancelled)
    BY <1>1, <2>2, ResultGiven DEF Give
  <2> QED
    BY <2>1, <2>2
<1>5. Shape'
  BY <1>2, <1>4 DEF Shape
<1>6. UNCHANGED <<running, cancelled, fatal>> /\ \A d \in Commands \ {c} : outcome'[d] = outcome[d]
  BY <1>1 DEF PlanStay, planVars, Give, Threading, Shape, PlanTypeOK
<1>7. Distributed \subseteq Commands
  BY GateDispatchAssumption
<1>8. \A d \in Distributed \ {c} : Own(d)'
  BY <1>3, <1>6, <1>7, OthersKept
<1>9. \A d \in Distributed : Retried(d) => Retried(d)'
  <2>1. task[c].left \in 0..RetryLimit /\ next.left \in 0..RetryLimit /\ RetryLimit \in Nat
    BY <1>1, GateDispatchAssumption DEF Tasks
  <2>2. Retried(c) => Retried(c)'
    BY <1>3, <2>1 DEF Retried
  <2> QED
    BY <1>3, <2>2 DEF Retried
<1>10. Caused'
  <2> SUFFICES ASSUME cancelled', ~AnyRetried' PROVE fatal' # {} \/ \E d \in Commands : outcome'[d] \in Guilty
    BY DEF Caused
  <2>1. ~AnyRetried /\ ~Retried(c) /\ ~Retried(c)'
    BY <1>9 DEF AnyRetried
  <2>2. fatal # {} \/ \E d \in Commands : outcome[d] \in Guilty
    BY <1>6, <2>1 DEF Caused
  <2>3. outcome[c] \in Guilty => outcome[c] = "expired"
    BY DEF Busy, Guilty, Returned
  <2>4. outcome[c] = "expired" => task[c].at = "local"
    BY <2>1 DEF Dispatched, Own, Tasked
  <2>5. outcome[c] \in Guilty => outcome'[c] \in Guilty
    BY <1>1, <2>1, <2>3, <2>4 DEF PlanStay, planVars, Give, Shape, PlanTypeOK
  <2> QED
    BY <1>6, <2>2, <2>5
<1> QED
  BY <1>4, <1>5, <1>8, <1>10 DEF Dispatched

\* While its jobs are as they were, a thread has to keep an eye on the live one.
LEMMA OwnKept ==
  ASSUME GateInv, NEW c \in Distributed, jobs'[c] = jobs[c], cancelled' = cancelled, Tasked(c)',
         \A n \in DOMAIN jobs[c] : Known(c, n) => Watched(c, n)'
  PROVE  Own(c)'
<1>1. Own(c)
  BY DEF GateInv, Dispatched
<1>2. \A n \in DOMAIN jobs[c] : (Known(c, n)' => Known(c, n)) /\ (LaterEnded(c, n) => LaterEnded(c, n)')
  BY DEF Known, LaterEnded
<1>3. Alive(c)'
  BY <1>1, <1>2 DEF Own, Alive
<1>4. \A n \in DOMAIN jobs[c] : Recorded(jobs[c][n])'
  BY <1>1 DEF Own, Recorded
<1> QED
  BY <1>3, <1>4 DEF Own

LEMMA TaskKinds ==
  ASSUME GateInv, NEW c \in Distributed
  PROVE  /\ task[c] \in Tasks /\ Own(c) /\ c \in Commands /\ jobs \in [Distributed -> Seq(JobType)] /\ lane \in Lanes
         /\ faults \in 0..MaxFaults /\ RetryLimit \in Nat /\ None \notin Endpoints /\ LaneStays
BY GateDispatchAssumption DEF GateInv, Shape, Dispatched

LEMMA TaskedNext ==
  ASSUME NEW c, NEW next, task'[c] = next
  PROVE  Tasked(c)' <=>
           /\ next.at \in Attempting <=> next.end # None
           /\ next.at \notin {"idle", "done"} => Busy(c)'
           /\ next.at = "repair" => next.pass = "repair"
           /\ next.at = "submit" => next.end \notin Local
           /\ next.at = "poll" => jobs'[c] # <<>> /\ jobs'[c][Last(c)'].by = next.pass
           /\ outcome'[c] = "expired" => next.at = "local"
           /\ Serial(c)' /\ next.end # None => lane'.end = next.end
BY DEF Tasked

LEMMA BeginStep == ASSUME GateInv, NEW c \in Distributed, Begin(c) PROVE GateInv'
<1>1. /\ task[c] \in Tasks /\ Own(c) /\ c \in Commands /\ jobs \in [Distributed -> Seq(JobType)] /\ lane \in Lanes
      /\ faults \in 0..MaxFaults /\ RetryLimit \in Nat /\ None \notin Endpoints /\ LaneStays
  BY TaskKinds
<1>2. Busy(c) /\ task[c].at = "idle" /\ UNCHANGED <<jobs, lane, faults>>
  BY DEF Begin, Stay
<1> DEFINE next == IF cancelled THEN task[c] ELSE [task[c] EXCEPT !.at = "acquire"]
<1>3. next \in Tasks /\ next.left = task[c].left /\ next.pass = task[c].pass /\ next.end = task[c].end
  BY <1>1 DEF Tasks, Places
<1>4. Set(c, next)
  BY DEF Begin, Set, GateInv, Shape
<1>5. PlanStay \/ (Give(c, "cancelled") /\ cancelled)
  BY DEF Begin
<1>6. task'[c] = next /\ UNCHANGED <<cancelled, running>>
  BY <1>4, <1>5 DEF Set, PlanStay, planVars, Give, Threading, GateInv, Shape
<1>7. next.at = "acquire" => Busy(c)' /\ outcome' = outcome
  BY <1>2, <1>5 DEF Begin, PlanStay, planVars, Busy
<1>8. Tasked(c)'
  <2>1. outcome'[c] = "expired" => outcome[c] = "expired"
    BY <1>1, <1>5 DEF PlanStay, planVars, Give, GateInv, Shape, PlanTypeOK
  <2>2. next.at \in {"idle", "acquire"}
    BY <1>2
  <2>3. next.at \notin Attempting /\ next.end = None
    BY <1>1, <1>2, <1>3, <2>2 DEF Own, Tasked, Attempting
  <2>4. Retried(c) => Retried(c)'
    BY <1>3, <1>6 DEF Retried
  <2> HIDE DEF next
  <2> QED
    BY <1>1, <1>2, <1>3, <1>6, <1>7, <2>1, <2>2, <2>3, <2>4 DEF Own, Tasked
<1>9. \A n \in DOMAIN jobs[c] : Known(c, n) => Watched(c, n)'
  BY <1>1, <1>2, <1>3, <1>6 DEF Own, Alive, Watched
<1>10. Own(c)'
  BY <1>2, <1>6, <1>8, <1>9, OwnKept
<1>11. LaneStays'
  BY <1>1, <1>2 DEF LaneStays
<1>12. \/ PlanStay
       \/ \E result \in Returned :
            /\ Give(c, result) /\ (result = "cancelled" => cancelled)
            /\ outcome[c] = "expired" /\ task[c].at = "local" => result \in Guilty
  BY <1>2, <1>5 DEF Returned
<1>13. next.left <= task[c].left
  BY <1>1, <1>3 DEF Tasks
<1> HIDE DEF next
<1> QED
  BY <1>1, <1>2, <1>3, <1>4, <1>10, <1>11, <1>12, <1>13, ControllerKept

LEMMA BestEndpoint == ASSUME NEW c \in Commands, NEW e \in Best(c) PROVE e \in Endpoints /\ (Pinned(c) => e = lane.end)
<1>1. e \in Candidate(c) /\ Able[c] \subseteq Endpoints
  BY GateDispatchAssumption DEF Best, Roomy
<1> QED
  BY <1>1 DEF Candidate, Eligible

LEMMA AcquireStep == ASSUME GateInv, NEW c \in Distributed, Acquire(c) PROVE GateInv'
<1>1. /\ task[c] \in Tasks /\ Own(c) /\ c \in Commands /\ jobs \in [Distributed -> Seq(JobType)] /\ lane \in Lanes
      /\ faults \in 0..MaxFaults /\ RetryLimit \in Nat /\ None \notin Endpoints /\ LaneStays
  BY TaskKinds
<1>2. Busy(c) /\ task[c].at = "acquire" /\ ~CancelSeen(c) /\ PlanStay /\ UNCHANGED <<jobs, faults>>
  BY DEF Acquire
<1>3. UNCHANGED <<waiting, running, outcome, cancelled>>
  BY <1>2 DEF PlanStay, planVars
<1>4. PICK e \in Best(c) :
        /\ Set(c, [task[c] EXCEPT !.at = IF e \in Local THEN "local" ELSE "submit", !.end = e, !.tried = @ \cup {e}])
        /\ lane' = IF Serial(c) THEN [lane EXCEPT !.end = e] ELSE lane
  BY DEF Acquire
<1>5. e \in Endpoints /\ (Pinned(c) => e = lane.end)
  BY <1>1, BestEndpoint
<1> DEFINE next == [task[c] EXCEPT !.at = IF e \in Local THEN "local" ELSE "submit", !.end = e, !.tried = @ \cup {e}]
<1>6. /\ next \in Tasks /\ next.left = task[c].left /\ next.pass = task[c].pass /\ next.end = e
      /\ next.at \in {"local", "submit"} /\ (next.at = "submit" => e \notin Local)
  BY <1>1, <1>5 DEF Tasks, Places, Attempting
<1>7. Set(c, next)
  BY <1>4
<1> HIDE DEF next
<1>8. task'[c] = next
  BY <1>7 DEF Set, GateInv, Shape
<1>9. lane' \in Lanes /\ (Serial(c) => lane'.end = e) /\ lane'.wins = lane.wins /\ (~Serial(c) => lane' = lane)
  BY <1>1, <1>4, <1>5 DEF Lanes
<1>10. LaneStays'
  <2>1. CASE Serial(c) /\ lane.end = None
    BY <1>1, <1>9, <2>1 DEF LaneStays, Lanes
  <2>2. CASE Pinned(c) \/ ~Serial(c)
    BY <1>1, <1>5, <1>9, <2>2 DEF LaneStays, Pinned
  <2> QED
    BY <2>1, <2>2 DEF Pinned
<1>11. Tasked(c)'
  <2>1. (Serial(c)' <=> Serial(c)) /\ (Retried(c)' <=> Retried(c)) /\ Busy(c)'
    BY <1>2, <1>3, <1>6, <1>8 DEF Serial, Retried, Busy
  <2>2. next.at \in Attempting /\ e # None
    BY <1>1, <1>5, <1>6 DEF Attempting
  <2>3. outcome'[c] # "expired"
    BY <1>1, <1>2, <1>3 DEF Own, Tasked
  <2> QED
    BY <1>6, <1>8, <1>9, <2>1, <2>2, <2>3, TaskedNext
<1>12. \A n \in DOMAIN jobs[c] : Known(c, n) => Watched(c, n)'
  <2>1. \A n \in DOMAIN jobs[c] : Known(c, n) => Blind(task[c].pass, jobs[c][n])
    BY <1>1, <1>2 DEF Own, Alive, Watched, CancelSeen
  <2> QED
    BY <1>2, <1>6, <1>8, <2>1 DEF Watched
<1>13. Own(c)'
  BY <1>2, <1>3, <1>11, <1>12, OwnKept
<1>14. next.left <= task[c].left
  BY <1>1, <1>6 DEF Tasks
<1> QED
  BY <1>1, <1>2, <1>6, <1>7, <1>9, <1>10, <1>13, <1>14, ControllerKept

\* The thread is through, or goes on with a repair of the infrastructure.
LEMMA MoveKept ==
  ASSUME GateInv, NEW c \in Distributed, Busy(c), task[c].at \in {"acquire", "repair"}, Stay,
         NEW next \in Tasks, Set(c, next), next.left = task[c].left, next.pass = "plain" => task[c].pass = "plain",
         next.at \in Attempting <=> next.end # None, next.at = "submit" => next.end \notin Local, next.at # "poll",
         \/ PlanStay /\ next.pass = "repair" /\ (task[c].at = "repair" \/ ~CancelSeen(c))
         \/ /\ next.at = "done"
            /\ \E result \in Returned : Give(c, result) /\ (result = "cancelled" => cancelled)
  PROVE  GateInv'
<1>1. /\ task[c] \in Tasks /\ Own(c) /\ c \in Commands /\ jobs \in [Distributed -> Seq(JobType)] /\ lane \in Lanes
      /\ faults \in 0..MaxFaults /\ RetryLimit \in Nat /\ None \notin Endpoints /\ LaneStays
  BY TaskKinds
<1>2. UNCHANGED <<jobs, lane, faults>>
  BY DEF Stay
<1>3. task'[c] = next
  BY DEF Set, GateInv, Shape
<1>4. UNCHANGED <<running, cancelled>> /\ (PlanStay => outcome' = outcome)
  BY DEF PlanStay, planVars, Give, Threading
<1>5. PlanStay => Busy(c)'
  BY <1>4 DEF Busy
<1>6. outcome'[c] = "expired" => PlanStay
  BY <1>1 DEF Give, GateInv, Shape, PlanTypeOK, Returned
<1>7. outcome[c] # "expired"
  BY <1>1 DEF Own, Tasked
<1>9. next.end # None => ~Serial(c)'
  BY <1>3 DEF Serial, Attempting
<1>10. next.at = "done" \/ next.pass = "repair"
  OBVIOUS
<1>11. outcome'[c] # "expired"
  BY <1>4, <1>6, <1>7
<1>12. Tasked(c)'
  BY <1>3, <1>5, <1>9, <1>10, <1>11, TaskedNext
<1>13. \A n \in DOMAIN jobs[c] : Known(c, n) => Watched(c, n)'
  <2> SUFFICES ASSUME NEW n \in DOMAIN jobs[c], Known(c, n), next.at # "done" PROVE Blind(next.pass, jobs[c][n])
    BY <1>2, <1>3 DEF Watched
  <2>1. next.pass = "repair" /\ (task[c].at = "repair" \/ ~CancelSeen(c))
    OBVIOUS
  <2>2. Blind(task[c].pass, jobs[c][n])
    BY <1>1, <2>1 DEF Own, Alive, Watched, CancelSeen
  <2> QED
    BY <2>1, <2>2 DEF Blind
<1>14. Own(c)'
  BY <1>2, <1>4, <1>12, <1>13, OwnKept
<1>15. LaneStays'
  BY <1>1, <1>2 DEF LaneStays
<1>16. \/ PlanStay
       \/ \E result \in Returned :
            /\ Give(c, result) /\ (result = "cancelled" => cancelled)
            /\ outcome[c] = "expired" /\ task[c].at = "local" => result \in Guilty
  OBVIOUS
<1>17. next.left <= task[c].left
  BY <1>1 DEF Tasks
<1> QED
  BY <1>1, <1>2, <1>14, <1>15, <1>16, <1>17, ControllerKept

LEMMA AcquireFailsStep == ASSUME GateInv, NEW c \in Distributed, AcquireFails(c) PROVE GateInv'
<1>1. task[c] \in Tasks /\ Own(c)
  BY TaskKinds
<1>2. Busy(c) /\ task[c].at = "acquire" /\ Stay
  BY DEF AcquireFails
<1>3. task[c].end = None
  BY <1>1, <1>2 DEF Own, Tasked, Attempting
<1>4. ASSUME NEW result \in Returned, Give(c, result), result = "cancelled" => cancelled,
             Set(c, [task[c] EXCEPT !.at = "done"])
      PROVE  GateInv'
  <2> DEFINE next == [task[c] EXCEPT !.at = "done"]
  <2>1. next \in Tasks /\ next.left = task[c].left /\ next.pass = task[c].pass /\ next.end = None /\ next.at = "done"
    BY <1>1, <1>3 DEF Tasks, Places
  <2>2. next.at \notin Attempting
    BY <2>1 DEF Attempting
  <2>3. Set(c, next)
    BY <1>4
  <2> HIDE DEF next
  <2> QED
    BY <1>2, <1>4, <2>1, <2>2, <2>3, MoveKept
<1>5. ASSUME PlanStay, ~CancelSeen(c), Set(c, [task[c] EXCEPT !.at = "repair", !.pass = "repair", !.tried = {}])
      PROVE  GateInv'
  <2> DEFINE next == [task[c] EXCEPT !.at = "repair", !.pass = "repair", !.tried = {}]
  <2>1. next \in Tasks /\ next.left = task[c].left /\ next.pass = "repair" /\ next.end = None /\ next.at = "repair"
    BY <1>1, <1>3 DEF Tasks, Places, Passes
  <2>2. next.at \notin Attempting
    BY <2>1 DEF Attempting
  <2>3. Set(c, next)
    BY <1>5
  <2> HIDE DEF next
  <2> QED
    BY <1>2, <1>5, <2>1, <2>2, <2>3, MoveKept
<1>6. {"cancelled", "infra"} \subseteq Returned /\ (CancelSeen(c) => cancelled)
  BY DEF Returned, CancelSeen
<1>7. CASE CancelSeen(c) /\ Give(c, "cancelled") /\ Set(c, [task[c] EXCEPT !.at = "done"])
  BY <1>4, <1>6, <1>7
<1>8. CASE Give(c, "infra") /\ Set(c, [task[c] EXCEPT !.at = "done"])
  BY <1>4, <1>6, <1>8
<1>9. CASE PlanStay /\ ~CancelSeen(c) /\ Set(c, [task[c] EXCEPT !.at = "repair", !.pass = "repair", !.tried = {}])
  BY <1>5, <1>9
<1> QED
  BY <1>7, <1>8, <1>9 DEF AcquireFails

LEMMA RepairStep == ASSUME GateInv, NEW c \in Distributed, Repair(c) PROVE GateInv'
<1>1. task[c] \in Tasks /\ Own(c) /\ None \notin Endpoints
  BY TaskKinds
<1>2. Busy(c) /\ task[c].at = "repair" /\ Stay
  BY DEF Repair
<1>3. task[c].end = None /\ task[c].pass = "repair"
  BY <1>1, <1>2 DEF Own, Tasked, Attempting
<1>4. CASE Give(c, "infra") /\ Set(c, [task[c] EXCEPT !.at = "done"])
  <2> DEFINE next == [task[c] EXCEPT !.at = "done"]
  <2>1. next \in Tasks /\ next.left = task[c].left /\ next.pass = task[c].pass /\ next.end = None /\ next.at = "done"
    BY <1>1, <1>3 DEF Tasks, Places
  <2>2. next.at \notin Attempting /\ "infra" \in Returned
    BY <2>1 DEF Attempting, Returned
  <2>3. Set(c, next)
    BY <1>4
  <2> HIDE DEF next
  <2> QED
    BY <1>2, <1>4, <2>1, <2>2, <2>3, MoveKept
<1>5. ASSUME PlanStay, NEW e \in Repairs \ task[c].tried, NEW next,
             \/ next = [task[c] EXCEPT !.tried = @ \cup {e}]
             \/ next = [task[c] EXCEPT !.tried = @ \cup {e}, !.end = e, !.at = IF e \in Local THEN "local" ELSE "submit"],
             Set(c, next)
      PROVE  GateInv'
  <2>1. e \in Endpoints
    BY GateDispatchAssumption
  <2>2. next \in Tasks /\ next.left = task[c].left /\ next.pass = "repair"
    <3>1. CASE next = [task[c] EXCEPT !.tried = @ \cup {e}]
      BY <1>1, <1>3, <2>1, <3>1 DEF Tasks
    <3>2. CASE next = [task[c] EXCEPT !.tried = @ \cup {e}, !.end = e, !.at = IF e \in Local THEN "local" ELSE "submit"]
      <4>1. (IF e \in Local THEN "local" ELSE "submit") \in Places
        BY DEF Places, Attempting
      <4> QED
        BY <1>1, <1>3, <2>1, <3>2, <4>1 DEF Tasks
    <3> QED
      BY <1>5, <3>1, <3>2
  <2>3. \/ next.end = None /\ next.at = "repair"
        \/ next.end = e /\ next.at \in {"local", "submit"} /\ (next.at = "submit" => e \notin Local)
    BY <1>1, <1>2, <1>3, <1>5 DEF Tasks
  <2>4. next.at \in Attempting <=> next.end # None
    BY <1>1, <2>1, <2>3 DEF Attempting
  <2>5. (next.at = "submit" => next.end \notin Local) /\ next.at # "poll"
    BY <2>3
  <2> QED
    BY <1>2, <1>5, <2>2, <2>4, <2>5, MoveKept
<1>6. CASE PlanStay /\ \E e \in Repairs \ task[c].tried :
             LET next == [task[c] EXCEPT !.tried = @ \cup {e}] IN
             \/ Set(c, next)
             \/ Set(c, [next EXCEPT !.end = e, !.at = IF e \in Local THEN "local" ELSE "submit"])
  <2>1. PICK e \in Repairs \ task[c].tried :
          \/ Set(c, [task[c] EXCEPT !.tried = @ \cup {e}])
          \/ Set(c, [[task[c] EXCEPT !.tried = @ \cup {e}] EXCEPT !.end = e, !.at = IF e \in Local THEN "local" ELSE "submit"])
    BY <1>6
  <2>2. [[task[c] EXCEPT !.tried = @ \cup {e}] EXCEPT !.end = e, !.at = IF e \in Local THEN "local" ELSE "submit"]
        = [task[c] EXCEPT !.tried = @ \cup {e}, !.end = e, !.at = IF e \in Local THEN "local" ELSE "submit"]
    BY <1>1 DEF Tasks
  <2> QED
    BY <1>5, <1>6, <2>1, <2>2
<1> QED
  BY <1>4, <1>6 DEF Repair

\* A worker accepts one more job. The thread asks for it although one of its jobs may
\* live only when it repairs.
LEMMA JobAccepted ==
  ASSUME GateInv, NEW c \in Distributed, task[c].at = "submit", NEW reply \in {"got", "lost"},
         Accepts(c, reply), cancelled' = cancelled
  PROVE  /\ jobs' \in [Distributed -> Seq(JobType)] /\ jobs'[c] # <<>> /\ jobs'[c][Last(c)'].by = task[c].pass
         /\ \A d \in Distributed \ {c} : jobs'[d] = jobs[d]
         /\ \A n \in DOMAIN jobs'[c] :
              /\ Recorded(jobs[c][n])'
              /\ \/ jobs'[c][n].reply = reply /\ n = Len(jobs'[c]) /\ jobs'[c][n].by = task[c].pass
                 \/ n \in DOMAIN jobs[c] /\ (Known(c, n)' => Blind(task[c].pass, jobs'[c][n]))
              /\ Known(c, n)' => LaterEnded(c, n)'
<1>1. /\ task[c] \in Tasks /\ Own(c) /\ c \in Commands /\ jobs \in [Distributed -> Seq(JobType)] /\ lane \in Lanes
      /\ faults \in 0..MaxFaults /\ RetryLimit \in Nat /\ None \notin Endpoints /\ LaneStays
  BY TaskKinds
<1> DEFINE job == NewJob(task[c].end, task[c].pass, reply)
           last == Len(jobs[c]) + 1
<1>2. task[c].end \in Endpoints \ Local
  BY <1>1 DEF Own, Tasked, Tasks, Attempting
<1>3. /\ job \in JobType /\ job.by = task[c].pass /\ job.reply = reply
      /\ job.cancel = "no" /\ job.result = "none" /\ job.record = "staging"
  BY <1>1, <1>2 DEF JobType, NewJob, Tasks
<1>4. jobs' = [jobs EXCEPT ![c] = Append(jobs[c], job)]
  BY DEF Accepts
<1> HIDE DEF job
<1>5. /\ jobs' \in [Distributed -> Seq(JobType)] /\ jobs'[c] = Append(jobs[c], job)
      /\ \A d \in Distributed \ {c} : jobs'[d] = jobs[d]
  BY <1>1, <1>3, <1>4
<1>6. jobs[c] \in Seq(JobType)
  BY <1>1
<1>7. /\ Len(jobs'[c]) = last /\ DOMAIN jobs'[c] = 1..last /\ DOMAIN jobs[c] = 1..Len(jobs[c]) /\ Len(jobs[c]) \in Nat
      /\ jobs'[c][last] = job /\ \A n \in 1..Len(jobs[c]) : jobs'[c][n] = jobs[c][n]
  BY <1>3, <1>5, <1>6
<1>8. jobs'[c] # <<>> /\ jobs'[c][Last(c)'].by = task[c].pass
  BY <1>3, <1>6, <1>7 DEF Last
<1>9. ASSUME NEW n \in 1..last
      PROVE  /\ Recorded(jobs[c][n])'
             /\ \/ jobs'[c][n].reply = reply /\ n = Len(jobs'[c]) /\ jobs'[c][n].by = task[c].pass
                \/ n \in DOMAIN jobs[c] /\ (Known(c, n)' => Blind(task[c].pass, jobs'[c][n]))
             /\ Known(c, n)' => LaterEnded(c, n)'
  <2>1. CASE n = last
    <3>1. Recorded(jobs[c][n])'
      BY <1>3, <1>7, <2>1 DEF Recorded
    <3>2. LaterEnded(c, n)'
      BY <1>7, <2>1 DEF LaterEnded
    <3> QED
      BY <1>3, <1>7, <2>1, <3>1, <3>2
  <2>2. CASE n \in 1..Len(jobs[c])
    <3>1. Recorded(jobs[c][n])'
      BY <1>1, <1>7, <2>2 DEF Own, Recorded
    <3>2. Known(c, n)' => Known(c, n)
      BY <1>7, <2>2 DEF Known
    <3>3. Known(c, n) => Blind(task[c].pass, jobs[c][n]) /\ LaterEnded(c, n)
      BY <1>1, <1>7, <2>2 DEF Own, Alive, Watched
    <3>4. LaterEnded(c, n) /\ Blind(task[c].pass, jobs[c][n]) => LaterEnded(c, n)'
      BY <1>3, <1>7, <2>2 DEF LaterEnded
    <3> QED
      BY <1>7, <2>2, <3>1, <3>2, <3>3, <3>4
  <2> QED
    BY <1>7, <2>1, <2>2
<1> QED
  BY <1>5, <1>7, <1>8, <1>9

LEMMA SubmitStep == ASSUME GateInv, NEW c \in Distributed, Submit(c) PROVE GateInv'
<1>1. /\ task[c] \in Tasks /\ Own(c) /\ c \in Commands /\ jobs \in [Distributed -> Seq(JobType)] /\ lane \in Lanes
      /\ faults \in 0..MaxFaults /\ RetryLimit \in Nat /\ None \notin Endpoints /\ LaneStays
  BY TaskKinds
<1>2. /\ Busy(c) /\ task[c].at = "submit" /\ PlanStay /\ UNCHANGED <<lane, faults>>
      /\ Accepts(c, "got") /\ Set(c, [task[c] EXCEPT !.at = "poll"])
  BY DEF Submit
<1>3. UNCHANGED <<running, outcome, cancelled>>
  BY <1>2 DEF PlanStay, planVars
<1> DEFINE next == [task[c] EXCEPT !.at = "poll"]
<1>4. next \in Tasks /\ next.left = task[c].left /\ next.pass = task[c].pass /\ next.end = task[c].end /\ next.at = "poll"
  BY <1>1 DEF Tasks, Places, Attempting
<1>5. Set(c, next)
  BY <1>2
<1> HIDE DEF next
<1>6. task'[c] = next
  BY <1>5 DEF Set, GateInv, Shape
<1>7. /\ jobs' \in [Distributed -> Seq(JobType)] /\ jobs'[c] # <<>> /\ jobs'[c][Last(c)'].by = task[c].pass
      /\ \A d \in Distributed \ {c} : jobs'[d] = jobs[d]
      /\ \A n \in DOMAIN jobs'[c] :
           /\ Recorded(jobs[c][n])'
           /\ \/ jobs'[c][n].reply = "got" /\ n = Len(jobs'[c]) /\ jobs'[c][n].by = task[c].pass
              \/ n \in DOMAIN jobs[c] /\ (Known(c, n)' => Blind(task[c].pass, jobs'[c][n]))
           /\ Known(c, n)' => LaterEnded(c, n)'
  BY <1>2, <1>3, JobAccepted
<1>8. Tasked(c)'
  <2>1. (Serial(c)' <=> Serial(c)) /\ (Retried(c)' <=> Retried(c)) /\ Busy(c)'
    BY <1>2, <1>3, <1>4, <1>6 DEF Serial, Retried, Busy
  <2>2. next.at \in Attempting /\ next.end # None
    BY <1>1, <1>2, <1>4 DEF Attempting, Own, Tasked
  <2>3. outcome'[c] # "expired"
    BY <1>1, <1>2, <1>3 DEF Own, Tasked
  <2>4. Serial(c) => lane.end = task[c].end
    BY <1>1, <1>4, <2>2 DEF Own, Tasked
  <2> QED
    BY <1>2, <1>4, <1>6, <1>7, <2>1, <2>2, <2>3, <2>4, TaskedNext
<1>9. \A n \in DOMAIN jobs'[c] : Known(c, n)' => Watched(c, n)'
  BY <1>4, <1>6, <1>7 DEF Watched
<1>10. Own(c)'
  BY <1>7, <1>8, <1>9 DEF Own, Alive
<1>11. LaneStays' /\ next.left <= task[c].left
  BY <1>1, <1>2, <1>4 DEF LaneStays, Tasks
<1> QED
  BY <1>1, <1>2, <1>4, <1>5, <1>7, <1>10, <1>11, ControllerKept

\* Where a thread is after an attempt: through, or trying again without an endpoint.
LEMMA NextTask ==
  ASSUME GateInv, NEW c \in Distributed, task[c].at \in Attempting, NEW result \in Attempts,
         NEW next,
         next = IF Final(c, result) THEN Freed(c)
                ELSE CASE task[c].pass = "repair" -> [Freed(c) EXCEPT !.at = "repair"]
                       [] task[c].pass = "plain" /\ result # "reported" -> [Freed(c) EXCEPT !.at = "acquire", !.left = @ - 1]
                       [] OTHER -> More(c)
  PROVE  /\ next \in Tasks /\ next.end = None /\ next.left <= task[c].left
         /\ next.pass = "plain" => task[c].pass = "plain"
         /\ task[c].pass = "repair" => next.pass = "repair"
         /\ Final(c, result) => next.at = "done"
         /\ ~Final(c, result) => /\ next.at = "acquire" \/ (next.at = "repair" /\ next.pass = "repair")
                                 /\ next.left < RetryLimit \/ next.pass # "plain"
                                 /\ task[c].pass = "plain" /\ result # "reported" => next.at = "acquire"
<1>1. /\ task[c] \in Tasks /\ Own(c) /\ c \in Commands /\ jobs \in [Distributed -> Seq(JobType)] /\ lane \in Lanes
      /\ faults \in 0..MaxFaults /\ RetryLimit \in Nat /\ None \notin Endpoints /\ LaneStays
  BY TaskKinds
<1>2. task[c].pass \in Passes /\ task[c].left \in 0..RetryLimit
  BY <1>1 DEF Tasks
<1>3. Freed(c) \in Tasks /\ Freed(c).end = None /\ Freed(c).at = "done" /\ Freed(c).left = task[c].left
      /\ Freed(c).pass = task[c].pass
  BY <1>1 DEF Freed, Tasks, Places
<1>4. CASE Final(c, result)
  BY <1>2, <1>3, <1>4
<1>5. CASE ~Final(c, result) /\ task[c].pass = "repair"
  <2>1. next = [Freed(c) EXCEPT !.at = "repair"]
    BY <1>5
  <2> QED
    BY <1>2, <1>3, <1>5, <2>1 DEF Tasks, Places
<1>6. CASE ~Final(c, result) /\ task[c].pass = "plain" /\ result # "reported"
  <2>1. next = [Freed(c) EXCEPT !.at = "acquire", !.left = @ - 1]
    BY <1>6
  <2>2. task[c].left # 0
    BY <1>6 DEF Final, Infra, Spent, Attempts
  <2>3. task[c].left - 1 \in 0..RetryLimit /\ task[c].left - 1 < RetryLimit /\ task[c].left - 1 <= task[c].left
    BY <1>1, <1>2, <2>2
  <2> QED
    BY <1>2, <1>3, <1>6, <2>1, <2>3 DEF Tasks, Places
<1>7. CASE ~Final(c, result) /\ task[c].pass # "repair" /\ ~(task[c].pass = "plain" /\ result # "reported")
  <2>1. next = More(c)
    BY <1>7
  <2>2. \/ next = [Freed(c) EXCEPT !.pass = "reported", !.at = "acquire"]
        \/ next = [Freed(c) EXCEPT !.pass = "repair", !.at = "repair", !.tried = {}]
    BY <2>1 DEF More
  <2>3. CASE next = [Freed(c) EXCEPT !.pass = "reported", !.at = "acquire"]
    <3>1. next \in Tasks
      BY <1>3, <2>3 DEF Tasks, Places, Passes
    <3>2. next.end = None /\ next.left = task[c].left /\ next.pass = "reported" /\ next.at = "acquire"
      BY <1>3, <2>3 DEF Tasks
    <3> QED
      BY <1>2, <1>7, <3>1, <3>2
  <2>4. CASE next = [Freed(c) EXCEPT !.pass = "repair", !.at = "repair", !.tried = {}]
    <3>1. next \in Tasks
      BY <1>3, <2>4 DEF Tasks, Places, Passes
    <3>2. next.end = None /\ next.left = task[c].left /\ next.pass = "repair" /\ next.at = "repair"
      BY <1>3, <2>4 DEF Tasks
    <3> QED
      BY <1>2, <1>7, <3>1, <3>2
  <2> QED
    BY <2>2, <2>3, <2>4
<1> QED
  BY <1>4, <1>5, <1>6, <1>7

\* The lane after an attempt: a command that passed keeps it, one that is tried again
\* leaves it, and only when nothing has passed there.
LEMMA NextLane ==
  ASSUME GateInv, NEW c \in Distributed, task[c].at \in Attempting, NEW result \in Attempts, Handled(c, result)
  PROVE  /\ lane' \in Lanes /\ (Serial(c) \/ lane' = lane) /\ LaneStays'
         /\ Serial(c) /\ ~Final(c, result) => lane'.end = None
<1>1. /\ task[c] \in Tasks /\ Own(c) /\ c \in Commands /\ jobs \in [Distributed -> Seq(JobType)] /\ lane \in Lanes
      /\ faults \in 0..MaxFaults /\ RetryLimit \in Nat /\ None \notin Endpoints /\ LaneStays
  BY TaskKinds
<1>2. lane' = CASE Serial(c) /\ result = "ok" -> [lane EXCEPT !.wins = @ \cup {task[c].end}]
                [] Serial(c) /\ result \in {"infra", "reported", "error"} /\ ~Tied(c) -> [lane EXCEPT !.end = None]
                [] OTHER -> lane
  BY DEF Handled
<1>3. task[c].end \in Endpoints /\ (Serial(c) => lane.end = task[c].end)
  BY <1>1 DEF Own, Tasked, Tasks
<1>4. CASE Serial(c) /\ result = "ok"
  <2>1. Final(c, result)
    BY <1>4 DEF Final, Infra, Serial
  <2>2. lane' = [lane EXCEPT !.wins = @ \cup {task[c].end}]
    BY <1>2, <1>4, <2>1
  <2>3. lane' \in Lanes /\ lane'.end = lane.end /\ lane'.wins = lane.wins \cup {task[c].end}
    BY <1>1, <1>3, <2>2 DEF Lanes
  <2> QED
    BY <1>1, <1>3, <1>4, <2>3, <2>1 DEF LaneStays
<1>5. Serial(c) /\ ~Final(c, result) => result \in {"infra", "reported", "error"} /\ ~Tied(c)
  BY DEF Final, Infra, Serial
<1>6. CASE Serial(c) /\ result \in {"infra", "reported", "error"} /\ ~Tied(c)
  <2>1. lane' = [lane EXCEPT !.end = None]
    BY <1>2, <1>6
  <2>2. lane' \in Lanes /\ lane'.end = None /\ lane'.wins = lane.wins
    BY <1>1, <2>1 DEF Lanes
  <2>3. lane.wins = {}
    BY <1>6 DEF Tied, HasState
  <2> QED
    BY <1>6, <2>2, <2>3 DEF LaneStays
<1>7. CASE ~(Serial(c) /\ result = "ok") /\ ~(Serial(c) /\ result \in {"infra", "reported", "error"} /\ ~Tied(c))
  <2>1. lane' = lane
    BY <1>2, <1>7
  <2> QED
    BY <1>1, <1>5, <1>7, <2>1 DEF LaneStays
<1> QED
  BY <1>4, <1>6, <1>7

\* A job that is not ended is no reason not to go on when the thread is through, repairs
\* blindly, or will see the cancellation.
Excused(c, job, result) ==
  Blind(task[c].pass, job) \/ Final(c, result) \/ (cancelled /\ job.by = task[c].pass /\ result # "reported")

\* An attempt is over: every known job that is not ended is excused.
LEMMA HandledStep ==
  ASSUME GateInv, NEW c \in Distributed, Busy(c), task[c].at \in Attempting, NEW result \in Attempts,
         Handled(c, result), result = "cancelled" => cancelled, faults' \in 0..MaxFaults,
         outcome[c] = "expired" /\ task[c].at = "local" => result \in {"timeout", "error"},
         jobs' \in [Distributed -> Seq(JobType)], \A d \in Distributed \ {c} : jobs'[d] = jobs[d],
         \A n \in DOMAIN jobs'[c] :
           /\ Recorded(jobs[c][n])'
           /\ Known(c, n)' => LaterEnded(c, n)' /\ Excused(c, jobs'[c][n], result)
  PROVE  GateInv'
<1>1. /\ task[c] \in Tasks /\ Own(c) /\ c \in Commands /\ jobs \in [Distributed -> Seq(JobType)] /\ lane \in Lanes
      /\ faults \in 0..MaxFaults /\ RetryLimit \in Nat /\ None \notin Endpoints /\ LaneStays
  BY TaskKinds
<1>2. PICK next : /\ Set(c, next)
                  /\ next = IF Final(c, result) THEN Freed(c)
                            ELSE CASE task[c].pass = "repair" -> [Freed(c) EXCEPT !.at = "repair"]
                                   [] task[c].pass = "plain" /\ result # "reported" ->
                                        [Freed(c) EXCEPT !.at = "acquire", !.left = @ - 1]
                                   [] OTHER -> More(c)
  BY DEF Handled
<1>3. /\ next \in Tasks /\ next.end = None /\ next.left <= task[c].left
      /\ next.pass = "plain" => task[c].pass = "plain"
      /\ task[c].pass = "repair" => next.pass = "repair"
      /\ Final(c, result) => next.at = "done"
      /\ ~Final(c, result) => /\ next.at = "acquire" \/ (next.at = "repair" /\ next.pass = "repair")
                              /\ next.left < RetryLimit \/ next.pass # "plain"
                              /\ task[c].pass = "plain" /\ result # "reported" => next.at = "acquire"
  BY <1>2, NextTask, ZenonT(120)
<1>4. /\ lane' \in Lanes /\ (Serial(c) \/ lane' = lane) /\ LaneStays'
      /\ Serial(c) /\ ~Final(c, result) => lane'.end = None
  BY NextLane
<1> DEFINE given == IF result = "error" /\ task[c].pass = "repair" THEN "raised" ELSE Verdict(result)
<1>5. IF Final(c, result) THEN Give(c, given) ELSE Give(c, "none")
  BY DEF Handled
<1>6. /\ given \in Returned /\ (given = "cancelled" => cancelled)
      /\ (outcome[c] = "expired" /\ task[c].at = "local" => given \in Guilty)
  BY DEF Verdict, Infra, Attempts, Returned, Guilty
<1> HIDE DEF given
<1>7. task'[c] = next
  BY <1>2 DEF Set, GateInv, Shape
<1>8. UNCHANGED <<running, cancelled>> /\ (~Final(c, result) => outcome'[c] = "none")
      /\ (Final(c, result) => outcome'[c] \in Returned)
  BY <1>1, <1>5, <1>6 DEF Give, Threading, GateInv, Shape, PlanTypeOK
<1>9. Tasked(c)'
  <2>1. ~Final(c, result) => Busy(c)' /\ Retried(c)'
    BY <1>3, <1>7, <1>8 DEF Busy, Retried, Returned
  <2>2. next.at \notin Attempting /\ next.at # "submit" /\ next.at # "poll"
    BY <1>3 DEF Attempting
  <2>3. outcome'[c] # "expired"
    BY <1>8 DEF Returned
  <2> QED
    BY <1>3, <1>7, <2>1, <2>2, <2>3, TaskedNext
<1>10. Alive(c)'
  <2> SUFFICES ASSUME NEW n \in DOMAIN jobs'[c], Known(c, n)' PROVE Watched(c, n)'
    BY DEF Alive
  <2>1. Excused(c, jobs'[c][n], result)
    OBVIOUS
  <2>2. ~Final(c, result) => ~Pinned(c)'
    BY <1>3, <1>4, <1>7 DEF Pinned, Serial
  <2>3. CASE Blind(task[c].pass, jobs'[c][n]) \/ Final(c, result)
    BY <1>3, <1>7, <2>3 DEF Watched, Blind
  <2>4. CASE ~Final(c, result) /\ cancelled /\ jobs'[c][n].by = task[c].pass /\ result # "reported"
    BY <1>3, <1>7, <1>8, <2>2, <2>4 DEF Watched, Blind
  <2> QED
    BY <2>1, <2>3, <2>4 DEF Excused
<1>11. Own(c)'
  BY <1>9, <1>10 DEF Own
<1>12. \/ PlanStay
       \/ Give(c, "none") /\ Retried(c)'
       \/ \E r \in Returned :
            /\ Give(c, r) /\ (r = "cancelled" => cancelled)
            /\ outcome[c] = "expired" /\ task[c].at = "local" => r \in Guilty
  BY <1>3, <1>5, <1>6, <1>7 DEF Retried
<1> QED
  BY <1>1, <1>2, <1>3, <1>4, <1>11, <1>12, ControllerKept

LEMMA LocalStep == ASSUME GateInv, NEW c \in Distributed, LocalReturns(c) PROVE GateInv'
<1>1. /\ task[c] \in Tasks /\ Own(c) /\ c \in Commands /\ jobs \in [Distributed -> Seq(JobType)] /\ lane \in Lanes
      /\ faults \in 0..MaxFaults /\ RetryLimit \in Nat /\ None \notin Endpoints /\ LaneStays
  BY TaskKinds
<1>2. Busy(c) /\ task[c].at = "local" /\ UNCHANGED <<jobs, faults>>
  BY DEF LocalReturns
<1>3. PICK result \in Attempts : /\ result = "cancelled" => cancelled
                                 /\ outcome[c] = "expired" => result \in {"timeout", "error"}
                                 /\ Handled(c, result)
  BY DEF LocalReturns
<1>4. cancelled' = cancelled
  BY <1>3 DEF Handled, Give, Threading
<1>5. \A n \in DOMAIN jobs[c] : Known(c, n) => Excused(c, jobs[c][n], result) /\ LaterEnded(c, n)
  BY <1>1, <1>2 DEF Own, Alive, Watched, Excused
<1>6. \A n \in DOMAIN jobs[c] : (Known(c, n)' => Known(c, n)) /\ (LaterEnded(c, n) => LaterEnded(c, n)')
  BY <1>2 DEF Known, LaterEnded
<1>7. \A n \in DOMAIN jobs[c] : Recorded(jobs[c][n])'
  BY <1>1, <1>2, <1>4 DEF Own, Recorded
<1>8. task[c].at \in Attempting
  BY <1>2 DEF Attempting
<1> QED
  BY <1>1, <1>2, <1>3, <1>5, <1>6, <1>7, <1>8, HandledStep

LEMMA FaultCounted == ASSUME GateInv, Fault PROVE faults' \in 0..MaxFaults
BY GateDispatchAssumption DEF GateInv, Shape, Fault

LEMMA SubmitLostStep == ASSUME GateInv, NEW c \in Distributed, SubmitLost(c) PROVE GateInv'
<1>1. /\ task[c] \in Tasks /\ Own(c) /\ c \in Commands /\ jobs \in [Distributed -> Seq(JobType)] /\ lane \in Lanes
      /\ faults \in 0..MaxFaults /\ RetryLimit \in Nat /\ None \notin Endpoints /\ LaneStays
  BY TaskKinds
<1>2. Busy(c) /\ task[c].at = "submit" /\ Handled(c, "error") /\ faults' \in 0..MaxFaults
  BY FaultCounted DEF SubmitLost
<1>3. cancelled' = cancelled
  BY <1>2 DEF Handled, Give, Threading
<1>4. task[c].at \in Attempting /\ "error" \in Attempts
  BY <1>2 DEF Attempting, Attempts
<1>5. /\ jobs' \in [Distributed -> Seq(JobType)] /\ \A d \in Distributed \ {c} : jobs'[d] = jobs[d]
      /\ \A n \in DOMAIN jobs'[c] :
           Recorded(jobs[c][n])' /\ (Known(c, n)' => LaterEnded(c, n)' /\ Excused(c, jobs'[c][n], "error"))
  <2>1. CASE Accepts(c, "lost")
    <3>1. /\ jobs' \in [Distributed -> Seq(JobType)] /\ jobs'[c] # <<>>
          /\ \A d \in Distributed \ {c} : jobs'[d] = jobs[d]
          /\ \A n \in DOMAIN jobs'[c] :
               /\ Recorded(jobs[c][n])'
               /\ \/ jobs'[c][n].reply = "lost" /\ n = Len(jobs'[c]) /\ jobs'[c][n].by = task[c].pass
                  \/ n \in DOMAIN jobs[c] /\ (Known(c, n)' => Blind(task[c].pass, jobs'[c][n]))
               /\ Known(c, n)' => LaterEnded(c, n)'
      BY <1>2, <1>3, <2>1, JobAccepted
    <3>2. \A n \in DOMAIN jobs'[c] : Known(c, n)' => jobs'[c][n].reply = "got"
      BY DEF Known
    <3> QED
      BY <3>1, <3>2 DEF Excused
  <2>2. CASE UNCHANGED jobs
    <3>1. \A n \in DOMAIN jobs[c] : Known(c, n) => Excused(c, jobs[c][n], "error") /\ LaterEnded(c, n)
      BY <1>1, <1>2 DEF Own, Alive, Watched, Excused
    <3>2. \A n \in DOMAIN jobs[c] : (Known(c, n)' => Known(c, n)) /\ (LaterEnded(c, n) => LaterEnded(c, n)')
      BY <2>2 DEF Known, LaterEnded
    <3>3. \A n \in DOMAIN jobs[c] : Recorded(jobs[c][n])'
      BY <1>1, <1>3, <2>2 DEF Own, Recorded
    <3> QED
      BY <1>1, <2>2, <3>1, <3>2, <3>3
  <2> QED
    BY <2>1, <2>2 DEF SubmitLost
<1>6. outcome[c] = "expired" /\ task[c].at = "local" => "error" \in {"timeout", "error"}
  OBVIOUS
<1> QED
  BY <1>2, <1>4, <1>5, <1>6, HandledStep

\* The last job of a command that is polled.
LEMMA LastJob ==
  ASSUME GateInv, NEW c \in Distributed, task[c].at = "poll"
  PROVE  /\ Last(c) \in DOMAIN jobs[c] /\ jobs[c][Last(c)] \in JobType /\ Recorded(jobs[c][Last(c)])
         /\ jobs[c][Last(c)].by = task[c].pass
<1>1. jobs[c] \in Seq(JobType) /\ jobs[c] # <<>> /\ Own(c)
  BY TaskKinds DEF Own, Tasked
<1>2. Len(jobs[c]) \in 1..Len(jobs[c]) /\ DOMAIN jobs[c] = 1..Len(jobs[c])
  BY <1>1
<1> QED
  BY <1>1, <1>2 DEF Last, Own, Tasked

\* A poll ends an attempt: what it saw decides whether the job may still live.
LEMMA PollEnds ==
  ASSUME GateInv, NEW c \in Distributed, Busy(c), task[c].at = "poll", UNCHANGED jobs, faults' \in 0..MaxFaults,
         NEW result \in Attempts, Handled(c, result), result = "cancelled" => cancelled,
         Unfinished(jobs[c][Last(c)]) => Excused(c, jobs[c][Last(c)], result)
  PROVE  GateInv'
<1>1. /\ task[c] \in Tasks /\ Own(c) /\ c \in Commands /\ jobs \in [Distributed -> Seq(JobType)] /\ lane \in Lanes
      /\ faults \in 0..MaxFaults /\ RetryLimit \in Nat /\ None \notin Endpoints /\ LaneStays
  BY TaskKinds
<1>2. cancelled' = cancelled
  BY DEF Handled, Give, Threading
<1>3. \A n \in DOMAIN jobs[c] : Known(c, n) => Excused(c, jobs[c][n], result) /\ LaterEnded(c, n)
  BY <1>1 DEF Own, Alive, Watched, Known, Last, Excused
<1>4. \A n \in DOMAIN jobs[c] : (Known(c, n)' => Known(c, n)) /\ (LaterEnded(c, n) => LaterEnded(c, n)')
  BY DEF Known, LaterEnded
<1>5. \A n \in DOMAIN jobs[c] : Recorded(jobs[c][n])'
  BY <1>1, <1>2 DEF Own, Recorded
<1>6. task[c].at \in Attempting
  BY DEF Attempting
<1>7. \A n \in DOMAIN jobs'[c] :
        /\ Recorded(jobs[c][n])'
        /\ Known(c, n)' => LaterEnded(c, n)' /\ Excused(c, jobs'[c][n], result)
  BY <1>3, <1>4, <1>5
<1> QED
  BY <1>1, <1>6, <1>7, HandledStep

LEMMA PollStep == ASSUME GateInv, NEW c \in Distributed, Poll(c) PROVE GateInv'
<1> DEFINE job == jobs[c][Last(c)]
<1>1. Busy(c) /\ task[c].at = "poll" /\ UNCHANGED <<jobs, faults>> /\ job.record \in {"terminal", "cancelled", "incomplete"}
  BY DEF Poll, Polls
<1>2. job \in JobType /\ Recorded(job) /\ job.by = task[c].pass /\ task[c].pass \in Passes /\ faults \in 0..MaxFaults
  BY <1>1, LastJob, TaskKinds DEF Tasks
<1>3. PICK result \in IF job.record # "terminal" THEN {"error"}
                      ELSE IF job.result = "ok" THEN {"ok", "error"} ELSE {job.result} : Handled(c, result)
  BY DEF Poll
<1>4. job.record = "terminal" => job.result \in {"ok", "failed", "reported", "infra", "cancelled", "timeout"}
  BY <1>2 DEF JobType, Recorded
<1>5. result \in Attempts /\ (result = "cancelled" => cancelled)
  BY <1>2, <1>3, <1>4 DEF Attempts, Recorded
<1>6. Unfinished(job) => Excused(c, job, result)
  <2>1. job.record # "terminal" => cancelled
    BY <1>1, <1>2 DEF Recorded
  <2>2. job.record = "terminal" => ~Unfinished(job)
    BY <1>2 DEF Recorded, Unfinished
  <2> QED
    BY <1>2, <1>3, <2>1, <2>2 DEF Excused
<1> HIDE DEF job
<1>7. Unfinished(jobs[c][Last(c)]) => Excused(c, jobs[c][Last(c)], result)
  BY <1>6 DEF job
<1> QED
  BY <1>1, <1>2, <1>3, <1>5, <1>7, PollEnds

LEMMA PollFailsStep == ASSUME GateInv, NEW c \in Distributed, PollFails(c) PROVE GateInv'
<1>1. Busy(c) /\ task[c].at = "poll" /\ UNCHANGED jobs /\ Handled(c, "uncertain")
  BY DEF PollFails, Polls
<1>2. faults' \in 0..MaxFaults
  BY FaultCounted, TaskKinds DEF PollFails
<1>3. Excused(c, jobs[c][Last(c)], "uncertain")
  <2>1. jobs[c][Last(c)].by = task[c].pass /\ task[c].pass \in Passes
    BY <1>1, LastJob, TaskKinds DEF Tasks
  <2> QED
    BY <2>1 DEF Excused, Final, Passes, Blind
<1>4. "uncertain" \in Attempts
  BY DEF Attempts
<1> QED
  BY <1>1, <1>2, <1>3, <1>4, PollEnds

-----------------------------------------------------------------------------
\* The service of a worker.

\* A job that is moved on does not come to life again.
Older(new, old) == (LiveJob(new) => LiveJob(old)) /\ (Unfinished(new) => Unfinished(old))

\* A step of the service moves jobs on, and what their records say stays true.
LEMMA JobsKept ==
  ASSUME GateInv, ByService, faults' \in 0..MaxFaults, jobs' \in [Distributed -> Seq(JobType)],
         \A c \in Distributed : DOMAIN jobs'[c] = DOMAIN jobs[c],
         \A c \in Distributed : \A n \in DOMAIN jobs[c] :
           /\ jobs'[c][n].reply = jobs[c][n].reply /\ jobs'[c][n].by = jobs[c][n].by
           /\ Older(jobs'[c][n], jobs[c][n]) /\ Recorded(jobs[c][n])'
  PROVE  GateInv'
<1> USE DEF GateInv
<1>1. UNCHANGED <<waiting, running, outcome, cancelled, halted, fatal, turn, task, lane>>
  BY DEF ByService, planVars
<1>2. RunsTogether' /\ IsFiniteSet(running') /\ IsFiniteSet(SlotsTaken(running'))
  BY <1>1, RoomKeptByFewer
<1>3. Shape'
  BY <1>1, <1>2 DEF Shape, PlanTypeOK
<1>4. Planned' /\ Caused' /\ LaneStays'
  BY <1>1 DEF Planned, Caused, AnyRetried, Retried, LaneStays
<1>5. ASSUME NEW c \in Distributed PROVE Own(c)'
  <2>1. Own(c) /\ jobs[c] \in Seq(JobType) /\ jobs'[c] \in Seq(JobType)
    BY <1>5 DEF Dispatched, Shape
  <2>2. DOMAIN jobs[c] = 1..Len(jobs[c]) /\ DOMAIN jobs'[c] = 1..Len(jobs'[c]) /\ Len(jobs[c]) \in Nat /\ Len(jobs'[c]) \in Nat
    BY <2>1
  <2>3. Len(jobs'[c]) = Len(jobs[c])
    <3>1. 1..Len(jobs'[c]) = 1..Len(jobs[c])
      BY <1>5, <2>2
    <3> QED
      BY <2>2, <3>1
  <2>4. jobs'[c] = <<>> => jobs[c] = <<>>
    BY <2>1, <2>2, <2>3
  <2>5. Busy(c)' <=> Busy(c)
    BY <1>1 DEF Busy
  <2>6. Tasked(c)'
    <3>1. jobs[c] # <<>> => jobs'[c][Len(jobs'[c])].by = jobs[c][Len(jobs[c])].by
      <4>1. jobs[c] # <<>> => Len(jobs[c]) \in DOMAIN jobs[c]
        BY <2>1, <2>2
      <4> QED
        BY <1>5, <2>3, <4>1
    <3> QED
      BY <1>1, <2>1, <2>4, <2>5, <3>1 DEF Own, Tasked, Serial, Last
  <2>7. \A n \in DOMAIN jobs[c] : Known(c, n)' => Known(c, n)
    BY DEF Known, Older
  <2>8. \A n \in DOMAIN jobs[c] : Watched(c, n) => Watched(c, n)'
    BY <1>1, <2>3 DEF Watched, Pinned, Serial, Blind
  <2>9. \A n \in DOMAIN jobs[c] : LaterEnded(c, n) => LaterEnded(c, n)'
    BY DEF LaterEnded, Blind, Older
  <2>10. Alive(c)'
    BY <2>1, <2>7, <2>8, <2>9 DEF Own, Alive
  <2> QED
    BY <2>6, <2>10 DEF Own
<1> QED
  BY <1>2, <1>3, <1>4, <1>5 DEF Dispatched

LEMMA JobMoved ==
  ASSUME GateInv, NEW c \in Distributed, NEW n \in DOMAIN jobs[c], NEW job \in JobType, SetJob(c, n, job),
         ByService, UNCHANGED faults, job.reply = jobs[c][n].reply, job.by = jobs[c][n].by,
         Older(job, jobs[c][n]), Recorded(job)
  PROVE  GateInv'
<1>1. jobs \in [Distributed -> Seq(JobType)] /\ faults \in 0..MaxFaults
  BY TaskKinds
<1>2. jobs[c] \in Seq(JobType) /\ n \in 1..Len(jobs[c])
  BY <1>1
<1>3. [jobs[c] EXCEPT ![n] = job] \in Seq(JobType)
  BY <1>2, ExceptSeq
<1>4. jobs' = [jobs EXCEPT ![c] = [jobs[c] EXCEPT ![n] = job]]
  BY DEF SetJob
<1>5. jobs' \in [Distributed -> Seq(JobType)] /\ jobs'[c] = [jobs[c] EXCEPT ![n] = job]
      /\ \A d \in Distributed \ {c} : jobs'[d] = jobs[d]
  BY <1>1, <1>3, <1>4
<1>6. DOMAIN jobs'[c] = DOMAIN jobs[c] /\ jobs'[c][n] = job /\ \A m \in DOMAIN jobs[c] \ {n} : jobs'[c][m] = jobs[c][m]
  BY <1>5
<1>7. cancelled' = cancelled
  BY DEF ByService, planVars
<1>8. \A d \in Distributed : \A m \in DOMAIN jobs[d] : Recorded(jobs[d][m])
  BY DEF GateInv, Dispatched, Own
<1>9. ASSUME NEW d \in Distributed, NEW m \in DOMAIN jobs[d]
      PROVE  /\ jobs'[d][m].reply = jobs[d][m].reply /\ jobs'[d][m].by = jobs[d][m].by
             /\ Older(jobs'[d][m], jobs[d][m]) /\ Recorded(jobs[d][m])'
  <2>1. CASE d = c /\ m = n
    BY <1>6, <1>7, <2>1 DEF Recorded
  <2>2. CASE ~(d = c /\ m = n)
    <3>1. jobs'[d][m] = jobs[d][m]
      BY <1>5, <1>6, <1>9, <2>2
    <3> QED
      BY <1>7, <1>8, <3>1 DEF Recorded, Older
  <2> QED
    BY <2>1, <2>2
<1>10. \A d \in Distributed : DOMAIN jobs'[d] = DOMAIN jobs[d]
  BY <1>5, <1>6
<1> QED
  BY <1>1, <1>5, <1>9, <1>10, JobsKept

LEMMA JobKinds ==
  ASSUME GateInv, NEW c \in Distributed, NEW n \in DOMAIN jobs[c]
  PROVE  jobs[c][n] \in JobType /\ Recorded(jobs[c][n])
<1>1. jobs[c] \in Seq(JobType) /\ Own(c)
  BY TaskKinds
<1> QED
  BY <1>1 DEF Own

LEMMA ServiceStep == ASSUME GateInv, NEW c \in Distributed, NEW n, Service(c, n) PROVE GateInv'
<1>1. n \in DOMAIN jobs[c] /\ ByService /\ UNCHANGED faults
  BY DEF Service, JobStarts, JobBeats, JobEnds, CancelKill, CancelWrite, AtWorker
<1>2. jobs[c][n] \in JobType /\ Recorded(jobs[c][n])
  BY <1>1, JobKinds
<1> DEFINE old == jobs[c][n]
<1>3. CASE JobStarts(c, n)
  <2> DEFINE job == [old EXCEPT !.thread = "running", !.record = "running", !.group = "alive"]
  <2>1. SetJob(c, n, job) /\ old.thread = "queued"
    BY <1>3 DEF JobStarts
  <2>2. job \in JobType /\ job.reply = old.reply /\ job.by = old.by
    BY <1>2 DEF JobType
  <2>3. job.record = "running" /\ job.cancel = old.cancel /\ job.result = old.result
    BY <1>2 DEF JobType
  <2>4. Recorded(job) /\ Older(job, old)
    BY <1>2, <2>1, <2>3 DEF Recorded, LiveJob, Unfinished, Older
  <2> HIDE DEF job
  <2> QED
    BY <1>1, <2>1, <2>2, <2>4, JobMoved
<1>4. CASE JobBeats(c, n)
  <2> DEFINE job == [old EXCEPT !.record = "running"]
  <2>1. SetJob(c, n, job) /\ old.thread = "running"
    BY <1>4 DEF JobBeats
  <2>2. job \in JobType /\ job.reply = old.reply /\ job.by = old.by
    BY <1>2 DEF JobType
  <2>3. job.record = "running" /\ job.cancel = old.cancel /\ job.result = old.result
    BY <1>2 DEF JobType
  <2>4. Recorded(job) /\ Older(job, old)
    BY <1>2, <2>1, <2>3 DEF Recorded, LiveJob, Unfinished, Older
  <2> HIDE DEF job
  <2> QED
    BY <1>1, <2>1, <2>2, <2>4, JobMoved
<1>5. CASE JobEnds(c, n)
  <2>1. PICK result \in {"ok", "failed", "reported", "infra", "cancelled", "timeout"}, group \in {old.group, "gone"} :
          /\ result = "cancelled" => old.cancel # "no"
          /\ SetJob(c, n, [old EXCEPT !.thread = "ended", !.record = "terminal", !.result = result, !.group = group])
    BY <1>5 DEF JobEnds
  <2> DEFINE job == [old EXCEPT !.thread = "ended", !.record = "terminal", !.result = result, !.group = group]
  <2>2. job \in JobType /\ job.reply = old.reply /\ job.by = old.by
    BY <1>2, <2>1, ZenonT(120) DEF JobType
  <2>3. job.record = "terminal" /\ job.cancel = old.cancel /\ job.result = result /\ job.group = group /\ job.thread = "ended"
    BY <1>2 DEF JobType
  <2>4. Recorded(job)
    BY <1>2, <2>1, <2>3 DEF Recorded
  <2>5. Older(job, old)
    BY <1>5, <2>3 DEF JobEnds, LiveJob, Unfinished, Older
  <2>6. SetJob(c, n, job)
    BY <2>1
  <2> HIDE DEF job
  <2> QED
    BY <1>1, <2>2, <2>4, <2>5, <2>6, JobMoved
<1>6. CASE CancelKill(c, n)
  <2>1. old.cancel = "kill"
    BY <1>6 DEF CancelKill
  <2>2. PICK job \in {[old EXCEPT !.cancel = "done"], [old EXCEPT !.cancel = "write", !.group = "gone"],
                      [old EXCEPT !.cancel = "writeLeft"]} : SetJob(c, n, job)
    BY <1>6 DEF CancelKill
  <2>3. job \in JobType /\ job.reply = old.reply /\ job.by = old.by
    <3>1. /\ [old EXCEPT !.cancel = "done"] \in JobType
          /\ [old EXCEPT !.cancel = "write", !.group = "gone"] \in JobType
          /\ [old EXCEPT !.cancel = "writeLeft"] \in JobType
      <4>1. [old EXCEPT !.cancel = "done"] \in JobType
        BY <1>2, ZenonT(120) DEF JobType
      <4>2. [old EXCEPT !.cancel = "write", !.group = "gone"] \in JobType
        BY <1>2, ZenonT(120) DEF JobType, Cancelling
      <4>3. [old EXCEPT !.cancel = "writeLeft"] \in JobType
        BY <1>2, ZenonT(120) DEF JobType, Cancelling
      <4> QED
        BY <4>1, <4>2, <4>3
    <3>2. job.reply = old.reply /\ job.by = old.by
      BY <1>2, <2>2 DEF JobType
    <3> QED
      BY <2>2, <3>1, <3>2
  <2>4. job.record = old.record /\ job.result = old.result /\ job.thread = old.thread /\ (job.group = old.group \/ job.group = "gone")
        /\ (job.cancel = "done" \/ job.record = old.record)
    BY <1>2, <2>2 DEF JobType
  <2>5. cancelled
    BY <1>2, <2>1 DEF Recorded
  <2>6. old.record \notin {"cancelled", "incomplete"}
    BY <1>2, <2>1 DEF Recorded
  <2>7. Recorded(job) /\ Older(job, old)
    BY <1>2, <2>4, <2>5, <2>6 DEF Recorded, LiveJob, Unfinished, Older
  <2> QED
    BY <1>1, <2>2, <2>3, <2>7, JobMoved
<1>7. CASE CancelWrite(c, n)
  <2> DEFINE record == CASE old.cancel = "mark" -> "requested" [] old.cancel = "write" -> "cancelled" [] OTHER -> "incomplete"
             job == [old EXCEPT !.record = record, !.result = "none", !.cancel = "done"]
  <2>1. SetJob(c, n, job) /\ old.cancel \in {"mark", "write", "writeLeft"}
    BY <1>7 DEF CancelWrite
  <2>2. record \in {"requested", "cancelled", "incomplete"}
    BY <2>1
  <2> HIDE DEF record
  <2>3. job \in JobType /\ job.reply = old.reply /\ job.by = old.by
    BY <1>2, <2>2 DEF JobType
  <2>4. /\ job.record = record /\ job.cancel = "done" /\ job.result = "none"
        /\ job.thread = old.thread /\ job.group = old.group
    BY <1>2 DEF JobType
  <2>5. cancelled
    BY <1>2, <2>1 DEF Recorded
  <2>6. Recorded(job) /\ Older(job, old)
    BY <2>2, <2>4, <2>5 DEF Recorded, LiveJob, Unfinished, Older
  <2> HIDE DEF job
  <2> QED
    BY <1>1, <2>1, <2>3, <2>6, JobMoved
<1> QED
  BY <1>3, <1>4, <1>5, <1>6, <1>7 DEF Service

LEMMA CancelStep == ASSUME GateInv, NEW c \in Distributed, Cancel(c) PROVE GateInv'
<1> DEFINE n == Last(c)
           old == jobs[c][n]
           mark == IF old.record = "terminal" THEN "done" ELSE IF old.record = "running" THEN "kill" ELSE "mark"
           job == [old EXCEPT !.cancel = mark]
<1>1. task[c].at = "poll" /\ cancelled /\ old.cancel = "no" /\ SetJob(c, n, job) /\ ByService /\ UNCHANGED faults
  BY DEF Cancel, Polls
<1>2. n \in DOMAIN jobs[c] /\ old \in JobType /\ Recorded(old)
  BY <1>1, LastJob
<1>3. mark \in {"done", "kill", "mark"}
  OBVIOUS
<1> HIDE DEF mark
<1>4. job \in JobType /\ job.reply = old.reply /\ job.by = old.by
  BY <1>2, <1>3 DEF JobType, Cancelling
<1>5. job.record = old.record /\ job.result = old.result /\ job.thread = old.thread /\ job.group = old.group
  BY <1>2 DEF JobType
<1>6. old.record \notin {"cancelled", "incomplete"}
  BY <1>1, <1>2 DEF Recorded
<1>7. Recorded(job) /\ Older(job, old)
  BY <1>1, <1>2, <1>5, <1>6 DEF Recorded, LiveJob, Unfinished, Older
<1> HIDE DEF job, n
<1> QED
  BY <1>1, <1>2, <1>4, <1>7, JobMoved

LEMMA RestartStep == ASSUME GateInv, NEW e \in Endpoints, Restart(e) PROVE GateInv'
<1>1. jobs \in [Distributed -> Seq(JobType)]
  BY DEF GateInv, Shape
<1> DEFINE stopped(c, n) == jobs[c][n].end = e /\ jobs[c][n].thread \in {"queued", "running"}
           after(c, n) == [jobs[c][n] EXCEPT !.thread = "lost", !.cancel = IF @ = "no" THEN "no" ELSE "done"]
<1>2. /\ ByService /\ faults' \in 0..MaxFaults
      /\ jobs' = [c \in Distributed |-> [n \in DOMAIN jobs[c] |-> IF stopped(c, n) THEN after(c, n) ELSE jobs[c][n]]]
  BY FaultCounted DEF Restart
<1>3. cancelled' = cancelled
  BY <1>2 DEF ByService, planVars
<1>4. ASSUME NEW c \in Distributed, NEW n \in DOMAIN jobs[c]
      PROVE  /\ jobs'[c][n] \in JobType
             /\ jobs'[c][n].reply = jobs[c][n].reply /\ jobs'[c][n].by = jobs[c][n].by
             /\ Older(jobs'[c][n], jobs[c][n]) /\ Recorded(jobs[c][n])'
  <2>1. jobs[c][n] \in JobType /\ Recorded(jobs[c][n])
    BY <1>4, JobKinds
  <2>2. CASE ~stopped(c, n)
    <3>1. jobs'[c][n] = jobs[c][n]
      BY <1>2, <1>4, <2>2
    <3> QED
      BY <1>3, <2>1, <3>1 DEF Recorded, Older
  <2>3. CASE stopped(c, n)
    <3> DEFINE old == jobs[c][n]
               job == after(c, n)
    <3>1. jobs'[c][n] = job
      BY <1>2, <1>4, <2>3
    <3>2. job \in JobType /\ job.reply = old.reply /\ job.by = old.by
      <4> DEFINE mark == IF old.cancel = "no" THEN "no" ELSE "done"
      <4>1. mark \in {"no", "done"} /\ job = [old EXCEPT !.thread = "lost", !.cancel = mark]
        OBVIOUS
      <4> HIDE DEF mark, job
      <4> QED
        BY <2>1, <4>1 DEF JobType
    <3>3. /\ job.record = old.record /\ job.result = old.result /\ job.thread = "lost" /\ job.group = old.group
          /\ job.cancel = IF old.cancel = "no" THEN "no" ELSE "done"
      BY <2>1 DEF JobType
    <3> HIDE DEF job
    <3>4. Older(job, old) /\ old.record # "terminal"
      BY <2>1, <2>3, <3>3 DEF LiveJob, Unfinished, Older, Recorded
    <3>5. Recorded(job)
      BY <2>1, <3>3, <3>4 DEF Recorded
    <3> QED
      BY <1>3, <3>1, <3>2, <3>4, <3>5 DEF Recorded
  <2> QED
    BY <2>2, <2>3
<1>5. ASSUME NEW c \in Distributed PROVE DOMAIN jobs'[c] = DOMAIN jobs[c] /\ jobs'[c] \in Seq(JobType)
  <2>1. jobs'[c] = [n \in DOMAIN jobs[c] |-> jobs'[c][n]]
    BY <1>2, <1>5
  <2>2. jobs[c] \in Seq(JobType)
    BY <1>1, <1>5
  <2>3. DOMAIN jobs[c] = 1..Len(jobs[c]) /\ Len(jobs[c]) \in Nat
    BY <2>2
  <2>4. jobs'[c] \in [1..Len(jobs[c]) -> JobType]
    BY <1>4, <1>5, <2>1, <2>3
  <2>5. jobs'[c] \in Seq(JobType)
    BY <2>3, <2>4, SeqDef
  <2> QED
    BY <2>3, <2>4, <2>5
<1>6. jobs' \in [Distributed -> Seq(JobType)]
  BY <1>2, <1>5
<1> HIDE DEF stopped, after
<1> QED
  BY <1>2, <1>4, <1>5, <1>6, JobsKept

-----------------------------------------------------------------------------
\* The specification.

LEMMA GateStarts == ASSUME GateInit, DispatchInit PROVE GateInv
<1>1. PICK plan \in Plans : PlanInit(plan)
  BY DEF GateInit
<1>2. plan \subseteq Commands /\ RetryLimit \in Nat /\ MaxFaults \in Nat
  BY GateDispatchAssumption
<1>3. /\ waiting = plan /\ running = {} /\ outcome = [c \in Commands |-> "none"] /\ cancelled = FALSE
      /\ halted = FALSE /\ fatal = {} /\ turn = [at |-> "serial", progress |-> "no"]
  BY <1>1 DEF PlanInit, Turn
<1>4. /\ task = [c \in Distributed |-> NoTask] /\ jobs = [c \in Distributed |-> <<>>]
      /\ lane = [end |-> None, wins |-> {}] /\ faults = 0
  BY DEF DispatchInit
<1>5. SlotsTaken(running) = {}
  BY <1>3 DEF SlotsTaken
<1>6. IsFiniteSet({}) /\ Cardinality({}) = 0
  BY FS_EmptySet
<1>7. PlanTypeOK
  BY <1>2, <1>3 DEF PlanTypeOK
<1>8. NoTask \in Tasks
  BY <1>2 DEF NoTask, Tasks, Places, Passes
<1>9. jobs \in [Distributed -> Seq(JobType)]
  BY <1>4
<1>10. lane \in Lanes /\ LaneStays
  BY <1>4 DEF Lanes, LaneStays
<1>11. Shape
  <2>1. IsFiniteSet(running) /\ IsFiniteSet(SlotsTaken(running))
    BY <1>3, <1>5, <1>6
  <2>2. task \in [Distributed -> Tasks] /\ faults \in 0..MaxFaults
    BY <1>2, <1>4, <1>8
  <2> QED
    BY <1>7, <1>9, <1>10, <2>1, <2>2 DEF Shape
<1>12. RunsTogether
  <2>1. Used = 0 /\ Cardinality(running) = 0
    BY <1>3, <1>5, <1>6 DEF Used
  <2>2. Jobs \in Nat /\ Capacity \in Nat
    BY GatePlanAssumption, JobsPositive
  <2> QED
    BY <1>3, <2>1, <2>2 DEF RunsTogether
<1>13. Planned /\ Caused
  BY <1>2, <1>3 DEF Planned, Caused
<1>14. ASSUME NEW c \in Distributed PROVE Own(c)
  <2>1. task[c] = NoTask /\ jobs[c] = <<>> /\ c \in Commands
    BY <1>4, <1>14, GateDispatchAssumption
  <2>2. Tasked(c)
    BY <1>3, <2>1 DEF Tasked, NoTask, Attempting
  <2>3. DOMAIN jobs[c] = {}
    BY <2>1
  <2> QED
    BY <2>2, <2>3 DEF Own, Alive
<1> QED
  BY <1>10, <1>11, <1>12, <1>13, <1>14 DEF GateInv, Dispatched

LEMMA GateStep == GateInv /\ [DispatchNext]_gateVars => GateInv'
<1> SUFFICES ASSUME GateInv, [DispatchNext]_gateVars PROVE GateInv'
  OBVIOUS
<1>1. CASE InPlan(Scheduler)
  BY <1>1, SerialStep, GroupStep, SettleStep, CollectStep DEF InPlan, Scheduler
<1>2. ASSUME NEW c \in Commands \ Distributed, InPlan(Thread(c)) PROVE GateInv'
  BY <1>2, GiveUpStep, ReturnStep DEF InPlan, Thread
<1>3. ASSUME NEW c \in Distributed, Controller(c) PROVE GateInv'
  BY <1>3, BeginStep, AcquireStep, AcquireFailsStep, RepairStep, LocalStep, SubmitStep, SubmitLostStep,
     CancelStep, PollStep, PollFailsStep DEF Controller
<1>4. ASSUME NEW c \in Distributed, LocalGivesUp(c) PROVE GateInv'
  BY <1>4, GiveUpStep, GateDispatchAssumption DEF LocalGivesUp
<1>5. ASSUME NEW c \in Distributed, NEW n \in 1..MaxJobs, Service(c, n) PROVE GateInv'
  BY <1>5, ServiceStep
<1>6. ASSUME NEW e \in Endpoints, Restart(e) PROVE GateInv'
  BY <1>6, RestartStep
<1>7. CASE UNCHANGED gateVars
  <2>1. ByService /\ UNCHANGED <<jobs, faults>>
    BY <1>7 DEF gateVars, dispatchVars, ByService
  <2>2. cancelled' = cancelled
    BY <2>1 DEF ByService, planVars
  <2>3. \A c \in Distributed : \A n \in DOMAIN jobs[c] : Recorded(jobs[c][n])'
    BY <2>1, <2>2, JobKinds DEF Recorded
  <2> QED
    BY <2>1, <2>3, JobsKept DEF GateInv, Shape, Older
<1> QED
  BY <1>1, <1>2, <1>3, <1>4, <1>5, <1>6, <1>7 DEF DispatchNext

\* The invariant of the plans holds in every state they reach.
THEOREM GateInvariant == GateSpec => []GateInv
<1>1. GateInit /\ DispatchInit => GateInv
  BY GateStarts
<1> QED
  BY <1>1, GateStep, PTL DEF GateSpec

\* Every state of the plans, of their controllers and of the workers' jobs is well typed.
THEOREM GateTypeCorrect == GateSpec => []GateTypeOK
<1>1. GateInv => GateTypeOK
  <2> SUFFICES ASSUME GateInv PROVE GateTypeOK
    OBVIOUS
  <2>1. task \in [Distributed ->
          [at : {"idle", "acquire", "local", "submit", "poll", "repair", "done"}, pass : Passes,
           end : Endpoints \cup {None}, tried : SUBSET Endpoints, left : 0..RetryLimit]]
    <3>1. Places = {"idle", "acquire", "local", "submit", "poll", "repair", "done"}
      BY DEF Places, Attempting
    <3> QED
      BY <3>1 DEF GateInv, Shape, Tasks
  <2>2. \A c \in Distributed : \A n \in DOMAIN jobs[c] : jobs[c][n] \in JobType
    BY JobKinds
  <2>3. lane.end \in Endpoints \cup {None} /\ lane.wins \subseteq Endpoints /\ PlanTypeOK /\ faults \in 0..MaxFaults
    BY DEF GateInv, Shape, Lanes
  <2> QED
    BY <2>1, <2>2, <2>3 DEF GateTypeOK, JobType
<1> QED
  BY <1>1, GateInvariant, PTL

\* Whatever a plan asks for, the scheduler (gates.py, _run_overlapped_gate_plan) never
\* overbooks the executor: not its jobs, not its slots, not its serial lane, and an
\* exclusive command runs alone.
THEOREM RoomKept == GateSpec => []RunsTogether
<1>1. GateInv => RunsTogether
  BY DEF GateInv
<1> QED
  BY <1>1, GateInvariant, PTL

\* A plan that does not pass raises a refusal or names a failure that is not the
\* cancellation it caused itself (gates.py:2012), if none of its distributed commands was
\* tried again.
THEOREM NamesCause == GateSpec => []CauseKept
<1>1. GateInv => CauseKept
  <2> SUFFICES ASSUME GateInv, \A c \in Distributed : ~Retried(c), Ended, ~Passed
               PROVE  fatal # {} \/ \E c \in Failures : outcome[c] # "cancelled"
    BY DEF CauseKept, CauseNamed
  <2> USE DEF GateInv
  <2>1. running = {} /\ (halted \/ waiting = {})
    BY DEF Planned, Ended
  <2>2. outcome \in [Commands -> Returned \cup {"none", "expired"}]
    BY DEF Shape, PlanTypeOK
  <2>3. \A c \in Commands : outcome[c] \in {"infra", "timeout", "failed"} => c \in Failures /\ outcome[c] # "cancelled"
    BY DEF Failures, Returned
  <2>4. fatal # {} \/ \E c \in Commands : outcome[c] \in Stopping
    <3>1. CASE waiting # {}
      BY <2>1, <3>1 DEF Planned
    <3>2. CASE Failures # {}
      BY <3>2 DEF Failures, Returned, Stopping
    <3> QED
      BY <3>1, <3>2 DEF Passed
  <2>5. cancelled => fatal # {} \/ \E c \in Commands : outcome[c] \in {"infra", "timeout", "failed"}
    <3>1. cancelled => fatal # {} \/ \E c \in Commands : outcome[c] \in Guilty
      BY DEF Caused, AnyRetried
    <3>2. \A c \in Commands : outcome[c] \in Guilty => fatal # {} \/ outcome[c] \in {"infra", "timeout", "failed"}
      BY <2>1 DEF Guilty, Planned
    <3> QED
      BY <3>1, <3>2
  <2>6. \A c \in Commands : outcome[c] \in Stopping => cancelled \/ outcome[c] \in {"infra", "timeout", "failed"}
    BY DEF Stopping, Planned
  <2> QED
    BY <2>3, <2>4, <2>5, <2>6
<1> QED
  BY <1>1, GateInvariant, PTL

\* While a job whose acceptance the controller knows (distributed_gates.py:822) is not
\* ended by its worker, no later attempt of its command runs, except a repair after a
\* reported failure. Jobs whose reply was lost and what an ended job left behind are not
\* spoken of: the code tries again beside them.
THEOREM RunsOnce == GateSpec => []OneLiveJob
<1>1. GateInv => OneLiveJob
  <2> SUFFICES ASSUME GateInv, NEW c \in Distributed, NEW n \in DOMAIN jobs[c], Unfinished(jobs[c][n]), jobs[c][n].reply = "got"
               PROVE  /\ \A m \in DOMAIN jobs[c] : m > n /\ ~Blind(jobs[c][m].by, jobs[c][n]) => ~LiveJob(jobs[c][m])
                      /\ ~(task[c].at = "local" /\ ~Blind(task[c].pass, jobs[c][n]))
    BY DEF OneLiveJob
  <2>1. Watched(c, n) /\ LaterEnded(c, n)
    BY DEF GateInv, Dispatched, Own, Alive, Known
  <2> QED
    BY <2>1 DEF Watched, LaterEnded
<1> QED
  BY <1>1, GateInvariant, PTL

\* The serial lane does not leave the endpoint on which one of its commands has passed in
\* the lane's own pass; a pass in the retry of a reported failure is not counted
\* (distributed_gates.py:1195).
THEOREM StaysInLane == GateSpec => []LaneStays
<1>1. GateInv => LaneStays
  BY DEF GateInv
<1> QED
  BY <1>1, GateInvariant, PTL

-----------------------------------------------------------------------------
\* The cache. Its inductive invariant: a certificate is of a tree on which the command
\* has passed, one with a complete trace of observations on which it passes, and a
\* verification that is about to be recorded has read the tree it says.

Traces == {"none", "complete", "network"}
Asks == [at : {"off", "queued", "looking", "running", "recording", "served", "done"}, src : Trees \cup {NoTree},
         scope : {"auto", "candidate"}, audit : {"yes", "no"}, got : Trees \cup {NoTree},
         result : {"none", "ok", "failed", "candidate", "observed"}, trace : Traces, seen : Trees \cup {NoTree}]

CacheShape ==
  /\ tree \in Trees /\ edits \in 0..MaxEdits /\ asks \in 0..MaxAsks /\ ask \in [Askers -> Asks]
  /\ certs \subseteq CertType /\ revoked \in BOOLEAN /\ slipped \in BOOLEAN /\ passed \subseteq Trees

CertSound(cert) == (~slipped => cert.src \in passed) /\ (cert.trace = "complete" => cert.reads \in Good)
RunSound(p) ==
  /\ ask[p].got \in Trees /\ (p \in Executors => ask[p].got = ask[p].src)
  /\ ask[p].result = "ok" => ask[p].got \in passed /\ (ask[p].trace # "network" => Reads[ask[p].got] \in Good)
ServedSound(p) ==
  ~slipped => IF ask[p].result = "candidate" THEN ask[p].src \in passed ELSE Reads[ask[p].seen] \in Good
AskSound(p) ==
  /\ ask[p].at # "off" => ask[p].src \in Trees
  /\ ask[p].at = "recording" => RunSound(p)
  /\ ask[p].at = "served" => ServedSound(p)

CacheInv ==
  /\ CacheShape /\ (\A cert \in certs : CertSound(cert)) /\ \A p \in Askers : AskSound(p)

\* What is going on stays sound while more passes and what slipped stays known.
LEMMA AskStays ==
  ASSUME CacheInv, NEW p \in Askers, ask'[p] = ask[p], passed \subseteq passed', slipped => slipped'
  PROVE  AskSound(p)'
<1>1. AskSound(p)
  BY DEF CacheInv
<1>2. RunSound(p) => RunSound(p)'
  BY DEF RunSound
<1>3. ServedSound(p) => ServedSound(p)'
  BY DEF ServedSound
<1> QED
  BY <1>1, <1>2, <1>3 DEF AskSound
LEMMA CertsStay ==
  ASSUME CacheInv, passed \subseteq passed', slipped => slipped'
  PROVE  \A cert \in certs : CertSound(cert)'
BY DEF CacheInv, CertSound

\* A step of one verification that records nothing.
LEMMA AskStep ==
  ASSUME CacheInv, NEW p \in Askers, NEW next \in Asks, Becomes(p, next), asks' \in 0..MaxAsks,
         UNCHANGED <<tree, edits, certs, revoked, slipped>>, passed \subseteq passed', passed' \subseteq Trees, AskSound(p)'
  PROVE  CacheInv'
<1>1. ask' \in [Askers -> Asks] /\ \A q \in Askers \ {p} : ask'[q] = ask[q]
  BY DEF CacheInv, CacheShape, Becomes
<1>2. CacheShape'
  BY <1>1 DEF CacheInv, CacheShape
<1>3. \A q \in Askers : AskSound(q)'
  BY <1>1, AskStays
<1>4. \A cert \in certs : CertSound(cert)'
  BY CertsStay
<1> QED
  BY <1>2, <1>3, <1>4 DEF CacheInv

LEMMA AskKinds ==
  ASSUME CacheInv, NEW p \in Askers
  PROVE  /\ ask[p] \in Asks /\ AskSound(p) /\ ask \in [Askers -> Asks] /\ tree \in Trees /\ asks \in 0..MaxAsks
         /\ passed \subseteq Trees /\ slipped \in BOOLEAN
BY DEF CacheInv, CacheShape

LEMMA RequestStep == ASSUME CacheInv, NEW p \in Askers, Request(p) PROVE CacheInv'
<1> DEFINE scope == IF revoked /\ p \notin Executors THEN "candidate" ELSE "auto"
           next == [NoAsk EXCEPT !.at = "queued", !.src = tree, !.scope = scope]
<1>1. /\ ask[p] \in Asks /\ AskSound(p) /\ ask \in [Askers -> Asks] /\ tree \in Trees /\ asks \in 0..MaxAsks
      /\ passed \subseteq Trees /\ slipped \in BOOLEAN
  BY AskKinds
<1>2. Becomes(p, next) /\ UNCHANGED <<tree, edits, certs, revoked, slipped, passed>> /\ asks < MaxAsks /\ asks' = asks + 1
  BY DEF Request, Becomes, World
<1>3. asks' \in 0..MaxAsks
  BY <1>1, <1>2, ProofCacheAssumption
<1>4. scope \in {"auto", "candidate"}
  OBVIOUS
<1> HIDE DEF scope
<1>5. next \in Asks /\ next.at = "queued" /\ next.src = tree
  BY <1>1, <1>4 DEF NoAsk, Asks, Traces
<1> HIDE DEF next
<1>6. ask'[p] = next
  BY <1>1, <1>2 DEF Becomes
<1>7. AskSound(p)'
  BY <1>1, <1>5, <1>6 DEF AskSound
<1> QED
  BY <1>1, <1>2, <1>3, <1>5, <1>7, AskStep

LEMMA EnterStep == ASSUME CacheInv, NEW p \in Askers, EnterFlight(p) PROVE CacheInv'
<1> DEFINE next == [ask[p] EXCEPT !.at = "looking"]
<1>1. /\ ask[p] \in Asks /\ AskSound(p) /\ ask \in [Askers -> Asks] /\ tree \in Trees /\ asks \in 0..MaxAsks
      /\ passed \subseteq Trees /\ slipped \in BOOLEAN
  BY AskKinds
<1>2. Becomes(p, next) /\ UNCHANGED <<tree, edits, asks, certs, revoked, slipped, passed>> /\ ask[p].at = "queued"
  BY DEF EnterFlight, World, At
<1>3. next \in Asks /\ next.at = "looking" /\ next.src = ask[p].src
  BY <1>1 DEF Asks
<1> HIDE DEF next
<1>4. ask'[p] = next
  BY <1>1, <1>2 DEF Becomes
<1>5. AskSound(p)'
  BY <1>1, <1>2, <1>3, <1>4 DEF AskSound
<1> QED
  BY <1>1, <1>2, <1>3, <1>5, AskStep

\* A hit is a certificate of the tree, or one with a complete trace of the same inputs.
LEMMA LookStep == ASSUME CacheInv, NEW p \in Askers, Look(p) PROVE CacheInv'
<1>1. /\ ask[p] \in Asks /\ AskSound(p) /\ ask \in [Askers -> Asks] /\ tree \in Trees /\ asks \in 0..MaxAsks
      /\ passed \subseteq Trees /\ slipped \in BOOLEAN
  BY AskKinds
<1>2. UNCHANGED <<tree, edits, asks, certs, revoked, slipped, passed>> /\ ask[p].at = "looking"
  BY DEF Look, World, At
<1>3. ASSUME NEW next \in Asks, next.at = "running", next.src = ask[p].src, Becomes(p, next) PROVE CacheInv'
  <2>1. ask'[p] = next
    BY <1>1, <1>3 DEF Becomes
  <2>2. AskSound(p)'
    BY <1>1, <1>2, <1>3, <2>1 DEF AskSound
  <2> QED
    BY <1>1, <1>2, <1>3, <2>2, AskStep
<1> DEFINE found == IF OwnHits(p) # {} THEN "candidate" ELSE "observed"
           served == [ask[p] EXCEPT !.at = "served", !.seen = tree, !.result = found]
<1>4. CASE Becomes(p, [ask[p] EXCEPT !.at = "running"])
  <2>1. /\ [ask[p] EXCEPT !.at = "running"] \in Asks /\ [ask[p] EXCEPT !.at = "running"].at = "running"
        /\ [ask[p] EXCEPT !.at = "running"].src = ask[p].src
    BY <1>1 DEF Asks
  <2> QED
    BY <1>3, <1>4, <2>1
<1>5. CASE Becomes(p, [ask[p] EXCEPT !.at = "running", !.audit = "yes"])
  <2>1. /\ [ask[p] EXCEPT !.at = "running", !.audit = "yes"] \in Asks
        /\ [ask[p] EXCEPT !.at = "running", !.audit = "yes"].at = "running"
        /\ [ask[p] EXCEPT !.at = "running", !.audit = "yes"].src = ask[p].src
    BY <1>1 DEF Asks
  <2> QED
    BY <1>3, <1>5, <2>1
<1>6. CASE OwnHits(p) \cup SharedHits(p) # {} /\ Becomes(p, served)
  <2>1. found \in {"candidate", "observed"}
    OBVIOUS
  <2>2. OwnHits(p) # {} /\ ~slipped => ask[p].src \in passed
    BY DEF OwnHits, OwnKey, CacheInv, CertSound
  <2>3. SharedHits(p) # {} => Reads[tree] \in Good
    BY DEF SharedHits, Traced, SameInputs, CacheInv, CertSound
  <2>4. ~slipped => IF found = "candidate" THEN ask[p].src \in passed ELSE Reads[tree] \in Good
    BY <1>6, <2>2, <2>3
  <2> HIDE DEF found
  <2>5. served \in Asks /\ served.at = "served" /\ served.src = ask[p].src /\ served.seen = tree /\ served.result = found
    BY <1>1, <2>1 DEF Asks
  <2> HIDE DEF served
  <2>6. ask'[p] = served
    BY <1>1, <1>6 DEF Becomes
  <2>7. ServedSound(p)'
    BY <1>2, <2>4, <2>5, <2>6 DEF ServedSound
  <2>8. AskSound(p)'
    BY <1>1, <1>2, <2>5, <2>6, <2>7 DEF AskSound
  <2> QED
    BY <1>1, <1>2, <1>6, <2>5, <2>8, AskStep
<1> QED
  BY <1>4, <1>5, <1>6 DEF Look

LEMMA RunStep == ASSUME CacheInv, NEW p \in Askers, Run(p) PROVE CacheInv'
<1>1. /\ ask[p] \in Asks /\ AskSound(p) /\ ask \in [Askers -> Asks] /\ tree \in Trees /\ asks \in 0..MaxAsks
      /\ passed \subseteq Trees /\ slipped \in BOOLEAN
  BY AskKinds
<1> DEFINE got == IF p \in Executors THEN ask[p].src ELSE tree
<1>2. PICK result \in {"ok", "failed"}, trace \in Traces :
        /\ result = "ok" => Reads[got] \in Good \/ trace = "network"
        /\ Becomes(p, [ask[p] EXCEPT !.at = "recording", !.got = got, !.result = result, !.trace = trace])
        /\ passed' = IF result = "ok" THEN passed \cup {got} ELSE passed
        /\ World /\ UNCHANGED <<asks, certs, revoked, slipped>>
  BY DEF Run, Traces
<1>3. got \in Trees /\ (p \in Executors => got = ask[p].src) /\ ask[p].src \in Trees
  BY <1>1 DEF Run, At, AskSound
<1> HIDE DEF got
<1> DEFINE next == [ask[p] EXCEPT !.at = "recording", !.got = got, !.result = result, !.trace = trace]
<1>4. /\ next \in Asks /\ next.at = "recording" /\ next.got = got /\ next.result = result /\ next.trace = trace
      /\ next.src = ask[p].src
  BY <1>1, <1>2, <1>3 DEF Asks
<1>5. Becomes(p, next)
  BY <1>2
<1> HIDE DEF next
<1>6. ask'[p] = next
  BY <1>1, <1>5 DEF Becomes
<1>7. RunSound(p)'
  BY <1>2, <1>3, <1>4, <1>6 DEF RunSound
<1>8. AskSound(p)'
  BY <1>3, <1>4, <1>6, <1>7 DEF AskSound
<1>9. passed \subseteq passed' /\ passed' \subseteq Trees /\ UNCHANGED <<tree, edits, asks, certs, revoked, slipped>>
  BY <1>1, <1>2, <1>3 DEF World
<1> QED
  BY <1>1, <1>4, <1>5, <1>8, <1>9, AskStep

\* What is recorded passed on the tree it is recorded for, unless that tree was edited
\* and changed back under the ledger's eyes.
LEMMA FinishStep == ASSUME CacheInv, NEW p \in Askers, Finish(p) PROVE CacheInv'
<1>1. /\ ask[p] \in Asks /\ AskSound(p) /\ ask \in [Askers -> Asks] /\ tree \in Trees /\ asks \in 0..MaxAsks
      /\ passed \subseteq Trees /\ slipped \in BOOLEAN
  BY AskKinds
<1> DEFINE valid == IF Valid(p) THEN "ok" ELSE "failed"
           next == [ask[p] EXCEPT !.at = "done", !.result = valid]
<1>2. Becomes(p, next) /\ UNCHANGED <<tree, edits, asks, passed>> /\ ask[p].at = "recording"
  BY DEF Finish, World, At
<1>3. valid \in {"ok", "failed"}
  OBVIOUS
<1>4. ask[p].src \in Trees /\ RunSound(p)
  BY <1>1, <1>2 DEF AskSound
<1> HIDE DEF valid
<1>5. next \in Asks /\ next.at = "done" /\ next.src = ask[p].src
  BY <1>1, <1>3 DEF Asks
<1> HIDE DEF next
<1>6. ask'[p] = next /\ ask' \in [Askers -> Asks] /\ \A q \in Askers \ {p} : ask'[q] = ask[q]
  BY <1>1, <1>2, <1>5 DEF Becomes
<1>7. AskSound(p)'
  BY <1>4, <1>5, <1>6 DEF AskSound
<1>8. slipped' \in BOOLEAN /\ revoked' \in BOOLEAN /\ (slipped => slipped')
  BY <1>1 DEF Finish, CacheInv, CacheShape
<1>9. \A q \in Askers : AskSound(q)'
  BY <1>2, <1>6, <1>7, <1>8, AskStays
<1>10. \A cert \in certs : CertSound(cert)'
  BY <1>2, <1>8, CertsStay
<1>11. ASSUME NEW cert \in certs' PROVE cert \in CertType /\ CertSound(cert)'
  <2>1. CASE cert \in certs
    BY <1>10, <2>1 DEF CacheInv, CacheShape
  <2>2. CASE cert \notin certs
    <3>1. /\ Valid(p)
          /\ slipped' = (slipped \/ (ask[p].got # ask[p].src /\ tree = ask[p].src))
          /\ cert \in {Cert(ask[p].src, context, ask[p]) : context \in
                IF p \in Executors \/ ask[p].trace = "none" THEN {Context[p]} ELSE {Context[p], Shared}}
      BY <1>11, <2>2 DEF Finish
    <3>2. PICK context \in {Context[p], Shared} : cert = Cert(ask[p].src, context, ask[p])
      BY <3>1
    <3>3. cert.src = ask[p].src /\ cert.trace = ask[p].trace /\ cert.reads = Reads[ask[p].got]
      BY <3>2 DEF Cert
    <3>4. cert \in CertType
      BY <1>1, <1>4, <3>2 DEF Cert, CertType, RunSound, Asks, Traces
    <3>5. ask[p].result = "ok" /\ (p \in Executors \/ tree = ask[p].src)
      BY <3>1 DEF Valid, Unchanged
    <3>6. ~slipped' => ask[p].got = ask[p].src
      BY <1>4, <3>1, <3>5 DEF RunSound
    <3>7. CertSound(cert)'
      BY <1>2, <1>4, <3>3, <3>5, <3>6 DEF CertSound, RunSound
    <3> QED
      BY <3>4, <3>7
  <2> QED
    BY <2>1, <2>2
<1>12. CacheShape'
  BY <1>1, <1>2, <1>6, <1>8, <1>11 DEF CacheInv, CacheShape
<1> QED
  BY <1>9, <1>11, <1>12 DEF CacheInv

LEMMA DieStep == ASSUME CacheInv, NEW p \in Askers, Die(p) PROVE CacheInv'
<1>1. /\ ask[p] \in Asks /\ AskSound(p) /\ ask \in [Askers -> Asks] /\ tree \in Trees /\ asks \in 0..MaxAsks
      /\ passed \subseteq Trees /\ slipped \in BOOLEAN
  BY AskKinds
<1>2. Becomes(p, NoAsk) /\ UNCHANGED <<tree, edits, asks, certs, revoked, slipped, passed>>
  BY DEF Die, World, Becomes
<1>3. NoAsk \in Asks /\ NoAsk.at = "off"
  BY DEF NoAsk, Asks, Traces
<1>4. ask'[p] = NoAsk
  BY <1>1, <1>2 DEF Becomes
<1>5. AskSound(p)'
  BY <1>3, <1>4 DEF AskSound
<1> QED
  BY <1>1, <1>2, <1>3, <1>5, AskStep

\* Fewer certificates, or another tree, disturb nothing.
LEMMA WorldStep ==
  ASSUME CacheInv, tree' \in Trees, edits' \in 0..MaxEdits, certs' \subseteq certs,
         UNCHANGED <<asks, revoked, ask, passed, slipped>>
  PROVE  CacheInv'
<1>1. CacheShape'
  BY DEF CacheInv, CacheShape
<1>2. \A p \in Askers : AskSound(p)'
  BY AskStays
<1>3. \A cert \in certs : CertSound(cert)'
  BY CertsStay
<1> QED
  BY <1>1, <1>2, <1>3 DEF CacheInv

LEMMA CacheStarts == CacheInit => CacheInv
<1> SUFFICES ASSUME CacheInit PROVE CacheInv
  OBVIOUS
<1>1. NoAsk \in Asks /\ NoAsk.at = "off"
  BY DEF NoAsk, Asks, Traces
<1>2. CacheShape
  <2>1. edits \in 0..MaxEdits /\ asks \in 0..MaxAsks /\ tree \in Trees
    BY ProofCacheAssumption DEF CacheInit
  <2>2. ask \in [Askers -> Asks]
    BY <1>1 DEF CacheInit
  <2>3. certs \subseteq CertType /\ passed \subseteq Trees /\ revoked \in BOOLEAN /\ slipped \in BOOLEAN
    BY DEF CacheInit
  <2> QED
    BY <2>1, <2>2, <2>3 DEF CacheShape
<1>3. \A p \in Askers : AskSound(p)
  BY <1>1 DEF CacheInit, AskSound
<1> QED
  BY <1>2, <1>3 DEF CacheInit, CacheInv

LEMMA CacheStep == CacheInv /\ [CacheNext]_cacheVars => CacheInv'
<1> SUFFICES ASSUME CacheInv, [CacheNext]_cacheVars PROVE CacheInv'
  OBVIOUS
<1>1. CASE Edit
  BY <1>1, WorldStep, ProofCacheAssumption DEF Edit, CacheInv, CacheShape
<1>2. CASE Prune
  BY <1>2, WorldStep DEF Prune, World, CacheInv, CacheShape
<1>3. ASSUME NEW p \in Askers, Request(p) \/ EnterFlight(p) \/ Look(p) \/ Run(p) \/ Finish(p) \/ Die(p) PROVE CacheInv'
  BY <1>3, RequestStep, EnterStep, LookStep, RunStep, FinishStep, DieStep
<1>4. CASE UNCHANGED cacheVars
  BY <1>4, WorldStep DEF cacheVars, CacheInv, CacheShape
<1> QED
  BY <1>1, <1>2, <1>3, <1>4 DEF CacheNext

\* The invariant of the cache holds in every state it reaches.
THEOREM CacheInvariant == CacheSpec => []CacheInv
BY CacheStarts, CacheStep, PTL DEF CacheSpec

\* Every state of the cache is well typed, and who is in flight knows its tree.
THEOREM CacheTypeCorrect == CacheSpec => []CacheTypeOK
<1>1. CacheInv => CacheTypeOK
  <2> SUFFICES ASSUME CacheInv PROVE CacheTypeOK
    OBVIOUS
  <2>1. \A p \in Askers : ask[p].src \in Trees \cup {NoTree} /\ (InFlight(p) => ask[p].src # NoTree)
    BY ProofCacheAssumption DEF CacheInv, CacheShape, Asks, AskSound, InFlight
  <2> QED
    BY <2>1 DEF CacheInv, CacheShape, CacheTypeOK
<1> QED
  BY <1>1, CacheInvariant, PTL

\* Whatever is edited, pruned, revoked or dies in between, what the cache replays as
\* passed has passed on that tree, or would pass on the tree it was compared with, as long
\* as no edit was undone before the ledger compared the tree (verification_ledger.py:174).
THEOREM ReplaysSound == CacheSpec => []ReplaySound
<1>1. CacheInv => ReplaySound
  BY DEF CacheInv, AskSound, ServedSound, ReplaySound
<1> QED
  BY <1>1, CacheInvariant, PTL
===============================================================================
