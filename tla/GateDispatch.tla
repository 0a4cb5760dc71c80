------------------------------ MODULE GateDispatch -----------------------------
\* How the threads of a verification plan run their commands on a cluster: the
\* controller chooses an endpoint, submits a job, polls it and decides about another
\* attempt (distributed_gates.py); the service of a worker runs the job in a thread
\* and keeps a record of it (worker_service.py, workers.py). Requests and replies are
\* lost, services restart, and a cancellation races the end of the job.
\* Every endpoint is a failure domain of its own, and a repair of the infrastructure
\* makes one round of the endpoints. The cache in front of this is ProofCache.
EXTENDS GatePlan
CONSTANTS
  Plans,        \* sets of commands that are verified together
  Distributed,  \* the commands whose plan runs on the cluster
  Endpoints,
  Local,        \* the endpoints that are this machine
  Room,         \* slots of each endpoint
  Able,         \* the endpoints that support a command
  Repairs,      \* the endpoints that advertise a repair of their infrastructure
  RetryLimit,   \* infrastructure_retry_limit
  MaxReported,  \* reported_infrastructure_max_workers
  None,
  MaxJobs,      \* bound: jobs of one command
  MaxFaults     \* bound: lost requests and restarts of a service

ASSUME GateDispatchAssumption ==
  /\ Plans \subseteq SUBSET Commands
  /\ Distributed \subseteq Commands /\ Local \subseteq Endpoints /\ Repairs \subseteq Endpoints /\ None \notin Endpoints
  /\ Room \in [Endpoints -> Nat \ {0}] /\ Able \in [Commands -> SUBSET Endpoints]
  /\ RetryLimit \in Nat /\ MaxReported \in Nat \ {0} /\ MaxJobs \in Nat /\ MaxFaults \in Nat

VARIABLES
  task,   \* the thread of each command: where it is, its endpoint, what it has tried
  jobs,   \* the jobs of each command: their thread at the worker, their record
  lane,   \* the endpoint the serial lane is pinned to, and its counted successes
  faults

dispatchVars == <<task, jobs, lane, faults>>
gateVars == <<planVars, dispatchVars>>

NoTask == [at |-> "idle", pass |-> "plain", end |-> None, tried |-> {}, left |-> RetryLimit]
\* thread: queued for slots, running, ended, or lost with its service. record: what the
\* file says, result: what is in it. cancel: how far worker_cancel is, which has set the
\* event of the thread before. group: the processes. reply: whether the controller
\* learnt that the job was accepted.
NewJob(e, pass, reply) ==
  [end |-> e, by |-> pass, reply |-> reply, thread |-> "queued", record |-> "staging",
   result |-> "none", cancel |-> "no", group |-> "none"]

DispatchInit ==
  /\ task = [c \in Distributed |-> NoTask]
  /\ jobs = [c \in Distributed |-> <<>>]
  /\ lane = [end |-> None, wins |-> {}] /\ faults = 0

-----------------------------------------------------------------------------
\* The controller: an endpoint.

Set(c, change) == task' = [task EXCEPT ![c] = change]
Stay == UNCHANGED <<jobs, lane, faults>>
PlanStay == UNCHANGED planVars
Threading == UNCHANGED <<waiting, running, cancelled, halted, fatal, turn>>

Give(c, result) == outcome' = [outcome EXCEPT ![c] = result] /\ Threading

Serial(c) == Lane[c] = 0 /\ task[c].pass = "plain"
Pinned(c) == Serial(c) /\ lane.end # None

Load(e) == Cardinality(SlotsTaken({c \in Distributed : task[c].end = e /\ task[c].pass # "repair"}))
HasRoom(e, c) == Load(e) + Required(c) <= Room[e]
Eligible(c) == {e \in Able[c] : Required(c) <= Room[e]}
Candidate(c) ==
  IF Pinned(c) THEN {lane.end} \cap Eligible(c)
  ELSE LET fresh == Eligible(c) \ task[c].tried IN
       IF fresh # {} \/ task[c].pass = "reported" THEN fresh ELSE Eligible(c) \cap Local
Roomy(c) == {e \in Candidate(c) : HasRoom(e, c)}
\* The least loaded first, this machine before a worker of the same load.
Before(e, f) ==
  \/ Load(e) * Room[f] < Load(f) * Room[e]
  \/ Load(e) * Room[f] = Load(f) * Room[e] /\ (e \in Local \/ f \notin Local)
Best(c) == {e \in Roomy(c) : \A f \in Roomy(c) : Before(e, f)}

\* The pinned wait looks at the event only while it has to wait.
CancelledWhileWaiting(c) == cancelled /\ Roomy(c) = {}
CancelSeen(c) == cancelled /\ (Pinned(c) => Roomy(c) = {})

Begin(c) ==
  /\ Busy(c) /\ task[c].at = "idle"
  /\ IF cancelled
     THEN Give(c, "cancelled") /\ UNCHANGED task
     ELSE PlanStay /\ Set(c, [task[c] EXCEPT !.at = "acquire"])
  /\ Stay

Acquire(c) ==
  /\ Busy(c) /\ task[c].at = "acquire" /\ ~CancelSeen(c)
  /\ \E e \in Best(c) :
       /\ Set(c, [task[c] EXCEPT !.at = IF e \in Local THEN "local" ELSE "submit",
                                 !.end = e, !.tried = @ \cup {e}])
       /\ lane' = IF Serial(c) THEN [lane EXCEPT !.end = e] ELSE lane
  /\ PlanStay /\ UNCHANGED <<jobs, faults>>

\* No endpoint may run it, or none gets free before the deadline.
AcquireFails(c) ==
  /\ Busy(c) /\ task[c].at = "acquire"
  /\ \/ CancelSeen(c) /\ Give(c, "cancelled") /\ Set(c, [task[c] EXCEPT !.at = "done"])
     \/ /\ ~CancelSeen(c) /\ Roomy(c) = {} /\ task[c].pass = "plain"
        /\ Give(c, "infra") /\ Set(c, [task[c] EXCEPT !.at = "done"])
     \/ /\ ~CancelSeen(c) /\ Roomy(c) = {} /\ task[c].pass = "reported"
        /\ PlanStay /\ Set(c, [task[c] EXCEPT !.at = "repair", !.pass = "repair", !.tried = {}])
  /\ Stay

-----------------------------------------------------------------------------
\* The controller: what an attempt came to, and whether there is another one.
\* "reported": the command failed and its output names the infrastructure.

Attempts == {"ok", "failed", "timeout", "cancelled", "infra", "reported", "uncertain", "error"}
Infra == {"infra", "reported", "uncertain", "error"}
Freed(c) == [task[c] EXCEPT !.end = None, !.at = "done"]

\* A stateful lane cannot safely move after earlier commands succeeded.
HasState(c) == Serial(c) /\ lane.wins # {}
NoState(c) == FALSE
Tied(c) == HasState(c)

More(c) == IF Cardinality(task[c].tried) < MaxReported
           THEN [Freed(c) EXCEPT !.pass = "reported", !.at = "acquire"]
           ELSE [Freed(c) EXCEPT !.pass = "repair", !.at = "repair", !.tried = {}]

SpentNever(c) == FALSE
Spent(c) == task[c].left = 0

Verdict(result) == IF result \in Infra THEN "infra" ELSE result
\* The answer was lost after the worker had accepted the job: nobody tries again.
Final(c, result) ==
  CASE task[c].pass = "plain" ->
         result \notin Infra \/ result = "uncertain" \/ Tied(c)
         \/ (result \in {"infra", "error"} /\ Spent(c))
    [] task[c].pass = "reported" -> result \notin Infra \/ result = "uncertain"
    [] task[c].pass = "repair"   -> result \notin Infra \/ result = "error"

Handled(c, result) ==
  /\ lane' = CASE Serial(c) /\ result = "ok" -> [lane EXCEPT !.wins = @ \cup {task[c].end}]
               [] Serial(c) /\ result \in {"infra", "reported", "error"} /\ ~Tied(c) -> [lane EXCEPT !.end = None]
               [] OTHER -> lane
  /\ IF Final(c, result)
     THEN /\ Set(c, Freed(c))
          /\ Give(c, IF result = "error" /\ task[c].pass = "repair" THEN "raised" ELSE Verdict(result))
     ELSE /\ Give(c, "none")
          /\ Set(c, CASE task[c].pass = "repair" -> [Freed(c) EXCEPT !.at = "repair"]
                      [] task[c].pass = "plain" /\ result # "reported" ->
                           [Freed(c) EXCEPT !.at = "acquire", !.left = @ - 1]
                      [] OTHER -> More(c))

\* A repair runs the command wherever the repair succeeded, whatever runs there, and
\* no matter how the attempt before it ended.
Repair(c) ==
  /\ Busy(c) /\ task[c].at = "repair"
  /\ \/ /\ PlanStay
        /\ \E e \in Repairs \ task[c].tried :
             LET next == [task[c] EXCEPT !.tried = @ \cup {e}] IN
             \/ Set(c, next)
             \/ Set(c, [next EXCEPT !.end = e, !.at = IF e \in Local THEN "local" ELSE "submit"])
     \/ /\ Give(c, "infra") /\ Set(c, [task[c] EXCEPT !.at = "done"])
  /\ Stay

\* The command runs on this machine; its supervision gives it up as in GatePlan.
LocalGivesUp(c) == task[c].at = "local" /\ GiveUp(c) /\ UNCHANGED dispatchVars
LocalReturns(c) ==
  /\ Busy(c) /\ task[c].at = "local"
  /\ \E result \in Attempts \ {"uncertain"} :
       /\ result = "cancelled" => cancelled
       /\ outcome[c] = "expired" => result \in {"timeout", "error"}
       /\ Handled(c, result)
  /\ UNCHANGED <<jobs, faults>>

-----------------------------------------------------------------------------
\* The service of a worker. A job is accepted once and runs in a thread; its record
\* is a file, written by that thread and by whoever cancels it.

Fault == faults < MaxFaults /\ faults' = faults + 1
SetJob(c, n, change) == jobs' = [jobs EXCEPT ![c][n] = change]
Accepts(c, reply) ==
  /\ Len(jobs[c]) < MaxJobs
  /\ jobs' = [jobs EXCEPT ![c] = Append(@, NewJob(task[c].end, task[c].pass, reply))]

Submit(c) ==
  /\ Busy(c) /\ task[c].at = "submit"
  /\ Accepts(c, "got") /\ Set(c, [task[c] EXCEPT !.at = "poll"])
  /\ PlanStay /\ UNCHANGED <<lane, faults>>

\* The staging before it, the request or its reply is lost: all the controller sees is
\* that the submission failed.
SubmitLost(c) ==
  /\ Busy(c) /\ task[c].at = "submit" /\ Fault
  /\ Accepts(c, "lost") \/ UNCHANGED jobs
  /\ Handled(c, "error")

AtWorker(c, n) == n \in DOMAIN jobs[c]
Threads(e) == {d \in Distributed \X (1..MaxJobs) :
                 AtWorker(d[1], d[2]) /\ jobs[d[1]][d[2]].end = e /\ jobs[d[1]][d[2]].thread = "running"}
SlotsHeld(e) == FoldSet(LAMBDA d, total : total + Required(d[1]), 0, Threads(e))

ByService == UNCHANGED <<planVars, task, lane>>

\* The thread takes its slots and starts the command, even one that is being cancelled.
JobStarts(c, n) ==
  /\ AtWorker(c, n) /\ jobs[c][n].thread = "queued"
  /\ SlotsHeld(jobs[c][n].end) + Required(c) <= Room[jobs[c][n].end]
  /\ SetJob(c, n, [jobs[c][n] EXCEPT !.thread = "running", !.record = "running", !.group = "alive"])
  /\ ByService /\ UNCHANGED faults

\* A heartbeat writes the record of the thread over whatever is there.
JobBeats(c, n) ==
  /\ AtWorker(c, n) /\ jobs[c][n].thread = "running" /\ jobs[c][n].record # "running"
  /\ SetJob(c, n, [jobs[c][n] EXCEPT !.record = "running"])
  /\ ByService /\ UNCHANGED faults

\* A job may leave processes behind, whatever its result is (cleanup_incomplete): the
\* ones a command left could not be killed, or the thread failed after the start.
JobEnds(c, n) ==
  /\ AtWorker(c, n) /\ jobs[c][n].thread \in {"queued", "running"}
  /\ \E result \in {"ok", "failed", "reported", "infra", "cancelled", "timeout"},
        group \in {jobs[c][n].group, "gone"} :
       /\ jobs[c][n].thread = "queued" => result = "infra"
       /\ result = "cancelled" => jobs[c][n].cancel # "no"
       /\ SetJob(c, n, [jobs[c][n] EXCEPT !.thread = "ended", !.record = "terminal",
                                          !.result = result, !.group = group])
  /\ ByService /\ UNCHANGED faults

\* The service dies and comes back: its threads are gone, the records and the processes
\* stay.
Restart(e) ==
  /\ Fault /\ e \notin Local
  /\ \E c \in Distributed : \E n \in DOMAIN jobs[c] :
       jobs[c][n].end = e /\ jobs[c][n].thread \in {"queued", "running"}
  /\ jobs' = [c \in Distributed |-> [n \in DOMAIN jobs[c] |->
                IF jobs[c][n].end = e /\ jobs[c][n].thread \in {"queued", "running"}
                THEN [jobs[c][n] EXCEPT !.thread = "lost", !.cancel = IF @ = "no" THEN "no" ELSE "done"]
                ELSE jobs[c][n]]]
  /\ ByService

-----------------------------------------------------------------------------
\* The controller polls. worker_cancel works on the copy of the record it read: a
\* terminal record written in the meantime, and the result in it, are overwritten.

Last(c) == Len(jobs[c])
Polls(c) == Busy(c) /\ task[c].at = "poll"
Cancelling == {"mark", "kill", "write", "writeLeft"}

Cancel(c) ==
  /\ Polls(c) /\ cancelled /\ jobs[c][Last(c)].cancel = "no"
  /\ LET job == jobs[c][Last(c)] IN
     SetJob(c, Last(c), [job EXCEPT !.cancel = IF job.record = "terminal" THEN "done"
                                               ELSE IF job.record = "running" THEN "kill" ELSE "mark"])
  /\ ByService /\ UNCHANGED faults

CancelKill(c, n) ==
  /\ AtWorker(c, n) /\ jobs[c][n].cancel = "kill"
  /\ IF jobs[c][n].group # "alive"
     THEN SetJob(c, n, [jobs[c][n] EXCEPT !.cancel = "done"])
     ELSE \/ SetJob(c, n, [jobs[c][n] EXCEPT !.cancel = "write", !.group = "gone"])
          \/ SetJob(c, n, [jobs[c][n] EXCEPT !.cancel = "writeLeft"])
  /\ ByService /\ UNCHANGED faults

CancelWrite(c, n) ==
  /\ AtWorker(c, n) /\ jobs[c][n].cancel \in {"mark", "write", "writeLeft"}
  /\ SetJob(c, n, [jobs[c][n] EXCEPT
       !.record = CASE jobs[c][n].cancel = "mark" -> "requested"
                    [] jobs[c][n].cancel = "write" -> "cancelled"
                    [] OTHER -> "incomplete",
       !.result = "none", !.cancel = "done"])
  /\ ByService /\ UNCHANGED faults

\* A final record without a result is an error, and so is an artifact that cannot be
\* published.
Poll(c) ==
  /\ Polls(c) /\ jobs[c][Last(c)].cancel \notin Cancelling
  /\ cancelled => jobs[c][Last(c)].cancel = "done"
  /\ LET job == jobs[c][Last(c)] IN
     /\ job.record \in {"terminal", "cancelled", "incomplete"}
     /\ \E result \in IF job.record # "terminal" THEN {"error"}
                      ELSE IF job.result = "ok" THEN {"ok", "error"} ELSE {job.result} :
          Handled(c, result)
  /\ UNCHANGED <<jobs, faults>>

\* A request fails after the job was accepted, or the deadline passes and nothing can
\* come any more.
PollFails(c) ==
  /\ Polls(c)
  /\ \/ Fault
     \/ /\ jobs[c][Last(c)].thread \in {"ended", "lost"} /\ UNCHANGED faults
        /\ jobs[c][Last(c)].cancel \notin Cancelling
        /\ jobs[c][Last(c)].record \in {"staging", "running", "requested"}
  /\ Handled(c, "uncertain") /\ UNCHANGED jobs

Controller(c) ==
  \/ Begin(c) \/ Acquire(c) \/ AcquireFails(c) \/ Repair(c) \/ LocalReturns(c)
  \/ Submit(c) \/ SubmitLost(c) \/ Cancel(c) \/ Poll(c) \/ PollFails(c)
Service(c, n) ==
  JobStarts(c, n) \/ JobBeats(c, n) \/ JobEnds(c, n) \/ CancelKill(c, n) \/ CancelWrite(c, n)
InPlan(step) == step /\ UNCHANGED dispatchVars

DispatchNext ==
  \/ InPlan(Scheduler) \/ \E c \in Commands \ Distributed : InPlan(Thread(c))
  \/ \E c \in Distributed : Controller(c) \/ LocalGivesUp(c) \/ \E n \in 1..MaxJobs : Service(c, n)
  \/ \E e \in Endpoints : Restart(e)

GateInit == \E plan \in Plans : PlanInit(plan)
GateSpec == GateInit /\ DispatchInit /\ [][DispatchNext]_gateVars

\* Threads are scheduled, polls and waits have deadlines, a job ends by its timeout.
GateFairness ==
  /\ WF_gateVars(InPlan(Scheduler))
  /\ \A c \in Commands \ Distributed : WF_gateVars(InPlan(\E result \in Returned : Return(c, result)))
  /\ \A c \in Distributed : WF_gateVars(Controller(c))
  /\ \A c \in Distributed, n \in 1..MaxJobs :
       WF_gateVars(JobEnds(c, n)) /\ WF_gateVars(CancelKill(c, n) \/ CancelWrite(c, n))
GateLiveSpec == GateSpec /\ GateFairness

-----------------------------------------------------------------------------
Passes == {"plain", "reported", "repair"}
GateTypeOK ==
  /\ PlanTypeOK
  /\ task \in [Distributed ->
       [at : {"idle", "acquire", "local", "submit", "poll", "repair", "done"}, pass : Passes,
        end : Endpoints \cup {None}, tried : SUBSET Endpoints, left : 0..RetryLimit]]
  /\ \A c \in Distributed : \A n \in DOMAIN jobs[c] : jobs[c][n] \in
       [end : Endpoints \ Local, by : Passes, reply : {"got", "lost"},
        thread : {"queued", "running", "ended", "lost"},
        record : {"staging", "running", "requested", "cancelled", "incomplete", "terminal"},
        result : {"none", "ok", "failed", "reported", "infra", "cancelled", "timeout"},
        cancel : {"no", "done"} \cup Cancelling, group : {"none", "alive", "gone"}]
  /\ lane.end \in Endpoints \cup {None} /\ lane.wins \subseteq Endpoints
  /\ faults \in 0..MaxFaults

\* A plan that fails names a cause, unless a command was tried again: an executor that
\* fails after it gave its command up is retried, and the retry reports the
\* cancellation which that command caused itself.
Retried(c) == task[c].left < RetryLimit \/ task[c].pass # "plain"
CauseKept == (\A c \in Distributed : ~Retried(c)) => CauseNamed

LiveJob(job) == job.thread \in {"queued", "running"} \/ job.group = "alive"
\* A job whose thread has not ended it: it may still run, or its service was lost and
\* its processes are there.
Unfinished(job) == job.thread \in {"queued", "running"} \/ (job.thread = "lost" /\ job.group = "alive")
\* A repair may run beside a job of an attempt that was made after a reported failure.
Blind(by, job) == by = "repair" /\ job.by # "plain"

\* A command does not run twice at a time: while a job that the controller knows to be
\* accepted is not ended by its worker, no later attempt of the command has anything
\* running. Not claimed of a submission whose reply was lost, of a repair after a
\* reported failure, and of processes that an ended job left behind: the controller
\* tries again beside all of these (distributed_gates.py:1044, 1065, 1311).
OneLiveJob ==
  \A c \in Distributed : \A n \in DOMAIN jobs[c] :
    Unfinished(jobs[c][n]) /\ jobs[c][n].reply = "got" =>
      /\ \A m \in DOMAIN jobs[c] : m > n /\ ~Blind(jobs[c][m].by, jobs[c][n]) => ~LiveJob(jobs[c][m])
      /\ ~(task[c].at = "local" /\ ~Blind(task[c].pass, jobs[c][n]))

\* The commands of the serial lane build on what the earlier ones left in its sandbox:
\* once one has passed there in the lane's own pass, the lane stays where it is, whichever
\* attempts fail ("A stateful lane cannot safely move", distributed_gates.py:1188). A pass
\* in the retry of a reported failure is not recorded as the lane's (line 1195).
LaneStays == lane.wins \subseteq {lane.end}
===============================================================================
