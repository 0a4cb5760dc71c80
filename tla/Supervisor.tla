------------------------------- MODULE Supervisor -------------------------------
\* The external supervisor (supervisor/src/auto_agents_watch): one maintenance job of
\* a business root, the row of it in the supervisor's own store, and the commands that
\* start, resume, cancel and reconcile it, each a process of its own (a watcher). A
\* watcher takes the project's run lock, hands its descriptor to the business process
\* it starts, and repairs the engine when that process reports an engine fault.
EXTENDS Naturals, FiniteSets
CONSTANTS
  Watchers,     \* processes that run a command on the job
  Checks,       \* the fixed checks of a candidate
  Limit,        \* no_progress_limit
  Nobody,       \* no process
  MaxSeq,       \* bound: milestones of the business
  MaxCancels,   \* bound: cancel commands
  MaxDeaths     \* bound: watchers that die

ASSUME SupervisorAssumption ==
  /\ Limit \in Nat \ {0} /\ MaxSeq \in Nat /\ MaxCancels \in Nat /\ MaxDeaths \in Nat
  /\ Nobody \notin Watchers

VARIABLES
  job,     \* the row
  watch,   \* the watchers: where they are, and what they remember
  child,   \* the process a watcher has started and that still lives
  holders, \* who holds the run lock: a watcher, and the business that inherited it
  seq,     \* milestones the business has reached
  cancels, deaths

watchVars == <<job, watch, child, holders, seq, cancels, deaths>>

NewRow == [state |-> "RUNNING", cancel |-> "no", call |-> "no", process |-> Nobody, tries |-> 0,
           best |-> {}, fault |-> "none", seq |-> 0, runtime |-> "no", needs |-> "no",
           candidate |-> "no", revision |-> "no", verified |-> "none", confirmed |-> "no", recheck |-> "no"]
NoRow == [NewRow EXCEPT !.state = "none"]
NewWatch == [at |-> "off", cmd |-> "none", seen |-> "business", role |-> "none", keep |-> "no", out |-> "none", got |-> {}]

WatchInit ==
  /\ job = NoRow /\ watch = [w \in Watchers |-> NewWatch]
  /\ child = [w \in Watchers |-> "none"] /\ holders = {} /\ seq = 0 /\ cancels = 0 /\ deaths = 0

-----------------------------------------------------------------------------
\* One step of a watcher: it writes the row, or not, and goes on.

On(w, place) == watch[w].at = place
Forgets == {"business", "maintain", "repair", "commit", "stop", "end", "dead"}   \* it remembers nothing there
At(view, place) == [view EXCEPT !.at = place]
Becomes(w, view) == watch' = [watch EXCEPT ![w] = view]
Goes(w, place) == Becomes(w, At(IF place \in Forgets THEN NewWatch ELSE watch[w], place))
Hears(w, out) == Becomes(w, [watch[w] EXCEPT !.out = IF On(w, "dead") THEN @ ELSE out])
Save(row) == job' = row
Outside == UNCHANGED <<holders, child, seq, cancels, deaths>>

Raise(w) == Goes(w, "stop") /\ UNCHANGED job
Alive(process) == process # Nobody /\ child[process] # "none"
NotCancelled == job.cancel = "no"

\* An exception: STOPPED with its text as the reason. Every end gives the lock back.
ReleaseLock(w) == holders' = holders \ {<<w, "watch">>} /\ UNCHANGED <<child, seq, cancels, deaths>>
Ends(w, row) == Save(row) /\ Goes(w, "end") /\ ReleaseLock(w)
Stopped(w) == On(w, "stop") /\ Ends(w, [job EXCEPT !.state = "STOPPED"])

-----------------------------------------------------------------------------
\* Commands. resume decides by a row it reads before it has the lock.

Explicit(cmd) == cmd \in {"resume", "retry"}
Rechecks(cmd) == cmd \in {"retry", "recheck"}     \* retry_business
Proceeds(row, cmd) ==
  /\ row.state # "DONE" /\ row.call = "no" /\ ~Alive(row.process)
  /\ row.cancel = "yes" => Explicit(cmd)
  /\ row.state = "STOPPED" /\ row.fault = "other" => Rechecks(cmd)

\* Where a row makes a command begin.
First(row) ==
  IF /\ row.needs = "yes" \/ (row.fault # "none" /\ row.runtime = "no")
     /\ row.state \in {"STOPPED", "REPAIRING", "VERIFYING", "RESTARTING"}
  THEN "maintain" ELSE "business"

Reads(w, row, cmd) ==
  /\ IF Proceeds(row, cmd) THEN Becomes(w, [watch[w] EXCEPT !.at = "lock", !.cmd = cmd, !.seen = First(row)])
     ELSE Goes(w, "end")
  /\ Outside

\* admit() selects the job of the root, or creates it, in one transaction. A repair that
\* was refused over a dirty engine, before it had a candidate, gives way to the business.
Unprepared == job.state = "STOPPED" /\ job.candidate = "no" /\ job.tries = 0 /\ job.needs = "yes"
Start(w) ==
  /\ On(w, "off")
  /\ \/ job = NoRow /\ Save(NewRow) /\ Reads(w, NewRow, "created")
     \/ job # NoRow /\ UNCHANGED job /\ Reads(w, job, "start")
     \/ Unprepared /\ UNCHANGED job /\ Reads(w, job, "recheck")
Resume(w) ==
  /\ On(w, "off") /\ job # NoRow /\ UNCHANGED job
  /\ \E cmd \in {"resume", "retry"} : Reads(w, job, cmd)

\* Refused by the lock, the command that created the job writes STOPPED into it.
TakeLock(w) ==
  /\ On(w, "lock")
  /\ IF holders = {}
     THEN holders' = {<<w, "watch">>} /\ Goes(w, "prepare") /\ UNCHANGED job
     ELSE /\ Goes(w, "end") /\ UNCHANGED holders
          /\ Save([job EXCEPT !.state = IF watch[w].cmd = "created" THEN "STOPPED" ELSE @])
  /\ UNCHANGED <<child, seq, cancels, deaths>>

\* acknowledge_resume, and the recheck of the business. A command that writes nothing
\* here decides by the row it has seen.
Acknowledged(cmd) ==
  CASE cmd = "retry" -> [job EXCEPT !.cancel = "no", !.needs = "no", !.fault = "none"]
    [] cmd = "resume" -> [job EXCEPT !.cancel = "no"]
    [] cmd = "recheck" -> [job EXCEPT !.needs = "no", !.fault = "none"]
    [] OTHER -> job
Prepare(w) ==
  /\ On(w, "prepare")
  /\ LET cmd == watch[w].cmd
         row == Acknowledged(cmd)
     IN  /\ Save(row)
         /\ Goes(w, IF Explicit(cmd) \/ Rechecks(cmd) THEN First(row) ELSE watch[w].seen)
  /\ Outside

Cancel ==
  /\ cancels < MaxCancels /\ cancels' = cancels + 1 /\ job # NoRow
  /\ Save([job EXCEPT !.cancel = "yes"])
  /\ UNCHANGED <<watch, child, holders, seq, deaths>>

\* The operator supplies the receipt of a call that no live process works on.
Reconcile ==
  /\ job.call # "no" /\ ~Alive(job.process) /\ holders = {}
  /\ Save([job EXCEPT !.call = "no", !.state = "STOPPED", !.process = Nobody,
                      !.recheck = IF job.call = "implement" THEN "yes" ELSE "no"])
  /\ UNCHANGED <<watch, child, holders, seq, cancels, deaths>>

-----------------------------------------------------------------------------
\* business(): one run of the business process under the watcher.

Business(w) ==
  /\ On(w, "business")
  /\ IF NotCancelled THEN Save([job EXCEPT !.state = "RUNNING"]) /\ Goes(w, "spawn") ELSE Raise(w)
  /\ Outside

InheritsNot == FALSE
Inherits == TRUE
SpawnBusiness(w) ==
  /\ On(w, "spawn") /\ Goes(w, "register")
  /\ child' = [child EXCEPT ![w] = "business"]
  /\ holders' = IF Inherits THEN holders \cup {<<w, "business">>} ELSE holders
  /\ UNCHANGED <<job, seq, cancels, deaths>>
RecordProcess(w) ==
  /\ On(w, "register") /\ Goes(w, IF watch[w].role = "none" THEN "watch" ELSE "call")
  /\ Save([job EXCEPT !.process = w]) /\ Outside

Milestone(w) ==
  /\ child[w] = "business" /\ seq < MaxSeq /\ seq' = seq + 1
  /\ UNCHANGED <<job, watch, child, holders, cancels, deaths>>

\* A fault of the engine, of another kind, or a stop without one. The process may have
\* lost its watcher by then.
Outs == {"completed", "stopped", "engine", "other"}
Over(w, out) ==
  /\ child' = [child EXCEPT ![w] = "none"]
  /\ Hears(w, out)
  /\ holders' = holders \ {<<w, "business">>}
  /\ UNCHANGED <<job, seq, cancels, deaths>>
BusinessEnds(w) == child[w] = "business" /\ \E out \in Outs : Over(w, out)
\* The watcher ends it: a cancel, no heartbeat, or steps that repeat.
Kills(w) ==
  /\ On(w, "watch") /\ child[w] = "business"
  /\ \E out \in {"cancelled", "lost", "engine", "stopped"} : (out = "cancelled" => ~NotCancelled) /\ Over(w, out)

Collect(w) ==
  /\ On(w, "watch") /\ child[w] = "none"
  /\ Goes(w, "decide") /\ Save([job EXCEPT !.process = Nobody]) /\ Outside

\* A second fault is repaired only after the first repair has let the business go on:
\* a repaired job without a new milestone, or with the same fault, stops.
Advanced == job.runtime = "yes" /\ job.fault # "none"
Fresh(row) == [row EXCEPT !.candidate = "no", !.revision = "no", !.verified = "none", !.confirmed = "no", !.recheck = "no"]
NextEpisode(changed) ==
  CASE Advanced -> Fresh([job EXCEPT !.best = {}, !.tries = 0])
    [] ~Advanced /\ changed -> Fresh(job)
    [] OTHER -> job
Faulted(row) == [row EXCEPT !.fault = "engine", !.seq = seq, !.needs = "yes"]

Decide(w) ==
  /\ On(w, "decide")
  /\ LET out == watch[w].out
     IN  \/ Ends(w, [job EXCEPT !.state = "STOPPED"]) /\ (out # "completed" \/ ~NotCancelled)   \* not quiesced, cancelled, lost, stopped
         \/ NotCancelled /\ out = "completed" /\ Ends(w, [job EXCEPT !.state = "DONE"])
         \/ NotCancelled /\ out = "other" /\ Ends(w, [job EXCEPT !.state = "STOPPED", !.fault = "other"])
         \/ /\ NotCancelled /\ out = "engine"
            /\ Advanced => seq > job.seq
            /\ \E changed \in {c \in BOOLEAN : c => job.candidate = "yes"} :
                 Save(Faulted(NextEpisode(changed)))
            /\ Goes(w, "maintain") /\ Outside

-----------------------------------------------------------------------------
\* maintain(): a private candidate, the reproduction of the fault, then the loop of
\* repair, verification and review.

Maintain(w) ==
  /\ On(w, "maintain")
  /\ \/ Raise(w)
     \/ /\ NotCancelled /\ job.tries < Limit
        /\ Save([job EXCEPT !.candidate = "yes"]) /\ Goes(w, "reproduce")
  /\ Outside

Reproduce(w) ==
  /\ On(w, "reproduce")
  /\ \/ Raise(w) /\ job.confirmed = "no"
     \/ \E recheck \in IF job.confirmed = "no" THEN {job.recheck, "yes"} ELSE {job.recheck} :
          /\ Save([job EXCEPT !.confirmed = "yes", !.recheck = recheck])
          /\ Becomes(w, [watch[w] EXCEPT !.at = "repair", !.keep =
               IF recheck = "yes" \/ (job.revision = "yes" /\ job.verified = "none") THEN "yes" ELSE "no"])
  /\ Outside

Asks(w, role) == Becomes(w, [watch[w] EXCEPT !.at = "reserve", !.role = role, !.keep = "no"])
Repair(w) ==
  /\ On(w, "repair")
  /\ IF watch[w].keep = "no" /\ job.verified # "ok"
     THEN Save([job EXCEPT !.state = "REPAIRING"]) /\ Asks(w, "implement")
     ELSE Save([job EXCEPT !.recheck = "no"]) /\ Goes(w, "commit")
  /\ Outside

\* model(): reserve counts the call before it is sent, settle closes it. A call whose
\* outcome is not confirmed stays open. What stops a repair only ends a publication.
GivesUp(w) == Goes(w, IF watch[w].role = "publish" THEN "business" ELSE "stop")
Reserve(w) ==
  /\ On(w, "reserve")
  /\ \/ GivesUp(w) /\ UNCHANGED job                            \* the limit of calls or of time
     \/ /\ NotCancelled /\ job.call = "no"
        /\ Save([job EXCEPT !.call = watch[w].role]) /\ Goes(w, "dispatch")
  /\ Outside
Dispatch(w) ==
  /\ On(w, "dispatch") /\ child' = [child EXCEPT ![w] = "model"] /\ Goes(w, "register")
  /\ UNCHANGED <<job, holders, seq, cancels, deaths>>
ModelEnds(w) ==
  /\ child[w] = "model" /\ child' = [child EXCEPT ![w] = "none"]
  /\ \E out \in {"ok", "failed", "unconfirmed"} : Hears(w, out)
  /\ UNCHANGED <<job, holders, seq, cancels, deaths>>

After(w) == CASE watch[w].role = "implement" -> IF watch[w].out = "ok" THEN "commit" ELSE "stop"
              [] watch[w].role = "review" -> "verdict"
              [] OTHER -> "business"
Settle(w) ==
  /\ On(w, "call") /\ child[w] = "none"
  /\ IF watch[w].out = "unconfirmed"
     THEN Save([job EXCEPT !.state = "STOPPED"]) /\ GivesUp(w)
     ELSE Save([job EXCEPT !.call = "no", !.process = Nobody]) /\ Goes(w, After(w))
  /\ Outside

Commit(w) ==
  /\ On(w, "commit")
  /\ \/ Raise(w)                                               \* protected paths
     \/ /\ NotCancelled /\ Goes(w, "verify")
        /\ Save([job EXCEPT !.state = "VERIFYING", !.revision = "yes"])
  /\ Outside

Verify(w) ==
  /\ On(w, "verify")
  /\ \E got \in SUBSET Checks :
       IF got = Checks
       THEN UNCHANGED job
            /\ Becomes(w, [watch[w] EXCEPT !.got = got, !.at = "reserve", !.role = "review"])
       ELSE Save([job EXCEPT !.verified = "failed"])
            /\ Becomes(w, [watch[w] EXCEPT !.got = got, !.at = "judge"])
  /\ Outside
Verdict(w) ==
  /\ On(w, "verdict")
  /\ \/ Raise(w)                                               \* no verdict in the reply
     \/ Save([job EXCEPT !.verified = "failed"]) /\ Goes(w, "judge")
     \/ watch[w].out = "ok" /\ Save([job EXCEPT !.verified = "ok"]) /\ Goes(w, "deliver")
  /\ Outside

\* progress(): only a result that contains the best one so far, and more, is a
\* progress.
ImprovedOnLast(got) == ~(got \subseteq job.best)
Improved(got) == job.best \subseteq got /\ job.best # got
Judge(w) ==
  /\ On(w, "judge")
  /\ LET got == watch[w].got IN
     \/ Raise(w)                                               \* an unknown outcome
     \/ /\ Save(IF Improved(got) THEN [job EXCEPT !.best = got, !.tries = 0] ELSE [job EXCEPT !.tries = @ + 1])
        /\ Goes(w, IF Improved(got) \/ job.tries + 1 < Limit THEN "repair" ELSE "stop")
  /\ Outside

\* Delivered, installed, and perhaps published; what goes wrong with the publication
\* is only recorded.
Deliver(w) ==
  /\ On(w, "deliver")
  /\ IF ~NotCancelled THEN Raise(w)
     ELSE \/ Save([job EXCEPT !.state = "RESTARTING"]) /\ Goes(w, "stop")
          \/ /\ Save([job EXCEPT !.state = "RESTARTING", !.runtime = "yes", !.needs = "no"])
             /\ Goes(w, "business") \/ Asks(w, "publish")
  /\ Outside

-----------------------------------------------------------------------------
Working(w) == watch[w].at \notin {"off", "end", "dead"}
Step(w) ==
  \/ Stopped(w) \/ TakeLock(w) \/ Prepare(w)
  \/ Business(w) \/ SpawnBusiness(w) \/ RecordProcess(w) \/ Collect(w) \/ Decide(w)
  \/ Maintain(w) \/ Reproduce(w) \/ Repair(w) \/ Reserve(w) \/ Dispatch(w) \/ Settle(w)
  \/ Commit(w) \/ Verify(w) \/ Verdict(w) \/ Judge(w) \/ Deliver(w)
ChildEnds(w) == BusinessEnds(w) \/ ModelEnds(w)

\* A watcher dies; its child lives on, and with it the lock a business has inherited.
Dies(w) ==
  /\ deaths < MaxDeaths /\ deaths' = deaths + 1 /\ Working(w)
  /\ Goes(w, "dead") /\ holders' = holders \ {<<w, "watch">>}
  /\ UNCHANGED <<job, child, seq, cancels>>

WatchNext ==
  \/ Cancel \/ Reconcile
  \/ \E w \in Watchers : Start(w) \/ Resume(w) \/ Step(w) \/ Kills(w) \/ Milestone(w) \/ ChildEnds(w) \/ Dies(w)
WatchSpec == WatchInit /\ [][WatchNext]_watchVars

\* A watcher is a program that runs, and what it starts ends: the business by its own
\* limits or by the watcher's, a model call by its timeout.
WatchFairness == \A w \in Watchers : WF_watchVars(Step(w)) /\ WF_watchVars(ChildEnds(w))
WatchLiveSpec == WatchSpec /\ WatchFairness

-----------------------------------------------------------------------------
Rows == [state : {"none", "RUNNING", "REPAIRING", "VERIFYING", "RESTARTING", "DONE", "STOPPED"},
         cancel : {"yes", "no"}, call : {"no", "implement", "review", "publish"},
         process : Watchers \cup {Nobody}, tries : 0..Limit, best : SUBSET Checks,
         fault : {"none", "engine", "other"}, seq : 0..MaxSeq, runtime : {"yes", "no"}, needs : {"yes", "no"},
         candidate : {"yes", "no"}, revision : {"yes", "no"}, verified : {"none", "failed", "ok"},
         confirmed : {"yes", "no"}, recheck : {"yes", "no"}]
Places == {"off", "lock", "prepare", "business", "spawn", "register", "watch", "decide", "maintain", "reproduce",
           "repair", "reserve", "dispatch", "call", "commit", "verify", "verdict", "judge", "deliver", "stop", "end", "dead"}
Views == [at : Places, cmd : {"none", "created", "start", "recheck", "resume", "retry"}, seen : {"business", "maintain"},
          role : {"none", "implement", "review", "publish"}, keep : {"yes", "no"},
          out : Outs \cup {"none", "cancelled", "lost", "ok", "failed", "unconfirmed"}, got : SUBSET Checks]
WatchTypeOK ==
  /\ job \in Rows /\ watch \in [Watchers -> Views] /\ child \in [Watchers -> {"none", "business", "model"}]
  /\ holders \subseteq Watchers \X {"watch", "business"} /\ seq \in 0..MaxSeq

\* The business of a project runs once at a time, and no watcher works on its job
\* beside it, whichever watcher died when: the business holds the lock it inherited.
Owns(w) == <<w, "watch">> \in holders
OneBusiness ==
  \A v, w \in Watchers : v # w /\ child[v] = "business" => child[w] # "business" /\ ~Owns(w)

\* A supervised task comes to an end, also without a limit on model calls: every
\* repair either improves on the best result so far, or is counted, and a repaired
\* business that does not get further is not repaired again.
WatchEnds == \A w \in Watchers : Working(w) ~> ~Working(w)
===============================================================================
