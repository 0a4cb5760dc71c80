-------------------------------- MODULE RunLock --------------------------------
\* The project lock: a file lock that dies with its holder, the control file that
\* names the process groups the holder has started, and the stop command, which
\* works from those two files while runs come and go (run_lock.py, with the registry
\* of process_supervision.py). Every other module takes from here that one command
\* at a time works on a project.
\* A run is one process. A probe of stop that holds the lock for an instant only
\* refuses a command and is not modelled, nor is a lock inherited from a supervisor.
EXTENDS Naturals, FiniteSets
CONSTANTS
  Runs,    \* processes that ask for the lock
  Waiting, \* those that ask again when they are refused: release-worker --wait
  Groups,  \* process groups that runs start
  Stops,   \* stop commands
  None

ASSUME RunLockAssumption ==
  /\ Waiting \subseteq Runs /\ None \notin Runs

VARIABLES
  flock,   \* the run that holds the lock
  owner,   \* the run the lock file names
  control, \* the control file: the run it is of and the groups it names
  pc,      \* where each run is
  records, \* the groups in the registry of each run
  watched, \* the groups a thread of their run is in charge of
  life,    \* what lives of each group
  by,      \* the run that started it
  stop,    \* the stop commands, with what they have read so far
  raced    \* a stop deleted the control file of a run or of a group it had not seen

vars == <<flock, owner, control, pc, records, watched, life, by, stop, raced>>
files == <<owner, control>>
processes == <<watched, life, by>>

\* "rest": the leader has ended, others of the group live on.
Lives == {"none", "leader", "rest", "gone"}
NoFile == [run |-> None, groups |-> {}]
Unread == [at |-> "off", owner |-> None, lock |-> "free", groups |-> {}]
Ended == {"stopped", "incomplete"}
Waits == {"waiting", "unlocked", "killed", "emptied"}
Look == [at : {"off", "probing", "listing", "signalling", "clearing"} \cup Waits \cup Ended,
         owner : Runs \cup {None}, lock : {"free", "held"}, groups : SUBSET Groups]

Goto(r, place) == pc' = [pc EXCEPT ![r] = place]

\* _live_control_processes: a record counts while its leader is the process it was.
Live(groups) == {g \in groups : life[g] = "leader"}

Init ==
  /\ flock = None /\ owner = None /\ control = NoFile
  /\ pc = [r \in Runs |-> "idle"] /\ records = [r \in Runs |-> {}]
  /\ watched = {} /\ life = [g \in Groups |-> "none"] /\ by = [g \in Groups |-> None]
  /\ stop = [s \in Stops |-> Unread] /\ raced = FALSE

-----------------------------------------------------------------------------
\* A run: acquire.

ByRun == UNCHANGED <<stop, raced>>
RefusalNamed(r) == IF r \in Waiting THEN "sleeping" ELSE "done"
Refusal(r) == IF r \in Waiting THEN "idle" ELSE "done"

\* A refused run closes the lock again; a process that goes on would keep it.
HolderIfKept(r) == IF r \in Waiting THEN r ELSE None
HolderAfterRefusal(r) == None

Lock(r) ==
  /\ pc[r] = "idle" /\ flock = None
  /\ flock' = r /\ Goto(r, "checking")
  /\ UNCHANGED <<files, records, processes>> /\ ByRun

Refused(r) ==
  /\ pc[r] = "idle" /\ flock # None /\ r \notin Waiting
  /\ Goto(r, "done")
  /\ UNCHANGED <<flock, files, records, processes>> /\ ByRun

Check(r) ==
  /\ pc[r] = "checking"
  /\ IF Live(control.groups) # {}
     THEN flock' = HolderAfterRefusal(r) /\ Goto(r, Refusal(r))
     ELSE Goto(r, "naming") /\ UNCHANGED flock
  /\ UNCHANGED <<files, records, processes>> /\ ByRun

\* _write_owner empties the file before it writes it: between the two it names nobody.
Truncate(r) ==
  /\ pc[r] = "naming"
  /\ owner' = None /\ Goto(r, "writing")
  /\ UNCHANGED <<flock, control, records, processes>> /\ ByRun

WriteOwner(r) ==
  /\ pc[r] = "writing"
  /\ owner' = r /\ Goto(r, "configuring")
  /\ UNCHANGED <<flock, control, records, processes>> /\ ByRun

Configure(r) ==
  /\ pc[r] = "configuring"
  /\ control' = [run |-> r, groups |-> {}] /\ Goto(r, "working")
  /\ UNCHANGED <<flock, owner, records, processes>> /\ ByRun

-----------------------------------------------------------------------------
\* A run at work: every change of the registry writes the control file anew.

Registered(r, groups) ==
  /\ records' = [records EXCEPT ![r] = groups]
  /\ control' = [run |-> r, groups |-> groups]

Spawn(r, g) ==
  /\ pc[r] = "working" /\ life[g] = "none"
  /\ life' = [life EXCEPT ![g] = "leader"] /\ by' = [by EXCEPT ![g] = r]
  /\ watched' = watched \cup {g}
  /\ UNCHANGED <<flock, files, pc, records>> /\ ByRun

\* The thread that spawned the group registers it, whatever still lives of it.
InCharge(r) == {g \in watched : by[g] = r}
Register(r, g) ==
  /\ pc[r] = "working" /\ g \in InCharge(r) \ records[r]
  /\ Registered(r, records[r] \cup {g})
  /\ UNCHANGED <<flock, owner, pc, processes>> /\ ByRun

\* preserve_if_alive: a group that could not be killed stays in the registry.
Preserved(g) == life'[g] # "gone"

Unregister(r, g) ==
  /\ watched' = watched \ {g}
  /\ Registered(r, IF Preserved(g) THEN records[r] ELSE records[r] \ {g})

\* The command of the group has ended, or is killed after a timeout or an interrupt;
\* killing it may leave any of it, in an uninterruptible call.
Supervise(r, g) ==
  /\ pc[r] = "working" /\ g \in InCharge(r) \cap records[r]
  /\ life' \in {[life EXCEPT ![g] = l] :
       l \in IF life[g] = "gone" THEN {"gone"}
             ELSE IF life[g] = "rest" THEN {"rest", "gone"} ELSE {"leader", "rest", "gone"}}
  /\ Unregister(r, g)
  /\ UNCHANGED <<flock, owner, pc, by>> /\ ByRun

\* A provider that has ended is not asked whether something it started lives on.
Overlook(r, g) ==
  /\ pc[r] = "working" /\ g \in InCharge(r) \cap records[r] /\ life[g] = "rest"
  /\ watched' = watched \ {g} /\ Registered(r, records[r] \ {g})
  /\ UNCHANGED <<flock, owner, pc, life, by>> /\ ByRun

\* release: the file of an empty registry is deleted, then the lock is closed.
UnlinksAlways(r) == TRUE
Unlinks(r) == records[r] = {}

Release(r) ==
  /\ pc[r] = "working" /\ InCharge(r) = {}
  /\ control' = IF Unlinks(r) THEN NoFile ELSE control
  /\ Goto(r, "closing")
  /\ UNCHANGED <<flock, owner, records, processes>> /\ ByRun

Close(r) ==
  /\ pc[r] = "closing"
  /\ flock' = None /\ Goto(r, "done")
  /\ UNCHANGED <<files, records, processes>> /\ ByRun

-----------------------------------------------------------------------------
\* The operating system: a process that dies loses its lock and leaves its files;
\* groups end by themselves.

Crash(r) ==
  /\ pc[r] \notin {"idle", "done"}
  /\ flock' = IF flock = r THEN None ELSE flock
  /\ Goto(r, "done")
  /\ UNCHANGED <<files, records, processes>> /\ ByRun

GroupEnds(g) ==
  /\ \/ life[g] = "leader" /\ life' \in {[life EXCEPT ![g] = l] : l \in {"rest", "gone"}}
     \/ life[g] = "rest" /\ life' = [life EXCEPT ![g] = "gone"]
  /\ UNCHANGED <<flock, files, pc, records, watched, by>> /\ ByRun

-----------------------------------------------------------------------------
\* stop. SIGTERM does nothing that Crash and GroupEnds do not.

ByStop == UNCHANGED <<flock, owner, pc, records, processes>>
Looked(s, look) == stop' = [stop EXCEPT ![s] = look]
StopAt(s, place) == Looked(s, [stop[s] EXCEPT !.at = place])

ReadOwner(s) ==
  /\ stop[s].at = "off"
  /\ Looked(s, [stop[s] EXCEPT !.at = "probing", !.owner = owner])
  /\ ByStop /\ UNCHANGED <<control, raced>>

Probe(s) ==
  /\ stop[s].at = "probing"
  /\ Looked(s, [stop[s] EXCEPT !.at = "listing", !.lock = IF flock = None THEN "free" ELSE "held"])
  /\ ByStop /\ UNCHANGED <<control, raced>>

\* While a run is active only the groups of the owner that was read are taken.
Listed(s) ==
  IF stop[s].lock = "held" /\ stop[s].owner \notin {None, control.run} THEN {}
  ELSE Live(control.groups)

List(s) ==
  /\ stop[s].at = "listing"
  /\ Looked(s, [stop[s] EXCEPT !.groups = Listed(s),
       !.at = IF stop[s].lock = "free" /\ Listed(s) = {} THEN "clearing" ELSE "signalling"])
  /\ ByStop /\ UNCHANGED <<control, raced>>

\* A group is signalled, and waited for, only if its leader is still there.
Signal(s) ==
  /\ stop[s].at = "signalling"
  /\ Looked(s, [stop[s] EXCEPT !.at = "waiting", !.groups = Live(stop[s].groups)])
  /\ ByStop /\ UNCHANGED <<control, raced>>

\* The wait is over when the lock was free and then every group it signalled was gone;
\* when one remains both are looked at again.
GoneAssumed(s) == TRUE
Gone(s) == \A g \in stop[s].groups : life[g] = "gone"

WaitForLock(s) ==
  /\ stop[s].at = "waiting" /\ flock = None
  /\ StopAt(s, "unlocked")
  /\ ByStop /\ UNCHANGED <<control, raced>>
WaitForGroups(s) ==
  /\ stop[s].at = "unlocked"
  /\ StopAt(s, IF Gone(s) THEN "clearing" ELSE "waiting")
  /\ ByStop /\ UNCHANGED <<control, raced>>

\* SIGKILL for the groups that remain and for the owner, if it is alive.
Killed(s) == IF stop[s].lock = "held" /\ stop[s].owner # None
             THEN {r \in {stop[s].owner} : pc[r] \notin {"idle", "done"}} ELSE {}
Kill(s) ==
  /\ stop[s].at = "waiting"
  /\ \E dead \in SUBSET {g \in stop[s].groups : life[g] # "gone"} :
       life' = [g \in Groups |-> IF g \in dead THEN "gone" ELSE life[g]]
  /\ pc' = [r \in Runs |-> IF r \in Killed(s) THEN "done" ELSE pc[r]]
  /\ flock' = IF flock \in Killed(s) THEN None ELSE flock
  /\ StopAt(s, "killed")
  /\ UNCHANGED <<files, records, watched, by, raced>>

\* After the kill the groups are looked at first, and then the lock.
KilledGroups(s) ==
  /\ stop[s].at = "killed" /\ Gone(s)
  /\ StopAt(s, "emptied")
  /\ ByStop /\ UNCHANGED <<control, raced>>
KilledLock(s) ==
  /\ stop[s].at = "emptied"
  /\ StopAt(s, IF flock = None THEN "clearing" ELSE "killed")
  /\ ByStop /\ UNCHANGED <<control, raced>>

GiveUp(s) ==
  /\ stop[s].at = "killed"
  /\ StopAt(s, "incomplete")
  /\ ByStop /\ UNCHANGED <<control, raced>>

\* The file is deleted some time after the look, whoever has written it since.
Unseen == control.run # None /\ (pc[control.run] = "working" \/ Live(control.groups) # {})
Clear(s) ==
  /\ stop[s].at = "clearing"
  /\ control' = NoFile /\ raced' = (raced \/ Unseen)
  /\ StopAt(s, "stopped") /\ ByStop

-----------------------------------------------------------------------------
Acquire(r) ==
  Lock(r) \/ Refused(r) \/ Check(r) \/ Truncate(r) \/ WriteOwner(r) \/ Configure(r)
Work(r) == \E g \in Groups : Register(r, g) \/ Supervise(r, g) \/ Overlook(r, g)
Run(r) == Acquire(r) \/ Work(r) \/ Release(r) \/ Close(r)
Wait(s) == WaitForLock(s) \/ WaitForGroups(s) \/ KilledGroups(s) \/ KilledLock(s)
Stop(s) ==
  ReadOwner(s) \/ Probe(s) \/ List(s) \/ Signal(s) \/ Wait(s) \/ Kill(s) \/ GiveUp(s) \/ Clear(s)

Next ==
  \/ \E r \in Runs : Run(r) \/ Crash(r) \/ \E g \in Groups : Spawn(r, g)
  \/ \E g \in Groups : GroupEnds(g)
  \/ \E s \in Stops : Stop(s)

Spec == Init /\ [][Next]_vars
\* A live run goes on: its commands end or are killed by their timeout, and it ends.
LiveSpec == Spec /\ \A r \in Runs : WF_vars(Run(r))

-----------------------------------------------------------------------------
\* The shape of the two files, the processes and what a stop has read.
TypeOK ==
  /\ flock \in Runs \cup {None} /\ owner \in Runs \cup {None}
  /\ control \in [run : Runs \cup {None}, groups : SUBSET Groups]
  /\ pc \in [Runs -> {"idle", "checking", "naming", "writing", "configuring", "working", "closing", "done"}]
  /\ records \in [Runs -> SUBSET Groups] /\ watched \in SUBSET Groups
  /\ life \in [Groups -> Lives] /\ by \in [Groups -> Runs \cup {None}]
  /\ stop \in [Stops -> Look]
  /\ raced \in BOOLEAN

\* run_lock.py refuses a run while "orphaned auto_agents subprocesses are still
\* active": no run works beside a registered group of an earlier one whose leader
\* lives, whoever crashed where, and unless a stop deleted the file that names it.
NoOverlap ==
  ~raced => \A q, r \in Runs : \A g \in records[q] :
    pc[r] = "working" /\ life[g] = "leader" => q = r

\* stop reports "stopped" only when the groups it signalled are gone and the owner it
\* found does no work any more, although both may change after every look.
StopReports ==
  [][\A s \in Stops : stop'[s].at = "stopped" /\ stop[s].at # "stopped" =>
       /\ \A g \in stop[s].groups : life[g] = "gone"
       /\ stop[s].lock = "held" /\ stop[s].owner # None => pc[stop[s].owner] # "working"]_vars

\* release-worker --wait gets its turn, unless groups of a dead run live on: neither
\* refusals, crashes nor stops leave it waiting for a lock nobody holds.
WaiterServed ==
  \A r \in Waiting : pc[r] = "idle" ~>
    pc[r] \in {"working", "done"} \/ Live(control.groups) # {}
===============================================================================
