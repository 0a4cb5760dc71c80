----------------------------- MODULE RunLockProofs -----------------------------
\* What RunLock keeps for every set of runs, groups and stop commands, and Supervisor
\* for every set of watchers, every set of checks, every limit, and every number of
\* cancels and deaths.
EXTENDS RunLock, Supervisor, TLAPS

-----------------------------------------------------------------------------
\* The two files, the processes and the copies of stop keep their shape.
LEMMA InitType == Init => TypeOK
<1> SUFFICES ASSUME Init PROVE TypeOK
  OBVIOUS
<1>1. NoFile \in [run : Runs \cup {None}, groups : SUBSET Groups]
  BY DEF NoFile
<1>2. Unread \in Look
  BY DEF Unread, Look
<1> QED
  BY <1>1, <1>2 DEF Init, TypeOK, Lives

LEMMA LiveGroups ==
  \A groups : /\ Live(groups) \subseteq groups
              /\ \A g \in groups : life[g] = "leader" <=> g \in Live(groups)
  BY DEF Live

LEMMA RunType ==
  ASSUME TypeOK, NEW r \in Runs, Run(r) \/ Crash(r) \/ \E g \in Groups : Spawn(r, g)
  PROVE  TypeOK'
<1> USE DEF TypeOK
<1>1. CASE Lock(r)
  BY <1>1 DEF Lock, Goto, files, processes, ByRun
<1>2. CASE Refused(r)
  BY <1>2 DEF Refused, Goto, files, processes, ByRun
<1>3. CASE Check(r)
  BY <1>3 DEF Check, Goto, files, processes, ByRun, HolderAfterRefusal, Refusal
<1>4. CASE Truncate(r) \/ WriteOwner(r)
  BY <1>4 DEF Truncate, WriteOwner, Goto, processes, ByRun
<1>5. CASE Configure(r)
  BY <1>5 DEF Configure, Goto, processes, ByRun
<1>6. ASSUME NEW g \in Groups, Register(r, g) PROVE TypeOK'
  BY <1>6 DEF Register, Registered, processes, ByRun
<1>7. ASSUME NEW g \in Groups, Supervise(r, g) PROVE TypeOK'
  <2>1. life' \in [Groups -> Lives]
    BY <1>7 DEF Supervise, Lives
  <2> QED
    BY <1>7, <2>1 DEF Supervise, Unregister, Registered, ByRun
<1>8. ASSUME NEW g \in Groups, Overlook(r, g) PROVE TypeOK'
  BY <1>8 DEF Overlook, Registered, ByRun
<1>9. CASE Release(r)
  BY <1>9 DEF Release, NoFile, Goto, processes, ByRun
<1>10. CASE Close(r)
  BY <1>10 DEF Close, Goto, files, processes, ByRun
<1>11. CASE Crash(r)
  BY <1>11 DEF Crash, Goto, files, processes, ByRun
<1>12. ASSUME NEW g \in Groups, Spawn(r, g) PROVE TypeOK'
  BY <1>12 DEF Spawn, files, ByRun, Lives
<1> QED
  BY <1>1, <1>2, <1>3, <1>4, <1>5, <1>6, <1>7, <1>8, <1>9, <1>10, <1>11, <1>12
     DEF Run, Acquire, Work

(* A stop that goes to another place keeps what it has read.                *)
LEMMA StopAtKeeps ==
  ASSUME stop \in [Stops -> Look], NEW s \in Stops, NEW place, StopAt(s, place)
  PROVE  /\ \A t \in Stops : t # s => stop'[t] = stop[t]
         /\ stop'[s].at = place /\ stop'[s].owner = stop[s].owner
         /\ stop'[s].lock = stop[s].lock /\ stop'[s].groups = stop[s].groups
         /\ place \in Waits \cup {"clearing"} \cup Ended => stop' \in [Stops -> Look]
  BY DEF StopAt, Looked, Look

(* A step of a wait moves the stop that waits, and nothing else.             *)
LEMMA WaitMoves ==
  ASSUME NEW s \in Stops, Wait(s)
  PROVE  /\ UNCHANGED <<flock, owner, control, pc, records, watched, life, by, raced>>
         /\ \E place \in Waits \cup {"clearing"} : StopAt(s, place)
  BY DEF Wait, WaitForLock, WaitForGroups, KilledGroups, KilledLock, Waits, ByStop, processes

LEMMA StopType ==
  ASSUME TypeOK, NEW s \in Stops, Stop(s)
  PROVE  TypeOK'
<1> USE DEF TypeOK, ByStop, processes
<1>1. CASE ReadOwner(s)
  <2>1. stop' \in [Stops -> Look]
    BY <1>1, ZenonT(120) DEF ReadOwner, Looked, Look
  <2> QED
    BY <1>1, <2>1 DEF ReadOwner
<1>2. CASE Probe(s)
  <2>1. stop[s] \in Look
    OBVIOUS
  <2>2. ASSUME NEW l \in {"free", "held"}
        PROVE  [stop[s] EXCEPT !.at = "listing", !.lock = l] \in Look
    BY <2>1 DEF Look
  <2>3. stop' \in [Stops -> Look]
    BY <1>2, <2>2 DEF Probe, Looked
  <2> QED
    BY <1>2, <2>3 DEF Probe
<1>3. CASE List(s)
  <2>1. Listed(s) \in SUBSET Groups
    BY DEF Listed, Live
  <2>2. stop[s] \in Look
    OBVIOUS
  <2>3. ASSUME NEW groups \in SUBSET Groups, NEW place \in {"clearing", "signalling"}
        PROVE  [stop[s] EXCEPT !.groups = groups, !.at = place] \in Look
    BY <2>2 DEF Look
  <2>4. stop' \in [Stops -> Look]
    BY <1>3, <2>1, <2>3 DEF List, Looked
  <2> QED
    BY <1>3, <2>4 DEF List
<1>4. CASE Signal(s)
  <2>1. Live(stop[s].groups) \in SUBSET Groups
    BY DEF Live, Look
  <2>2. ASSUME NEW groups \in SUBSET Groups
        PROVE  [stop[s] EXCEPT !.at = "waiting", !.groups = groups] \in Look
    <3>1. stop[s] \in Look
      OBVIOUS
    <3> QED
      BY <3>1 DEF Look, Waits
  <2>3. stop' \in [Stops -> Look]
    BY <1>4, <2>1, <2>2 DEF Signal, Looked
  <2> QED
    BY <1>4, <2>3 DEF Signal
<1>5. CASE Wait(s)
  BY <1>5, StopAtKeeps, WaitMoves
<1>6. CASE Kill(s)
  <2>1. stop' \in [Stops -> Look]
    BY <1>6, StopAtKeeps DEF Kill, Waits
  <2>2. life' \in [Groups -> Lives]
    BY <1>6 DEF Kill, Lives
  <2> QED
    BY <1>6, <2>1, <2>2 DEF Kill, files
<1>7. CASE GiveUp(s)
  BY <1>7, StopAtKeeps DEF GiveUp, Ended
<1>8. CASE Clear(s)
  <2>1. (raced \/ Unseen) \in BOOLEAN
    OBVIOUS
  <2>2. NoFile \in [run : Runs \cup {None}, groups : SUBSET Groups]
    BY DEF NoFile
  <2>3. stop' \in [Stops -> Look]
    BY <1>8, StopAtKeeps DEF Clear, Ended
  <2> QED
    BY <1>8, <2>1, <2>2, <2>3 DEF Clear
<1> QED
  BY <1>1, <1>2, <1>3, <1>4, <1>5, <1>6, <1>7, <1>8 DEF Stop

LEMMA StepType == TypeOK /\ [Next]_vars => TypeOK'
<1> SUFFICES ASSUME TypeOK, [Next]_vars PROVE TypeOK'
  OBVIOUS
<1>1. CASE UNCHANGED vars
  BY <1>1 DEF vars, TypeOK
<1>2. ASSUME NEW g \in Groups, GroupEnds(g) PROVE TypeOK'
  BY <1>2 DEF GroupEnds, TypeOK, files, ByRun, Lives
<1> QED
  BY <1>1, <1>2, RunType, StopType DEF Next

\* The variables of the project lock keep their shape (TypeOK).
THEOREM TypeTheorem == Spec => []TypeOK
  BY InitType, StepType, PTL DEF Spec

-----------------------------------------------------------------------------
\* The run that has the lock is the one inside acquire, at work or releasing.
Holding == {"checking", "naming", "writing", "configuring", "working", "closing"}
Mutex == \A r \in Runs : pc[r] \in Holding <=> flock = r

\* A registry names groups its run started, and is empty before the run works; a
\* stop takes no group that nobody started.
OwnGroups ==
  /\ \A g \in Groups : life[g] = "none" <=> by[g] = None
  /\ \A r \in Runs : \A g \in records[r] : by[g] = r
  /\ \A r \in Runs : pc[r] \in {"idle", "checking", "naming", "writing", "configuring"} =>
       \A g \in Groups : by[g] # r
  /\ \A s \in Stops : \A g \in stop[s].groups : life[g] # "none"

\* The control file is what the run at work wrote last, and names every registered
\* group whose leader lives; a run past the check found none.
NoRunNoGroups == control.run = None => control.groups = {}
FileOfRun == \A r \in Runs : pc[r] = "working" => control = [run |-> r, groups |-> records[r]]
LeadersNamed == \A r \in Runs : \A g \in records[r] : life[g] = "leader" => g \in control.groups
NoneFound ==
  \A q, r \in Runs : \A g \in records[r] :
    pc[q] \in {"naming", "writing", "configuring"} => life[g] # "leader"
FileNames == NoRunNoGroups /\ (~raced => FileOfRun /\ LeadersNamed /\ NoneFound)

LockInv == Mutex /\ OwnGroups /\ FileNames

LEMMA InitLock == Init => LockInv
<1> SUFFICES ASSUME Init PROVE LockInv
  OBVIOUS
<1>1. \A s \in Stops : stop[s].groups = {}
  BY DEF Init, Unread
<1> QED
  BY <1>1, RunLockAssumption DEF Init, LockInv, Mutex, Holding, OwnGroups, FileNames,
     NoFile, NoRunNoGroups, FileOfRun, LeadersNamed, NoneFound

LEMMA AcquireLock ==
  ASSUME TypeOK, LockInv, NEW r \in Runs, Acquire(r)
  PROVE  LockInv'
<1> USE RunLockAssumption DEF TypeOK, LockInv, Mutex, Holding, OwnGroups, FileNames,
        NoRunNoGroups, FileOfRun, LeadersNamed, NoneFound, Goto, files, processes, ByRun
<1>1. CASE Lock(r)
  BY <1>1 DEF Lock
<1>2. CASE Refused(r)
  BY <1>2 DEF Refused
<1>3. CASE Check(r)
  BY <1>3 DEF Check, HolderAfterRefusal, Refusal, Live
<1>4. CASE Truncate(r) \/ WriteOwner(r)
  BY <1>4 DEF Truncate, WriteOwner
<1>5. CASE Configure(r)
  <2>1. records[r] = {}
    BY <1>5 DEF Configure
  <2>2. Mutex' /\ OwnGroups'
    BY <1>5 DEF Configure
  <2>3. NoRunNoGroups' /\ (~raced' => FileOfRun')
    BY <1>5, <2>1, ZenonT(60) DEF Configure
  <2>4. ~raced' => LeadersNamed'
    BY <1>5, <2>1 DEF Configure
  <2>5. ~raced' => NoneFound'
    BY <1>5, <2>1 DEF Configure
  <2> QED
    BY <2>2, <2>3, <2>4, <2>5
<1> QED
  BY <1>1, <1>2, <1>3, <1>4, <1>5 DEF Acquire

\* A change of the registry of the run at work leaves its file up to date.
LEMMA RegisteredFile ==
  ASSUME TypeOK, Mutex, NEW r \in Runs, pc[r] = "working", UNCHANGED pc,
         NEW groups, Registered(r, groups)
  PROVE  NoRunNoGroups' /\ FileOfRun'
<1>1. control' = [run |-> r, groups |-> groups] /\ records'[r] = groups
  BY DEF Registered, TypeOK
<1>2. \A q \in Runs : pc[q] = "working" => q = r
  BY DEF Mutex, Holding
<1>3. control'.run = r /\ r # None
  BY <1>1, RunLockAssumption
<1> QED
  BY <1>1, <1>2, <1>3 DEF NoRunNoGroups, FileOfRun

LEMMA WorkLock ==
  ASSUME TypeOK, LockInv, NEW r \in Runs, NEW g \in Groups,
         Register(r, g) \/ Supervise(r, g) \/ Overlook(r, g) \/ Spawn(r, g)
  PROVE  LockInv'
<1> USE RunLockAssumption DEF TypeOK, LockInv, Mutex, Holding, OwnGroups, FileNames,
        NoRunNoGroups, FileOfRun, LeadersNamed, NoneFound, Registered, InCharge, files, processes, ByRun, Lives
<1>1. CASE Register(r, g)
  <2>1. Mutex' /\ OwnGroups'
    BY <1>1 DEF Register
  <2>2. NoRunNoGroups' /\ (~raced' => FileOfRun')
    <3>1. /\ UNCHANGED pc /\ pc[r] = "working"
          /\ Registered(r, records[r] \cup {g})
      BY <1>1 DEF Register
    <3> HIDE DEF Registered, NoRunNoGroups, FileOfRun
    <3> QED
      BY <3>1, RegisteredFile
  <2>3. ~raced' => LeadersNamed'
    BY <1>1 DEF Register
  <2>4. ~raced' => NoneFound'
    BY <1>1 DEF Register
  <2> QED
    BY <2>1, <2>2, <2>3, <2>4
<1>2. CASE Supervise(r, g)
  <2>1. Mutex'
    BY <1>2 DEF Supervise
  <2>2. \A h \in Groups : life'[h] = "none" <=> life[h] = "none"
    BY <1>2 DEF Supervise
  <2>3. \A q \in Runs : records'[q] \subseteq records[q]
    BY <1>2 DEF Supervise, Unregister
  <2>4. UNCHANGED <<by, pc, stop>>
    BY <1>2 DEF Supervise
  <2>5. \A s \in Stops : stop[s].groups \subseteq Groups
    BY DEF Look
  <2>6. OwnGroups'
    BY <2>2, <2>3, <2>4, <2>5
  <2>7. NoRunNoGroups' /\ (~raced' => FileOfRun')
    <3>1. UNCHANGED pc /\ pc[r] = "working"
      BY <1>2 DEF Supervise
    <3>2. Registered(r, IF Preserved(g) THEN records[r] ELSE records[r] \ {g})
      BY <1>2 DEF Supervise, Unregister
    <3> HIDE DEF Registered, NoRunNoGroups, FileOfRun
    <3> QED
      BY <3>1, <3>2, RegisteredFile
  <2>8. ~raced' => LeadersNamed'
    BY <1>2 DEF Supervise, Unregister, Preserved
  <2>9. ~raced' => NoneFound'
    BY <1>2 DEF Supervise, Unregister, Preserved
  <2> QED
    BY <2>1, <2>7, <2>8, <2>9, <2>6
<1>3. CASE Overlook(r, g)
  <2>1. Mutex' /\ OwnGroups'
    BY <1>3 DEF Overlook
  <2>2. NoRunNoGroups' /\ (~raced' => FileOfRun')
    <3>1. /\ UNCHANGED pc /\ pc[r] = "working"
          /\ Registered(r, records[r] \ {g})
      BY <1>3 DEF Overlook
    <3> HIDE DEF Registered, NoRunNoGroups, FileOfRun
    <3> QED
      BY <3>1, RegisteredFile
  <2>3. ~raced' => LeadersNamed'
    BY <1>3 DEF Overlook
  <2>4. ~raced' => NoneFound'
    BY <1>3 DEF Overlook
  <2> QED
    BY <2>1, <2>2, <2>3, <2>4
<1>4. CASE Spawn(r, g)
  BY <1>4 DEF Spawn
<1> QED
  BY <1>1, <1>2, <1>3, <1>4

LEMMA EndLock ==
  ASSUME TypeOK, LockInv, NEW r \in Runs, Release(r) \/ Close(r) \/ Crash(r)
  PROVE  LockInv'
<1> USE RunLockAssumption DEF TypeOK, LockInv, Mutex, Holding, OwnGroups, FileNames,
        NoRunNoGroups, FileOfRun, LeadersNamed, NoneFound, Goto, files, processes, ByRun
<1>1. CASE Release(r)
  BY <1>1 DEF Release, Unlinks, NoFile
<1>2. CASE Close(r)
  BY <1>2 DEF Close
<1>3. CASE Crash(r)
  BY <1>3 DEF Crash
<1> QED
  BY <1>1, <1>2, <1>3

\* A stop takes only groups whose leader it found.
LEMMA StopGroups ==
  ASSUME TypeOK, NEW s \in Stops, Stop(s)
  PROVE  \A t \in Stops : \A g \in stop'[t].groups : g \in stop[t].groups \/ life[g] = "leader"
<1> USE DEF TypeOK
<1>1. CASE ReadOwner(s)
  BY <1>1 DEF ReadOwner, Looked, Look
<1>2. CASE Probe(s)
  BY <1>2 DEF Probe, Looked, Look
<1>3. CASE List(s)
  <2>1. stop'[s].groups = Listed(s) /\ \A t \in Stops : t # s => stop'[t] = stop[t]
    BY <1>3 DEF List, Looked, Look
  <2>2. \A g \in Listed(s) : life[g] = "leader"
    BY DEF Listed, Live
  <2> QED
    BY <2>1, <2>2
<1>4. CASE Signal(s)
  <2>1. /\ stop'[s].groups = Live(stop[s].groups)
        /\ \A t \in Stops : t # s => stop'[t] = stop[t]
    BY <1>4 DEF Signal, Looked, Look
  <2> QED
    BY <2>1, LiveGroups
<1>5. CASE Wait(s) \/ Kill(s) \/ GiveUp(s) \/ Clear(s)
  <2>1. PICK place : StopAt(s, place)
    BY <1>5, WaitMoves DEF Kill, GiveUp, Clear
  <2> QED
    BY <2>1, StopAtKeeps
<1> QED
  BY <1>1, <1>2, <1>3, <1>4, <1>5 DEF Stop

LEMMA StopLock ==
  ASSUME TypeOK, LockInv, NEW s \in Stops, Stop(s)
  PROVE  LockInv'
<1> USE RunLockAssumption DEF TypeOK, LockInv, Mutex, Holding, OwnGroups, FileNames,
        NoRunNoGroups, FileOfRun, LeadersNamed, NoneFound, ByStop, files, processes
<1>1. CASE Kill(s)
  <2>1. Mutex'
    BY <1>1 DEF Kill, Killed, Look, Lives
  <2>2. \A g \in Groups : life'[g] = "none" <=> life[g] = "none"
    BY <1>1 DEF Kill, Look, Lives
  <2>3. \A t \in Stops : stop'[t].groups = stop[t].groups
    BY <1>1, StopAtKeeps DEF Kill
  <2>4. OwnGroups'
    BY <1>1, <2>2, <2>3 DEF Kill, Killed, Look
  <2>5. NoRunNoGroups' /\ (~raced' => FileOfRun')
    BY <1>1 DEF Kill, Killed, Look, Lives
  <2>6. ~raced' => LeadersNamed'
    BY <1>1 DEF Kill, Killed, Look, Lives
  <2>7. ~raced' => NoneFound'
    BY <1>1 DEF Kill, Killed, Look, Lives
  <2> QED
    BY <2>1, <2>5, <2>6, <2>7, <2>4
<1>2. CASE Clear(s)
  <2>1. Mutex' /\ OwnGroups'
    BY <1>2, StopGroups DEF Clear
  <2>2. /\ control' = NoFile
        /\ ~raced' => ~raced /\ \A r \in Runs : pc[r] # "working"
        /\ ~raced' => \A g \in control.groups : life[g] # "leader"
    <3>1. control' = NoFile /\ raced' = (raced \/ Unseen)
      BY <1>2 DEF Clear
    <3>2. ~raced /\ ~Unseen => \A r \in Runs : pc[r] # "working"
      BY DEF Unseen
    <3>3. ~Unseen => \A g \in control.groups : life[g] # "leader"
      BY DEF Unseen, Live
    <3> QED
      BY <3>1, <3>2, <3>3
  <2>3. NoRunNoGroups' /\ (~raced' => FileOfRun')
    BY <1>2, <2>2 DEF Clear, NoFile
  <2>4. ~raced' => LeadersNamed'
    BY <1>2, <2>2 DEF Clear
  <2>5. ~raced' => NoneFound'
    BY <1>2, <2>2 DEF Clear
  <2> QED
    BY <2>1, <2>3, <2>4, <2>5
<1>3. CASE ReadOwner(s) \/ Probe(s) \/ List(s) \/ Signal(s) \/ Wait(s) \/ GiveUp(s)
  <2>1. UNCHANGED <<flock, control, pc, records, life, by, raced>>
    BY <1>3, WaitMoves DEF ReadOwner, Probe, List, Signal, GiveUp
  <2> QED
    BY <2>1, StopGroups
<1> QED
  BY <1>1, <1>2, <1>3 DEF Stop

LEMMA StepLock == TypeOK /\ LockInv /\ [Next]_vars => LockInv'
<1> SUFFICES ASSUME TypeOK, LockInv, [Next]_vars PROVE LockInv'
  OBVIOUS
<1>1. CASE UNCHANGED vars
  BY <1>1 DEF vars, LockInv, Mutex, OwnGroups, FileNames,
     NoRunNoGroups, FileOfRun, LeadersNamed, NoneFound
<1>2. ASSUME NEW g \in Groups, GroupEnds(g) PROVE LockInv'
  <2>1. UNCHANGED <<flock, control, pc, records, by, stop, raced>>
    BY <1>2 DEF GroupEnds, files, ByRun
  <2>2. \A h \in Groups : /\ life'[h] = "none" <=> life[h] = "none"
                          /\ life'[h] = "leader" => life[h] = "leader"
    BY <1>2 DEF GroupEnds, TypeOK, Lives
  <2>3. \A s \in Stops : stop[s].groups \subseteq Groups
    BY DEF TypeOK, Look
  <2>4. Mutex'
    BY <2>1 DEF LockInv, Mutex
  <2>5. OwnGroups'
    <3>1. \A r \in Runs : records[r] \subseteq Groups
      BY DEF TypeOK
    <3>2. \A h \in Groups : life'[h] = "none" <=> by[h] = None
      BY <2>2 DEF LockInv, OwnGroups
    <3>3. \A s \in Stops : \A h \in stop[s].groups : life'[h] # "none"
      BY <2>2, <2>3 DEF LockInv, OwnGroups
    <3> QED
      BY <2>1, <3>2, <3>3 DEF LockInv, OwnGroups
  <2>6. NoRunNoGroups' /\ (~raced' => FileOfRun')
    BY <2>1 DEF LockInv, FileNames, NoRunNoGroups, FileOfRun
  <2>7. ~raced' => LeadersNamed' /\ NoneFound'
    <3>1. \A r \in Runs : records[r] \subseteq Groups
      BY DEF TypeOK
    <3>2. \A r \in Runs : \A h \in records[r] : life'[h] = "leader" => life[h] = "leader"
      BY <2>2, <3>1
    <3> QED
      BY <2>1, <3>2 DEF LockInv, FileNames, LeadersNamed, NoneFound
  <2> QED
    BY <2>4, <2>6, <2>7, <2>5 DEF LockInv, FileNames
<1> QED
  BY <1>1, <1>2, AcquireLock, WorkLock, EndLock, StopLock DEF Next, Run, Work

\* No run works beside a registered group of an earlier run whose leader lives,
\* unless a stop deleted the file that names it (NoOverlap).
THEOREM OverlapTheorem == Spec => []NoOverlap
<1>1. TypeOK /\ LockInv => NoOverlap
  <2> SUFFICES ASSUME TypeOK, LockInv, ~raced, NEW q \in Runs, NEW r \in Runs,
                      NEW g \in records[q], pc[r] = "working", life[g] = "leader"
               PROVE  q = r
    BY DEF NoOverlap
  <2>1. g \in records[r]
    BY DEF LockInv, FileNames, FileOfRun, LeadersNamed
  <2> QED
    BY <2>1 DEF LockInv, OwnGroups, TypeOK
<1> QED
  BY <1>1, InitType, StepType, InitLock, StepLock, PTL DEF Spec

-----------------------------------------------------------------------------
\* A run that the lock file or a stop has named is past the naming, and ended once a
\* stop has seen the lock free; so are the groups of that stop once it has seen them gone.
Late == {"configuring", "working", "closing", "done"}
OwnerLate == owner # None => pc[owner] \in Late
StopLate == \A s \in Stops : stop[s].owner # None => pc[stop[s].owner] \in Late
OwnerDone(s) == stop[s].lock = "held" /\ stop[s].owner # None => pc[stop[s].owner] = "done"
Seen(s) ==
  /\ stop[s].at \in {"unlocked", "clearing"} => OwnerDone(s)
  /\ stop[s].at \in {"emptied", "clearing"} => Gone(s)
WaitedFor == \A s \in Stops : Seen(s)
StopInv == OwnerLate /\ StopLate /\ WaitedFor

LEMMA InitStop == Init => StopInv
<1> SUFFICES ASSUME Init PROVE StopInv
  OBVIOUS
<1>1. \A s \in Stops : stop[s].owner = None /\ stop[s].at = "off"
  BY DEF Init, Unread
<1> QED
  BY <1>1 DEF Init, StopInv, OwnerLate, StopLate, WaitedFor, Seen

\* What no step undoes.
LEMMA Progress ==
  ASSUME TypeOK, [Next]_vars
  PROVE  /\ \A r \in Runs : pc[r] \in Late => pc'[r] \in Late
         /\ \A r \in Runs : pc[r] = "done" => pc'[r] = "done"
         /\ \A g \in Groups : life[g] = "gone" => life'[g] = "gone"
<1> USE DEF TypeOK, Late, Goto, files, processes, ByRun, ByStop
<1>1. CASE UNCHANGED vars
  BY <1>1 DEF vars
<1>2. ASSUME NEW r \in Runs, Acquire(r) \/ Release(r) \/ Close(r) \/ Crash(r)
      PROVE  /\ life' = life /\ \A q \in Runs : pc[q] \in Late => pc'[q] \in Late
             /\ \A q \in Runs : pc[q] = "done" => pc'[q] = "done"
  BY <1>2 DEF Acquire, Lock, Refused, Check, Truncate, WriteOwner, Configure, Refusal, Release, Close, Crash
<1>3. ASSUME NEW r \in Runs, NEW g \in Groups,
             Register(r, g) \/ Supervise(r, g) \/ Overlook(r, g) \/ Spawn(r, g)
      PROVE  pc' = pc /\ \A h \in Groups : life[h] = "gone" => life'[h] = "gone"
  BY <1>3 DEF Register, Supervise, Overlook, Spawn
<1>4. ASSUME NEW g \in Groups, GroupEnds(g)
      PROVE  pc' = pc /\ \A h \in Groups : life[h] = "gone" => life'[h] = "gone"
  BY <1>4 DEF GroupEnds
<1>5. ASSUME NEW s \in Stops, Kill(s)
      PROVE  /\ \A q \in Runs : pc[q] \in Late => pc'[q] \in Late
             /\ \A q \in Runs : pc[q] = "done" => pc'[q] = "done"
             /\ \A h \in Groups : life[h] = "gone" => life'[h] = "gone"
  BY <1>5 DEF Kill
<1>6. ASSUME NEW s \in Stops, ReadOwner(s) \/ Probe(s) \/ List(s) \/ Signal(s) \/ Wait(s)
                               \/ GiveUp(s) \/ Clear(s)
      PROVE  pc' = pc /\ life' = life
  BY <1>6, WaitMoves DEF ReadOwner, Probe, List, Signal, GiveUp, Clear
<1> QED
  BY <1>1, <1>2, <1>3, <1>4, <1>5, <1>6 DEF Next, Run, Work, Stop

\* What a step of one stop does to its copies.
LEMMA StopStep ==
  ASSUME TypeOK, Mutex, StopInv, NEW s \in Stops, Stop(s)
  PROVE  /\ owner' = owner /\ \A t \in Stops : t # s => stop'[t] = stop[t]
         /\ stop'[s].owner \in {stop[s].owner, owner}
         /\ Seen(s)'
         /\ stop'[s].at = "stopped" =>
              /\ stop[s].at = "clearing" /\ pc' = pc /\ life' = life
              /\ stop'[s].groups = stop[s].groups /\ stop'[s].lock = stop[s].lock
              /\ stop'[s].owner = stop[s].owner
<1> USE DEF TypeOK, ByStop
<1>1. CASE ReadOwner(s)
  BY <1>1 DEF ReadOwner, Looked, Look, Seen
<1>2. CASE Probe(s)
  BY <1>2 DEF Probe, Looked, Look, Seen
<1>3. CASE List(s)
  <2>1. /\ owner' = owner /\ \A t \in Stops : t # s => stop'[t] = stop[t]
        /\ stop'[s].owner = stop[s].owner /\ stop'[s].lock = stop[s].lock
        /\ stop'[s].groups = Listed(s)
        /\ stop'[s].at = IF stop[s].lock = "free" /\ Listed(s) = {} THEN "clearing" ELSE "signalling"
    BY <1>3 DEF List, Looked, Look
  <2> QED
    BY <2>1 DEF Seen, OwnerDone, Gone
<1>4. CASE Signal(s)
  BY <1>4 DEF Signal, Looked, Look, Seen
<1>5. CASE Wait(s)
  <2>1. PICK place \in Waits \cup {"clearing"} : StopAt(s, place)
    BY <1>5, WaitMoves
  <2>2. /\ UNCHANGED <<owner, pc, life>> /\ stop'[s].at = place
        /\ \A t \in Stops : t # s => stop'[t] = stop[t]
        /\ stop'[s].owner = stop[s].owner /\ stop'[s].lock = stop[s].lock
        /\ stop'[s].groups = stop[s].groups
    BY <1>5, <2>1, WaitMoves, StopAtKeeps
  <2>3. flock = None => OwnerDone(s)
    <3>1. stop[s].owner \in Runs \cup {None}
      BY DEF Look
    <3>2. flock = None => \A r \in Runs : pc[r] \notin Holding
      BY RunLockAssumption DEF Mutex
    <3> QED
      BY <3>1, <3>2 DEF StopInv, StopLate, Late, Holding, OwnerDone
  <2>4. Seen(s)
    BY DEF StopInv, WaitedFor
  <2>5. /\ stop'[s].at \in {"unlocked", "clearing"} => OwnerDone(s)
        /\ stop'[s].at \in {"emptied", "clearing"} => Gone(s)
        /\ stop'[s].at # "stopped"
    BY <1>5, <2>2, <2>3, <2>4, StopAtKeeps
       DEF Wait, WaitForLock, WaitForGroups, KilledGroups, KilledLock, Seen
  <2> QED
    BY <2>2, <2>5 DEF Seen, OwnerDone, Gone
<1>6. CASE Kill(s)
  <2>1. UNCHANGED owner /\ StopAt(s, "killed")
    BY <1>6 DEF Kill, files
  <2> QED
    BY <2>1, StopAtKeeps DEF Seen
<1>7. CASE GiveUp(s)
  <2>1. UNCHANGED owner /\ StopAt(s, "incomplete")
    BY <1>7 DEF GiveUp
  <2> QED
    BY <2>1, StopAtKeeps DEF Seen
<1>8. CASE Clear(s)
  <2>1. UNCHANGED <<owner, pc, life>> /\ StopAt(s, "stopped") /\ stop[s].at = "clearing"
    BY <1>8 DEF Clear, processes
  <2> QED
    BY <2>1, StopAtKeeps DEF Seen
<1> QED
  BY <1>1, <1>2, <1>3, <1>4, <1>5, <1>6, <1>7, <1>8 DEF Stop

\* A step of no stop leaves the copies, and names nobody or a run past the naming.
LEMMA OtherStep ==
  ASSUME TypeOK, [Next]_vars, ~(\E s \in Stops : Stop(s))
  PROVE  stop' = stop /\ (owner' \in {owner, None} \/ (owner' \in Runs /\ pc'[owner'] \in Late))
<1> USE DEF TypeOK, Late, Goto, files, processes, ByRun
<1>1. CASE UNCHANGED vars
  BY <1>1 DEF vars
<1>2. ASSUME NEW r \in Runs, Acquire(r) \/ Release(r) \/ Close(r) \/ Crash(r)
      PROVE  stop' = stop /\ (owner' \in {owner, None} \/ (owner' \in Runs /\ pc'[owner'] \in Late))
  BY <1>2 DEF Acquire, Lock, Refused, Check, Truncate, WriteOwner, Configure, Release, Close, Crash
<1>3. ASSUME NEW r \in Runs, NEW g \in Groups,
             Register(r, g) \/ Supervise(r, g) \/ Overlook(r, g) \/ Spawn(r, g)
      PROVE  stop' = stop /\ owner' = owner
  BY <1>3 DEF Register, Supervise, Overlook, Spawn
<1>4. ASSUME NEW g \in Groups, GroupEnds(g) PROVE stop' = stop /\ owner' = owner
  BY <1>4 DEF GroupEnds
<1> QED
  BY <1>1, <1>2, <1>3, <1>4 DEF Next, Run, Work

LEMMA StepStop == TypeOK /\ Mutex /\ StopInv /\ [Next]_vars => StopInv'
<1> SUFFICES ASSUME TypeOK, Mutex, StopInv, [Next]_vars PROVE StopInv'
  OBVIOUS
<1> USE Progress, RunLockAssumption DEF TypeOK
<1>1. \A t \in Stops : stop[t].owner \in Runs \cup {None} /\ stop[t].groups \subseteq Groups
  BY DEF Look
<1>2. \A t \in Stops : Seen(t) /\ stop'[t] = stop[t] => Seen(t)'
  BY <1>1 DEF Seen, OwnerDone, Gone
<1>3. ASSUME NEW s \in Stops, Stop(s) PROVE StopInv'
  <2>1. OwnerLate' /\ StopLate'
    BY <1>1, <1>3, StopStep DEF StopInv, OwnerLate, StopLate
  <2>2. WaitedFor'
    BY <1>2, <1>3, StopStep DEF StopInv, WaitedFor
  <2> QED
    BY <2>1, <2>2 DEF StopInv
<1>4. CASE ~(\E s \in Stops : Stop(s))
  <2>1. OwnerLate' /\ StopLate'
    BY <1>1, <1>4, OtherStep DEF StopInv, OwnerLate, StopLate
  <2>2. WaitedFor'
    BY <1>2, <1>4, OtherStep DEF StopInv, WaitedFor
  <2> QED
    BY <2>1, <2>2 DEF StopInv
<1> QED
  BY <1>3, <1>4

\* A stop that reports "stopped" has seen its groups end, and the run it found does no
\* work any more (StopReports).
THEOREM StopTheorem == Spec => StopReports
<1>1. TypeOK /\ LockInv /\ StopInv /\ [Next]_vars =>
        [\A s \in Stops : stop'[s].at = "stopped" /\ stop[s].at # "stopped" =>
           /\ \A g \in stop[s].groups : life[g] = "gone"
           /\ stop[s].lock = "held" /\ stop[s].owner # None => pc[stop[s].owner] # "working"]_vars
  <2> SUFFICES ASSUME TypeOK, Mutex, StopInv, [Next]_vars, NEW s \in Stops,
                      stop'[s].at = "stopped", stop[s].at # "stopped"
               PROVE  /\ \A g \in stop[s].groups : life[g] = "gone"
                      /\ stop[s].lock = "held" /\ stop[s].owner # None =>
                           pc[stop[s].owner] # "working"
    BY DEF LockInv
  <2>1. stop' # stop
    OBVIOUS
  <2>2. PICK t \in Stops : Stop(t)
    BY <2>1, OtherStep
  <2>3. t = s
    BY <2>2, StopStep
  <2>4. stop[s].at = "clearing"
    BY <2>2, <2>3, StopStep
  <2> QED
    BY <2>4 DEF StopInv, WaitedFor, Seen, OwnerDone, Gone
<1> QED
  BY <1>1, InitType, StepType, InitLock, StepLock, InitStop, StepStop, PTL
     DEF Spec, StopReports, LockInv

-----------------------------------------------------------------------------
\* The supervisor.

\* A step of one watcher leaves the others where they are.
Viewed == watch \in [Watchers -> Views]
Shift(w) == Viewed' /\ \A v \in Watchers : v # w => watch'[v] = watch[v]

LEMMA BecomesShifts ==
  ASSUME Viewed, NEW w \in Watchers, NEW view \in Views, Becomes(w, view)
  PROVE  Shift(w) /\ watch'[w] = view
  BY DEF Becomes, Viewed, Shift

LEMMA NewWatchView == NewWatch \in Views /\ NewWatch.role = "none"
  BY DEF NewWatch, Views, Places, Outs

LEMMA AtView ==
  ASSUME NEW view \in Views, NEW place \in Places
  PROVE  At(view, place) \in Views /\ At(view, place).at = place /\ At(view, place).role = view.role
  BY DEF At, Views

LEMMA GoesShifts ==
  ASSUME Viewed, NEW w \in Watchers, NEW place \in Places, Goes(w, place)
  PROVE  /\ Shift(w) /\ watch'[w].at = place
         /\ watch'[w].role = IF place \in Forgets THEN "none" ELSE watch[w].role
<1> DEFINE from == IF place \in Forgets THEN NewWatch ELSE watch[w]
<1>1. from \in Views /\ from.role = IF place \in Forgets THEN "none" ELSE watch[w].role
  BY NewWatchView DEF Viewed
<1>2. At(from, place) \in Views /\ At(from, place).at = place /\ At(from, place).role = from.role
  BY <1>1, AtView
<1>3. Becomes(w, At(from, place))
  BY DEF Goes
<1> HIDE DEF from
<1> QED
  BY <1>1, <1>2, <1>3, BecomesShifts

LEMMA HearsShifts ==
  ASSUME Viewed, NEW w \in Watchers, NEW out \in Outs \cup {"none", "cancelled", "lost", "ok", "failed", "unconfirmed"},
         Hears(w, out)
  PROVE  Shift(w) /\ watch'[w].at = watch[w].at /\ watch'[w].role = watch[w].role
<1> DEFINE view == watch[w]
           heard == [view EXCEPT !.out = IF On(w, "dead") THEN @ ELSE out]
<1>1. view \in Views
  BY DEF Viewed
<1> HIDE DEF view
<1>2. heard \in Views /\ heard.at = view.at /\ heard.role = view.role
  BY <1>1 DEF Views
<1>3. Becomes(w, heard)
  BY DEF Hears, view
<1> HIDE DEF heard
<1> QED
  BY <1>2, <1>3, BecomesShifts DEF view

LEMMA AsksShifts ==
  ASSUME Viewed, NEW w \in Watchers, NEW role \in {"implement", "review", "publish"}, Asks(w, role)
  PROVE  Shift(w) /\ watch'[w].at = "reserve" /\ watch'[w].role = role
<1> DEFINE view == watch[w]
           asked == [view EXCEPT !.at = "reserve", !.role = role, !.keep = "no"]
<1>1. view \in Views
  BY DEF Viewed
<1> HIDE DEF view
<1>2. asked \in Views /\ asked.at = "reserve" /\ asked.role = role
  BY <1>1, ZenonT(120) DEF Views, Places
<1>3. Becomes(w, asked)
  BY DEF Asks, view
<1> HIDE DEF asked
<1> QED
  BY <1>2, <1>3, BecomesShifts

-----------------------------------------------------------------------------
\* The inductive invariant. The lock: a watcher past the lock holds it, so does a
\* business process, and all who hold it belong to one watcher. The count: who repairs
\* has been admitted with a failure to spare.
Loose == {"off", "lock", "end", "dead"}
Inside == \A w \in Watchers : watch[w].at \notin Loose => <<w, "watch">> \in holders
Inherited == \A w \in Watchers : child[w] = "business" => <<w, "business">> \in holders
OneOwner == \A p, q \in holders : p[1] = q[1]

Repairing == {"reproduce", "repair", "reserve", "dispatch", "call", "commit", "verify", "verdict", "judge", "deliver"}
Repairs(w) == watch[w].at \in Repairing \/ (watch[w].at = "register" /\ watch[w].role # "none")
Counted(w) ==
  /\ Repairs(w) => job.tries < Limit
  /\ watch[w].at \in {"business", "spawn"} => watch[w].role = "none"
  /\ watch[w].at = "reserve" => watch[w].role # "none"
IInv == WatchTypeOK /\ Inside /\ Inherited /\ OneOwner /\ \A w \in Watchers : Counted(w)

\* What a step of a watcher does to the row and to its own place.
Keeps(w) ==
  /\ Shift(w) /\ job' \in Rows /\ Counted(w)' /\ seq' \in 0..MaxSeq
  /\ job'.tries \in {job.tries, 0} \/ watch[w].at \notin Loose
\* What it does to the lock and to its child.
Child(w, what) == child' = [child EXCEPT ![w] = what]
Holds(w) ==
  \/ UNCHANGED <<holders, child>> /\ (watch[w].at \notin Loose \/ watch'[w].at \in Loose)
  \/ holders = {} /\ holders' = {<<w, "watch">>} /\ UNCHANGED child
  \/ holders' = holders \ {<<w, "watch">>} /\ UNCHANGED child /\ watch'[w].at \in Loose
  \/ watch[w].at \notin Loose /\ holders' = holders \cup {<<w, "business">>} /\ Child(w, "business")
  \/ watch[w].at \notin Loose /\ UNCHANGED holders /\ Child(w, "model")
  \/ watch'[w].at = watch[w].at /\ holders' = holders \ {<<w, "business">>} /\ Child(w, "none")
  \/ watch'[w].at = watch[w].at /\ UNCHANGED holders /\ child[w] = "model" /\ Child(w, "none")

LEMMA KeptLock ==
  ASSUME IInv, NEW w \in Watchers, Shift(w), Holds(w)
  PROVE  /\ child' \in [Watchers -> {"none", "business", "model"}]
         /\ holders' \subseteq Watchers \X {"watch", "business"}
         /\ Inside' /\ Inherited' /\ OneOwner'
<1> USE DEF IInv, WatchTypeOK, Shift, Holds, Child
<1>1. child' \in [Watchers -> {"none", "business", "model"}] /\ \A v \in Watchers : v # w => child'[v] = child[v]
  OBVIOUS
<1>2. holders' \subseteq Watchers \X {"watch", "business"}
  OBVIOUS
<1>3. \A v \in Watchers : v # w => (<<v, "watch">> \in holders' <=> <<v, "watch">> \in holders) \/ holders = {}
  OBVIOUS
<1>4. Inside'
  BY <1>3 DEF Inside, Loose
<1>5. Inherited'
  BY <1>1 DEF Inherited
<1>6. OneOwner'
  <2>1. CASE holders' \subseteq holders
    BY <2>1 DEF OneOwner
  <2>2. CASE holders' = {<<w, "watch">>}
    BY <2>2 DEF OneOwner
  <2>3. CASE watch[w].at \notin Loose /\ holders' = holders \cup {<<w, "business">>}
    <3>1. <<w, "watch">> \in holders
      BY <2>3 DEF Inside
    <3>2. \A p \in holders : p[1] = w
      BY <3>1 DEF OneOwner
    <3> QED
      BY <2>3, <3>2 DEF OneOwner
  <2> QED
    BY <2>1, <2>2, <2>3
<1> QED
  BY <1>1, <1>2, <1>4, <1>5, <1>6

\* Two watchers past the lock are one.
LEMMA OnePast ==
  ASSUME IInv, NEW v \in Watchers, NEW w \in Watchers, watch[v].at \notin Loose, watch[w].at \notin Loose
  PROVE  v = w
<1>1. <<v, "watch">> \in holders /\ <<w, "watch">> \in holders
  BY DEF IInv, Inside
<1> QED
  BY <1>1 DEF IInv, OneOwner

LEMMA KeptCount ==
  ASSUME IInv, NEW w \in Watchers, Keeps(w)
  PROVE  \A v \in Watchers : Counted(v)'
<1> SUFFICES ASSUME NEW v \in Watchers, v # w PROVE Counted(v)'
  BY DEF Keeps
<1>1. watch'[v] = watch[v] /\ Counted(v)
  BY DEF Keeps, Shift, IInv
<1>2. CASE ~Repairs(v)
  BY <1>1, <1>2 DEF Counted, Repairs
<1>3. CASE Repairs(v)
  <2>1. watch[v].at \notin Loose
    BY <1>3 DEF Repairs, Repairing, Loose
  <2>2. watch[w].at \in Loose
    BY <2>1, OnePast
  <2>3. job'.tries \in {job.tries, 0}
    BY <2>2 DEF Keeps
  <2>4. job'.tries < Limit
    BY <2>3, <1>1, <1>3, SupervisorAssumption DEF Counted
  <2> QED
    BY <1>1, <2>4 DEF Counted, Repairs
<1> QED
  BY <1>2, <1>3

LEMMA Kept ==
  ASSUME IInv, NEW w \in Watchers, Keeps(w), Holds(w)
  PROVE  IInv'
<1>1. Shift(w) /\ job' \in Rows /\ seq' \in 0..MaxSeq
  BY DEF Keeps
<1>2. WatchTypeOK'
  BY <1>1, KeptLock DEF WatchTypeOK, Shift, Viewed
<1> QED
  BY <1>1, <1>2, KeptLock, KeptCount DEF IInv

-----------------------------------------------------------------------------
\* Commands. What they write is a row, and its count of failures that of before.
LEMMA Viewing == IInv => Viewed
  BY DEF IInv, WatchTypeOK, Viewed

LEMMA NewRowType == NewRow \in Rows /\ NewRow.tries = 0 /\ NoRow \in Rows
  BY SupervisorAssumption DEF NewRow, NoRow, Rows

LEMMA EndKeeps ==
  ASSUME IInv, NEW w \in Watchers, NEW row \in Rows, row.tries = job.tries, Ends(w, row)
  PROVE  Keeps(w) /\ Holds(w)
<1>1. Shift(w) /\ watch'[w].at = "end" /\ watch'[w].role = "none"
  BY Viewing, GoesShifts DEF Ends, Places, Forgets
<1>2. Counted(w)'
  BY <1>1 DEF Counted, Repairs, Repairing
<1>3. Keeps(w)
  BY <1>1, <1>2 DEF Keeps, Ends, Save, ReleaseLock, IInv, WatchTypeOK
<1>4. Holds(w)
  BY <1>1 DEF Holds, Ends, ReleaseLock, Loose
<1> QED
  BY <1>3, <1>4

LEMMA ReadsKeeps ==
  ASSUME IInv, NEW w \in Watchers, NEW row \in Rows, job' \in Rows, job'.tries \in {job.tries, 0},
         NEW cmd \in {"created", "start", "recheck", "resume", "retry"}, watch[w].at = "off", Reads(w, row, cmd)
  PROVE  Keeps(w) /\ Holds(w)
<1> DEFINE view == watch[w]
           begun == [view EXCEPT !.at = "lock", !.cmd = cmd, !.seen = First(row)]
<1>1. view \in Views
  BY Viewing DEF Viewed
<1>2. First(row) \in {"business", "maintain"}
  BY DEF First
<1>3. Shift(w) /\ watch'[w].at \in {"lock", "end"}
  <2>1. CASE Proceeds(row, cmd)
    <3> HIDE DEF view
    <3>1. begun \in Views /\ begun.at = "lock"
      BY <1>1, <1>2, ZenonT(120) DEF Views, Places
    <3>2. Becomes(w, begun)
      BY <2>1 DEF Reads, view
    <3> HIDE DEF begun
    <3> QED
      BY <3>1, <3>2, Viewing, BecomesShifts
  <2>2. CASE ~Proceeds(row, cmd)
    BY <2>2, Viewing, GoesShifts DEF Reads, Places
  <2> QED
    BY <2>1, <2>2
<1>4. Counted(w)'
  BY <1>3 DEF Counted, Repairs, Repairing
<1> QED
  BY <1>3, <1>4 DEF Keeps, Holds, Reads, Outside, Loose, IInv, WatchTypeOK

LEMMA StartKeeps ==
  ASSUME IInv, NEW w \in Watchers, Start(w)
  PROVE  Keeps(w) /\ Holds(w)
<1>1. job \in Rows
  BY DEF IInv, WatchTypeOK
<1>2. CASE job = NoRow
  <2>1. ~Unprepared
    BY <1>2 DEF Unprepared, NoRow, NewRow
  <2>2. job' = NewRow /\ Reads(w, NewRow, "created") /\ watch[w].at = "off"
    BY <1>2, <2>1 DEF Start, Save, On
  <2> QED
    BY <2>2, NewRowType, ReadsKeeps
<1>3. CASE job # NoRow
  <2>1. PICK cmd \in {"start", "recheck"} : job' = job /\ Reads(w, job, cmd) /\ watch[w].at = "off"
    BY <1>3 DEF Start, On
  <2> QED
    BY <1>1, <2>1, ReadsKeeps
<1> QED
  BY <1>2, <1>3

LEMMA ResumeKeeps ==
  ASSUME IInv, NEW w \in Watchers, Resume(w)
  PROVE  Keeps(w) /\ Holds(w)
<1>1. PICK cmd \in {"resume", "retry"} : Reads(w, job, cmd)
  BY DEF Resume
<1>2. job' = job /\ job \in Rows /\ watch[w].at = "off"
  BY DEF Resume, On, IInv, WatchTypeOK
<1> QED
  BY <1>1, <1>2, ReadsKeeps

LEMMA TakeLockKeeps ==
  ASSUME IInv, NEW w \in Watchers, TakeLock(w)
  PROVE  Keeps(w) /\ Holds(w)
<1> USE DEF TakeLock, IInv, WatchTypeOK
<1>1. CASE holders = {}
  <2>1. Shift(w) /\ watch'[w].at = "prepare"
    BY <1>1, Viewing, GoesShifts DEF Places
  <2> QED
    BY <1>1, <2>1 DEF Keeps, Holds, Counted, Repairs, Repairing
<1>2. CASE holders # {}
  <2>1. Shift(w) /\ watch'[w].at = "end"
    BY <1>2, Viewing, GoesShifts DEF Places
  <2>2. job' \in Rows /\ job'.tries = job.tries
    BY <1>2 DEF Save, Rows
  <2> QED
    BY <1>2, <2>1, <2>2 DEF Keeps, Holds, Counted, Repairs, Repairing, Loose
<1> QED
  BY <1>1, <1>2

LEMMA AcknowledgedType ==
  ASSUME job \in Rows, NEW cmd
  PROVE  Acknowledged(cmd) \in Rows /\ Acknowledged(cmd).tries = job.tries
<1>1. CASE cmd = "retry"
  BY <1>1, ZenonT(120) DEF Acknowledged, Rows
<1>2. CASE cmd = "resume"
  BY <1>2 DEF Acknowledged, Rows
<1>3. CASE cmd = "recheck"
  BY <1>3, ZenonT(120) DEF Acknowledged, Rows
<1>4. CASE cmd \notin {"retry", "resume", "recheck"}
  BY <1>4 DEF Acknowledged
<1> QED
  BY <1>1, <1>2, <1>3, <1>4

LEMMA PrepareKeeps ==
  ASSUME IInv, NEW w \in Watchers, Prepare(w)
  PROVE  Keeps(w) /\ Holds(w)
<1> DEFINE cmd == watch[w].cmd
           next == IF Explicit(cmd) \/ Rechecks(cmd) THEN First(Acknowledged(cmd)) ELSE watch[w].seen
<1>1. next \in {"business", "maintain"}
  BY Viewing DEF First, Viewed, Views
<1>2. Goes(w, next) /\ job' = Acknowledged(cmd)
  BY DEF Prepare, Save
<1> HIDE DEF next
<1>3. Shift(w) /\ watch'[w].at = next /\ watch'[w].role = "none"
  BY <1>1, <1>2, Viewing, GoesShifts DEF Places, Forgets
<1>4. job' \in Rows /\ job'.tries = job.tries
  BY <1>2, AcknowledgedType DEF IInv, WatchTypeOK
<1>5. Counted(w)'
  BY <1>1, <1>3 DEF Counted, Repairs, Repairing
<1> QED
  BY <1>1, <1>3, <1>4, <1>5 DEF Keeps, Holds, Prepare, On, Outside, Loose, IInv, WatchTypeOK

-----------------------------------------------------------------------------
\* A step past the lock that leaves the lock and the child alone.
LEMMA PastKeeps ==
  ASSUME IInv, NEW w \in Watchers, watch[w].at \notin Loose, Outside,
         Shift(w), job' \in Rows, Counted(w)'
  PROVE  Keeps(w) /\ Holds(w)
  BY DEF Keeps, Holds, Outside, IInv, WatchTypeOK

LEMMA RaiseKeeps ==
  ASSUME IInv, NEW w \in Watchers, watch[w].at \notin Loose, Outside, Raise(w)
  PROVE  Keeps(w) /\ Holds(w)
<1>1. Shift(w) /\ watch'[w].at = "stop"
  BY Viewing, GoesShifts DEF Raise, Places
<1>2. job' \in Rows
  BY DEF Raise, IInv, WatchTypeOK
<1> QED
  BY <1>1, <1>2, PastKeeps DEF Counted, Repairs, Repairing

\* It goes on to a place of repairs, from one, and the count stays.
LEMMA GoesOnKeeps ==
  ASSUME IInv, NEW w \in Watchers, watch[w].at \notin Loose, Outside, Repairs(w),
         NEW place \in Places \ {"spawn", "reserve"}, Goes(w, place), job' \in Rows, job'.tries = job.tries
  PROVE  Keeps(w) /\ Holds(w)
<1>1. Shift(w) /\ watch'[w].at = place /\ (place = "business" => watch'[w].role = "none")
  BY Viewing, GoesShifts DEF Forgets
<1>2. job'.tries < Limit
  BY DEF IInv, Counted
<1> QED
  BY <1>1, <1>2, PastKeeps DEF Counted

LEMMA StoppedKeeps ==
  ASSUME IInv, NEW w \in Watchers, Stopped(w)
  PROVE  Keeps(w) /\ Holds(w)
<1>1. [job EXCEPT !.state = "STOPPED"] \in Rows /\ [job EXCEPT !.state = "STOPPED"].tries = job.tries
  BY DEF IInv, WatchTypeOK, Rows
<1> QED
  BY <1>1, EndKeeps DEF Stopped

LEMMA BusinessKeeps ==
  ASSUME IInv, NEW w \in Watchers, Business(w)
  PROVE  Keeps(w) /\ Holds(w)
<1>1. watch[w].at = "business" /\ watch[w].role = "none" /\ Outside
  BY DEF Business, On, IInv, Counted
<1>2. CASE NotCancelled
  <2>1. Shift(w) /\ watch'[w].at = "spawn" /\ watch'[w].role = "none"
    BY <1>1, <1>2, Viewing, GoesShifts DEF Business, Places, Forgets
  <2>2. job' \in Rows
    BY <1>2 DEF Business, Save, IInv, WatchTypeOK, Rows
  <2> QED
    BY <1>1, <2>1, <2>2, PastKeeps DEF Loose, Counted, Repairs, Repairing
<1>3. CASE ~NotCancelled
  BY <1>1, <1>3, RaiseKeeps DEF Business, Loose
<1> QED
  BY <1>2, <1>3

LEMMA SpawnKeeps ==
  ASSUME IInv, NEW w \in Watchers, SpawnBusiness(w)
  PROVE  Keeps(w) /\ Holds(w)
<1>1. watch[w].at = "spawn" /\ watch[w].role = "none"
  BY DEF SpawnBusiness, On, IInv, Counted
<1>2. Shift(w) /\ watch'[w].at = "register" /\ watch'[w].role = "none"
  BY <1>1, Viewing, GoesShifts DEF SpawnBusiness, Places, Forgets
<1>3. Keeps(w)
  BY <1>1, <1>2 DEF Keeps, Counted, Repairs, Repairing, SpawnBusiness, IInv, WatchTypeOK
<1>4. Holds(w)
  BY <1>1 DEF Holds, Child, SpawnBusiness, Inherits, Loose
<1> QED
  BY <1>3, <1>4

LEMMA RecordKeeps ==
  ASSUME IInv, NEW w \in Watchers, RecordProcess(w)
  PROVE  Keeps(w) /\ Holds(w)
<1>1. watch[w].at = "register" /\ Outside
  BY DEF RecordProcess, On
<1>2. job' \in Rows /\ job'.tries = job.tries
  BY DEF RecordProcess, Save, IInv, WatchTypeOK, Rows
<1>3. CASE watch[w].role = "none"
  <2>1. Shift(w) /\ watch'[w].at = "watch"
    BY <1>3, Viewing, GoesShifts DEF RecordProcess, Places
  <2> QED
    BY <1>1, <1>2, <2>1, PastKeeps DEF Loose, Counted, Repairs, Repairing
<1>4. CASE watch[w].role # "none"
  BY <1>1, <1>2, <1>4, GoesOnKeeps DEF RecordProcess, Repairs, Places, Loose
<1> QED
  BY <1>3, <1>4

-----------------------------------------------------------------------------
\* The business and the calls, and what the watcher makes of their ends.
LEMMA MilestoneKeeps ==
  ASSUME IInv, NEW w \in Watchers, Milestone(w)
  PROVE  Keeps(w) /\ Holds(w)
<1>1. Shift(w) /\ watch' = watch /\ job' = job
  BY Viewing DEF Milestone, Shift, Viewed
<1>2. seq' \in 0..MaxSeq
  BY SupervisorAssumption DEF Milestone, IInv, WatchTypeOK
<1> QED
  BY <1>1, <1>2 DEF Keeps, Holds, Milestone, IInv, WatchTypeOK, Counted, Repairs

LEMMA HeardKeeps ==
  ASSUME IInv, NEW w \in Watchers, NEW out \in Outs \cup {"none", "cancelled", "lost", "ok", "failed", "unconfirmed"},
         Hears(w, out), UNCHANGED <<job, seq>>
  PROVE  Keeps(w) /\ watch'[w].at = watch[w].at
<1>1. Shift(w) /\ watch'[w].at = watch[w].at /\ watch'[w].role = watch[w].role
  BY Viewing, HearsShifts
<1> QED
  BY <1>1 DEF Keeps, IInv, WatchTypeOK, Counted, Repairs

LEMMA OverKeeps ==
  ASSUME IInv, NEW w \in Watchers, NEW out \in Outs \cup {"cancelled", "lost"}, Over(w, out)
  PROVE  Keeps(w) /\ Holds(w)
<1>1. Keeps(w) /\ watch'[w].at = watch[w].at
  BY HeardKeeps DEF Over
<1> QED
  BY <1>1 DEF Holds, Child, Over

LEMMA ChildKeeps ==
  ASSUME IInv, NEW w \in Watchers, ChildEnds(w) \/ Kills(w)
  PROVE  Keeps(w) /\ Holds(w)
<1>1. CASE BusinessEnds(w)
  BY <1>1, OverKeeps DEF BusinessEnds
<1>2. CASE ModelEnds(w)
  <2>1. PICK out \in {"ok", "failed", "unconfirmed"} : Hears(w, out)
    BY <1>2 DEF ModelEnds
  <2>2. Keeps(w) /\ watch'[w].at = watch[w].at
    BY <1>2, <2>1, HeardKeeps DEF ModelEnds
  <2> QED
    BY <1>2, <2>2 DEF Holds, Child, ModelEnds
<1>3. CASE Kills(w)
  <2>1. PICK out \in {"cancelled", "lost", "engine", "stopped"} : Over(w, out)
    BY <1>3 DEF Kills
  <2> QED
    BY <2>1, OverKeeps DEF Outs
<1> QED
  BY <1>1, <1>2, <1>3 DEF ChildEnds

LEMMA CollectKeeps ==
  ASSUME IInv, NEW w \in Watchers, Collect(w)
  PROVE  Keeps(w) /\ Holds(w)
<1>1. Shift(w) /\ watch'[w].at = "decide"
  BY Viewing, GoesShifts DEF Collect, Places
<1>2. job' \in Rows
  BY DEF Collect, Save, IInv, WatchTypeOK, Rows
<1> QED
  BY <1>1, <1>2, PastKeeps DEF Collect, On, Loose, Counted, Repairs, Repairing

LEMMA FreshType ==
  ASSUME NEW row, row \in Rows
  PROVE  Fresh(row) \in Rows
<1> DEFINE one == [row EXCEPT !.candidate = "no"]
           two == [one EXCEPT !.revision = "no"]
           three == [two EXCEPT !.verified = "none"]
           four == [three EXCEPT !.confirmed = "no"]
           five == [four EXCEPT !.recheck = "no"]
<1>1. Fresh(row) = five
  BY DEF Fresh
<1>2. one \in Rows
  BY DEF Rows
<1> HIDE DEF one
<1>3. two \in Rows
  BY <1>2 DEF Rows
<1> HIDE DEF two
<1>4. three \in Rows
  BY <1>3 DEF Rows
<1> HIDE DEF three
<1>5. four \in Rows
  BY <1>4 DEF Rows
<1> HIDE DEF four
<1>6. five \in Rows
  BY <1>5 DEF Rows
<1> HIDE DEF five
<1> QED
  BY <1>1, <1>6

LEMMA FaultedType ==
  ASSUME NEW row, row \in Rows, seq \in 0..MaxSeq
  PROVE  Faulted(row) \in Rows
<1> DEFINE one == [row EXCEPT !.fault = "engine", !.seq = seq]
           two == [one EXCEPT !.needs = "yes"]
<1>1. Faulted(row) = two
  BY DEF Faulted
<1>2. one \in Rows
  BY DEF Rows
<1> HIDE DEF one
<1>3. two \in Rows
  BY <1>2 DEF Rows
<1> HIDE DEF two
<1> QED
  BY <1>1, <1>3

LEMMA EpisodeType ==
  ASSUME job \in Rows, seq \in 0..MaxSeq, NEW changed \in BOOLEAN
  PROVE  Faulted(NextEpisode(changed)) \in Rows
<1>1. 0 \in 0..Limit
  BY SupervisorAssumption
<1>2. [job EXCEPT !.best = {}, !.tries = 0] \in Rows
  BY <1>1 DEF Rows
<1>3. Fresh(job) \in Rows /\ Fresh([job EXCEPT !.best = {}, !.tries = 0]) \in Rows
  BY <1>2, FreshType
<1>4. NextEpisode(changed) \in Rows
  <2>1. CASE Advanced
    BY <1>3, <2>1 DEF NextEpisode
  <2>2. CASE ~Advanced
    BY <1>3, <2>2 DEF NextEpisode
  <2> QED
    BY <2>1, <2>2
<1> QED
  BY <1>4, FaultedType

LEMMA DecideKeeps ==
  ASSUME IInv, NEW w \in Watchers, Decide(w)
  PROVE  Keeps(w) /\ Holds(w)
<1>1. /\ [job EXCEPT !.state = "STOPPED"] \in Rows /\ [job EXCEPT !.state = "STOPPED"].tries = job.tries
      /\ [job EXCEPT !.state = "DONE"] \in Rows /\ [job EXCEPT !.state = "DONE"].tries = job.tries
      /\ [job EXCEPT !.state = "STOPPED", !.fault = "other"] \in Rows
      /\ [job EXCEPT !.state = "STOPPED", !.fault = "other"].tries = job.tries
  BY ZenonT(120) DEF IInv, WatchTypeOK, Rows
<1>2. CASE Ends(w, [job EXCEPT !.state = "STOPPED"])
  BY <1>1, <1>2, EndKeeps
<1>3. CASE Ends(w, [job EXCEPT !.state = "DONE"])
  BY <1>1, <1>3, EndKeeps
<1>4. CASE Ends(w, [job EXCEPT !.state = "STOPPED", !.fault = "other"])
  BY <1>1, <1>4, EndKeeps
<1>5. CASE Goes(w, "maintain") /\ Outside /\ \E changed \in BOOLEAN : Save(Faulted(NextEpisode(changed)))
  <2>1. Shift(w) /\ watch'[w].at = "maintain"
    BY <1>5, Viewing, GoesShifts DEF Places
  <2>2. job' \in Rows
    BY <1>5, EpisodeType DEF Save, IInv, WatchTypeOK
  <2> QED
    BY <1>5, <2>1, <2>2, PastKeeps DEF Decide, On, Loose, Counted, Repairs, Repairing
<1> QED
  BY <1>2, <1>3, <1>4, <1>5 DEF Decide

-----------------------------------------------------------------------------
\* The repair. It begins with a failure to spare, and only the judgement counts one.
LEMMA MaintainKeeps ==
  ASSUME IInv, NEW w \in Watchers, Maintain(w)
  PROVE  Keeps(w) /\ Holds(w)
<1>1. watch[w].at \notin Loose /\ Outside
  BY DEF Maintain, On, Loose
<1>2. CASE Raise(w)
  BY <1>1, <1>2, RaiseKeeps
<1>3. CASE job.tries < Limit /\ Save([job EXCEPT !.candidate = "yes"]) /\ Goes(w, "reproduce")
  <2>1. Shift(w) /\ watch'[w].at = "reproduce"
    BY <1>3, Viewing, GoesShifts DEF Places
  <2>2. job' \in Rows /\ job'.tries = job.tries
    BY <1>3 DEF Save, IInv, WatchTypeOK, Rows
  <2> QED
    BY <1>1, <1>3, <2>1, <2>2, PastKeeps DEF Counted
<1> QED
  BY <1>2, <1>3 DEF Maintain

LEMMA ReproduceKeeps ==
  ASSUME IInv, NEW w \in Watchers, Reproduce(w)
  PROVE  Keeps(w) /\ Holds(w)
<1>1. watch[w].at = "reproduce" /\ watch[w].at \notin Loose /\ Outside
  BY DEF Reproduce, On, Loose
<1>2. CASE Raise(w)
  BY <1>1, <1>2, RaiseKeeps
<1>3. ASSUME NEW recheck \in {job.recheck, "yes"}, Save([job EXCEPT !.confirmed = "yes", !.recheck = recheck]),
             NEW keep \in {"yes", "no"}, Becomes(w, [watch[w] EXCEPT !.at = "repair", !.keep = keep])
      PROVE  Keeps(w) /\ Holds(w)
  <2> DEFINE view == watch[w]
             next == [view EXCEPT !.at = "repair", !.keep = keep]
  <2>1. view \in Views
    BY Viewing DEF Viewed
  <2> HIDE DEF view
  <2>2. next \in Views /\ next.at = "repair"
    BY <1>3, <2>1, ZenonT(120) DEF Views, Places
  <2>3. Becomes(w, next)
    BY <1>3 DEF view
  <2> HIDE DEF next
  <2>4. Shift(w) /\ watch'[w].at = "repair"
    BY <2>2, <2>3, Viewing, BecomesShifts
  <2>5. job' \in Rows /\ job'.tries = job.tries /\ job.tries < Limit
    BY <1>1, <1>3, ZenonT(120) DEF Save, IInv, WatchTypeOK, Rows, Counted, Repairs, Repairing
  <2> QED
    BY <1>1, <2>4, <2>5, PastKeeps DEF Counted
<1> QED
  BY <1>2, <1>3 DEF Reproduce

LEMMA AskedKeeps ==
  ASSUME IInv, NEW w \in Watchers, watch[w].at \notin Loose, Outside, Repairs(w),
         NEW role \in {"implement", "review", "publish"}, Asks(w, role), job' \in Rows, job'.tries = job.tries
  PROVE  Keeps(w) /\ Holds(w)
<1>1. Shift(w) /\ watch'[w].at = "reserve" /\ watch'[w].role # "none"
  BY Viewing, AsksShifts
<1>2. job'.tries < Limit
  BY DEF IInv, Counted
<1> QED
  BY <1>1, <1>2, PastKeeps DEF Counted

LEMMA RepairKeeps ==
  ASSUME IInv, NEW w \in Watchers, Repair(w)
  PROVE  Keeps(w) /\ Holds(w)
<1>1. watch[w].at \notin Loose /\ Outside /\ Repairs(w)
  BY DEF Repair, On, Loose, Repairs, Repairing
<1>2. CASE Save([job EXCEPT !.state = "REPAIRING"]) /\ Asks(w, "implement")
  <2>1. job' \in Rows /\ job'.tries = job.tries
    BY <1>2 DEF Save, IInv, WatchTypeOK, Rows
  <2> QED
    BY <1>1, <1>2, <2>1, AskedKeeps
<1>3. CASE Save([job EXCEPT !.recheck = "no"]) /\ Goes(w, "commit")
  <2>1. job' \in Rows /\ job'.tries = job.tries
    BY <1>3 DEF Save, IInv, WatchTypeOK, Rows
  <2> QED
    BY <1>1, <1>3, <2>1, GoesOnKeeps DEF Places
<1> QED
  BY <1>2, <1>3 DEF Repair

LEMMA ReserveKeeps ==
  ASSUME IInv, NEW w \in Watchers, Reserve(w)
  PROVE  Keeps(w) /\ Holds(w)
<1>1. watch[w].at \notin Loose /\ Outside /\ Repairs(w)
  BY DEF Reserve, On, Loose, Repairs, Repairing
<1>2. CASE GivesUp(w) /\ UNCHANGED job
  <2>1. \E place \in {"business", "stop"} : Goes(w, place)
    BY <1>2 DEF GivesUp
  <2> QED
    BY <1>1, <1>2, <2>1, GoesOnKeeps DEF IInv, WatchTypeOK, Places
<1>3. CASE Save([job EXCEPT !.call = watch[w].role]) /\ Goes(w, "dispatch")
  <2> DEFINE role == watch[w].role
  <2>1. role \in {"implement", "review", "publish"}
    BY Viewing DEF Viewed, Views, Reserve, On, IInv, Counted
  <2>2. job' = [job EXCEPT !.call = role]
    BY <1>3 DEF Save
  <2> HIDE DEF role
  <2>3. job' \in Rows /\ job'.tries = job.tries
    BY <2>1, <2>2 DEF IInv, WatchTypeOK, Rows
  <2> QED
    BY <1>1, <1>3, <2>3, GoesOnKeeps DEF Places
<1> QED
  BY <1>2, <1>3 DEF Reserve

LEMMA DispatchKeeps ==
  ASSUME IInv, NEW w \in Watchers, Dispatch(w)
  PROVE  Keeps(w) /\ Holds(w)
<1>1. watch[w].at = "dispatch" /\ Repairs(w)
  BY DEF Dispatch, On, Repairs, Repairing
<1>2. Shift(w) /\ watch'[w].at = "register"
  BY Viewing, GoesShifts DEF Dispatch, Places
<1>3. Keeps(w)
  BY <1>1, <1>2 DEF Keeps, Dispatch, Counted, IInv, WatchTypeOK
<1>4. Holds(w)
  BY <1>1 DEF Holds, Child, Dispatch, Loose
<1> QED
  BY <1>3, <1>4

LEMMA SettleKeeps ==
  ASSUME IInv, NEW w \in Watchers, Settle(w)
  PROVE  Keeps(w) /\ Holds(w)
<1>1. watch[w].at \notin Loose /\ Outside /\ Repairs(w)
  BY DEF Settle, On, Loose, Repairs, Repairing
<1>2. job' \in Rows /\ job'.tries = job.tries
  <2>1. [job EXCEPT !.state = "STOPPED"] \in Rows /\ [job EXCEPT !.state = "STOPPED"].tries = job.tries
    BY DEF IInv, WatchTypeOK, Rows
  <2>2. [job EXCEPT !.call = "no", !.process = Nobody] \in Rows /\ [job EXCEPT !.call = "no", !.process = Nobody].tries = job.tries
    BY DEF IInv, WatchTypeOK, Rows
  <2> QED
    BY <2>1, <2>2 DEF Settle, Save
<1>3. \E place \in {"business", "stop", "commit", "verdict"} : Goes(w, place)
  BY DEF Settle, GivesUp, After
<1> QED
  BY <1>1, <1>2, <1>3, GoesOnKeeps DEF Places

LEMMA CommitKeeps ==
  ASSUME IInv, NEW w \in Watchers, Commit(w)
  PROVE  Keeps(w) /\ Holds(w)
<1>1. watch[w].at \notin Loose /\ Outside /\ Repairs(w)
  BY DEF Commit, On, Loose, Repairs, Repairing
<1>2. CASE Raise(w)
  BY <1>1, <1>2, RaiseKeeps
<1>3. CASE Goes(w, "verify") /\ Save([job EXCEPT !.state = "VERIFYING", !.revision = "yes"])
  <2>1. job' \in Rows /\ job'.tries = job.tries
    BY <1>3 DEF Save, IInv, WatchTypeOK, Rows
  <2> QED
    BY <1>1, <1>3, <2>1, GoesOnKeeps DEF Places
<1> QED
  BY <1>2, <1>3 DEF Commit

LEMMA VerifyKeeps ==
  ASSUME IInv, NEW w \in Watchers, Verify(w)
  PROVE  Keeps(w) /\ Holds(w)
<1>1. watch[w].at \notin Loose /\ Outside /\ Repairs(w)
  BY DEF Verify, On, Loose, Repairs, Repairing
<1>2. job' \in Rows /\ job'.tries = job.tries
  BY DEF Verify, Save, IInv, WatchTypeOK, Rows
<1>3. PICK got \in SUBSET Checks :
        \/ Becomes(w, [watch[w] EXCEPT !.got = got, !.at = "reserve", !.role = "review"])
        \/ Becomes(w, [watch[w] EXCEPT !.got = got, !.at = "judge"])
  BY DEF Verify
<1> DEFINE view == watch[w]
           seen == [view EXCEPT !.got = got]
           asked == [seen EXCEPT !.at = "reserve", !.role = "review"]
           judged == [seen EXCEPT !.at = "judge"]
<1>4. view \in Views
  BY Viewing DEF Viewed
<1>5. Becomes(w, asked) \/ Becomes(w, judged)
  BY <1>3
<1> HIDE DEF view
<1>6. seen \in Views
  BY <1>4 DEF Views
<1> HIDE DEF seen
<1>7. /\ asked \in Views /\ asked.at = "reserve" /\ asked.role = "review"
      /\ judged \in Views /\ judged.at = "judge"
  BY <1>6, ZenonT(120) DEF Views, Places
<1> HIDE DEF asked, judged
<1>8. Shift(w) /\ (watch'[w] = asked \/ watch'[w] = judged)
  BY <1>5, <1>7, Viewing, BecomesShifts
<1>9. Counted(w)'
  BY <1>1, <1>2, <1>7, <1>8 DEF Counted, IInv
<1> QED
  BY <1>1, <1>2, <1>8, <1>9, PastKeeps

LEMMA VerdictKeeps ==
  ASSUME IInv, NEW w \in Watchers, Verdict(w)
  PROVE  Keeps(w) /\ Holds(w)
<1>1. watch[w].at \notin Loose /\ Outside /\ Repairs(w)
  BY DEF Verdict, On, Loose, Repairs, Repairing
<1>2. CASE Raise(w)
  BY <1>1, <1>2, RaiseKeeps
<1>3. CASE \E result \in {"failed", "ok"}, place \in {"judge", "deliver"} :
             Save([job EXCEPT !.verified = result]) /\ Goes(w, place)
  <2>1. job' \in Rows /\ job'.tries = job.tries
    BY <1>3 DEF Save, IInv, WatchTypeOK, Rows
  <2> QED
    BY <1>1, <1>3, <2>1, GoesOnKeeps DEF Places
<1> QED
  BY <1>2, <1>3 DEF Verdict

LEMMA JudgeKeeps ==
  ASSUME IInv, NEW w \in Watchers, Judge(w)
  PROVE  Keeps(w) /\ Holds(w)
<1>1. watch[w].at \notin Loose /\ Outside /\ job.tries < Limit /\ job \in Rows
  BY DEF Judge, On, Loose, Repairs, Repairing, IInv, Counted, WatchTypeOK
<1> DEFINE got == watch[w].got
<1>2. got \in SUBSET Checks
  BY Viewing DEF Viewed, Views
<1>3. CASE Raise(w)
  BY <1>1, <1>3, RaiseKeeps
<1>4. CASE Improved(got) /\ Save([job EXCEPT !.best = got, !.tries = 0]) /\ Goes(w, "repair")
  <2>1. Shift(w) /\ watch'[w].at = "repair"
    BY <1>4, Viewing, GoesShifts DEF Places
  <2> HIDE DEF got
  <2> DEFINE better == [job EXCEPT !.best = got]
             row == [better EXCEPT !.tries = 0]
  <2>3. better \in Rows /\ 0 \in 0..Limit
    BY <1>1, <1>2, SupervisorAssumption DEF Rows
  <2>4. job' = row
    BY <1>4 DEF Save
  <2> HIDE DEF better
  <2>5. row \in Rows /\ row.tries = 0
    BY <2>3 DEF Rows
  <2> HIDE DEF row
  <2>2. job' \in Rows /\ job'.tries = 0
    BY <2>4, <2>5
  <2> QED
    BY <1>1, <2>1, <2>2, SupervisorAssumption, PastKeeps DEF Counted
<1>5. ASSUME NEW place \in {"repair", "stop"}, Goes(w, place), Save([job EXCEPT !.tries = @ + 1]),
             place = "repair" => job.tries + 1 < Limit
      PROVE  Keeps(w) /\ Holds(w)
  <2>1. Shift(w) /\ watch'[w].at = place
    BY <1>5, Viewing, GoesShifts DEF Places
  <2>2. job' \in Rows /\ job'.tries = job.tries + 1
    BY <1>1, <1>5, SupervisorAssumption DEF Save, Rows
  <2> QED
    BY <1>1, <1>5, <2>1, <2>2, PastKeeps DEF Counted, Repairs, Repairing
<1> QED
  BY <1>3, <1>4, <1>5 DEF Judge

LEMMA DeliverKeeps ==
  ASSUME IInv, NEW w \in Watchers, Deliver(w)
  PROVE  Keeps(w) /\ Holds(w)
<1>1. watch[w].at \notin Loose /\ Outside /\ Repairs(w)
  BY DEF Deliver, On, Loose, Repairs, Repairing
<1>2. CASE Raise(w)
  BY <1>1, <1>2, RaiseKeeps
<1>3. CASE \/ Save([job EXCEPT !.state = "RESTARTING"])
           \/ Save([job EXCEPT !.state = "RESTARTING", !.runtime = "yes", !.needs = "no"])
  <2> DEFINE one == [job EXCEPT !.state = "RESTARTING"]
             two == [one EXCEPT !.runtime = "yes", !.needs = "no"]
  <2>1. one \in Rows /\ one.tries = job.tries
    BY DEF IInv, WatchTypeOK, Rows
  <2>2. job' = one \/ job' = two
    BY <1>3 DEF Save
  <2> HIDE DEF one
  <2>3. two \in Rows /\ two.tries = one.tries
    BY <2>1, ZenonT(120) DEF Rows
  <2> HIDE DEF two
  <2>4. job' \in Rows /\ job'.tries = job.tries
    BY <2>1, <2>2, <2>3
  <2>5. Goes(w, "stop") \/ Goes(w, "business") \/ Asks(w, "publish") \/ Raise(w)
    BY DEF Deliver
  <2> QED
    BY <1>1, <2>4, <2>5, GoesOnKeeps, AskedKeeps, RaiseKeeps DEF Places
<1> QED
  BY <1>2, <1>3 DEF Deliver

-----------------------------------------------------------------------------
\* A death, the commands that only write the row, and every step.
LEMMA DiesKeeps ==
  ASSUME IInv, NEW w \in Watchers, Dies(w)
  PROVE  Keeps(w) /\ Holds(w)
<1>1. Shift(w) /\ watch'[w].at = "dead"
  BY Viewing, GoesShifts DEF Dies, Places
<1> QED
  BY <1>1 DEF Dies, Keeps, Holds, Loose, IInv, WatchTypeOK, Counted, Repairs, Repairing

LEMMA CommandsKeep ==
  ASSUME IInv, Cancel \/ Reconcile
  PROVE  IInv'
<1>1. job' \in Rows /\ job'.tries = job.tries
  <2>1. CASE Cancel
    BY <2>1 DEF Cancel, Save, IInv, WatchTypeOK, Rows
  <2>2. CASE Reconcile
    <3> DEFINE one == [job EXCEPT !.call = "no", !.state = "STOPPED"]
               two == [one EXCEPT !.process = Nobody, !.recheck = IF job.call = "implement" THEN "yes" ELSE "no"]
    <3>1. one \in Rows /\ one.tries = job.tries
      BY ZenonT(120) DEF IInv, WatchTypeOK, Rows
    <3>2. job' = two
      BY <2>2 DEF Reconcile, Save
    <3> HIDE DEF one
    <3>3. two \in Rows /\ two.tries = one.tries
      BY <3>1, ZenonT(120) DEF Rows
    <3> HIDE DEF two
    <3> QED
      BY <3>1, <3>2, <3>3
  <2> QED
    BY <2>1, <2>2
<1>2. UNCHANGED <<watch, child, holders, seq>>
  BY DEF Cancel, Reconcile
<1> QED
  BY <1>1, <1>2 DEF IInv, WatchTypeOK, Inside, Inherited, OneOwner, Counted, Repairs

LEMMA WatchInitInv == WatchInit => IInv
<1> SUFFICES ASSUME WatchInit PROVE IInv
  OBVIOUS
<1>1. WatchTypeOK
  BY NewRowType, NewWatchView, SupervisorAssumption DEF WatchInit, WatchTypeOK
<1>2. \A w \in Watchers : watch[w].at = "off"
  BY DEF WatchInit, NewWatch
<1> QED
  BY <1>1, <1>2 DEF WatchInit, IInv, Inside, Inherited, OneOwner, Counted, Repairs, Repairing, Loose

LEMMA WatchStep == IInv /\ [WatchNext]_watchVars => IInv'
<1> SUFFICES ASSUME IInv, [WatchNext]_watchVars PROVE IInv'
  OBVIOUS
<1>1. CASE Cancel \/ Reconcile
  BY <1>1, CommandsKeep
<1>2. ASSUME NEW w \in Watchers, Step(w) PROVE IInv'
  <2>1. Keeps(w) /\ Holds(w)
    BY <1>2, StoppedKeeps, TakeLockKeeps, PrepareKeeps, BusinessKeeps, SpawnKeeps, RecordKeeps, CollectKeeps,
       DecideKeeps, MaintainKeeps, ReproduceKeeps, RepairKeeps, ReserveKeeps, DispatchKeeps, SettleKeeps,
       CommitKeeps, VerifyKeeps, VerdictKeeps, JudgeKeeps, DeliverKeeps DEF Step
  <2> QED
    BY <2>1, Kept
<1>3. ASSUME NEW w \in Watchers,
             Start(w) \/ Resume(w) \/ Kills(w) \/ Milestone(w) \/ ChildEnds(w) \/ Dies(w)
      PROVE  IInv'
  <2>1. Keeps(w) /\ Holds(w)
    BY <1>3, StartKeeps, ResumeKeeps, ChildKeeps, MilestoneKeeps, DiesKeeps
  <2> QED
    BY <2>1, Kept
<1>4. CASE UNCHANGED watchVars
  BY <1>4 DEF watchVars, IInv, WatchTypeOK, Inside, Inherited, OneOwner, Counted, Repairs
<1> QED
  BY <1>1, <1>2, <1>3, <1>4 DEF WatchNext

\* The row, what the watchers remember, the lock and the milestones keep their types:
\* the failures of a job in a row never exceed no_progress_limit.
THEOREM WatchTypeTheorem == WatchSpec => []WatchTypeOK
<1>1. IInv => WatchTypeOK
  BY DEF IInv
<1> QED
  BY <1>1, WatchInitInv, WatchStep, PTL DEF WatchSpec

\* The business of a project runs once at a time and no other watcher holds its lock
\* beside it, whichever watcher died when: the process inherits the descriptor of the
\* lock (pass_fds), and a lock has one owner.
THEOREM OneBusinessTheorem == WatchSpec => []OneBusiness
<1>1. IInv => OneBusiness
  <2> SUFFICES ASSUME IInv, NEW v \in Watchers, NEW w \in Watchers, v # w, child[v] = "business"
               PROVE  child[w] # "business" /\ ~Owns(w)
    BY DEF OneBusiness
  <2>1. <<v, "business">> \in holders
    BY DEF IInv, Inherited
  <2>2. <<w, "business">> \notin holders /\ <<w, "watch">> \notin holders
    BY <2>1 DEF IInv, OneOwner
  <2> QED
    BY <2>2 DEF IInv, Inherited, Owns
<1> QED
  BY <1>1, WatchInitInv, WatchStep, PTL DEF WatchSpec
===============================================================================
