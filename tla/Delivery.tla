------------------------------- MODULE Delivery -------------------------------
\* The delivery of verified work into the user's own repository: Workspaces.deliver
\* and finish_delivery inside Engine.effect, and the part of Engine.resume that
\* finishes what an earlier process left. The repository is shared with the user,
\* who edits, stages and commits at any time; the process may crash, be
\* interrupted, or have a git or file operation fail at every step.
EXTENDS Naturals, Sequences, SequencesExt, FiniteSets, TLC
CONSTANTS
  Works,      \* root work items that reach their deliver phase
  Paths,      \* product paths of the repository
  Touched,    \* Touched[w]: the paths of w's candidate
  User,       \* the user, as an author and as the content of a path he edited
  Locked,     \* where another git may hold the lock of the index or of a reference
  MaxAttempts,\* bound: deliver operations registered for one work
  MaxActs,    \* bound: acts of the user in the repository
  MaxFailures \* bound: crashes, interrupts and failing git or file operations

ASSUME DeliveryAssumption ==
  /\ Touched \in [Works -> SUBSET Paths]
  /\ User \notin Works /\ Locked \subseteq {"deliver", "journal", "checking", "naming", "writing"}
  /\ MaxAttempts \in Nat \ {0} /\ MaxActs \in Nat /\ MaxFailures \in Nat
  \* deliver() returns at once for a candidate without paths: not modelled.
  /\ \A w \in Works : Touched[w] # {}

VARIABLES
  branch,   \* the commits of the branch, oldest first
  file,     \* the content of every path in the user's working tree
  index,    \* ... and in his index
  work,     \* the works: status, category of the failure, admission
  op,       \* the deliver operations
  journal,  \* the delivery journals in the metadata table
  run,      \* the command that holds the project lock, if any
  calm,     \* no user has touched the repository while a command ran
  raced,    \* the user wrote into a path between the last look at it and its write
  acts,     \* acts of the user so far (a bound)
  failures  \* failures so far (a bound)

vars == <<branch, file, index, work, op, journal, run, calm, raced, acts, failures>>
repo == <<branch, file, index>>

Attempts == 0 .. MaxAttempts - 1
OpIds == Works \X Attempts
\* A FAILED operation carries the category of its error: a conflict that deliver()
\* found, or a git operation that failed. A consumed one is given up.
OpStates == {"absent", "DISPATCHED", "UNKNOWN", "CONFIRMED", "conflict", "fault", "consumed"}
\* The category with which a work is blocked by its current operation.
Category ==
  [s \in {"DISPATCHED", "UNKNOWN", "conflict", "fault"} |->
     CASE s = "conflict" -> "state"
       [] s = "fault" -> "environment"
       [] OTHER -> "reconciliation"]
Old == "old"
Contents == Works \cup {User, Old}

HeadTree(b) == Last(b).tree
Dirty(p) == file[p] # HeadTree(branch)[p] \/ index[p] # HeadTree(branch)[p]
ByWork(b, w) == \E i \in DOMAIN b : b[i].by[1] = w
Landed(id) == \E i \in DOMAIN branch : branch[i].by = id

\* The commit of a journal: the candidate's paths on top of the tree of its base,
\* built in a private index.
CommitTreeShared(id, base) ==
  [p \in Paths |-> IF p \in Touched[id[1]] THEN id[1] ELSE index[p]]
CommitTree(id, base) ==
  [p \in Paths |-> IF p \in Touched[id[1]] THEN id[1] ELSE HeadTree(base)[p]]
Revision(id) ==
  LET base == journal[id].base
  IN Append(base, [by |-> id, tree |-> CommitTree(id, base)])

Unjournaled == [state |-> "none", base |-> <<>>, before |-> <<>>]
Idle == [at |-> "idle", work |-> "none", target |-> <<>>, within |-> "none",
         head |-> <<>>, todo |-> {}]
At(place) == run.at = place
Goto(place) == run' = [run EXCEPT !.at = place]

Init ==
  /\ branch = <<[by |-> <<User, 0>>, tree |-> [p \in Paths |-> Old]]>>
  /\ file = [p \in Paths |-> Old] /\ index = [p \in Paths |-> Old]
  /\ work = [w \in Works |->
       [status |-> "none", failure |-> "none", source |-> <<>>, dirty |-> {}]]
  /\ op = [id \in OpIds |-> "absent"]
  /\ journal = [id \in OpIds |-> Unjournaled]
  /\ run = Idle /\ calm = TRUE /\ raced = FALSE /\ acts = 0 /\ failures = 0

-----------------------------------------------------------------------------
\* The user. His content of a path is one value; he rewrites no history.

\* deliver() has found the path clean and not noted its content yet, or finish_delivery
\* has compared the content and not written it yet.
Unwatched(p) ==
  \/ At("journal") /\ p \in Touched[run.work]
  \/ run.at \in {"naming", "writing"} /\ p \in run.todo

ByUser ==
  /\ acts < MaxActs /\ acts' = acts + 1
  /\ calm' = (calm /\ At("idle"))
  /\ UNCHANGED <<work, op, journal, run, failures>>

Edit(p) ==
  /\ file' = [file EXCEPT ![p] = User] /\ file' # file
  /\ raced' = (raced \/ Unwatched(p))
  /\ ByUser /\ UNCHANGED <<branch, index>>

Restore(p) ==
  /\ Dirty(p)
  /\ file' = [file EXCEPT ![p] = HeadTree(branch)[p]]
  /\ index' = [index EXCEPT ![p] = HeadTree(branch)[p]]
  /\ ByUser /\ UNCHANGED <<branch, raced>>

Stage(p) ==
  /\ index[p] # file[p]
  /\ index' = [index EXCEPT ![p] = file[p]]
  /\ ByUser /\ UNCHANGED <<branch, file, raced>>

\* git commit -a
CommitAll ==
  /\ file # HeadTree(branch)
  /\ branch' = Append(branch, [by |-> <<User, acts>>, tree |-> file])
  /\ index' = file
  /\ ByUser /\ UNCHANGED <<file, raced>>

-----------------------------------------------------------------------------
\* Commands. One process at a time holds the project lock.

ByCommand == UNCHANGED <<calm, raced, acts>>

\* Workspaces.snapshot: the head a new work is admitted on, and which of its paths
\* were dirty then.
\* Its earlier phases leave the repository alone and may wait for a decision.
Admit(w) ==
  /\ At("idle") /\ work[w].status = "none"
  /\ work' = [work EXCEPT ![w] =
       [status |-> "READY", failure |-> "none", source |-> branch,
        dirty |-> {p \in Touched[w] : Dirty(p)}]]
  /\ ByCommand /\ UNCHANGED <<repo, op, journal, run, failures>>

\* orphan_calls: what an earlier process left open is now of unknown outcome.
Orphaned == [id \in OpIds |-> IF op[id] = "DISPATCHED" THEN "UNKNOWN" ELSE op[id]]

\* The bound on attempts: the operator stops resuming a work that used them up.
Spent(w) == Cardinality({k \in Attempts : op[<<w, k>>] \in {"fault", "consumed"}})

Command(w) == run' = [Idle EXCEPT !.at = "resume", !.work = w]

Resume(w) ==
  /\ At("idle") /\ work[w].status # "none"
  /\ work[w].status \in {"COMPLETED", "CANCELLED"} \/ Spent(w) < MaxAttempts
  /\ op' = Orphaned /\ Command(w)
  /\ ByCommand /\ UNCHANGED <<repo, work, journal, failures>>

\* answer and approve resume as well, but they are no execution commands: they
\* run without orphan_calls. The work still waits in an earlier phase.
Answer(w) ==
  /\ At("idle") /\ work[w].status = "READY" /\ op[<<w, 0>>] = "absent"
  /\ Command(w)
  /\ ByCommand /\ UNCHANGED <<repo, work, op, journal, failures>>

Cancel(w) ==
  /\ At("idle") /\ work[w].status \in {"READY", "RUNNING", "BLOCKED"}
  /\ work' = [work EXCEPT ![w].status = "CANCELLED"]
  /\ ByCommand /\ UNCHANGED <<repo, op, journal, run, failures>>

\* reconcile-call with a truthful operator: he confirms a result only of a commit
\* that is there and a cancellation only of one that is not.
ReconciledAs(id) == IF Landed(id) THEN "CONFIRMED" ELSE "cancelled"
Reconciled(id) == IF Landed(id) THEN "CONFIRMED" ELSE "consumed"
UnresolvedEver(w) == \E k \in Attempts : op[<<w, k>>] \notin {"absent", "CONFIRMED"}
Unresolved(w) == \E k \in Attempts : op[<<w, k>>] \in {"DISPATCHED", "UNKNOWN"}

Freed(w) == [work EXCEPT ![w] = [@ EXCEPT !.status = "READY", !.failure = "none"]]

Reconcile(id) ==
  /\ At("idle") /\ op[id] \in {"DISPATCHED", "UNKNOWN"}
  /\ op' = [op EXCEPT ![id] = Reconciled(id)]
  /\ LET w == id[1]
     IN work' = IF work[w].status = "BLOCKED" /\ work[w].failure = "reconciliation"
                     /\ ~Unresolved(w)'
                THEN Freed(w) ELSE work
  /\ ByCommand /\ UNCHANGED <<repo, journal, run, failures>>

-----------------------------------------------------------------------------
\* Engine.resume: finish every delivery of unknown outcome that has a journal, of
\* whatever work, then wake the selected one.

Interrupted(id) == op[id] = "UNKNOWN" /\ journal[id].state # "none"

FinishPending(id) ==
  /\ At("resume") /\ Interrupted(id)
  /\ run' = [run EXCEPT !.at = "checking", !.target = id, !.within = "resume"]
  /\ ByCommand /\ UNCHANGED <<repo, work, op, journal, failures>>

\* Failed attempts are given up, and so retried, after an environment failure.
Retriable(w) == work[w].status = "BLOCKED" /\ work[w].failure = "environment"

Wake ==
  LET w == run.work IN
  /\ At("resume") /\ ~\E id \in OpIds : Interrupted(id)
  /\ IF \/ work[w].status \in {"COMPLETED", "CANCELLED"}
        \/ work[w].status = "BLOCKED" /\ work[w].failure = "reconciliation"
     THEN run' = Idle /\ UNCHANGED <<work, op>>
     ELSE /\ Goto("drive")
          /\ work' = IF work[w].status = "BLOCKED" THEN Freed(w)
                      ELSE [work EXCEPT ![w].status = "READY"]
          /\ op' = [id \in OpIds |->
               IF id[1] = w /\ op[id] \in {"conflict", "fault"} /\ Retriable(w)
               THEN "consumed" ELSE op[id]]
  /\ ByCommand /\ UNCHANGED <<repo, journal, failures>>

NextOrdinal(w) == Cardinality({k \in Attempts : op[<<w, k>>] = "consumed"})

\* Engine.effect: the attempt that is current is replayed, refused or registered.
Replay(id) ==
  /\ op[id] = "CONFIRMED"
  /\ Goto("complete")
  /\ work' = [work EXCEPT ![id[1]].status = "RUNNING"]
  /\ UNCHANGED op

Refuse(id) ==
  /\ op[id] \in DOMAIN Category
  /\ run' = [run EXCEPT !.at = "block", !.within = Category[op[id]]]
  /\ work' = [work EXCEPT ![id[1]].status = "RUNNING"]
  /\ UNCHANGED op

Register(id) ==
  /\ op[id] = "absent"
  /\ op' = [op EXCEPT ![id] = "DISPATCHED"]
  /\ work' = [work EXCEPT ![id[1]].status = "RUNNING"]
  /\ run' = [run EXCEPT !.at = "deliver", !.target = id, !.within = "drive"]

Drive ==
  /\ At("drive")
  /\ LET id == <<run.work, NextOrdinal(run.work)>>
     IN Replay(id) \/ Refuse(id) \/ Register(id)
  /\ ByCommand /\ UNCHANGED <<repo, journal, failures>>

\* An effect that raises: within drive its operation is settled first and the
\* work blocked in a transaction of its own; within resume the exception ends
\* the command and leaves the operation as it is.
Raise(state, category) ==
  IF run.within = "drive"
  THEN /\ op' = [op EXCEPT ![run.target] = state]
       /\ run' = [run EXCEPT !.at = "block", !.within = category]
  ELSE run' = Idle /\ UNCHANGED op

Block ==
  /\ At("block")
  /\ work' = [work EXCEPT ![run.work] =
       [@ EXCEPT !.status = "BLOCKED", !.failure = run.within]]
  /\ run' = Idle
  /\ ByCommand /\ UNCHANGED <<repo, op, journal, failures>>

\* deliver(): only onto the commit the work was admitted on, and only over paths
\* that nobody has touched, now or at the admission.
SameBaseOrLater(w) == IsPrefix(work[w].source, branch)
SameBase(w) == branch = work[w].source
Untouched(w) == work[w].dirty = {} /\ \A p \in Touched[w] : ~Dirty(p)
Deliverable(w) == SameBase(w) /\ Untouched(w)

Deliver ==
  /\ At("deliver")
  /\ IF Deliverable(run.work)
     THEN run' = [run EXCEPT !.at = "journal", !.head = branch] /\ UNCHANGED op
     ELSE Raise("conflict", "state")
  /\ ByCommand /\ UNCHANGED <<repo, work, journal, failures>>

WriteJournal ==
  /\ At("journal")
  /\ journal' = [journal EXCEPT ![run.target] =
       [state |-> "written", base |-> run.head, before |-> [p \in Touched[run.work] |-> file[p]]]]
  /\ run' = [run EXCEPT !.at = "checking", !.head = <<>>]
  /\ ByCommand /\ UNCHANGED <<repo, work, op, failures>>

-----------------------------------------------------------------------------
\* finish_delivery: the branch and the paths are looked at once, then the branch
\* is moved by compare-and-swap and the files follow one by one.

Target == run.target
PathsOf(id) == Touched[id[1]]

Ours(id) == branch \in {journal[id].base, Revision(id)}
AnyKept(id) == TRUE
Kept(id) == \A p \in PathsOf(id) : file[p] \in {journal[id].before[p], id[1]}
Unclaimed(id) == Ours(id) /\ Kept(id)
\* A branch that is moved already still leaves every path to be written again.
OnwardNamed(id) == IF branch = journal[id].base THEN "naming" ELSE "marking"
Onward(id) == IF branch = journal[id].base THEN "naming" ELSE "writing"

Check ==
  /\ At("checking")
  /\ IF Unclaimed(Target)
     THEN /\ run' = [run EXCEPT !.todo = PathsOf(Target), !.at = Onward(Target)]
          /\ UNCHANGED op
     ELSE Raise("UNKNOWN", "reconciliation")
  /\ ByCommand /\ UNCHANGED <<repo, work, journal, failures>>

\* git update-ref <ref> <commit> <base>
ExpectedAny(id) == TRUE
Expected(id) == branch = journal[id].base

Name ==
  /\ At("naming")
  /\ IF Expected(Target)
     THEN branch' = Revision(Target) /\ Goto("writing") /\ UNCHANGED op
     ELSE Raise("fault", "environment") /\ UNCHANGED branch
  /\ ByCommand /\ UNCHANGED <<file, index, work, journal, failures>>

Write(p) ==
  /\ At("writing") /\ p \in run.todo
  /\ file' = [file EXCEPT ![p] = Target[1]]
  /\ run' = [run EXCEPT !.todo = @ \ {p}]
  /\ ByCommand /\ UNCHANGED <<branch, index, work, op, journal, failures>>

\* git reset <commit> -- <paths>
ResetIndex ==
  /\ At("writing") /\ run.todo = {}
  /\ index' = [p \in Paths |-> IF p \in PathsOf(Target) THEN Target[1] ELSE index[p]]
  /\ Goto("marking")
  /\ ByCommand /\ UNCHANGED <<branch, file, work, op, journal, failures>>

Mark ==
  /\ At("marking")
  /\ journal' = [journal EXCEPT ![Target].state = "materialized"]
  /\ Goto("settling")
  /\ ByCommand /\ UNCHANGED <<repo, work, op, failures>>

Settle ==
  /\ At("settling")
  /\ op' = [op EXCEPT ![Target] = "CONFIRMED"]
  /\ Goto(IF run.within = "drive" THEN "complete" ELSE "owner")
  /\ ByCommand /\ UNCHANGED <<repo, work, journal, failures>>

\* resume frees the owner of a finished delivery. A cancelled owner that was
\* blocked before makes the transition, and so the command, fail.
Owner ==
  LET w == Target[1] IN
  /\ At("owner")
  /\ IF work[w].failure # "reconciliation"
     THEN Goto("resume") /\ UNCHANGED work
     ELSE IF work[w].status = "BLOCKED"
     THEN /\ work' = Freed(w)
          /\ Goto("resume")
     ELSE run' = Idle /\ UNCHANGED work
  /\ ByCommand /\ UNCHANGED <<repo, op, journal, failures>>

Complete ==
  /\ At("complete")
  /\ work' = [work EXCEPT ![run.work].status = "COMPLETED"]
  /\ run' = Idle
  /\ ByCommand /\ UNCHANGED <<repo, op, journal, failures>>

-----------------------------------------------------------------------------
\* Failures of the environment.

Failing == failures < MaxFailures /\ failures' = failures + 1 /\ ByCommand

Crash ==
  /\ ~At("idle") /\ Failing
  /\ run' = Idle
  /\ UNCHANGED <<repo, work, op, journal>>

InEffect == run.at \in {"deliver", "journal", "checking", "naming", "writing", "marking"}

\* Ctrl-C: effect settles the operation as UNKNOWN and the process ends.
Interrupt ==
  /\ InEffect /\ run.within = "drive" /\ Failing
  /\ op' = [op EXCEPT ![Target] = "UNKNOWN"]
  /\ run' = Idle
  /\ UNCHANGED <<repo, work, journal>>

\* A git command fails: the index or the reference is locked by another git.
GitFails ==
  /\ run.at \in Locked /\ (At("writing") => run.todo = {})   \* git reset follows the files
  /\ Failing /\ Raise("fault", "environment")
  /\ UNCHANGED <<repo, work, journal>>

\* A file cannot be written: no ControlError, so the outcome is unknown.
WriteFails ==
  /\ At("writing") /\ run.todo # {} /\ Failing
  /\ Raise("UNKNOWN", "engine")
  /\ UNCHANGED <<repo, work, journal>>

-----------------------------------------------------------------------------
ByTheUser ==
  CommitAll \/ \E p \in Paths : Edit(p) \/ Restore(p) \/ Stage(p)

Operator ==
  \/ \E w \in Works : Admit(w) \/ Resume(w) \/ Answer(w) \/ Cancel(w)
  \/ \E id \in OpIds : Reconcile(id)

Program ==
  \/ Wake \/ Drive \/ Deliver \/ WriteJournal \/ Check \/ Name \/ ResetIndex \/ Mark
  \/ Settle \/ Owner \/ Block \/ Complete
  \/ \E id \in OpIds : FinishPending(id)
  \/ \E p \in Paths : Write(p)

Failure == Crash \/ Interrupt \/ GitFails \/ WriteFails

Next == ByTheUser \/ Operator \/ Program \/ Failure

Spec == Init /\ [][Next]_vars

\* A live process goes on, and the operator repeats the command and reconciles
\* what is unknown until the work is done.
LiveSpec ==
  /\ Spec /\ WF_vars(Program)
  /\ \A w \in Works : SF_vars(Resume(w))
  /\ \A id \in OpIds : SF_vars(Reconcile(id))

-----------------------------------------------------------------------------
\* The shape of the state: what the repository, the store and the command hold.
TypeOK ==
  /\ branch \in Seq([by : (Works \cup {User}) \X Nat, tree : [Paths -> Contents]])
  /\ file \in [Paths -> Contents] /\ index \in [Paths -> Contents]
  /\ op \in [OpIds -> OpStates]
  /\ \A id \in OpIds : journal[id].state \in {"none", "written", "materialized"}
  /\ \A w \in Works :
       /\ work[w].status \in {"none", "READY", "RUNNING", "BLOCKED", "COMPLETED", "CANCELLED"}
       /\ work[w].failure \in {"none", "engine"} \cup {Category[s] : s \in DOMAIN Category}
       /\ work[w].dirty \subseteq Paths
  /\ run.todo \subseteq Paths
  /\ calm \in BOOLEAN /\ raced \in BOOLEAN /\ acts \in 0 .. MaxActs /\ failures \in 0 .. MaxFailures

\* No step takes a commit away: update-ref names the base it replaces, so a user
\* who commits between the look at the branch and its move keeps his commit.
CommitsKept == [][IsPrefix(branch, branch')]_branch

\* A delivered commit changes the candidate's paths and nothing else: whatever the
\* user has staged stays out of it, because it is built in a private index.
OnlyCandidate ==
  \A i \in 2 .. Len(branch) : branch[i].by[1] \in Works =>
    \A p \in Paths \ Touched[branch[i].by[1]] :
      branch[i].tree[p] = branch[i - 1].tree[p]

\* What the user wrote into a path and has committed nowhere is never overwritten by the
\* program, whether he wrote it before a command, while one runs, or between a crash and
\* the resume that finishes the delivery: until he writes it between a look at the
\* path and the step that rests on this look, where finish_delivery does overwrite it.
Uncommitted(p) == file[p] = User /\ \A i \in DOMAIN branch : branch[i].tree[p] # User
EditsKept ==
  [][~raced /\ acts' = acts => \A p \in Paths : Uncommitted(p) => file'[p] = User]_file

\* An operation is confirmed by finish_delivery only once the commit is on the
\* branch and every path of it is in the working tree and in the index, however
\* often the delivery was cut off and taken up.
WholeDelivery ==
  [][\A id \in OpIds :
       op[id] # "CONFIRMED" /\ op'[id] = "CONFIRMED" /\ calm =>
         /\ Landed(id)
         /\ At("settling") =>
              \A p \in PathsOf(id) : file[p] = id[1] /\ index[p] = id[1]]_op

\* The program implements the delivery it promises: a work lands at most once and
\* directly on the commit it was admitted on, and it is completed only when its
\* commit is there.
Atomic == INSTANCE AtomicDelivery WITH
  authors <- [i \in DOMAIN branch |-> branch[i].by[1]],
  admitted <- [w \in Works |-> Len(work[w].source)],
  reported <- {w \in Works : work[w].status = "COMPLETED"}
AtomicSpec == Atomic!Spec

\* A work the user does not disturb is delivered in the end: whatever was cut off,
\* resume and reconcile-call lead to its completion. A conflict that deliver() has
\* found once stays: its operation is replayed after the user has cleaned up.
Disturbed(w) ==
  \/ \E k \in Attempts : op[<<w, k>>] = "conflict"
  \/ \E i \in DOMAIN branch : i > Len(work[w].source) /\ branch[i].by[1] # w
  \/ work[w].dirty # {}
  \/ \E p \in Touched[w] : User \in {file[p], index[p]}
EventuallyDelivered ==
  \A w \in Works : work[w].status = "READY" ~>
    work[w].status \in {"COMPLETED", "CANCELLED"} \/ Disturbed(w)

\* README.md, "Unknown external results require reconciliation before any resend":
\* a delivery is attempted again only when no earlier attempt is on the branch.
ResentUnlanded ==
  [][\A w \in Works, k \in Attempts :
       op[<<w, k>>] = "absent" /\ op'[<<w, k>>] = "DISPATCHED" => ~ByWork(branch, w)]_op
===============================================================================
