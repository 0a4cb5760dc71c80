# A TLA+ model of the auto_agents business controller

auto_agents drives a coding model through a fixed flow (requirements, prototype,
design, plan, implementation, verification, review, delivery) over a Git
repository that a user goes on working in. All business state is in one SQLite
database; the controller may be killed at any moment and is started again by the
next command. This directory holds TLA+ models of that controller, the TLC
configurations that check them and TLAPS proofs of the safety properties these runs
check, for every value of the constants.

Paths below are relative to `src/auto_agents/` unless they say otherwise; line
references are those of `PROJECT.json`.

## 1. Inventory

| Part | State | Operations | Interacts with |
|---|---|---|---|
| **Control store** `control/store.py`, `types.py` | workflows, work_items (status, phase, contract, context, calls, revision), operations (state, consumed), receipts, metadata | create_workflow, child, batch, addon, transition, bind_contract, reserve, settle, consume, orphan_calls; each one `BEGIN IMMEDIATE` transaction | every other part; threads of one command share it |
| **Engine, work tree** `control/engine.py` (start, resume, drive, spawn, join) | rows of the tree; frames of `drive` in the process | resume wakes nodes, drive recurses into children, joins their candidates, marks tasks | store; child frames in a thread pool |
| **Engine, stage machine** `engine.py` (step, model, effect), `quality.py`, `progress.py`, `effects.py` | phase, context (approvals, proofs, counters), unconsumed operations, the owned checkout | model calls, verification, artifact checks, gates, repair, fallback, retry of a reply | store; provider; verifier; operator commands in `cli.py` |
| **Workspaces and delivery** `control/workspace.py` | private checkouts and refs, delivery journals; the user's branch, index and files | snapshot, candidate, adopt, deliver, finish_delivery | the user's repository, shared with the user |
| **Operator commands** `control/cli.py` | the project lock | run/fix/collab, resume, answer, approve, reject, cancel, reconcile-call | engine, store |
| **Release checks** `control/release.py` | release_only work items | enqueue, verify, worker, attest | store, engine, project lock; the user's branch and files |
| **Worktrees and cleanup** `control/workspace.py` (ensure), `control/cleanup.py` | one worktree and a scratch directory per operation, the archive of objects with its references, the artifacts table | ensure, candidate, adopt, register, release, collect, collect_git | every thread after every step; the end of every command |
| **Run lock, process supervision** `run_lock.py`, `process_supervision.py` | lock file with its owner, control file, registry of process groups | acquire, release, register, unregister, terminate, stop | every command; `stop` from outside; the waiting release worker |
| **Supervisor** `src/supervisor/src/auto_agents_watch` | one maintenance job per business root, in its own database: state, cancel request, open model call, fault, candidate, best result so far | start, resume, retry, cancel, reconcile-call; repair, verify, review, deliver | takes the run lock, hands its descriptor to the business process it starts; changes the engine when that reports an engine fault |
| **Verification plan** `gates.py` | in one process: commands waiting, running, collected; one cancel event | hand out (serial lane, groups in order, exclusive commands), collect, stop after a failure | its executor; threads |
| **Distributed gates, worker service** `distributed_gates.py`, `workers.py` | loads of the endpoints, the endpoint of the serial lane; on the worker a record per job and the process group it names | acquire an endpoint, submit, poll, cancel, retry, repair | behind the plan; requests over a connection that fails |
| **Slots of a worker** `workers.py` (WorkerSlotLease) | tickets, slot locks, `scheduler.json` | ask, take a turn, free, withdraw | processes of several projects |
| **Result cache, verification ledger** `gate_result_cache.py`, `verification_ledger.py`, `gate_execution.py` | certificates, revocations, one lock per proof | single flight, lookup, run, record, audit | the tree the user edits |
| everything else | none that outlives a call | validation, prompts, adapters, reporting | |

`PROJECT.json` lists all components with their status and the reason for what is
left out.

What is hard here:

* *Stale copies.* The engine reads a row, works for minutes, and writes the row
  back. Threads of one run and the operator's commands do the same.
* *Crashes between transactions.* Many handlers are two to four transactions
  (delegation, repair, reconcile-call, delivery). What the next command makes of
  each half-way state is in the code of resume, not in a test.
* *Unknown outcomes.* A model call or a delivery that was cut off may have
  happened. It must not be sent again before somebody said what became of it.
* *A repository with two writers.* Delivery checks and then writes while the user
  edits, stages and commits.
* *Proofs that age.* A verification, a review or an artifact check is about the
  source of a moment; later phases may write again.
* *Loops.* drive goes round over retries, repairs, corrections, finalizations; the
  supervisor over repair, verification and review.
* *Shared machines.* Commands of several projects compete for the slots of a worker;
  a request to it, its reply or its service is lost while the job it started runs on.
* *A lock with two holders.* The business process inherits the supervisor's lock and
  may outlive it.

What makes each part correct, and the hazard behind it, is the list `hazards` in
`PROJECT.json`.

## 2. Modules

```
OperationLedger  <-- implemented by -- ControlStore <-- ControlStoreProofs (TLAPS)
AtomicDelivery   <-- implemented by -- Delivery <-- DeliveryProofs (TLAPS)
WorkTree         one effect per node's own work  <-- WorkTreeProofs (TLAPS)
Stages           the inside of that effect, for one root item  <-- StagesProofs (TLAPS)
ReleaseQueue     what follows a delivery: the checks of a revision, and attest
                 <-- ReleaseProofs (TLAPS)
Workspaces       worktrees, scratch, references and objects, and their collection
                 <-- WorkspacesProofs (TLAPS)
RunLock          which process may work at all
Supervisor       the process outside that starts and repairs
                 RunLock and Supervisor <-- RunLockProofs (TLAPS)
GatePlan         the scheduler of a verification plan
  GateDispatch   extends it: its executor on this machine and on workers
ProofCache       which earlier passes may stand for a new one
                 GateDispatch and ProofCache <-- GateProofs (TLAPS)
WorkerSlots      the queue for the slots of one worker
MC<module>       instances for TLC
```

`GateDispatch` composes with `GatePlan`: a command of the plan that is distributed is
carried out by its steps instead of the one step `Return`. The other modules meet
only through what they assume of each other (section 4). Four MC modules therefore
hold two or three modules and let a behaviour be about one of them (`part`): `MCRelease`
(Delivery, ReleaseQueue, Workspaces), `MCWorkers` (WorkTree, WorkerSlots), `MCRunLock` (RunLock,
Supervisor), `MCGates` (GateDispatch, ProofCache). This saves a start of TLC and says
nothing about an interaction.

**OperationLedger** is what the operations table promises: an identity (work,
kind, ordinal) is registered before the call, its outcome is decided once, a new
ordinal is opened only when all earlier ones were decided and consumed.

**ControlStore** has one action per transaction of `store.py`. `Clients` are the
frames and commands that use it; `copy[c]` is the row a client read last, and a
write is accepted only if `Fresh(c)`, the revision check of `_transition`.
`Acquire("execution")` runs orphan_calls, `Acquire("command")` (answer, approve,
reconcile-call) does not; `Leave` is exit or crash. A contract is its bound
checks; the context is the set of clients whose additions it holds, which is what
a lost update would lose. Which phase follows which is left open: the store does
not look at it.

**WorkTree** is resume, drive and delegation over a tree of rows. `frame[n]` is the
program counter of `drive(n)`; a parent in `kids` waits for its children's frames,
which interleave. Every step between two transactions is an action, so `Crash`
falls anywhere. A node's own work is one effect with one result (confirmed,
failed, refused, unknown).

**Stages** is that work: the phases of `step` for a run, fix or collab item, with
`Register`/`Answered`/`CallFails` for a model call, `RegisterLocal`/`CheckPasses`/
`CheckFails` for a check, and `Retained`/`RetainedLocal` for the replay of an
operation after a crash. The source is not modelled; what is modelled is whether
each proof and each operation still describes it: `proof[k]` is `current` until a
worker writes, then `stale`, and `fresh`/`sealed` say the same of an answer.
The handlers of drive (fallback, repair, retry, block) follow in the code's order. The
last look before a delivery, which refuses an item with a proof missing
(`engine.py:1507`), is `Missing`.

**AtomicDelivery** is the promise to the owner of the repository: a work lands at
most once, directly on the commit it was admitted on, and is reported only when it
is there. **Delivery** is `deliver`, `finish_delivery`, effect and resume against a
user who edits, stages, restores and commits, with one action per git command or
file write and a crash, Ctrl-C, failing git command or failing write between any
two. The branch is a sequence of commits, each a tree of paths.

**RunLock** is `ProjectRunLock`, the registry of process groups with its control
file, and `stop_project_run`. `flock` is the kernel's lock, which `Crash` frees;
`owner` and `control` are the two files, which nothing frees. A run acquires in the
code's order (lock, look for leftovers, empty the lock file, name itself in it, write an
empty control file),
spawns groups and registers them in two steps, is in charge of them (`watched`)
until they end or cannot be killed, and deletes the file only if its registry is
empty. `life` tells a group's leader from the rest of the group, because the code
recognises a leftover by its leader. A stop reads the owner, probes the lock, lists
the groups, signals, waits, kills and deletes, a step each; while it waits it looks at the
lock and at the groups one after the other.

**Supervisor** is one job of a business root. `job` is its row, `watch[w]` the
program counter of the command process `w` with what it remembers, `child[w]` the
process it started, `holders` who holds the project's run lock: a watcher, and the
business that inherited the descriptor (`pass_fds`). A command reads the row, decides
(`Proceeds`, `First`), and only then takes the lock. `Business`, `SpawnBusiness`,
`RecordProcess`, `Kills`, `Collect`, `Decide` are one run of the business;
`Maintain` to `Deliver` the repair of an engine fault, with a model call as
`Reserve`, `Dispatch`, `Settle`. `Judge` is `progress()`: only a result that contains
the best one so far, and more, resets the count. `Dies` takes a watcher between any
two steps; its child lives on.

**GatePlan** is `_run_overlapped_gate_plan`: `DispatchSerial`, `DispatchGroup` (head
group, then backfill from a later one), `Settle`, `Collect`, beside the threads, which
end with an outcome. `cancelled` is the one event all share. **GateDispatch** is the
executor: `Acquire` picks the least loaded endpoint that may run the command, `Submit`
and `Poll` speak to the worker, `Handled` decides what an attempt came to and whether
another follows (plain retry, a retry because the output blames the infrastructure,
a repair). A job on the worker is a record with a thread and a process group;
`worker_cancel` works on the copy it read (`Cancel`, `CancelKill`, `CancelWrite`).
`SubmitLost`, `PollFails` and `Restart` are the faults.

**WorkerSlots** is the queue before a worker: tickets in the order they came, one step
of priority a minute, the project served longest ago first, ready work ahead of what
does not fit until that has waited a minute (`Drains`).

**ProofCache** follows one command over trees that an editing user changes.
A certificate is of a tree and a context; a lookup accepts one of the same tree, or
one whose observed inputs are complete and equal now. `Executors` run on a snapshot,
the other askers through the ledger on the live tree, which compares it afterwards.

**ReleaseQueue** captures a revision or the present files into an item that only
verifies (`ReadHead`, `CopyFiles`, then `CreateProof`, `PointProof`, `ReadyProof`, a
transaction each), drives it from a command, a worker or a resume, and says what
`attest` accepts. The user edits and commits in between.

**Workspaces** is a root and its children, and all they own. `commits` is the archive,
each commit with its past, which is fixed when it is made (`Add`) and is all there or not
(`Present`);
`refs` its references, `head` and `dirs` the worktrees and directories on disk, `rows`
the artifacts table. A worktree is added, recorded and registered in three steps, a
candidate is a commit, a reference and a row, a join takes the children's results from
the archive. Every thread collects between its steps (`MarkRow`, `RemoveRow`), a cancel
too, and the end of a command drops references and prunes what nothing reaches
(`DropRefs`, `Gc`), also when the command is for a root that has ended. A command dies
anywhere.

## 3. Runs

| Run | Instance | What it shows |
|---|---|---|
| `store_stale` | one item, two clients, two kinds, two attempts | stale copies lose no update, keep the bound checks and terminal states; the ledger, which never opens two attempts, is implemented |
| `store_workflow` | root and child or two workflows, limit 1 | budgets of a node and of its workflow; an item, root or child, completes only when none of its own operations is open, and gets none afterwards |
| `tree` | run with two tasks (in sequence or as a batch) or collab, two children; three commands of two projects before two slots | each task delegated once, parents after children, legal moves only, every command ends; nobody waits for a slot for ever |
| `delivery` | two works sharing one path, two user acts, one failure; two release items over three commits, one edit, one crash; a root with two parallel children, two commits, one operation each, one removal, one death | no commit and no uncommitted edit is lost (but for one made between a look and its write), staged content stays out, `AtomicDelivery` is implemented; what attest accepts has passed, and is the revision if it was captured clean; nothing still needed is collected |
| `delivery_live` | one work with two paths, two failures (git fails at any step but the reset after the branch has moved, which is finding 3) | confirmed means complete in branch, files and index; an undisturbed work is delivered in the end |
| `stages` | six contracts (three modes, three kinds of outputs, automatic or not), one failure | what is delivered was verified and reviewed as it is, prototypes are approved by a human, repairs are bounded, every command ends |
| `run_lock` | a run and a waiting release worker, two groups, one stop; two watchers, two checks, one cancel, one death | no run beside a leftover it could see, a stop reports what is so, the waiting worker is served; one business at a time, and every supervised job comes to rest |
| `gates` | a plan of five commands in three lanes on this machine; two plans on this machine and a worker, one lost request or restart; two processes that verify three trees | what runs together fits, a plan that fails without a retry names a cause, nothing is started beside a job known to be unfinished, a lane that has passed stays, a replayed pass has passed, every plan ends |
| `tree_duplicate`, `tree_unnamed`, `delivery_resent`, `stages_seal` | | the findings of section 6 |

Bounds and why they are enough. Two clients are the least that can disagree about
a row, and the store treats them alike (symmetry). Two attempts let a retry meet
the attempt it replaces. Two children are the least that can collide on a task,
and a crash may fall at any of the steps, any number of times (WorkTree does not
count crashes). In Delivery two paths give a half-written working tree and one
path shared by two works gives a conflict; the user acts twice, so that he can
stage and commit, or act before and during a command. In Stages the call limit is
as large as the longest way to delivery plus the retries, one failure falls
anywhere, and `MaxScore = 0` leaves two values of progress (no executed check, and
some), which with a limit of 2 makes the counter of repairs matter. A second
failure multiplies the states beyond five minutes without another kind of step.
In WorkerSlots the clock stops when the oldest ticket is three minutes old (`MaxAge`),
which is past both thresholds (draining after one, an urgency overtaken after one);
since `Minute` is then disabled, no property rests on time passing for ever. In the
Supervisor `MaxSeq = 1` milestone tells a job that advanced from one that did not,
two checks let results be incomparable, and one death falls at any step. In
GateDispatch one fault (`MaxFaults`) is one lost request, lost reply or restart; two
jobs per command (`MaxJobs`) are the attempt and its repetition, and two endpoints the
least between which a lane can move. In ProofCache two of three trees look alike to
the command and one does not. In ReleaseQueue two items let one be left behind by the
other, `MaxCommits = 3` a delivery with a commit on either side of it. In
Workspaces two children are the least whose threads collect beside each other, one
removal (`MaxRemovals`) is one resource taken while the other thread makes its own, two
commits (`MaxObjects`) are the source and one candidate built on it, and an operation
per item (`MaxCalls`) is left open by the one death and outlives a cancel.
In RunLock two runs are the least that can overlap, one that gives up and one that
waits; two groups let one be killed and one be left; one stop meets every step of
both, and the proofs cover any number of each.

Fairness. WorkTree: each frame of a live process goes on (threads are scheduled),
effects end because calls and checks have timeouts; `Crash` has no fairness.
Stages: `WF(Program)`, a live process takes its next step; what the worker writes
and what the operator does is not fair. Delivery: the program is weakly fair;
for `EventuallyDelivered` alone the operator is assumed to repeat the command and
to reconcile what is unknown, which is what the CLI tells him to do. RunLock: a
live run goes on, because its commands end or are killed by their timeout; that a
group ends, that a stop is given or goes on, and that a run starts a further group
are not fair. Supervisor: a watcher that lives goes on, and what it started ends, by
its own limits, by the watcher's or by a timeout; commands, cancel and death are not
fair. Gates: the scheduler and the threads run, a local command returns by its
timeout, a poll has its deadline, a job ends by its own; faults are not fair, and
neither is `JobStarts`. WorkerSlots: a ticket polls every 0.2 s (weakly fair: a turn
that stays its own is taken), a command that holds slots has a timeout, and minutes
pass. ReleaseQueue has no liveness property and no fairness.

Deadlock is checked where the system is meant to have a next command at all times;
in Stages a completed or cancelled item rightly has none, nor in RunLock a project
whose runs have ended, nor a gate plan that has.

## 4. Abstractions a reader should know

* Delivery: `finish_delivery` looks at the paths and then writes them, and before that
  `deliver` looks for dirty paths and then notes their contents; an edit between such a
  look and the step that rests on it is overwritten, and nothing in the code prevents it.
  `EditsKept` ends with such an edit (`raced`). All others are covered: edits between
  commands, between a crash and the resume, and at every other moment of a delivery.
  `WholeDelivery` speaks of deliveries during which the user leaves the repository alone
  (`calm`).
  A work that was cancelled with an unknown delivery is still delivered by the next
  resume (`Owner`); the branch remains lawful, and the command then fails.
* Stages: the operator is truthful in reconcile-call. Outputs of class `own` exist
  before the verification. A worker that must not write does not (kernel
  confinement); a check or a worker with write access may write anything.
  `tests_failed`, `environment` and the rest stand for the error codes with the
  same handler.
* Workspaces: a commit is a number and the set of commits below it; conflicts of a join, scopes
  and protected paths are left out (they stop the item). What is selected by a
  collection is selected row by row: a row that is RELEASED stays so until it is
  deleted. `LIVE` scratch of an operation that ended is selected like in the code once
  any operation of its item has. An interrupted candidate is made again before the
  item delegates, because its phase is repeated (`Spawn`). Nobody but the collection
  deletes; docker resources are left out.
* WorkTree: no task dependencies, no `--max-tasks`, no cancel.
* Delivery, WorkTree, Stages, ReleaseQueue and Workspaces take from RunLock that one command at a
  time works.
* RunLock: `NoOverlap` is about what the code can see. It excludes a group spawned
  and not yet registered when its run dies, and members of a group whose leader has
  ended: no file leads to either. It also ends with `raced`: stop deletes the control
  file some time after it found the lock free, and a run that configured in between
  loses its file until its registry changes again. A stop's own momentary hold of
  the lock, while it probes, may refuse a command and is left out. The lock inherited
  from the supervisor is in Supervisor, where both are holders of one lock.
* Supervisor: one job, without successor jobs, retired inputs and steps of an
  external git_delivery. A reservation may be refused at any time, which stands for
  the limits on calls and on duration, and ends a repair, or the publication before the
  business goes on (`GivesUp`); a fault without resume token and the retry of a
  publication are left out. A start that finds a repair refused before it had a
  candidate may take it up or go to the business (`Unprepared`); the code asks whether
  the reason was a dirty engine, and the model keeps no reasons. resume reads the row
  before it has the lock: a job that another watcher finished in between is run again,
  which `OneBusiness` does not forbid.
* ReleaseQueue: `exact` marks an item whose source was captured over a clean tree. Of
  the others `AttestedSound` says only that what was captured has passed: the checks ran
  over uncommitted changes, attest (`release.py:241`) compares the head only, and so the
  revision it accepts need not be what passed. A crash between the three
  transactions of an item leaves it in its first phase, where driving it calls a
  provider; one between the completion and the enqueueing leaves no item at all. A
  worker stops at the first item that blocks, and does not mark interrupted checks,
  so that such an item blocks. Which checks are affected, verification of artifacts
  and the modes without deferred checks are left out.
* GatePlan: `fatal` is the command whose refusal the plan raises, the first one collected;
  of refusals collected together either may be it. `CauseKept` claims that a refusal or a
  cause is there, not which, and only of plans without a retried command. Groups may
  overlap: no property is about their order.
* GateDispatch: `OneLiveJob` is about jobs the plan knows the worker accepted and the
  worker has not ended. When the reply to a submission is lost the command is submitted
  again, perhaps beside the first; a repair asks nobody either. A job may end, with any
  result, and leave processes that could not be killed (`cleanup_incomplete`,
  `process_supervision.py:471`, `workers.py:1898`); the controller does not look at this when it
  retries (`distributed_gates.py:1065`), so that the next attempt runs beside them
  (`JobEnds`, `Handled`). `LaneStays` counts what
  passed in the lane itself: a command of the lane that passed only in a retry on
  another worker is not recorded (`distributed_gates.py:1195`), and the rest of the lane
  does not follow it there.
  `worker_cancel` may overwrite a terminal record with its older copy
  (`workers.py:1959`); the result is then an error of the infrastructure.
  Within a worker a job's slots are a sum; which slot numbers it takes, WorkerSlots
  shows. A repair is an endpoint on which it succeeded.
* WorkerSlots: the memory guard is off. Taking the slots and removing the ticket is one
  step, and so is a death and the removal of the dead ticket.
* ProofCache: certificates of one command; what it reads on a tree is a function of the
  tree (`Reads`), unless it uses the network. An edit that is undone before the ledger
  compares is invisible to it (`slipped`). A lookup compares inputs with the project as
  it is, also for a plan that verifies an older snapshot.

## 5. Proofs

`ControlStoreProofs` proves, for every set of works, kinds, clients, phases and
every limit that satisfies `StoreAssumption` and `LedgerAssumption`:

| Theorem | Says |
|---|---|
| `TypeCorrect` | the tables keep their shape |
| `TableCorrect` | the inductive invariant `TableInv` |
| `AuthorityTheorem` | bound checks never change, terminal items never reopen, parent and root are fixed |
| `LostUpdateTheorem` | no write from a copy erases another client's addition |
| `CompletedTheorem` | a completed item has no open operation of its own, ever after |
| `ImplementsLedger` | `Spec => LedgerSpec` |
| `LedgerOneOpen`, `OneOpenTheorem` | at most one open attempt of a kind, in the ledger and hence in the store |
| `BudgetTheorem` | the counters equal the model calls registered, and stay within both limits |

The argument. None of these is inductive alone. `AuthorityKept` and `NoLostUpdate`
compare a row with a copy, so they need `CopyCoherent`: a copy with the row's
revision *is* the row, and no copy is newer than its row. `AbsentBlank` says that a
row that was never inserted is blank, so insertion starts at revision 0.
`TableInv == TypeOK /\ CopyCoherent /\ AbsentBlank` is inductive; the two action
properties follow from it, one step per action. `CompletedSettled` needs besides
that only a running row registers operations and only a settled one completes.
Refinement needs `DecidedConsumed` (consumed implies decided); that the ledger has
one open attempt is then proved of the ledger and inherited. `BudgetInv` adds that
operations belong to existing rows and that the sets counted are finite, because
an insertion must not change which calls a workflow has.

`RunLockProofs` proves, for every set of runs, groups and stops with
`RunLockAssumption`:

| Theorem | Says |
|---|---|
| `TypeTheorem` | files, processes and copies keep their shape |
| `OverlapTheorem` | `NoOverlap`: no run works beside a registered leftover |
| `StopTheorem` | `StopReports`: what a stop reports is so |

`NoOverlap` says nothing of the moment a run has checked and not yet begun, when it
would have to hold of the run to come. `LockInv` adds that: the holder of the lock is
the run inside it (`Mutex`), registries name only groups of their own run
(`OwnGroups`), and while no stop has raced the control file is what the working run
wrote, names every registered group whose leader lives, and is empty of such groups
once a run is past its check (`FileNames`). For `StopReports`, `StopInv` says that a
run named in the lock file is past the naming, from where it can only end: when the
lock is found free, the owner that was read is over for good.

The second half of `RunLockProofs` proves, for every set of watchers and checks and
every limit with `SupervisorAssumption`:

| Theorem | Says |
|---|---|
| `WatchTypeTheorem` | the row and the watchers keep their shape |
| `OneBusinessTheorem` | `OneBusiness` |

`OneBusiness` looks at processes that live; a step that starts one is lawful only
because of who holds the lock. `IInv` adds `Inside` (a watcher past `TakeLock` and not
yet at its end is a holder), `Inherited` (a business that lives holds the lock, whether
or not its watcher does), `OneOwner` (all holders are of one watcher) and `Counted`
(the count of tries is below the limit where it will be raised), which the type needs.
Without the inheritance (`Inherits`) the death of a watcher frees the lock under a
living business, and the next watcher starts a second one.

`DeliveryProofs` proves, for every set of works and paths, every number of attempts, of
acts of the user and of failures, with `DeliveryAssumption`:

| Theorem | Says |
|---|---|
| `TypeCorrect` | repository, rows, journals and the command keep their shape |
| `DeliversOnlyCandidate` | `OnlyCandidate`: a delivered commit changes the candidate's paths alone |
| `KeepsCommits` | `CommitsKept`: no step takes a commit off the branch |
| `KeepsEdits` | `EditsKept`: no step overwrites what the user committed nowhere, until he edits a path between a look at it and what rests on that look |
| `DeliversWhole` | `WholeDelivery`: confirmed means on the branch, in the files and in the index |
| `ImplementsAtomic` | `Spec => AtomicSpec` |

The code never looks whether a work is on the branch already: that it lands once
follows from what it wrote before. `Ordinals` says that an attempt is registered only
when every earlier one was given up (so one attempt of a work is ever open), `Landings`
that the base of a journal is the commit its work was admitted on, and that what the
program believes to be on the branch is there, whether it believes it in a row, in an
operation or at a place of a command. A second landing would have to replace the base
by the work itself, which is a descendant of it. `Control` says what a command holds at
each place, and `Edits` what the user's edits that exist nowhere else cannot be: covered by what
a journal remembers, or by what is still to be written. That holds at every step until he
has edited a path nobody watches (`Watched`, under `~raced`); that the files are as the
command left them, which `WholeDelivery` needs, only while he is `calm` (`Quiet`).

`ReleaseProofs` proves, for every set of trees and every bound, with
`ReleaseAssumption`:

| Theorem | Says |
|---|---|
| `ReleaseInvariant`, `ReleaseTypeCorrect` | the inductive invariant; the tables keep their shape |
| `AttestsOnlySound` | `AttestedSound`: what attest accepts has passed the full checks; captured over a clean tree, it is the tree of the revision |

The source passes from the user's files to a command, from it to an item, and from
there to the verdict, and the branch moves in between. `CommandCaptured` and
`ProofsCaptured` say that a source captured over a clean tree is still the tree of the
revision it was read at, `ProofsChecked`, `RecordPassed` and `ForcedSound` that only what
passed counts, and `CommandEquipped` that a command has the items it works on.

`WorkspacesProofs` proves, for every family of items and every number of commits,
operations, removals and deaths, with `WorkspacesAssumption`:

| Theorem | Says |
|---|---|
| `ResourceInvariant`, `ResourceTypeCorrect` | the inductive invariant; rows, references, directories and the archive keep their shape |
| `NeededIsNotCollected` | `NothingNeededCollected`: no collection takes a commit, worktree or scratch directory that is still needed |

What keeps a commit alive changes hands: at first the reference of a snapshot, then the
worktree that descends from it, at last the reference of the candidate, and in between a
thread has committed and not yet pointed the reference, or pointed it and not yet saved
the row. So `Based` says that the worktree of what is needed descends from its source and
its candidate, and `Rowed` and `Carried` who holds them where there is no worktree: the
snapshot for a root, the worktree of the parent for a child that has not started, its
reference for the result of a child until it is joined. Then everything needed is in the
past of a commit in `Reached`, and `Whole` says that such a past is in the archive. That
holds across `Gc` because `DropRefs` keeps the whole family of unfinished work
(`KeptLive`); keeping only the unfinished items themselves would drop the results of
finished children, which is the mutant of this property. For directories the invariant is
about the gap between choosing and removing: `Swept` says that what a thread is removing
stays unneeded while the others go on, since a finished item never works again and an
operation takes a new scratch directory each time, and `Told` that the artifacts table,
from which it chooses, says nothing untrue.

`StagesProofs` proves, for every set of contracts and all limits, with
`StagesAssumption`:

| Theorem | Says |
|---|---|
| `StagesInvariant`, `TypeCorrect` | the inductive invariant; every counter stays within its limit |
| `DeliversVerified` | `DeliveredVerified`: what is delivered has the proofs its contract asks for, of its present source |
| `AsksHuman` | `HumanPrototype`: nothing follows a prototype no human approved |
| `BoundsRepairs` | `RepairsBounded`: each score gives `NoProgressLimit` rounds of repair, over all commands |

`Worth` says for each phase which proofs are current there. It carries
`DeliveredVerified` through finalization, correction and the way round by
`artifact_verify`, and rests on `Placed` (which phases a mode reaches) and `Operating`
(an operation that will be replayed is still of this source, an effect follows its
confirmed call). `Gating` ties a waiting item to the gate it waits at, since it
already stands in the phase behind it. `Bounded` is the measure of the loop of repairs:
`repairs <= (best + 1) * NoProgressLimit + stagnant`; a round either improves the best
score or counts as stagnant. `Standing` and `Resting` say what the process holds.

`GateProofs` proves, for every set of commands, groups, endpoints and trees, with
`GatePlanAssumption`, `GateDispatchAssumption` and `ProofCacheAssumption`:

| Theorem | Says |
|---|---|
| `GateInvariant`, `GateTypeCorrect` | the inductive invariant of plan and executor; their shape |
| `RoomKept` | `RunsTogether`: jobs and slots are never overbooked, one command of the serial lane runs at a time, an exclusive one alone |
| `NamesCause` | `CauseKept`: a plan that does not pass, and retried no command, names a cause that is not its own cancellation |
| `RunsOnce` | `OneLiveJob`: beside a job known to be accepted and not ended by its worker no later attempt runs, but for a repair after a reported failure |
| `StaysInLane` | `LaneStays`: a lane in which a command has passed (in its own pass) stays on its endpoint |
| `CacheInvariant`, `CacheTypeCorrect` | the inductive invariant of the cache; its shape |
| `ReplaysSound` | `ReplaySound`: a replayed pass has passed on the same tree, or would on the tree compared, as long as no edit was undone before a comparison |

`Planned` and `Caused` say what the plan has on record once the event is set or the plan
halts. `OneLiveJob` follows from `Watched`: as long as a known job is not ended, its command's
thread polls it, has ended, is in a repair, or is about to meet the cancellation, so
that none of them submits; `Recorded` says what a terminal record means for the
processes behind it. `CacheInv` says of every certificate what it stands for, and of
every asker what it holds between its look-up, its run and its record.

`WorkTreeProofs` proves, for every set of nodes and tasks and at every depth, with
`TreeAssumption`:

| Theorem | Says |
|---|---|
| `TreeInvariant`, `TypeCorrect` | the inductive invariant; rows and frames keep their shape |
| `MovesLegal` | `LegalMoves`: statuses move as `types.py` TRANSITIONS lists |
| `CountsChildrensWork` | `DoneByChildren`: done is what a completed child did |
| `RootWaitsForAll` | the root steps and completes after all its children, and their tasks differ |
| `FlatChildrenFirst`, `FlatTaskOnce` | `ChildrenFirst` and `TaskOnce` in a tree where only the root has delegated (`Flat`) |
| `CarefulChildrenFirst`, `CarefulTaskOnce` | the same two at every depth, as long as drive steps no node that still waits (`Careful`) |

`ChildrenFirst` and `TaskOnce` do not hold of every tree: `tree_duplicate` (section 6) is a
run below a collab that delegates its task twice. So the theorems say of which
nodes they hold. The root is different because it is not driven by another's frame, and
a command wakes it before anything is driven (`Resuming`). `Called` says that a frame
below the root is called by its parent's, which waits; a row has one parent (`Kin`),
so while a node's own frame steps none of its children's does. `Rests(Root)` and
`RootTasks` then carry what the root waits for over a crash.

For a tree of any depth `Careful` is the condition: no frame is at the head of drive's
loop with a READY or RUNNING row that still waits. It excludes one step, the
one of `tree_duplicate`, which a crash between `Wake` and `Rewait` leads to, or a
reconcile-call that releases a waiting node. `DeepInv` then says of every node what
`TreeInv` says of the root: it waits for each child that is not complete (`Awaits`), the
children it no longer waits for have done different tasks, which it counts
(`TasksApart`), and it steps or is complete only when it waits for none
(`Settles`). So a mend of `engine.py:148` that keeps
drive from such a node is enough for both: no other interleaving or crash breaks them.

With that every safety property the passing runs check is a theorem, the conjunctions of
types in `MCRelease`, `MCRunLock` and `MCGates` part by part (`TypeCorrect`,
`ReleaseTypeCorrect` and `ResourceTypeCorrect`; `TypeTheorem` and `WatchTypeTheorem`;
`GateTypeCorrect` and `CacheTypeCorrect`). Only model-checked are the liveness properties
(`CommandEnds`, `EventuallyDelivered`, `WaiterServed`, `WatchEnds`, `PlanEnds`,
`EveryoneServed`), since fairness and ENABLED are beyond the prover, and the queue of `WorkerSlots`.

## 6. Disagreements found

1. `tree_duplicate` - a run below a collab that is READY while its child is
   unfinished is stepped by resume and delegates the task again (`engine.py:148`).
2. `tree_unnamed` - a crash between inserting a child and naming its task leaves a
   child that can never be joined (`engine.py:1041`).
3. `delivery_resent` - when `git reset` fails after the branch moved, the delivery is
   settled FAILED and sent again, against its own commit (`workspace.py:633`).
4. `stages_seal` - verify and artifact_verify seal different sets of files, so an
   untouched checkout can be refused as changed (`engine.py:1334`).

Each is a run that TLC must find violated, and quotes the line it contradicts.

Five more were met and have no run of their own, because the models reach the states
and their properties step around them:

* A watcher that created a job and is then refused by the lock writes STOPPED into the
  row, although another watcher may have taken up the job by then
  (`src/supervisor/src/auto_agents_watch/runner.py:183`, action `TakeLock`);
  `src/docs/repair-supervisor.md` says a refused duplicate preserves the owner's job.
* A release item is described as a verification node without background model work
  (`control/release.py:35`); a crash between its three transactions leaves it in the
  first phase of a run, whose effect is a model call (`CommandDies` at `point`).
* A command that dies after `worktree add` and before it has recorded the directory
  (`control/workspace.py:253`, between `AddTree` and `RecordTree`) leaves a worktree
  that every later `ensure` refuses as replaced, and the item cannot go on.
* A command that dies after an item is COMPLETED and before its resources are released
  (`control/engine.py:463`, between `CompleteItem` and `Frees`) leaves them LIVE: no
  later command repeats the release, and the worktree is never collected.
* A job that ends with an infrastructure error while processes of it could not be killed
  (`workers.py:1898`) is retried on another worker or here beside them
  (`distributed_gates.py:1065`, actions `JobEnds` and `Handled`): `cleanup_incomplete` is
  recorded and not asked for.

## 7. Plan

Done: store, ledger, tree, stages, delivery, release checks, run lock, supervisor,
verification plans, distributed gates, slots, result cache, owned resources; the
theorems of section 5.

Next, in this order:

1. `Stages`: a blocked item can always be freed (resume, reconcile-call, cancel);
   outputs in collab items and the replay of an acceptance.
2. `RunLock`: whether what is left of a group is found again on a later resume
   (`adapters/base.py:323`).
3. `Workspaces`: what is no longer needed goes in the end, which needs the two
   deaths of section 6 excluded; retained snapshots of a migration.
4. `ReleaseQueue` driving the slots of a worker, so that a check waits, is withdrawn
   and is retried inside one item.

Proofs next: that the slots of a worker are never overbooked (`WorkerSlots` is only checked for liveness); that the bounds of the models do
not matter, by dropping the ones no proof needs.

### Not modelled, and why

* Requirements, validation, configuration, prompts, arguments, domain checks, artifact
  store, projection, reporting: functions of their input without state of their own.
  Their verdicts are the nondeterministic replies of Stages; a model of them would
  repeat the text of the program.
* `sessions.py`, session verification, execution binding, recovery, infrastructure
  repair: flows of an earlier controller. The business kernel in `control/` reaches
  only data types of theirs.
* Confinement: properties of the kernel (Landlock, namespaces), which Stages assumes.
* Provider adapters and git wrappers: external processes. A call is one operation with
  an arbitrary reply, failure or unknown outcome; of git, what a delivery uses is
  modelled.
* Migration and persistence actions: sequential translations of data.
