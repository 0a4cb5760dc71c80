---------------------------- MODULE DeliveryProofs -----------------------------
\* What Delivery keeps for every set of works and paths, every number of attempts,
\* and every number of acts of the user and of failures: whose commits are on the
\* branch, what becomes of the user's files, and that the program implements the
\* delivery AtomicDelivery promises.
EXTENDS Delivery, SequenceTheorems, FiniteSetTheorems, TLAPS

(* The state the proofs speak of: the shape of every table and of the      *)
(* command, in more detail than TypeOK gives it.                           *)
Commits == [by : (Works \cup {User}) \X Nat, tree : [Paths -> Contents]]
Statuses == {"none", "READY", "RUNNING", "BLOCKED", "COMPLETED", "CANCELLED"}
Failures == {"none", "engine", "reconciliation", "state", "environment"}
WorkRows == [status : Statuses, failure : Failures, source : Seq(Commits), dirty : SUBSET Paths]
Befores == {<<>>} \cup UNION {[T -> Contents] : T \in SUBSET Paths}
Journals ==
  [state : {"none", "written", "materialized"}, base : Seq(Commits), before : Befores]
InDelivery == {"checking", "naming", "writing", "marking", "settling"}
Active == {"deliver", "journal"} \cup InDelivery
Places == Active \cup {"idle", "resume", "drive", "block", "owner", "complete"}
Runs ==
  [at : Places, work : Works \cup {"none"}, target : OpIds \cup {<<>>},
   within : {"drive", "resume"} \cup Failures, head : Seq(Commits), todo : SUBSET Paths]

Shape ==
  /\ branch \in Seq(Commits) /\ branch # <<>>
  /\ file \in [Paths -> Contents] /\ index \in [Paths -> Contents]
  /\ work \in [Works -> WorkRows]
  /\ op \in [OpIds -> OpStates]
  /\ journal \in [OpIds -> Journals]
  /\ run \in Runs
  /\ calm \in BOOLEAN /\ raced \in BOOLEAN /\ acts \in 0 .. MaxActs /\ failures \in 0 .. MaxFailures

(* What a command holds at each of its places: the work it drives, the     *)
(* operation it delivers, and what an effect of it may settle.             *)
Driving == run.at \in Active /\ run.within = "drive"
Finishing == run.at \in {"resume", "owner"} \cup InDelivery /\ run.within # "drive"
Control ==
  /\ ~At("idle") => run.work \in Works /\ work[run.work].status # "none"
  /\ run.at \in Active \cup {"owner"} => run.target \in OpIds
  /\ run.at \in Active => run.within \in {"drive", "resume"}
  /\ run.at \in {"deliver", "journal"} => run.within = "drive"
  /\ run.at \in {"resume", "owner"} => run.within # "drive"
  /\ Driving => run.target[1] = run.work /\ op[run.target] = "DISPATCHED"
  /\ run.at \in Active /\ run.within = "resume" => op[run.target] = "UNKNOWN"
  /\ At("drive") => work[run.work].status = "READY"
  /\ Driving \/ run.at \in {"block", "complete"} => work[run.work].status = "RUNNING"
  /\ At("block") => run.within \in Failures

(* The deliver operations of a work: an attempt is registered only when    *)
(* every earlier one was given up.                                         *)
InOrder ==
  \A w \in Works : \A k \in Attempts :
    op[<<w, k>>] # "absent" => \A j \in 0 .. k - 1 : op[<<w, j>>] = "consumed"
Conflicting(w) == \E k \in Attempts : op[<<w, k>>] = "conflict"
Ordinals ==
  /\ InOrder
  /\ \A w \in Works : Retriable(w) => ~Conflicting(w)
  /\ At("block") /\ run.within = "environment" => ~Conflicting(run.work)
  /\ Finishing => \/ work[run.work].status \in {"COMPLETED", "CANCELLED"}
                  \/ Spent(run.work) < MaxAttempts
  /\ At("drive") => NextOrdinal(run.work) < MaxAttempts

(* A journal was written on the commit its work was admitted on, and what  *)
(* the program believes to be on the branch is there.                      *)
Journaled(id) == journal[id].state # "none"
Stored ==
  /\ \A w \in Works : work[w].status = "none" <=> work[w].source = <<>>
  /\ \A id \in OpIds : Journaled(id) =>
       journal[id].base = work[id[1]].source /\ work[id[1]].status # "none"
  /\ \A id \in OpIds : op[id] = "CONFIRMED" => Landed(id)
  /\ \A w \in Works : work[w].status = "COMPLETED" => ByWork(branch, w)
Held ==
  /\ At("journal") => run.head = work[run.work].source
  /\ run.at \in InDelivery => Journaled(Target)
  /\ run.at \in {"writing", "marking", "settling"} => Landed(Target)
  /\ At("complete") => ByWork(branch, run.work)
Landings == Stored /\ Held

(* What the journal of a delivery remembers and what it has still to write *)
(* cover no edit of the user that is committed nowhere, unless he made it  *)
(* where no look of the program comes after it. While he leaves the        *)
(* repository alone during commands, what was written stays written.       *)
Committed(p) == \E i \in DOMAIN branch : branch[i].tree[p] = User
Watched ==
  /\ At("journal") => \A p \in Touched[run.work] : file[p] = User => Committed(p)
  /\ \A id \in OpIds : Journaled(id) =>
       \A p \in PathsOf(id) : journal[id].before[p] = User => Committed(p)
  /\ run.at \in {"naming", "writing"} => \A p \in run.todo : file[p] = User => Committed(p)
Quiet ==
  /\ At("writing") => \A p \in PathsOf(Target) \ run.todo : file[p] = Target[1]
  /\ run.at \in {"marking", "settling"} =>
       \A p \in PathsOf(Target) : file[p] = Target[1] /\ index[p] = Target[1]
Edits ==
  /\ At("naming") => run.todo = PathsOf(Target)
  /\ ~raced => Watched
  /\ calm => Quiet

IInv == Shape /\ Control /\ Ordinals /\ Landings /\ Edits /\ OnlyCandidate

-----------------------------------------------------------------------------
(* Facts about the operators of the model.                                 *)

(* The categories of Engine.effect: what blocks a work, and that only a    *)
(* failed git operation blocks it as a matter of the environment.          *)
LEMMA CategoryFacts ==
  /\ DOMAIN Category = {"DISPATCHED", "UNKNOWN", "conflict", "fault"}
  /\ \A s \in DOMAIN Category :
       Category[s] \in Failures /\ (Category[s] = "environment" => s = "fault")
  BY DEF Category, Failures

LEMMA HeadTreeType ==
  ASSUME NEW b \in Seq(Commits), b # <<>>
  PROVE  Len(b) \in DOMAIN b /\ Len(b) \in Nat /\ Last(b) \in Commits
         /\ HeadTree(b) \in [Paths -> Contents]
<1>1. Len(b) \in DOMAIN b /\ Last(b) \in Commits /\ Len(b) \in Nat
  BY EmptySeq, LenProperties DEF Last
<1> QED
  BY <1>1 DEF HeadTree, Commits

(* What one commit more does to a history.                                 *)
LEMMA AppendFacts ==
  ASSUME NEW b \in Seq(Commits), NEW c \in Commits
  PROVE  /\ Append(b, c) \in Seq(Commits) /\ Append(b, c) # <<>>
         /\ Len(Append(b, c)) = Len(b) + 1 /\ Len(b) \in Nat
         /\ Append(b, c)[Len(b) + 1] = c
         /\ \A i \in DOMAIN b : Append(b, c)[i] = b[i]
         /\ DOMAIN b = 1 .. Len(b) /\ DOMAIN Append(b, c) = 1 .. Len(b) + 1
         /\ IsPrefix(b, Append(b, c))
<1>1. Append(b, c) \in Seq(Commits) /\ Len(Append(b, c)) = Len(b) + 1 /\ Len(b) \in Nat
      /\ DOMAIN b = 1 .. Len(b) /\ DOMAIN Append(b, c) = 1 .. Len(b) + 1
      /\ Append(b, c)[Len(b) + 1] = c /\ Append(b, c) # <<>>
      /\ \A i \in 1 .. Len(b) : Append(b, c)[i] = b[i]
  BY AppendProperties, LenProperties
<1>2. SubSeq(b, 1, Len(b)) = SubSeq(Append(b, c), 1, Len(b))
  BY <1>1
<1> QED
  BY <1>1, <1>2 DEF IsPrefix

-----------------------------------------------------------------------------
(* The shape of the state.                                                 *)

(* The commit that update-ref puts on the branch.                          *)
Authored(id) == [by |-> id, tree |-> CommitTree(id, journal[id].base)]
LEMMA RevisionFacts ==
  ASSUME Shape, Landings, NEW id \in OpIds, Journaled(id)
  PROVE  /\ journal[id].base \in Seq(Commits) /\ journal[id].base # <<>>
         /\ Authored(id) \in Commits /\ Authored(id).by = id
         /\ Revision(id) = Append(journal[id].base, Authored(id))
         /\ id[1] \in Works
<1>1. id[1] \in Works /\ id \in (Works \cup {User}) \X Nat
  BY DeliveryAssumption DEF OpIds, Attempts
<1>2. journal[id].base \in Seq(Commits) /\ journal[id].base # <<>>
  BY <1>1 DEF Shape, Landings, Stored, Held, Journals
<1>3. CommitTree(id, journal[id].base) \in [Paths -> Contents]
  BY <1>1, <1>2, HeadTreeType DEF CommitTree, Contents
<1> QED
  BY <1>1, <1>2, <1>3 DEF Revision, Authored, Commits

(* A step leaves the branch alone or puts one commit on it: the user's, or *)
(* that of the delivery whose base the branch is.                          *)
UserGrows == \E t \in [Paths -> Contents] :
  branch' = Append(branch, [by |-> <<User, acts>>, tree |-> t])
NameGrows ==
  /\ At("naming") /\ Target \in OpIds /\ Journaled(Target)
  /\ branch = journal[Target].base
  /\ branch' = Append(branch, Authored(Target))
  /\ UNCHANGED work
LEMMA BranchStep ==
  ASSUME Shape, Control, Landings, [Next]_vars
  PROVE  UNCHANGED branch \/ (UserGrows /\ UNCHANGED work) \/ NameGrows
<1>1. CASE UNCHANGED vars
  BY <1>1 DEF vars
<1>2. CASE ByTheUser
  BY <1>2 DEF ByTheUser, CommitAll, Edit, Restore, Stage, ByUser, UserGrows, Shape
<1>3. CASE Operator
  BY <1>3 DEF Operator, Admit, Resume, Answer, Cancel, Reconcile, repo
<1>4. CASE Program
  <2>1. CASE Name
    <3>1. run.target \in OpIds /\ Journaled(Target)
      BY <2>1 DEF Name, At, Control, Active, InDelivery, Landings, Stored, Held, Target
    <3>2. Revision(Target) = Append(journal[Target].base, Authored(Target))
      BY <3>1, RevisionFacts DEF Target
    <3> QED
      BY <2>1, <3>1, <3>2 DEF Name, Expected, NameGrows, Target
  <2>2. CASE ~Name
    BY <1>4, <2>2 DEF Program, Wake, Drive, Deliver, WriteJournal, Check, ResetIndex, Mark,
       Settle, Owner, Block, Complete, FinishPending, Write, repo
  <2> QED
    BY <2>1, <2>2
<1>5. CASE Failure
  BY <1>5 DEF Failure, Crash, Interrupt, GitFails, WriteFails, repo
<1> QED
  BY <1>1, <1>2, <1>3, <1>4, <1>5 DEF Next

LEMMA Grows ==
  ASSUME Shape, Control, Landings, [Next]_vars
  PROVE  UNCHANGED branch \/ \E c \in Commits : branch' = Append(branch, c)
<1>1. ASSUME UserGrows PROVE \E c \in Commits : branch' = Append(branch, c)
  <2>1. PICK t \in [Paths -> Contents] :
          branch' = Append(branch, [by |-> <<User, acts>>, tree |-> t])
    BY <1>1 DEF UserGrows
  <2>2. [by |-> <<User, acts>>, tree |-> t] \in Commits
    BY DeliveryAssumption DEF Shape, Commits
  <2> QED
    BY <2>1, <2>2
<1>2. ASSUME NameGrows PROVE \E c \in Commits : branch' = Append(branch, c)
  BY <1>2, RevisionFacts DEF NameGrows
<1> QED
  BY <1>1, <1>2, BranchStep

LEMMA IdleType == Idle \in Runs
  BY DEF Idle, Runs, Places, Failures

LEMMA InitShape == Init => Shape
<1> SUFFICES ASSUME Init PROVE Shape
  OBVIOUS
<1>1. [by |-> <<User, 0>>, tree |-> [p \in Paths |-> Old]] \in Commits
  BY DEF Commits, Contents
<1>2. branch \in Seq(Commits) /\ branch # <<>>
  BY <1>1 DEF Init
<1>3. file \in [Paths -> Contents] /\ index \in [Paths -> Contents]
  BY DEF Init, Contents
<1>4. work \in [Works -> WorkRows] /\ op \in [OpIds -> OpStates]
  BY DEF Init, WorkRows, Statuses, Failures, OpStates
<1>5. journal \in [OpIds -> Journals]
  BY DEF Init, Journals, Unjournaled, Befores
<1>6. run \in Runs
  BY IdleType DEF Init
<1>7. calm \in BOOLEAN /\ raced \in BOOLEAN
  BY DEF Init
<1>8. acts \in 0 .. MaxActs /\ failures \in 0 .. MaxFailures
  BY DeliveryAssumption DEF Init
<1> QED
  BY <1>2, <1>3, <1>4, <1>5, <1>6, <1>7, <1>8 DEF Shape

LEMMA RaiseShape ==
  ASSUME Shape, run.target \in OpIds, NEW state \in OpStates, NEW category \in Failures,
         Raise(state, category)
  PROVE  op' \in [OpIds -> OpStates] /\ run' \in Runs
<1>1. [run EXCEPT !.at = "block", !.within = category] \in Runs
  BY DEF Shape, Runs, Places
<1> QED
  BY <1>1, IdleType DEF Raise, Shape

LEMMA CommandType ==
  ASSUME NEW w \in Works, Command(w)
  PROVE  run' \in Runs
  BY IdleType DEF Command, Runs, Places

LEMMA FreedType ==
  ASSUME Shape, NEW w \in Works
  PROVE  Freed(w) \in [Works -> WorkRows]
  BY DEF Freed, Shape, WorkRows, Statuses, Failures

LEMMA UserShape == Shape /\ ByTheUser => Shape'
<1> SUFFICES ASSUME Shape, ByTheUser PROVE Shape'
  OBVIOUS
<1>1. HeadTree(branch) \in [Paths -> Contents]
  BY HeadTreeType DEF Shape
<1>2. acts' \in 0 .. MaxActs /\ calm' \in BOOLEAN /\ raced' \in BOOLEAN /\ UNCHANGED <<work, op, journal, run, failures>>
  <2>1. ByUser
    BY DEF ByTheUser, CommitAll, Edit, Restore, Stage
  <2>2. acts' \in 0 .. MaxActs /\ UNCHANGED <<work, op, journal, run, failures>>
    BY <2>1, DeliveryAssumption DEF ByUser, Shape
  <2>3. calm' \in BOOLEAN
    BY <2>1, Zenon DEF ByUser
  <2>4. raced' \in BOOLEAN
    BY Zenon DEF ByTheUser, CommitAll, Edit, Restore, Stage, Shape
  <2> QED
    BY <2>2, <2>3, <2>4
<1>3. file' \in [Paths -> Contents] /\ index' \in [Paths -> Contents]
  BY <1>1 DEF ByTheUser, CommitAll, Edit, Restore, Stage, Shape, Contents
<1>4. branch' \in Seq(Commits) /\ branch' # <<>>
  <2>1. ASSUME CommitAll PROVE branch' \in Seq(Commits) /\ branch' # <<>>
    <3>1. [by |-> <<User, acts>>, tree |-> file] \in Commits
      BY DeliveryAssumption DEF Shape, Commits
    <3> QED
      BY <2>1, <3>1, AppendFacts DEF CommitAll, Shape
  <2> QED
    BY <2>1 DEF ByTheUser, Edit, Restore, Stage, Shape
<1> QED
  BY <1>2, <1>3, <1>4 DEF Shape

LEMMA OperatorShape == Shape /\ Operator => Shape'
<1> SUFFICES ASSUME Shape, Operator PROVE Shape'
  OBVIOUS
<1>1. ASSUME NEW w \in Works, Admit(w) PROVE Shape'
  <2>1. {p \in Touched[w] : Dirty(p)} \in SUBSET Paths
    BY DeliveryAssumption
  <2>2. work' \in [Works -> WorkRows]
    BY <1>1, <2>1 DEF Admit, Shape, WorkRows, Statuses, Failures
  <2> QED
    BY <1>1, <2>2 DEF Admit, Shape, repo, ByCommand
<1>2. ASSUME NEW w \in Works, Resume(w) PROVE Shape'
  <2>1. op' \in [OpIds -> OpStates]
    BY <1>2 DEF Resume, Orphaned, Shape, OpStates
  <2> QED
    BY <1>2, <2>1, CommandType DEF Resume, Shape, repo, ByCommand
<1>3. ASSUME NEW w \in Works, Answer(w) PROVE Shape'
  BY <1>3, CommandType DEF Answer, Shape, repo, ByCommand
<1>4. ASSUME NEW w \in Works, Cancel(w) PROVE Shape'
  <2>1. work' \in [Works -> WorkRows]
    BY <1>4 DEF Cancel, Shape, WorkRows, Statuses
  <2> QED
    BY <1>4, <2>1 DEF Cancel, Shape, repo, ByCommand
<1>5. ASSUME NEW id \in OpIds, Reconcile(id) PROVE Shape'
  <2>1. op' \in [OpIds -> OpStates]
    BY <1>5 DEF Reconcile, Reconciled, Shape, OpStates
  <2>2. work' \in [Works -> WorkRows]
    <3>1. id[1] \in Works
      BY DEF OpIds
    <3>2. Freed(id[1]) \in [Works -> WorkRows]
      BY <3>1, FreedType
    <3>3. work' \in {work, Freed(id[1])}
      BY <1>5, Zenon DEF Reconcile
    <3> QED
      BY <3>2, <3>3 DEF Shape
  <2> QED
    BY <1>5, <2>1, <2>2 DEF Reconcile, Shape, repo, ByCommand
<1> QED
  BY <1>1, <1>2, <1>3, <1>4, <1>5 DEF Operator

LEMMA FailureShape == Shape /\ Control /\ Failure => Shape'
<1> SUFFICES ASSUME Shape, Control, Failure PROVE Shape'
  OBVIOUS
<1>0. ASSUME Failing PROVE failures' \in 0 .. MaxFailures
  BY <1>0, DeliveryAssumption DEF Failing, Shape
<1>1. CASE Crash
  BY <1>0, <1>1, IdleType DEF Crash, Failing, Shape, repo, ByCommand
<1>2. CASE Interrupt
  BY <1>0, <1>2, IdleType DEF Interrupt, Failing, Shape, repo, ByCommand, OpStates, Target
<1>3. CASE GitFails
  <2>1. run.at \in Active
    BY <1>3, DeliveryAssumption DEF GitFails, Active, InDelivery
  <2> QED
    BY <1>0, <1>3, <2>1, RaiseShape DEF GitFails, Failing, Shape, repo, ByCommand, Control, OpStates, Failures
<1>4. CASE WriteFails
  <2>1. run.at \in Active
    BY <1>4 DEF WriteFails, Active, InDelivery, At
  <2> QED
    BY <1>0, <1>4, <2>1, RaiseShape DEF WriteFails, Failing, Shape, repo, ByCommand, Control, OpStates, Failures
<1> QED
  BY <1>1, <1>2, <1>3, <1>4 DEF Failure

(* Cardinalities of attempts: what a work has used up is at most what the  *)
(* bound allows, and the next ordinal is the first that was not given up.  *)
LEMMA AttemptsFinite ==
  ASSUME NEW S \in SUBSET Attempts
  PROVE  IsFiniteSet(S) /\ Cardinality(S) \in Nat
<1>1. IsFiniteSet(Attempts)
  BY FS_Interval, DeliveryAssumption DEF Attempts
<1> QED
  BY <1>1, FS_Subset, FS_CardinalityType

LEMMA NextIsAttempt ==
  ASSUME Ordinals, At("drive"), NEW w \in Works, w = run.work
  PROVE  NextOrdinal(w) \in Attempts
<1>1. NextOrdinal(w) \in Nat
  BY AttemptsFinite DEF NextOrdinal
<1> QED
  BY <1>1, DeliveryAssumption DEF Ordinals, Attempts

LEMMA CommandShape == Shape /\ Control /\ Ordinals /\ Landings /\ Program => Shape'
<1> SUFFICES ASSUME Shape, Control, Ordinals, Landings, Program PROVE Shape'
  OBVIOUS
<1> USE DEF ByCommand, repo, At, Target
<1>1. CASE Wake
  <2>1. work' \in [Works -> WorkRows]
    <3>1. run.work \in Works
      BY <1>1 DEF Wake, Control
    <3>2. [work EXCEPT ![run.work].status = "READY"] \in [Works -> WorkRows]
      BY <3>1 DEF Shape, WorkRows, Statuses
    <3> QED
      BY <1>1, <3>1, <3>2, FreedType DEF Wake, Shape
  <2>2. op' \in [OpIds -> OpStates]
    BY <1>1 DEF Wake, Shape, OpStates
  <2>3. run' \in Runs
    BY <1>1, IdleType DEF Wake, Goto, Shape, Runs, Places
  <2> QED
    BY <1>1, <2>1, <2>2, <2>3 DEF Wake, Shape
<1>2. CASE Drive
  <2>1. run.work \in Works
    BY <1>2 DEF Drive, Control
  <2> DEFINE id == <<run.work, NextOrdinal(run.work)>>
  <2>2. work' \in [Works -> WorkRows]
    <3>1. work' = [work EXCEPT ![run.work].status = "RUNNING"]
      BY <1>2 DEF Drive, Replay, Refuse, Register
    <3> QED
      BY <2>1, <3>1, ZenonT(120) DEF Shape, WorkRows, Statuses
  <2>3. op' \in [OpIds -> OpStates]
    BY <1>2 DEF Drive, Replay, Refuse, Register, Shape, OpStates
  <2>4. run' \in Runs
    <3>1. ASSUME Replay(id) PROVE run' \in Runs
      BY <3>1 DEF Replay, Goto, Shape, Runs, Places
    <3>2. ASSUME Refuse(id) PROVE run' \in Runs
      <4>1. Category[op[id]] \in Failures
        BY <3>2, CategoryFacts DEF Refuse
      <4> QED
        BY <3>2, <4>1 DEF Refuse, Shape, Runs, Places
    <3>3. ASSUME Register(id) PROVE run' \in Runs
      <4>1. id \in OpIds
        BY <1>2, <2>1, NextIsAttempt DEF Drive, OpIds
      <4> QED
        BY <3>3, <4>1 DEF Register, Shape, Runs, Places, Active
    <3> QED
      BY <1>2, <3>1, <3>2, <3>3 DEF Drive
  <2> QED
    BY <1>2, <2>2, <2>3, <2>4 DEF Drive, Shape
<1>3. CASE Deliver
  <2>1. run.target \in OpIds
    BY <1>3 DEF Deliver, Control, Active
  <2>2. [run EXCEPT !.at = "journal", !.head = branch] \in Runs
    BY DEF Shape, Runs, Places, Active
  <2> QED
    BY <1>3, <2>1, <2>2, RaiseShape DEF Deliver, Shape, OpStates, Failures
<1>4. CASE WriteJournal
  <2>1. run.target \in OpIds /\ run.head \in Seq(Commits) /\ run.work \in Works
    BY <1>4 DEF WriteJournal, Control, Active, Shape, Runs
  <2>2. [p \in Touched[run.work] |-> file[p]] \in Befores
    BY <2>1, DeliveryAssumption DEF Befores, Shape
  <2>3. [state |-> "written", base |-> run.head, before |-> [p \in Touched[run.work] |-> file[p]]]
          \in Journals
    BY <2>1, <2>2 DEF Journals
  <2>4. journal' \in [OpIds -> Journals]
    BY <1>4, <2>1, <2>3 DEF WriteJournal, Shape
  <2>5. run' \in Runs
    <3>1. [run EXCEPT !.at = "checking", !.head = <<>>] \in Runs
      BY EmptySeq DEF Shape, Runs, Places, Active, InDelivery
    <3> QED
      BY <1>4, <3>1 DEF WriteJournal
  <2> QED
    BY <1>4, <2>4, <2>5 DEF WriteJournal, Shape
<1>5. CASE Check
  <2>1. run.target \in OpIds /\ run.target[1] \in Works
    BY <1>5 DEF Check, Control, Active, InDelivery, OpIds
  <2>2. [run EXCEPT !.todo = PathsOf(Target), !.at = Onward(Target)] \in Runs
    BY <2>1, DeliveryAssumption DEF Shape, Runs, Places, Active, InDelivery, Onward, PathsOf
  <2> QED
    BY <1>5, <2>1, <2>2, RaiseShape DEF Check, Shape, OpStates, Failures
<1>6. CASE Name
  <2>1. run.target \in OpIds
    BY <1>6 DEF Name, Control, Active, InDelivery
  <2>2. branch' \in Seq(Commits) /\ branch' # <<>>
    <3>1. Journaled(run.target)
      BY <1>6 DEF Name, Landings, Stored, Held, InDelivery
    <3>2. Revision(run.target) \in Seq(Commits) /\ Revision(run.target) # <<>>
      <4>1. /\ journal[run.target].base \in Seq(Commits) /\ Authored(run.target) \in Commits
            /\ Revision(run.target) = Append(journal[run.target].base, Authored(run.target))
        BY <2>1, <3>1, RevisionFacts
      <4> QED
        BY <4>1, AppendFacts
    <3> QED
      BY <1>6, <3>2 DEF Name, Shape
  <2>3. op' \in [OpIds -> OpStates] /\ run' \in Runs
    <3>1. [run EXCEPT !.at = "writing"] \in Runs
      BY DEF Shape, Runs, Places, Active, InDelivery
    <3> QED
      BY <1>6, <2>1, <3>1, RaiseShape DEF Name, Goto, Shape, OpStates, Failures
  <2> QED
    BY <1>6, <2>2, <2>3 DEF Name, Shape
<1>7. ASSUME NEW p \in Paths, Write(p) PROVE Shape'
  <2>1. run.target \in OpIds /\ run.target[1] \in Works
    BY <1>7 DEF Write, Control, Active, InDelivery, OpIds
  <2>2. file' \in [Paths -> Contents] /\ run' \in Runs
    BY <1>7, <2>1 DEF Write, Shape, Contents, Runs
  <2> QED
    BY <1>7, <2>2 DEF Write, Shape
<1>8. CASE ResetIndex
  <2>1. run.target \in OpIds /\ run.target[1] \in Works
    BY <1>8 DEF ResetIndex, Control, Active, InDelivery, OpIds
  <2>2. index' \in [Paths -> Contents] /\ run' \in Runs
    BY <1>8, <2>1 DEF ResetIndex, Goto, Shape, Contents, Runs, Places, Active, InDelivery
  <2> QED
    BY <1>8, <2>2 DEF ResetIndex, Shape
<1>9. CASE Mark
  <2>1. journal' \in [OpIds -> Journals] /\ run' \in Runs
    BY <1>9 DEF Mark, Goto, Shape, Journals, Runs, Places, Active, InDelivery
  <2> QED
    BY <1>9, <2>1 DEF Mark, Shape
<1>10. CASE Settle
  <2>1. op' \in [OpIds -> OpStates] /\ run' \in Runs
    BY <1>10 DEF Settle, Goto, Shape, OpStates, Runs, Places
  <2> QED
    BY <1>10, <2>1 DEF Settle, Shape
<1>11. CASE Owner
  <2>1. run.target[1] \in Works
    BY <1>11 DEF Owner, Control, OpIds
  <2>2. work' \in [Works -> WorkRows] /\ run' \in Runs
    BY <1>11, <2>1, FreedType, IdleType, ZenonT(120) DEF Owner, Goto, Shape, Runs, Places
  <2> QED
    BY <1>11, <2>2 DEF Owner, Shape
<1>12. CASE Block
  <2>1. work' \in [Works -> WorkRows] /\ run' \in Runs
    BY <1>12, IdleType, ZenonT(120) DEF Block, Shape, Control, WorkRows, Statuses
  <2> QED
    BY <1>12, <2>1 DEF Block, Shape
<1>13. CASE Complete
  <2>1. work' \in [Works -> WorkRows] /\ run' \in Runs
    BY <1>13, IdleType DEF Complete, Shape, Control, WorkRows, Statuses
  <2> QED
    BY <1>13, <2>1 DEF Complete, Shape
<1>14. ASSUME NEW id \in OpIds, FinishPending(id) PROVE Shape'
  <2>1. run' \in Runs
    BY <1>14 DEF FinishPending, Shape, Runs, Places, Active, InDelivery
  <2> QED
    BY <1>14, <2>1 DEF FinishPending, Shape
<1> QED
  BY <1>1, <1>2, <1>3, <1>4, <1>5, <1>6, <1>7, <1>8, <1>9, <1>10, <1>11, <1>12, <1>13, <1>14
  DEF Program

LEMMA StepShape == Shape /\ Control /\ Ordinals /\ Landings /\ [Next]_vars => Shape'
<1> SUFFICES ASSUME Shape, Control, Ordinals, Landings, [Next]_vars PROVE Shape'
  OBVIOUS
<1>1. CASE UNCHANGED vars
  BY <1>1 DEF Shape, vars
<1> QED
  BY <1>1, UserShape, OperatorShape, CommandShape, FailureShape DEF Next

-----------------------------------------------------------------------------
(* What a command holds at each of its places.                             *)

LEMMA InitControl == Init => Control
  BY DEF Init, Control, Idle, At, Driving, Active, InDelivery

LEMMA IdleControl == At("idle")' => Control'
  BY DEF Control, At, Driving, Active, InDelivery

LEMMA StoppedIsIdle == run' = Idle => At("idle")'
  BY DEF Idle, At

LEMMA OperatorControl == Shape /\ Control /\ Operator => Control'
<1> SUFFICES ASSUME Shape, Control, Operator PROVE Control'
  OBVIOUS
<1>1. ASSUME NEW w \in Works, Command(w), work[w].status # "none", UNCHANGED work PROVE Control'
  BY <1>1 DEF Command, Idle, Control, At, Driving, Active, InDelivery
<1>2. ASSUME NEW w \in Works, Admit(w) \/ Cancel(w) PROVE Control'
  BY <1>2, IdleControl DEF Admit, Cancel, At
<1>3. ASSUME NEW id \in OpIds, Reconcile(id) PROVE Control'
  BY <1>3, IdleControl DEF Reconcile, At
<1>4. ASSUME NEW w \in Works, Resume(w) \/ Answer(w) PROVE Control'
  BY <1>1, <1>4 DEF Resume, Answer, repo
<1> QED
  BY <1>2, <1>3, <1>4 DEF Operator

(* An effect that raises leaves the command blocking its work or stops it. *)
LEMMA RaiseControl ==
  ASSUME Shape, Control, run.at \in Active, NEW state, NEW category \in Failures,
         Raise(state, category), UNCHANGED work
  PROVE  Control'
<1>1. CASE run.within = "drive"
  <2>1. run' = [run EXCEPT !.at = "block", !.within = category]
    BY <1>1 DEF Raise
  <2>2. run.work \in Works /\ work[run.work].status = "RUNNING"
    BY <1>1 DEF Control, At, Driving, Active, InDelivery
  <2>3. run'.at = "block" /\ run'.within = category /\ run'.work = run.work
    BY <2>1 DEF Shape, Runs
  <2> QED
    BY <2>2, <2>3 DEF Control, At, Driving, Active, InDelivery
<1>2. CASE run.within # "drive"
  BY <1>2, IdleControl, StoppedIsIdle DEF Raise
<1> QED
  BY <1>1, <1>2

LEMMA FailureControl == Shape /\ Control /\ Failure => Control'
<1> SUFFICES ASSUME Shape, Control, Failure PROVE Control'
  OBVIOUS
<1>1. ASSUME Crash \/ Interrupt PROVE Control'
  BY <1>1, IdleControl, StoppedIsIdle DEF Crash, Interrupt
<1>2. CASE GitFails
  <2>1. run.at \in Active
    BY <1>2, DeliveryAssumption DEF GitFails, Active, InDelivery
  <2> QED
    BY <1>2, <2>1, RaiseControl DEF GitFails, Failures
<1>3. CASE WriteFails
  <2>1. run.at \in Active
    BY <1>3 DEF WriteFails, Active, InDelivery, At
  <2> QED
    BY <1>3, <2>1, RaiseControl DEF WriteFails, Failures
<1> QED
  BY <1>1, <1>2, <1>3 DEF Failure

LEMMA CommandControl == Shape /\ Control /\ Ordinals /\ Program => Control'
<1> SUFFICES ASSUME Shape, Control, Ordinals, Program PROVE Control'
  OBVIOUS
<1> USE DEF At, Driving, Active, InDelivery
<1>1. CASE Wake
  <2>1. run.work \in Works /\ work[run.work].status # "none"
    BY <1>1 DEF Wake, Control
  <2>2. CASE run' = Idle
    BY <2>2, IdleControl, StoppedIsIdle
  <2>3. CASE run' # Idle
    <3>1. run' = [run EXCEPT !.at = "drive"]
          /\ work' \in {Freed(run.work), [work EXCEPT ![run.work].status = "READY"]}
      BY <1>1, <2>3 DEF Wake, Goto
    <3>2. work'[run.work].status = "READY"
      BY <2>1, <3>1 DEF Freed, Shape, WorkRows
    <3>3. run'.at = "drive" /\ run'.work = run.work
      BY <3>1 DEF Shape, Runs
    <3> QED
      BY <2>1, <3>2, <3>3 DEF Control
  <2> QED
    BY <2>2, <2>3
<1>2. CASE Drive
  <2> DEFINE id == <<run.work, NextOrdinal(run.work)>>
  <2>1. run.work \in Works /\ id \in OpIds /\ id[1] = run.work
    BY <1>2, NextIsAttempt DEF Drive, Control, OpIds
  <2>2. work'[run.work].status = "RUNNING"
    BY <1>2, <2>1 DEF Drive, Replay, Refuse, Register, Shape, WorkRows
  <2>3. ASSUME Replay(id) PROVE Control'
    <3>1. run'.at = "complete" /\ run'.work = run.work
      BY <2>3 DEF Replay, Goto, Shape, Runs
    <3> QED
      BY <2>1, <2>2, <3>1 DEF Control
  <2>4. ASSUME Refuse(id) PROVE Control'
    <3>1. run'.at = "block" /\ run'.work = run.work /\ run'.within \in Failures
      BY <2>4, CategoryFacts DEF Refuse, Shape, Runs
    <3> QED
      BY <2>1, <2>2, <3>1 DEF Control
  <2>5. ASSUME Register(id) PROVE Control'
    <3>1. run'.at = "deliver" /\ run'.work = run.work /\ run'.within = "drive" /\ run'.target = id
      BY <2>5 DEF Register, Shape, Runs
    <3>2. op'[id] = "DISPATCHED"
      BY <2>1, <2>5 DEF Register, Shape
    <3> QED
      BY <2>1, <2>2, <3>1, <3>2 DEF Control
  <2> QED
    BY <1>2, <2>3, <2>4, <2>5 DEF Drive
<1>3. CASE Deliver
  <2>1. CASE run' = [run EXCEPT !.at = "journal", !.head = branch] /\ UNCHANGED op
    BY <1>3, <2>1 DEF Deliver, Control, Shape, Runs
  <2> QED
    BY <1>3, <2>1, RaiseControl DEF Deliver, Failures
<1>4. CASE WriteJournal
  BY <1>4 DEF WriteJournal, Control, Shape, Runs
<1>5. CASE Check
  <2>1. CASE run' = [run EXCEPT !.todo = PathsOf(Target), !.at = Onward(Target)] /\ UNCHANGED op
    <3>1. run'.at \in {"naming", "writing"} /\ run'.work = run.work /\ run'.target = run.target
          /\ run'.within = run.within
      BY <2>1 DEF Shape, Runs, Onward
    <3> QED
      BY <1>5, <2>1, <3>1 DEF Check, Control
  <2> QED
    BY <1>5, <2>1, RaiseControl DEF Check, Failures
<1>6. CASE Name
  <2>1. CASE Goto("writing") /\ UNCHANGED op
    BY <1>6, <2>1 DEF Name, Goto, Control, Shape, Runs
  <2> QED
    BY <1>6, <2>1, RaiseControl DEF Name, Failures
<1>7. ASSUME NEW p \in Paths, Write(p) PROVE Control'
  BY <1>7 DEF Write, Control, Shape, Runs
<1>8. CASE ResetIndex \/ Mark
  BY <1>8 DEF ResetIndex, Mark, Goto, Control, Shape, Runs
<1>9. CASE Settle
  BY <1>9 DEF Settle, Goto, Control, Shape, Runs
<1>10. CASE Owner
  <2>1. CASE run' = Idle
    BY <2>1, IdleControl, StoppedIsIdle
  <2>2. CASE run' # Idle
    <3>1. run'.at = "resume" /\ run'.work = run.work /\ run'.within = run.within
      BY <1>10, <2>2 DEF Owner, Goto, Shape, Runs
    <3>2. work' \in {work, Freed(Target[1])}
      BY <1>10 DEF Owner
    <3>3. work'[run.work].status # "none"
      BY <1>10, <3>2 DEF Owner, Control, Freed, Shape, WorkRows
    <3> QED
      BY <1>10, <3>1, <3>3 DEF Owner, Control
  <2> QED
    BY <2>1, <2>2
<1>11. CASE Block \/ Complete
  BY <1>11, IdleControl, StoppedIsIdle DEF Block, Complete
<1>12. ASSUME NEW id \in OpIds, FinishPending(id) PROVE Control'
  BY <1>12 DEF FinishPending, Interrupted, Control, Shape, Runs
<1> QED
  BY <1>1, <1>2, <1>3, <1>4, <1>5, <1>6, <1>7, <1>8, <1>9, <1>10, <1>11, <1>12 DEF Program

LEMMA StepControl == Shape /\ Control /\ Ordinals /\ [Next]_vars => Control'
<1> SUFFICES ASSUME Shape, Control, Ordinals, [Next]_vars PROVE Control'
  OBVIOUS
<1>1. CASE UNCHANGED vars
  BY <1>1 DEF Control, vars, At, Driving
<1>2. CASE ByTheUser
  <2>1. UNCHANGED <<work, op, run>>
    BY <1>2 DEF ByTheUser, CommitAll, Edit, Restore, Stage, ByUser
  <2> QED
    BY <2>1 DEF Control, At, Driving
<1> QED
  BY <1>1, <1>2, OperatorControl, CommandControl, FailureControl DEF Next

-----------------------------------------------------------------------------
(* The order of the deliver operations of a work.                          *)

LEMMA InitOrdinals == Init => Ordinals
  BY DEF Init, Ordinals, InOrder, OpIds, Retriable, At, Idle, Finishing, InDelivery

(* Of the operations of a work at most one is neither given up nor absent. *)
LEMMA OneOpen ==
  ASSUME Shape, InOrder, NEW w \in Works, NEW k \in Attempts,
         op[<<w, k>>] \notin {"absent", "consumed"}
  PROVE  \A j \in Attempts : j # k => op[<<w, j>>] \in {"absent", "consumed"}
<1> SUFFICES ASSUME NEW j \in Attempts, j # k, op[<<w, j>>] \notin {"absent", "consumed"}
             PROVE FALSE
  OBVIOUS
<1>1. j \in Nat /\ k \in Nat
  BY DeliveryAssumption DEF Attempts
<1>2. CASE j < k
  BY <1>1, <1>2 DEF InOrder
<1>3. CASE k < j
  BY <1>1, <1>3 DEF InOrder
<1> QED
  BY <1>1, <1>2, <1>3

(* The next ordinal is the number of attempts given up, and these come     *)
(* first.                                                                  *)
LEMMA GivenUpFirst ==
  ASSUME InOrder, NEW w \in Works, NEW j \in 0 .. NextOrdinal(w) - 1,
         NextOrdinal(w) \in Attempts
  PROVE  op[<<w, j>>] = "consumed"
<1> DEFINE C == {k \in Attempts : op[<<w, k>>] = "consumed"}
<1>1. NextOrdinal(w) = Cardinality(C) /\ C \in SUBSET Attempts /\ Cardinality(C) \in Nat
  BY AttemptsFinite DEF NextOrdinal
<1>2. j \in Attempts
  BY DeliveryAssumption DEF Attempts
<1> SUFFICES ASSUME op[<<w, j>>] # "consumed" PROVE FALSE
  OBVIOUS
<1>3. C \subseteq 0 .. j - 1
  <2> SUFFICES ASSUME NEW k \in C PROVE k \in 0 .. j - 1
    OBVIOUS
  <2>1. k \in Nat /\ j \in Nat /\ k # j
    BY <1>2, DeliveryAssumption DEF Attempts
  <2>2. ~(j < k)
    BY <1>2, <2>1 DEF InOrder
  <2> QED
    BY <2>1, <2>2
<1>4. j \in Nat
  BY <1>2, DeliveryAssumption DEF Attempts
<1>5. IsFiniteSet(0 .. j - 1) /\ Cardinality(0 .. j - 1) = j
  <2>1. 0 \in Int /\ j - 1 \in Int
    BY <1>4
  <2>2. /\ IsFiniteSet(0 .. j - 1)
        /\ Cardinality(0 .. j - 1) = IF 0 > j - 1 THEN 0 ELSE (j - 1) - 0 + 1
    BY <2>1, FS_Interval, Zenon
  <2> QED
    BY <1>4, <2>2
<1>6. Cardinality(C) <= j
  BY <1>3, <1>5, FS_Subset
<1> QED
  BY <1>1, <1>4, <1>6

LEMMA KeepsOrder ==
  ASSUME InOrder,
         \A id \in OpIds : /\ op'[id] # "absent" => op[id] # "absent"
                           /\ op[id] = "consumed" => op'[id] = "consumed"
  PROVE  InOrder'
<1> SUFFICES ASSUME NEW w \in Works, NEW k \in Attempts, op'[<<w, k>>] # "absent",
                    NEW j \in 0 .. k - 1
             PROVE  op'[<<w, j>>] = "consumed"
  BY DEF InOrder
<1>1. j \in Attempts
  BY DeliveryAssumption DEF Attempts
<1>2. <<w, k>> \in OpIds /\ <<w, j>> \in OpIds
  BY <1>1 DEF OpIds
<1> QED
  BY <1>2 DEF InOrder

LEMMA SpentShrinks ==
  ASSUME NEW w \in Works,
         \A k \in Attempts : op'[<<w, k>>] \in {"fault", "consumed"}
                               => op[<<w, k>>] \in {"fault", "consumed"}
  PROVE  Spent(w)' <= Spent(w) /\ Spent(w) \in Nat /\ Spent(w)' \in Nat
<1> DEFINE Before == {k \in Attempts : op[<<w, k>>] \in {"fault", "consumed"}}
           After == {k \in Attempts : op'[<<w, k>>] \in {"fault", "consumed"}}
<1>1. After \subseteq Before
  OBVIOUS
<1>2. IsFiniteSet(Before) /\ Cardinality(Before) \in Nat /\ Cardinality(After) \in Nat
  BY AttemptsFinite
<1>3. Cardinality(After) <= Cardinality(Before)
  BY <1>1, <1>2, FS_Subset
<1> QED
  BY <1>2, <1>3 DEF Spent

(* What the places that no step enters keep: a step after which the        *)
(* operations are in order, no failed delivery is retried over a conflict, *)
(* and the command has stopped.                                            *)
Sorted == InOrder /\ \A w \in Works : Retriable(w) => ~Conflicting(w)
LEMMA IdleOrdinals == Sorted' /\ At("idle")' => Ordinals'
  BY DEF Sorted, Ordinals, At, Finishing, InDelivery

LEMMA KeepsSorted ==
  ASSUME Ordinals,
         \A id \in OpIds : /\ op'[id] # "absent" => op[id] # "absent"
                           /\ op[id] = "consumed" => op'[id] = "consumed"
                           /\ op'[id] = "conflict" => op[id] = "conflict",
         \A w \in Works : Retriable(w)' => Retriable(w)
  PROVE  Sorted'
<1>1. InOrder'
  BY KeepsOrder DEF Ordinals
<1>2. ASSUME NEW w \in Works, Retriable(w)', Conflicting(w)' PROVE FALSE
  <2>1. Retriable(w)
    BY <1>2
  <2>2. PICK k \in Attempts : op'[<<w, k>>] = "conflict"
    BY <1>2 DEF Conflicting
  <2>3. <<w, k>> \in OpIds
    BY DEF OpIds
  <2>4. Conflicting(w)
    BY <2>2, <2>3 DEF Conflicting
  <2> QED
    BY <2>1, <2>4 DEF Ordinals
<1> QED
  BY <1>1, <1>2 DEF Sorted

LEMMA OperatorOrdinals == Shape /\ Control /\ Ordinals /\ Operator => Ordinals'
<1> SUFFICES ASSUME Shape, Control, Ordinals, Operator PROVE Ordinals'
  OBVIOUS
<1>1. ASSUME NEW w \in Works, Command(w), work[w].status # "none", UNCHANGED work,
             \A id \in OpIds : op'[id] \in {op[id], "UNKNOWN"} /\ (op'[id] # op[id] => op[id] = "DISPATCHED"),
             work[w].status \in {"COMPLETED", "CANCELLED"} \/ Spent(w) < MaxAttempts
      PROVE  Ordinals'
  <2>1. Sorted'
    <3>1. \A v \in Works : Retriable(v)' => Retriable(v)
      BY <1>1 DEF Retriable
    <3> QED
      BY <1>1, <3>1, KeepsSorted
  <2>2. Spent(w)' <= Spent(w) /\ Spent(w) \in Nat /\ Spent(w)' \in Nat
    <3>1. \A k \in Attempts : op'[<<w, k>>] \in {"fault", "consumed"}
                                => op[<<w, k>>] \in {"fault", "consumed"}
      BY <1>1 DEF OpIds
    <3> QED
      BY <3>1, SpentShrinks
  <2>3. run'.at = "resume" /\ run'.work = w
    BY <1>1 DEF Command, Idle
  <2> QED
    BY <1>1, <2>1, <2>2, <2>3, DeliveryAssumption DEF Sorted, Ordinals, At, Finishing, InDelivery
<1>2. ASSUME NEW w \in Works, Admit(w) \/ Cancel(w) PROVE Ordinals'
  <2>1. UNCHANGED op /\ At("idle")'
    BY <1>2 DEF Admit, Cancel, At
  <2>2. work'[w].status \in {"READY", "CANCELLED"} /\ \A v \in Works \ {w} : work'[v] = work[v]
    BY <1>2 DEF Admit, Cancel, Shape, WorkRows
  <2>3. \A v \in Works : Retriable(v)' => Retriable(v)
    BY <2>2 DEF Retriable
  <2> QED
    BY <2>1, <2>3, KeepsSorted, IdleOrdinals
<1>3. ASSUME NEW id \in OpIds, Reconcile(id) PROVE Ordinals'
  <2>1. At("idle")' /\ op' = [op EXCEPT ![id] = Reconciled(id)] /\ op[id] \in {"DISPATCHED", "UNKNOWN"}
    BY <1>3 DEF Reconcile, At
  <2>2. Reconciled(id) \in {"CONFIRMED", "consumed"}
    BY DEF Reconciled
  <2>3. id[1] \in Works /\ work' \in {work, Freed(id[1])}
    BY <1>3, Zenon DEF Reconcile, OpIds
  <2>4. \A v \in Works : Retriable(v)' => Retriable(v)
    BY <2>3 DEF Retriable, Freed, Shape, WorkRows
  <2> QED
    BY <2>1, <2>2, <2>4, KeepsSorted, IdleOrdinals DEF Shape
<1>4. ASSUME NEW w \in Works, Resume(w) PROVE Ordinals'
  BY <1>1, <1>4 DEF Resume, repo, Orphaned, Shape
<1>5. ASSUME NEW w \in Works, Answer(w) PROVE Ordinals'
  <2>1. \A k \in Attempts : op[<<w, k>>] = "absent"
    <3> SUFFICES ASSUME NEW k \in Attempts, op[<<w, k>>] # "absent" PROVE FALSE
      OBVIOUS
    <3>1. op[<<w, 0>>] = "absent" /\ k # 0 /\ k \in Nat
      BY <1>5, DeliveryAssumption DEF Answer, Attempts
    <3>2. 0 \in 0 .. k - 1
      BY <3>1
    <3> QED
      BY <3>1, <3>2 DEF Ordinals, InOrder
  <2>2. {k \in Attempts : op[<<w, k>>] \in {"fault", "consumed"}} = {}
    BY <2>1
  <2>3. Spent(w) < MaxAttempts
    <3>1. Spent(w) = Cardinality({})
      BY <2>2 DEF Spent
    <3> QED
      BY <3>1, FS_EmptySet, DeliveryAssumption
  <2> QED
    BY <1>1, <1>5, <2>3 DEF Answer, repo
<1> QED
  BY <1>2, <1>3, <1>4, <1>5 DEF Operator

(* An effect that raises: a delivery of the driven work is the only open   *)
(* operation of it, so whatever it becomes none of the others conflicts.   *)
LEMMA RaiseOrdinals ==
  ASSUME Shape, Control, Ordinals, run.at \in Active, UNCHANGED work,
         NEW state \in {"conflict", "fault", "UNKNOWN"}, NEW category,
         category = "environment" => state = "fault",
         Raise(state, category)
  PROVE  Ordinals'
<1>1. CASE run.within = "drive"
  <2>1. run' = [run EXCEPT !.at = "block", !.within = category]
        /\ op' = [op EXCEPT ![run.target] = state]
    BY <1>1 DEF Raise
  <2>2. /\ run.work \in Works /\ work[run.work].status = "RUNNING" /\ run.target \in OpIds
        /\ run.target[1] = run.work /\ op[run.target] = "DISPATCHED"
    BY <1>1 DEF Control, At, Driving, Active, InDelivery
  <2>3. PICK k \in Attempts : run.target = <<run.work, k>>
    BY <2>2 DEF OpIds
  <2>4. op[<<run.work, k>>] \notin {"absent", "consumed"}
    BY <2>2, <2>3
  <2>5. \A j \in Attempts : j # k => op[<<run.work, j>>] \in {"absent", "consumed"}
    BY <2>2, <2>4, OneOpen DEF Ordinals
  <2>6. InOrder'
    BY <2>1, <2>2, KeepsOrder DEF Ordinals, Shape
  <2>7. \A w \in Works, j \in Attempts : <<w, j>> \in OpIds
    BY DEF OpIds
  <2>8. ASSUME NEW w \in Works, Retriable(w)' PROVE ~Conflicting(w)'
    <3>1. w # run.work /\ Retriable(w)
      BY <2>2, <2>8 DEF Retriable
    <3>2. \A j \in Attempts : op'[<<w, j>>] = op[<<w, j>>]
      BY <2>1, <2>2, <2>7, <3>1 DEF Shape
    <3> QED
      BY <3>1, <3>2 DEF Ordinals, Conflicting
  <2>9. category = "environment" => \A j \in Attempts : op'[<<run.work, j>>] # "conflict"
    <3> SUFFICES ASSUME category = "environment"
                 PROVE  \A j \in Attempts : op'[<<run.work, j>>] # "conflict"
      OBVIOUS
    <3>1. \A j \in Attempts : j # k => op'[<<run.work, j>>] = op[<<run.work, j>>]
      BY <2>1, <2>2, <2>3, <2>7 DEF Shape
    <3>2. op'[<<run.work, k>>] = "fault"
      BY <2>1, <2>2, <2>3 DEF Shape
    <3> QED
      BY <2>5, <3>1, <3>2
  <2>10. run'.at = "block" /\ run'.within = category /\ run'.work = run.work
    BY <2>1 DEF Shape, Runs
  <2> QED
    BY <2>6, <2>8, <2>9, <2>10 DEF Ordinals, Conflicting, At, Finishing, InDelivery
<1>2. CASE run.within # "drive"
  <2>1. UNCHANGED op /\ At("idle")'
    BY <1>2, StoppedIsIdle DEF Raise
  <2>2. \A w \in Works : Retriable(w)' => Retriable(w)
    BY DEF Retriable
  <2> QED
    BY <2>1, <2>2, KeepsSorted, IdleOrdinals
<1> QED
  BY <1>1, <1>2

LEMMA FailureOrdinals == Shape /\ Control /\ Ordinals /\ Failure => Ordinals'
<1> SUFFICES ASSUME Shape, Control, Ordinals, Failure PROVE Ordinals'
  OBVIOUS
<1>0. ASSUME UNCHANGED work PROVE \A w \in Works : Retriable(w)' => Retriable(w)
  BY <1>0 DEF Retriable
<1>1. CASE Crash
  BY <1>0, <1>1, KeepsSorted, StoppedIsIdle, IdleOrdinals DEF Crash
<1>2. CASE Interrupt
  <2>1. op' = [op EXCEPT ![run.target] = "UNKNOWN"] /\ run.target \in OpIds /\ op[run.target] = "DISPATCHED"
    BY <1>2 DEF Interrupt, Target, InEffect, Control, Driving, Active, InDelivery
  <2> QED
    BY <1>0, <1>2, <2>1, KeepsSorted, StoppedIsIdle, IdleOrdinals DEF Interrupt, Shape
<1>3. CASE GitFails
  <2>1. run.at \in Active
    BY <1>3, DeliveryAssumption DEF GitFails, Active, InDelivery
  <2> QED
    BY <1>3, <2>1, RaiseOrdinals DEF GitFails
<1>4. CASE WriteFails
  <2>1. run.at \in Active
    BY <1>4 DEF WriteFails, Active, InDelivery, At
  <2> QED
    BY <1>4, <2>1, RaiseOrdinals DEF WriteFails
<1> QED
  BY <1>1, <1>2, <1>3, <1>4 DEF Failure

(* A command that goes on without settling anything keeps the order.       *)
LEMMA GoesOnOrdinals ==
  ASSUME Shape, Control, Ordinals, UNCHANGED <<op, work>>, Finishing' => Finishing,
         run'.work = run.work, run'.at \notin {"drive", "block"}
  PROVE  Ordinals'
<1>1. \A w \in Works : Retriable(w)' => Retriable(w)
  BY DEF Retriable
<1>2. Sorted'
  BY <1>1, KeepsSorted
<1>3. ASSUME Finishing'
      PROVE  (work[run.work].status \in {"COMPLETED", "CANCELLED"} \/ Spent(run.work) < MaxAttempts)'
  BY <1>3 DEF Ordinals, Spent
<1> QED
  BY <1>2, <1>3 DEF Sorted, Ordinals, At

LEMMA CommandOrdinals == Shape /\ Control /\ Ordinals /\ Program => Ordinals'
<1> SUFFICES ASSUME Shape, Control, Ordinals, Program PROVE Ordinals'
  OBVIOUS
<1>1. CASE Wake
  <2> DEFINE w == run.work
  <2>1. w \in Works /\ work[w].status # "none" /\ At("resume") /\ Finishing
    BY <1>1 DEF Wake, Control, At, Finishing
  <2>2. CASE run' = Idle
    <3>1. UNCHANGED <<op, work>>
      <4>1. run' # [run EXCEPT !.at = "drive"]
        BY <2>2 DEF Idle, Shape, Runs
      <4> QED
        BY <1>1, <4>1 DEF Wake, Goto
    <3>2. \A v \in Works : Retriable(v)' => Retriable(v)
      BY <3>1 DEF Retriable
    <3> QED
      BY <2>2, <3>1, <3>2, KeepsSorted, StoppedIsIdle, IdleOrdinals
  <2>3. CASE run' # Idle
    <3>1. /\ work[w].status \notin {"COMPLETED", "CANCELLED"}
          /\ run' = [run EXCEPT !.at = "drive"]
          /\ work' \in {Freed(w), [work EXCEPT ![w].status = "READY"]}
          /\ op' = [id \in OpIds |->
               IF id[1] = w /\ op[id] \in {"conflict", "fault"} /\ Retriable(w)
               THEN "consumed" ELSE op[id]]
      BY <1>1, <2>3 DEF Wake, Goto
    <3>2. \A v \in Works : Retriable(v)' => Retriable(v)
      BY <2>1, <3>1 DEF Retriable, Freed, Shape, WorkRows
    <3>3. Sorted'
      BY <3>1, <3>2, KeepsSorted
    <3>4. Spent(w) < MaxAttempts
      BY <2>1, <3>1 DEF Ordinals
    <3>5. \A k \in Attempts : op'[<<w, k>>] = "consumed" => op[<<w, k>>] \in {"fault", "consumed"}
      <4>1. \A k \in Attempts : op[<<w, k>>] = "conflict" => ~Retriable(w)
        BY <2>1 DEF Ordinals, Conflicting
      <4>2. \A k \in Attempts : <<w, k>> \in OpIds
        BY <2>1 DEF OpIds
      <4> QED
        BY <3>1, <4>1, <4>2
    <3>6. NextOrdinal(w)' <= Spent(w) /\ Spent(w) \in Nat /\ NextOrdinal(w)' \in Nat
      <4> DEFINE Before == {k \in Attempts : op[<<w, k>>] \in {"fault", "consumed"}}
                 After == {k \in Attempts : op'[<<w, k>>] = "consumed"}
      <4>1. After \subseteq Before
        BY <3>5
      <4>2. IsFiniteSet(Before) /\ Cardinality(Before) \in Nat /\ Cardinality(After) \in Nat
        BY AttemptsFinite
      <4>3. Cardinality(After) <= Cardinality(Before)
        BY <4>1, <4>2, FS_Subset
      <4>4. w' = w
        BY <3>1 DEF Shape, Runs
      <4> QED
        BY <4>2, <4>3, <4>4 DEF Spent, NextOrdinal
    <3>7. run'.at = "drive" /\ run'.work = w
      BY <3>1 DEF Shape, Runs
    <3>8. (NextOrdinal(run.work) < MaxAttempts)'
      BY <3>4, <3>6, DeliveryAssumption
    <3> QED
      BY <3>3, <3>7, <3>8 DEF Sorted, Ordinals, At, Finishing, InDelivery
  <2> QED
    BY <2>2, <2>3
<1>2. CASE Drive
  <2> DEFINE id == <<run.work, NextOrdinal(run.work)>>
  <2>1. run.work \in Works /\ NextOrdinal(run.work) \in Attempts /\ id \in OpIds /\ id[1] = run.work
    BY <1>2, NextIsAttempt DEF Drive, Control, At, OpIds
  <2>2. work' = [work EXCEPT ![run.work].status = "RUNNING"]
    BY <1>2 DEF Drive, Replay, Refuse, Register
  <2>3. \A w \in Works : Retriable(w)' => Retriable(w)
    BY <2>1, <2>2 DEF Retriable, Shape, WorkRows
  <2>4. ASSUME Replay(id) PROVE Ordinals'
    <3>1. run'.at = "complete" /\ Sorted'
      BY <2>3, <2>4, KeepsSorted DEF Replay, Goto, Shape, Runs
    <3> QED
      BY <3>1 DEF Sorted, Ordinals, At, Finishing, InDelivery
  <2>5. ASSUME Refuse(id) PROVE Ordinals'
    <3>1. run'.at = "block" /\ run'.work = run.work /\ run'.within = Category[op[id]] /\ Sorted'
      BY <2>3, <2>5, KeepsSorted DEF Refuse, Shape, Runs
    <3>2. ASSUME run'.within = "environment"
          PROVE  \A j \in Attempts : op'[<<run.work, j>>] # "conflict"
      <4>1. op[id] = "fault"
        BY <2>5, <3>1, <3>2, CategoryFacts DEF Refuse
      <4>2. \A j \in Attempts : j # NextOrdinal(run.work) => op[<<run.work, j>>] \in {"absent", "consumed"}
        BY <2>1, <4>1, OneOpen DEF Ordinals
      <4> QED
        BY <2>5, <4>1, <4>2 DEF Refuse
    <3> QED
      BY <3>1, <3>2 DEF Sorted, Ordinals, Conflicting, At, Finishing, InDelivery
  <2>6. ASSUME Register(id) PROVE Ordinals'
    <3>1. run'.at = "deliver" /\ run'.within = "drive"
      BY <2>6 DEF Register, Shape, Runs
    <3>2. op[id] = "absent" /\ op' = [op EXCEPT ![id] = "DISPATCHED"]
      BY <2>6 DEF Register
    <3>3. InOrder'
      <4> SUFFICES ASSUME NEW w \in Works, NEW k \in Attempts, op'[<<w, k>>] # "absent",
                          NEW j \in 0 .. k - 1
                   PROVE  op'[<<w, j>>] = "consumed"
        BY DEF InOrder
      <4>1. j \in Attempts /\ <<w, k>> \in OpIds /\ <<w, j>> \in OpIds
        BY DeliveryAssumption DEF Attempts, OpIds
      <4>2. CASE <<w, k>> = id
        <5>1. op[<<w, j>>] = "consumed"
          BY <2>1, <4>2, GivenUpFirst DEF Ordinals
        <5> QED
          BY <3>2, <4>1, <5>1 DEF Shape
      <4>3. CASE <<w, k>> # id
        <5>1. op[<<w, j>>] = "consumed"
          BY <3>2, <4>1, <4>3 DEF Shape, Ordinals, InOrder
        <5> QED
          BY <3>2, <4>1, <5>1 DEF Shape
      <4> QED
        BY <4>2, <4>3
    <3>4. ASSUME NEW w \in Works, Retriable(w)', NEW k \in Attempts PROVE op'[<<w, k>>] # "conflict"
      <4>1. op[<<w, k>>] # "conflict" /\ <<w, k>> \in OpIds
        BY <2>3, <3>4 DEF Ordinals, Conflicting, OpIds
      <4> QED
        BY <3>2, <4>1 DEF Shape
    <3> QED
      BY <3>1, <3>3, <3>4 DEF Ordinals, Conflicting, At, Finishing, InDelivery
  <2> QED
    BY <1>2, <2>4, <2>5, <2>6 DEF Drive
<1>3. CASE Deliver
  <2>1. CASE run' = [run EXCEPT !.at = "journal", !.head = branch] /\ UNCHANGED op
    <3>1. run'.at = "journal" /\ run'.work = run.work
      BY <2>1 DEF Shape, Runs
    <3> QED
      BY <1>3, <2>1, <3>1, GoesOnOrdinals DEF Deliver, Finishing, InDelivery
  <2> QED
    BY <1>3, <2>1, RaiseOrdinals DEF Deliver, At, Active
<1>4. CASE WriteJournal
  <2>1. run'.at = "checking" /\ run'.work = run.work /\ run'.within = run.within /\ run.within = "drive"
    BY <1>4 DEF WriteJournal, Shape, Runs, Control, At
  <2> QED
    BY <1>4, <2>1, GoesOnOrdinals DEF WriteJournal, Finishing
<1>5. CASE Check
  <2>1. CASE run' = [run EXCEPT !.todo = PathsOf(Target), !.at = Onward(Target)] /\ UNCHANGED op
    <3>1. run'.at \in {"naming", "writing"} /\ run'.work = run.work /\ run'.within = run.within
      BY <2>1 DEF Shape, Runs, Onward
    <3> QED
      BY <1>5, <2>1, <3>1, GoesOnOrdinals DEF Check, At, Finishing, InDelivery
  <2> QED
    BY <1>5, <2>1, RaiseOrdinals DEF Check, At, Active, InDelivery
<1>6. CASE Name
  <2>1. CASE Goto("writing") /\ UNCHANGED op
    <3>1. run'.at = "writing" /\ run'.work = run.work /\ run'.within = run.within
      BY <2>1 DEF Goto, Shape, Runs
    <3> QED
      BY <1>6, <2>1, <3>1, GoesOnOrdinals DEF Name, At, Finishing, InDelivery
  <2> QED
    BY <1>6, <2>1, RaiseOrdinals DEF Name, At, Active, InDelivery
<1>7. ASSUME NEW p \in Paths, Write(p) PROVE Ordinals'
  <2>1. run'.at = "writing" /\ run'.work = run.work /\ run'.within = run.within
    BY <1>7 DEF Write, At, Shape, Runs
  <2> QED
    BY <1>7, <2>1, GoesOnOrdinals DEF Write, At, Finishing, InDelivery
<1>8. CASE ResetIndex \/ Mark
  <2>1. run'.at \in {"marking", "settling"} /\ run'.work = run.work /\ run'.within = run.within
    BY <1>8 DEF ResetIndex, Mark, Goto, Shape, Runs
  <2> QED
    BY <1>8, <2>1, GoesOnOrdinals DEF ResetIndex, Mark, At, Finishing, InDelivery
<1>9. CASE Settle
  <2>1. /\ run'.at \in {"complete", "owner"} /\ run'.work = run.work /\ run'.within = run.within
        /\ run.at \in InDelivery /\ UNCHANGED work
        /\ run.target \in OpIds /\ op' = [op EXCEPT ![run.target] = "CONFIRMED"]
        /\ op[run.target] \in {"DISPATCHED", "UNKNOWN"}
    BY <1>9 DEF Settle, Goto, At, Shape, Runs, Control, Driving, Active, InDelivery, Target
  <2>2. \A w \in Works : Retriable(w)' => Retriable(w)
    BY <2>1 DEF Retriable
  <2>3. Sorted'
    BY <2>1, <2>2, KeepsSorted DEF Shape
  <2>4. ASSUME Finishing'
        PROVE  (work[run.work].status \in {"COMPLETED", "CANCELLED"} \/ Spent(run.work) < MaxAttempts)'
    <3>1. Finishing
      BY <2>1, <2>4 DEF Finishing
    <3>2. run.work \in Works
      BY <2>1 DEF Control, At, InDelivery
    <3>3. \A k \in Attempts : op'[<<run.work, k>>] \in {"fault", "consumed"}
                                => op[<<run.work, k>>] \in {"fault", "consumed"}
      BY <2>1, <3>2 DEF OpIds, Shape
    <3>4. \A w \in Works : w = run.work => Spent(w)' <= Spent(w) /\ Spent(w) \in Nat /\ Spent(w)' \in Nat
      BY <3>3, SpentShrinks
    <3> QED
      BY <2>1, <3>1, <3>2, <3>4, DeliveryAssumption DEF Ordinals
  <2> QED
    BY <2>1, <2>3, <2>4 DEF Sorted, Ordinals, At
<1>10. CASE Owner
  <2>1. /\ UNCHANGED op /\ work' \in {work, Freed(Target[1])}
        /\ work' # work => work[Target[1]].status = "BLOCKED"
        /\ Target[1] \in Works /\ run.work \in Works
    BY <1>10 DEF Owner, repo, At, Target, Control, OpIds
  <2>2. \A w \in Works : Retriable(w)' => Retriable(w)
    BY <2>1 DEF Retriable, Freed, Shape, WorkRows
  <2>3. Sorted'
    BY <2>1, <2>2, KeepsSorted
  <2>4. CASE run' = Idle
    BY <2>3, <2>4, StoppedIsIdle, IdleOrdinals
  <2>5. CASE run' # Idle
    <3>1. run'.at = "resume" /\ run'.work = run.work /\ Finishing
      BY <1>10, <2>5 DEF Owner, Goto, Shape, Runs, Control, At, Finishing
    <3>2. work[run.work].status \in {"COMPLETED", "CANCELLED"} =>
            work'[run.work].status = work[run.work].status
      BY <2>1 DEF Freed, Shape, WorkRows
    <3>3. (work[run.work].status \in {"COMPLETED", "CANCELLED"} \/ Spent(run.work) < MaxAttempts)'
      BY <2>1, <3>1, <3>2 DEF Ordinals, Spent
    <3> QED
      BY <2>3, <3>1, <3>3 DEF Sorted, Ordinals, At
  <2> QED
    BY <2>4, <2>5
<1>11. CASE Complete
  <2>1. run.work \in Works /\ work[run.work].status = "RUNNING"
    BY <1>11 DEF Complete, At, Control
  <2>2. \A w \in Works : Retriable(w)' => Retriable(w)
    BY <1>11, <2>1 DEF Complete, Retriable, Shape, WorkRows
  <2> QED
    BY <1>11, <2>2, KeepsSorted, StoppedIsIdle, IdleOrdinals DEF Complete
<1>12. CASE Block
  <2>1. run.work \in Works /\ UNCHANGED op
    BY <1>12 DEF Block, At, Control
  <2>2. ASSUME NEW w \in Works, Retriable(w)' PROVE ~Conflicting(w)
    <3>1. CASE w = run.work
      <4>1. work'[w].failure = run.within
        BY <1>12, <2>1, <3>1 DEF Block, Shape, WorkRows
      <4>2. run.within = "environment" /\ At("block")
        BY <1>12, <2>2, <4>1 DEF Retriable, Block
      <4> QED
        BY <3>1, <4>2 DEF Ordinals
    <3>2. CASE w # run.work
      <4>1. Retriable(w)
        BY <1>12, <2>1, <2>2, <3>2 DEF Block, Retriable, Shape
      <4> QED
        BY <4>1 DEF Ordinals
    <3> QED
      BY <3>1, <3>2
  <2>3. Sorted'
    BY <2>1, <2>2 DEF Sorted, Ordinals, InOrder, Conflicting
  <2> QED
    BY <1>12, <2>3, StoppedIsIdle, IdleOrdinals DEF Block
<1>13. ASSUME NEW id \in OpIds, FinishPending(id) PROVE Ordinals'
  <2>1. run'.at = "checking" /\ run'.work = run.work /\ run.at = "resume" /\ run.within # "drive"
    BY <1>13 DEF FinishPending, Shape, Runs, At, Control
  <2> QED
    BY <1>13, <2>1, GoesOnOrdinals DEF FinishPending, Finishing
<1> QED
  BY <1>1, <1>2, <1>3, <1>4, <1>5, <1>6, <1>7, <1>8, <1>9, <1>10, <1>11, <1>12, <1>13
  DEF Program

LEMMA StepOrdinals == Shape /\ Control /\ Ordinals /\ [Next]_vars => Ordinals'
<1> SUFFICES ASSUME Shape, Control, Ordinals, [Next]_vars PROVE Ordinals'
  OBVIOUS
<1>1. CASE UNCHANGED <<work, op, run>>
  BY <1>1 DEF Ordinals, InOrder, Retriable, Conflicting, At, Finishing, Spent, NextOrdinal
<1>2. CASE ByTheUser
  BY <1>1, <1>2 DEF ByTheUser, CommitAll, Edit, Restore, Stage, ByUser
<1>3. CASE UNCHANGED vars
  BY <1>1, <1>3 DEF vars
<1> QED
  BY <1>2, <1>3, OperatorOrdinals, CommandOrdinals, FailureOrdinals DEF Next

-----------------------------------------------------------------------------
(* What is on the branch, and what the store and the command say of it.    *)

LEMMA InitLandings == Init => Landings
<1> SUFFICES ASSUME Init PROVE Landings
  OBVIOUS
<1>1. Stored
  BY DEF Init, Stored, Journaled, Unjournaled
<1>2. Held
  BY DEF Init, Held, Idle, At, InDelivery
<1> QED
  BY <1>1, <1>2 DEF Landings

(* Nothing that is on the branch leaves it.                                *)
LEMMA LandedStays ==
  ASSUME Shape, Control, Landings, [Next]_vars
  PROVE  /\ \A id : Landed(id) => Landed(id)'
         /\ \A w : ByWork(branch, w) => ByWork(branch, w)'
         /\ \A p : Committed(p) => Committed(p)'
<1>1. CASE UNCHANGED branch
  BY <1>1 DEF Landed, ByWork, Committed
<1>2. ASSUME NEW c \in Commits, branch' = Append(branch, c)
      PROVE  \A i \in DOMAIN branch : i \in DOMAIN branch' /\ branch'[i] = branch[i]
  BY <1>2, AppendFacts DEF Shape
<1>3. ASSUME NEW c \in Commits, branch' = Append(branch, c)
      PROVE  /\ \A id : Landed(id) => Landed(id)'
             /\ \A w : ByWork(branch, w) => ByWork(branch, w)'
             /\ \A p : Committed(p) => Committed(p)'
  BY <1>2, <1>3 DEF Landed, ByWork, Committed
<1> QED
  BY <1>1, <1>3, Grows

(* A commit of an operation lands its operation and its work.              *)
LEMMA RevisionLands ==
  ASSUME Shape, Landings, NEW id \in OpIds, Journaled(id)
  PROVE  /\ branch = Revision(id) => Landed(id)
         /\ branch' = Revision(id) => Landed(id)'
<1>1. PICK b \in Seq(Commits), c \in Commits : Revision(id) = Append(b, c) /\ c.by = id
  BY RevisionFacts
<1>2. Len(b) + 1 \in DOMAIN Append(b, c) /\ Append(b, c)[Len(b) + 1] = c
  BY AppendFacts
<1> QED
  BY <1>1, <1>2 DEF Landed

LEMMA LandedByWork ==
  ASSUME NEW id, Landed(id)
  PROVE  ByWork(branch, id[1])
  BY DEF Landed, ByWork

(* A step admits a new work on the branch as it is, or leaves the commit   *)
(* every work was admitted on; it completes a work only at "complete".     *)
WorkKept(w) ==
  /\ work'[w].source = work[w].source
  /\ work'[w].status = "none" <=> work[w].status = "none"
  /\ work'[w].status = "COMPLETED" => work[w].status = "COMPLETED" \/ (At("complete") /\ w = run.work)
WorkAdmitted(w) ==
  Admit(w) /\ work[w].status = "none" /\ work'[w].status = "READY" /\ work'[w].source = branch
LEMMA WorkStep ==
  ASSUME Shape, Control, Ordinals, [Next]_vars, NEW w \in Works
  PROVE  WorkKept(w) \/ WorkAdmitted(w)
<1> USE DEF WorkKept
<1>1. CASE UNCHANGED work
  BY <1>1
<1>2. ASSUME NEW v \in Works, work' = Freed(v), work[v].status # "none" PROVE WorkKept(w)
  BY <1>2 DEF Freed, Shape, WorkRows
<1>3. CASE Operator
  <2>1. ASSUME NEW v \in Works, Admit(v) PROVE WorkKept(w) \/ WorkAdmitted(w)
    BY <2>1 DEF Admit, Shape, WorkRows, WorkAdmitted
  <2>2. ASSUME NEW v \in Works, Cancel(v) PROVE WorkKept(w)
    BY <2>2 DEF Cancel, Shape, WorkRows
  <2>3. ASSUME NEW id \in OpIds, Reconcile(id) PROVE WorkKept(w)
    <3>1. id[1] \in Works
      BY DEF OpIds
    <3>2. work[id[1]].status # "BLOCKED" => work' = work
      BY <2>3, Zenon DEF Reconcile
    <3>3. work' \in {work, Freed(id[1])}
      BY <2>3, Zenon DEF Reconcile
    <3> QED
      BY <1>1, <1>2, <3>1, <3>2, <3>3
  <2> QED
    BY <1>1, <1>3, <2>1, <2>2, <2>3 DEF Operator, Resume, Answer
<1>4. CASE Program
  <2>1. CASE Wake
    <3>1. run.work \in Works /\ work[run.work].status # "none"
      BY <2>1 DEF Wake, Control, At
    <3>2. \/ UNCHANGED work \/ work' = Freed(run.work)
          \/ /\ work' = [work EXCEPT ![run.work].status = "READY"]
      BY <2>1 DEF Wake
    <3> QED
      BY <1>1, <1>2, <3>1, <3>2 DEF Shape, WorkRows
  <2>2. CASE Drive
    <3>1. run.work \in Works /\ work[run.work].status # "none"
          /\ work' = [work EXCEPT ![run.work].status = "RUNNING"]
      BY <2>2 DEF Drive, Replay, Refuse, Register, Control, At
    <3> QED
      BY <3>1 DEF Shape, WorkRows
  <2>3. CASE Owner
    <3>1. Target[1] \in Works /\ (UNCHANGED work \/ (work' = Freed(Target[1]) /\ work[Target[1]].status = "BLOCKED"))
      BY <2>3 DEF Owner, Control, At, Target, OpIds
    <3> QED
      BY <1>1, <1>2, <3>1
  <2>4. CASE Block
    <3>1. run.work \in Works /\ work[run.work].status = "RUNNING"
      BY <2>4 DEF Block, Control, At
    <3> QED
      BY <2>4, <3>1 DEF Block, Shape, WorkRows
  <2>5. CASE Complete
    <3>1. run.work \in Works /\ work[run.work].status = "RUNNING" /\ At("complete")
      BY <2>5 DEF Complete, Control, At
    <3> QED
      BY <2>5, <3>1 DEF Complete, Shape, WorkRows
  <2> QED
    BY <1>1, <1>4, <2>1, <2>2, <2>3, <2>4, <2>5
    DEF Program, Deliver, WriteJournal, Check, Name, ResetIndex, Mark, Settle, FinishPending, Write
<1>5. CASE ByTheUser \/ Failure \/ UNCHANGED vars
  BY <1>1, <1>5 DEF ByTheUser, CommitAll, Edit, Restore, Stage, ByUser, Failure, Crash, Interrupt,
     GitFails, WriteFails, vars
<1> QED
  BY <1>3, <1>4, <1>5 DEF Next

(* What is reported as completed is never taken back.                      *)
LEMMA CompletedStays ==
  ASSUME Shape, Control, Ordinals, [Next]_vars, NEW w \in Works, work[w].status = "COMPLETED"
  PROVE  work'[w].status = "COMPLETED"
<1>1. CASE UNCHANGED work
  BY <1>1
<1>3. CASE Operator
  <2>1. ASSUME NEW v \in Works, Admit(v) \/ Cancel(v) PROVE work'[w].status = "COMPLETED"
    BY <2>1 DEF Admit, Cancel, Shape, WorkRows
  <2>2. ASSUME NEW id \in OpIds, Reconcile(id) PROVE work'[w].status = "COMPLETED"
    <3>1. id[1] \in Works
      BY DEF OpIds
    <3>2. work[id[1]].status # "BLOCKED" => work' = work
      BY <2>2, Zenon DEF Reconcile
    <3>3. work' \in {work, Freed(id[1])}
      BY <2>2, Zenon DEF Reconcile
    <3> QED
      BY <1>1, <3>1, <3>2, <3>3 DEF Freed, Shape
  <2> QED
    BY <1>1, <1>3, <2>1, <2>2 DEF Operator, Resume, Answer
<1>4. CASE Program
  <2>1. CASE Wake
    <3>1. UNCHANGED work \/ (/\ work[run.work].status # "COMPLETED"
                             /\ work' \in {Freed(run.work), [work EXCEPT ![run.work].status = "READY"]})
      BY <2>1 DEF Wake
    <3> QED
      BY <1>1, <3>1 DEF Freed, Shape
  <2>2. CASE Drive
    <3>1. work[run.work].status = "READY" /\ work' = [work EXCEPT ![run.work].status = "RUNNING"]
      BY <2>2 DEF Drive, Replay, Refuse, Register, Control, At
    <3> QED
      BY <3>1 DEF Shape
  <2>3. CASE Owner
    <3>1. UNCHANGED work \/ (work' = Freed(Target[1]) /\ work[Target[1]].status = "BLOCKED")
      BY <2>3 DEF Owner
    <3> QED
      BY <1>1, <3>1 DEF Freed, Shape
  <2>4. CASE Block
    BY <2>4 DEF Block, Control, At, Shape
  <2>5. CASE Complete
    BY <2>5 DEF Complete, Shape, WorkRows
  <2> QED
    BY <1>1, <1>4, <2>1, <2>2, <2>3, <2>4, <2>5
    DEF Program, Deliver, WriteJournal, Check, Name, ResetIndex, Mark, Settle, FinishPending, Write
<1>5. CASE ByTheUser \/ Failure \/ UNCHANGED vars
  BY <1>1, <1>5 DEF ByTheUser, CommitAll, Edit, Restore, Stage, ByUser, Failure, Crash, Interrupt,
     GitFails, WriteFails, vars
<1> QED
  BY <1>3, <1>4, <1>5 DEF Next

(* Journals are written once per delivery and then only marked.            *)
JournalKept(id) ==
  /\ journal'[id].base = journal[id].base /\ journal'[id].before = journal[id].before
  /\ Journaled(id)' <=> Journaled(id)
JournalWritten(id) ==
  /\ At("journal") /\ id = run.target
  /\ journal'[id].base = run.head
  /\ journal'[id].before = [p \in Touched[run.work] |-> file[p]]
  /\ Journaled(id)' /\ UNCHANGED <<file, branch>>
LEMMA JournalStep ==
  ASSUME Shape, Control, Landings, [Next]_vars, NEW id \in OpIds
  PROVE  JournalKept(id) \/ JournalWritten(id)
<1>1. CASE UNCHANGED journal
  BY <1>1 DEF JournalKept, Journaled
<1>2. CASE WriteJournal
  BY <1>2 DEF WriteJournal, JournalKept, JournalWritten, Journaled, Shape, Journals, repo
<1>3. CASE Mark
  <2>1. Target \in OpIds /\ Journaled(Target)
    BY <1>3 DEF Mark, At, Target, Control, Active, Landings, Held, InDelivery
  <2> QED
    BY <1>3, <2>1 DEF Mark, JournalKept, Journaled, Shape, Journals
<1>4. CASE ByTheUser
  BY <1>1, <1>4 DEF ByTheUser, CommitAll, Edit, Restore, Stage, ByUser
<1>5. CASE Operator
  BY <1>1, <1>5 DEF Operator, Admit, Resume, Answer, Cancel, Reconcile
<1>6. CASE Program /\ ~WriteJournal /\ ~Mark
  BY <1>1, <1>6 DEF Program, Wake, Drive, Deliver, Check, Name, ResetIndex, Settle, Owner, Block,
     Complete, FinishPending, Write
<1>7. CASE Failure \/ UNCHANGED vars
  BY <1>1, <1>7 DEF Failure, Crash, Interrupt, GitFails, WriteFails, vars
<1> QED
  BY <1>2, <1>3, <1>4, <1>5, <1>6, <1>7 DEF Next

(* An operation is confirmed by the command that finished its delivery or  *)
(* by the operator who found its commit.                                   *)
LEMMA OpStep ==
  ASSUME Shape, Control, [Next]_vars, NEW id \in OpIds, op'[id] = "CONFIRMED"
  PROVE  op[id] = "CONFIRMED" \/ (At("settling") /\ id = Target) \/ (At("idle") /\ Landed(id))
<1>1. CASE UNCHANGED op
  BY <1>1
<1>2. ASSUME NEW state, NEW category, state # "CONFIRMED", Raise(state, category)
      PROVE  op[id] = "CONFIRMED"
  BY <1>2 DEF Raise, Shape
<1>3. CASE Operator
  <2>1. ASSUME NEW w \in Works, Resume(w) PROVE op[id] = "CONFIRMED"
    BY <2>1 DEF Resume, Orphaned
  <2>2. ASSUME NEW v \in OpIds, Reconcile(v) PROVE op[id] = "CONFIRMED" \/ (At("idle") /\ Landed(id))
    BY <2>2 DEF Reconcile, Reconciled, Shape
  <2> QED
    BY <1>1, <1>3, <2>1, <2>2 DEF Operator, Admit, Answer, Cancel
<1>4. CASE Program
  <2>1. CASE Wake
    BY <2>1 DEF Wake
  <2>2. CASE Drive
    BY <2>2 DEF Drive, Replay, Refuse, Register, Shape
  <2>3. CASE Deliver \/ Check \/ Name
    BY <1>1, <1>2, <2>3 DEF Deliver, Check, Name
  <2>4. CASE Settle
    BY <2>4 DEF Settle, Shape
  <2> QED
    BY <1>1, <1>4, <2>1, <2>2, <2>3, <2>4
    DEF Program, WriteJournal, ResetIndex, Mark, Owner, Block, Complete, FinishPending, Write
<1>5. CASE Failure
  <2>1. CASE Interrupt
    BY <2>1 DEF Interrupt, Shape
  <2> QED
    BY <1>1, <1>2, <1>5, <2>1 DEF Failure, Crash, GitFails, WriteFails
<1>6. CASE ByTheUser \/ UNCHANGED vars
  BY <1>1, <1>6 DEF ByTheUser, CommitAll, Edit, Restore, Stage, ByUser, vars
<1> QED
  BY <1>3, <1>4, <1>5, <1>6 DEF Next

LEMMA StepStored == Shape /\ Control /\ Ordinals /\ Landings /\ [Next]_vars => Stored'
<1> SUFFICES ASSUME Shape, Control, Ordinals, Landings, [Next]_vars PROVE Stored'
  OBVIOUS
<1>1. ASSUME NEW w \in Works PROVE (work[w].status = "none" <=> work[w].source = <<>>)'
  BY WorkStep DEF WorkKept, WorkAdmitted, Landings, Stored, Shape
<1>2. ASSUME NEW id \in OpIds, Journaled(id)'
      PROVE  journal'[id].base = work'[id[1]].source /\ work'[id[1]].status # "none"
  <2>1. id[1] \in Works
    BY DEF OpIds
  <2>2. CASE JournalKept(id)
    <3>1. Journaled(id) /\ journal[id].base = work[id[1]].source /\ work[id[1]].status # "none"
      BY <1>2, <2>2 DEF JournalKept, Landings, Stored
    <3> QED
      BY <2>1, <2>2, <3>1, WorkStep DEF JournalKept, WorkKept, WorkAdmitted
  <2>3. CASE JournalWritten(id)
    <3>1. id[1] = run.work /\ run.head = work[run.work].source /\ work[run.work].status # "none"
      BY <2>3 DEF JournalWritten, Landings, Held, Control, At, Driving, Active
    <3> QED
      BY <2>1, <2>3, <3>1, WorkStep DEF JournalWritten, WorkKept, WorkAdmitted
  <2> QED
    BY <2>2, <2>3, JournalStep
<1>3. ASSUME NEW id \in OpIds, op'[id] = "CONFIRMED" PROVE Landed(id)'
  <2>1. Landed(id)
    BY <1>3, OpStep DEF Landings, Stored, Held, At
  <2> QED
    BY <2>1, LandedStays
<1>4. ASSUME NEW w \in Works, work'[w].status = "COMPLETED" PROVE ByWork(branch, w)'
  <2>1. ByWork(branch, w)
    BY <1>4, WorkStep DEF WorkKept, WorkAdmitted, Landings, Stored, Held
  <2> QED
    BY <2>1, LandedStays
<1> QED
  BY <1>1, <1>2, <1>3, <1>4 DEF Stored

(* A step that stays at its place, one that leaves the delivery, and one   *)
(* that goes on within it keep what the command holds.                     *)
LEMMA HeldOut == run'.at \notin {"journal", "complete"} \cup InDelivery => Held'
  BY DEF Held, At, InDelivery

LEMMA HeldOnward ==
  ASSUME Shape, Control, Ordinals, Landings, [Next]_vars,
         run.at \in InDelivery, run'.at \in InDelivery, run'.target = run.target,
         run'.at \in {"writing", "marking", "settling"} => Landed(Target) \/ Landed(Target)'
  PROVE  Held'
<1>1. Target \in OpIds /\ Journaled(Target) /\ Target' = Target
  BY DEF Target, Control, Active, Landings, Held
<1>2. Journaled(Target)'
  BY <1>1, JournalStep DEF JournalKept, JournalWritten
<1>3. run'.at \in {"writing", "marking", "settling"} => Landed(Target)'
  BY <1>1, LandedStays
<1> QED
  BY <1>2, <1>3 DEF Held, At, InDelivery

LEMMA HeldStays ==
  ASSUME Shape, Control, Ordinals, Landings, [Next]_vars,
         run'.at = run.at, run'.work = run.work, run'.target = run.target, run'.head = run.head
  PROVE  Held'
<1>1. CASE run.at \in InDelivery
  BY <1>1, HeldOnward DEF Landings, Held
<1>2. CASE At("journal")
  <2>1. work'[run.work].source = work[run.work].source
    BY <1>2, WorkStep DEF WorkKept, WorkAdmitted, Control, At
  <2> QED
    BY <1>2, <2>1 DEF Landings, Held, At, InDelivery
<1>3. CASE At("complete")
  BY <1>3, LandedStays DEF Landings, Held, At, InDelivery
<1> QED
  BY <1>1, <1>2, <1>3, HeldOut DEF At

LEMMA StepHeld == Shape /\ Control /\ Ordinals /\ Landings /\ [Next]_vars => Held'
<1> SUFFICES ASSUME Shape, Control, Ordinals, Landings, [Next]_vars PROVE Held'
  OBVIOUS
<1>1. CASE UNCHANGED run
  BY <1>1, HeldStays
<1>2. CASE run' = Idle
  BY <1>2, HeldOut DEF Idle, InDelivery
<1>3. ASSUME NEW state, NEW category, Raise(state, category) PROVE Held'
  <2>1. run' = Idle \/ run'.at = "block"
    BY <1>3 DEF Raise, Shape, Runs
  <2> QED
    BY <1>2, <2>1, HeldOut DEF InDelivery
<1>4. CASE Operator
  <2>1. ASSUME NEW w \in Works, Command(w) PROVE Held'
    BY <2>1, HeldOut DEF Command, Idle, InDelivery
  <2> QED
    BY <1>1, <1>4, <2>1 DEF Operator, Admit, Resume, Answer, Cancel, Reconcile
<1>5. CASE Wake
  <2>1. run' = Idle \/ run'.at = "drive"
    BY <1>5 DEF Wake, Goto, Shape, Runs
  <2> QED
    BY <1>2, <2>1, HeldOut DEF InDelivery
<1>6. CASE Drive
  <2> DEFINE id == <<run.work, NextOrdinal(run.work)>>
  <2>1. run.work \in Works /\ id \in OpIds /\ id[1] = run.work
    <3>1. run.work \in Works
      BY <1>6 DEF Drive, Control, At
    <3> QED
      BY <1>6, <3>1, NextIsAttempt DEF Drive, OpIds
  <2>2. ASSUME Replay(id) PROVE Held'
    <3>1. Landed(id)
      BY <2>1, <2>2 DEF Replay, Landings, Stored
    <3>2. ByWork(branch, run.work)'
      BY <2>1, <3>1, LandedByWork, LandedStays, <2>2 DEF Replay, Goto, Shape, Runs
    <3>3. run'.at = "complete"
      BY <2>2 DEF Replay, Goto, Shape, Runs
    <3> QED
      BY <3>2, <3>3 DEF Held, At, InDelivery
  <2>3. ASSUME Refuse(id) \/ Register(id) PROVE Held'
    BY <2>3, HeldOut DEF Refuse, Register, Shape, Runs, InDelivery
  <2> QED
    BY <1>6, <2>2, <2>3 DEF Drive
<1>7. CASE Deliver
  <2>1. CASE Deliverable(run.work) /\ run' = [run EXCEPT !.at = "journal", !.head = branch]
    <3>1. run'.at = "journal" /\ run'.head = branch /\ run'.work = run.work
      BY <2>1 DEF Shape, Runs
    <3>2. branch = work[run.work].source /\ UNCHANGED work
      BY <1>7, <2>1 DEF Deliver, Deliverable, SameBase
    <3> QED
      BY <3>1, <3>2 DEF Held, At, InDelivery
  <2> QED
    BY <1>3, <1>7, <2>1 DEF Deliver
<1>8. CASE WriteJournal
  <2>1. run'.at = "checking" /\ run'.target = run.target
    BY <1>8 DEF WriteJournal, Shape, Runs
  <2>2. Journaled(run.target)'
    BY <1>8 DEF WriteJournal, Journaled, Shape, Control, At, Active
  <2> QED
    BY <2>1, <2>2 DEF Held, At, InDelivery, Target
<1>9. CASE Check
  <2>1. CASE Unclaimed(Target) /\ run' = [run EXCEPT !.todo = PathsOf(Target), !.at = Onward(Target)]
    <3>1. run'.at = Onward(Target) /\ run'.target = run.target /\ Onward(Target) \in {"naming", "writing"}
      BY <2>1 DEF Shape, Runs, Onward
    <3>2. run.at \in InDelivery /\ Target \in OpIds /\ Journaled(Target)
      BY <1>9 DEF Check, At, InDelivery, Active, Control, Landings, Held, Target
    <3>3. Onward(Target) = "writing" => Landed(Target)
      BY <2>1, <3>2, RevisionLands DEF Unclaimed, Ours, Onward
    <3> QED
      BY <3>1, <3>2, <3>3, HeldOnward DEF InDelivery
  <2> QED
    BY <1>3, <1>9, <2>1 DEF Check
<1>10. CASE Name
  <2>1. CASE branch' = Revision(Target) /\ Goto("writing")
    <3>1. run'.at = "writing" /\ run'.target = run.target
      BY <2>1 DEF Goto, Shape, Runs
    <3>2. run.at \in InDelivery /\ Target \in OpIds /\ Journaled(Target)
      BY <1>10 DEF Name, At, InDelivery, Active, Control, Landings, Held, Target
    <3>3. Landed(Target)'
      <4>1. Target' = Target
        BY <3>1 DEF Target
      <4> QED
        BY <2>1, <3>2, <4>1, RevisionLands
    <3> QED
      BY <3>1, <3>2, <3>3, HeldOnward DEF InDelivery
  <2> QED
    BY <1>3, <1>10, <2>1 DEF Name
<1>11. ASSUME NEW p \in Paths, Write(p) PROVE Held'
  BY <1>11, HeldStays DEF Write, Shape, Runs
<1>12. CASE ResetIndex \/ Mark
  <2>1. run.at \in {"writing", "marking"} /\ run'.at \in {"marking", "settling"} /\ run'.target = run.target
    BY <1>12 DEF ResetIndex, Mark, Goto, At, Shape, Runs
  <2> QED
    BY <2>1, HeldOnward DEF InDelivery, Landings, Held
<1>13. CASE Settle
  <2>1. CASE run.within = "drive"
    <3>1. run'.at = "complete" /\ run'.work = run.work
      BY <1>13, <2>1 DEF Settle, Goto, Shape, Runs
    <3>2. Landed(Target) /\ Target[1] = run.work
      BY <1>13, <2>1 DEF Settle, At, Landings, Held, Control, Driving, Active, InDelivery, Target
    <3>3. ByWork(branch, run.work)'
      BY <3>1, <3>2, LandedByWork, LandedStays
    <3> QED
      BY <3>1, <3>3 DEF Held, At, InDelivery
  <2>2. CASE run.within # "drive"
    <3>1. run'.at = "owner"
      BY <1>13, <2>2 DEF Settle, Goto, Shape, Runs
    <3> QED
      BY <3>1, HeldOut DEF InDelivery
  <2> QED
    BY <2>1, <2>2
<1>14. CASE Owner
  <2>1. run' = Idle \/ run'.at = "resume"
    BY <1>14 DEF Owner, Goto, Shape, Runs
  <2> QED
    BY <1>2, <2>1, HeldOut DEF InDelivery
<1>15. ASSUME NEW id \in OpIds, FinishPending(id) PROVE Held'
  <2>1. run'.at = "checking" /\ run'.target = id /\ Journaled(id) /\ UNCHANGED journal
    BY <1>15 DEF FinishPending, Interrupted, Journaled, Shape, Runs
  <2> QED
    BY <2>1 DEF Held, At, InDelivery, Target, Journaled
<1>16. CASE Failure
  BY <1>2, <1>3, <1>16 DEF Failure, Crash, Interrupt, GitFails, WriteFails
<1>17. CASE ByTheUser \/ UNCHANGED vars
  BY <1>1, <1>17 DEF ByTheUser, CommitAll, Edit, Restore, Stage, ByUser, vars
<1>18. CASE Program
  BY <1>2, <1>5, <1>6, <1>7, <1>8, <1>9, <1>10, <1>11, <1>12, <1>13, <1>14, <1>15, <1>18
  DEF Program, Block, Complete
<1> QED
  BY <1>4, <1>16, <1>17, <1>18 DEF Next

-----------------------------------------------------------------------------
(* What the user has not committed is not overwritten.                     *)

LEMMA InitEdits == Init => Edits
  BY DEF Init, Edits, Watched, Quiet, Journaled, Unjournaled, Idle, At

(* Only the user counts his acts, and only he races with a delivery.       *)
LEMMA CalmStep ==
  ASSUME Shape, [Next]_vars
  PROVE  /\ calm' => calm
         /\ calm' /\ ~At("idle") => ~ByTheUser
         /\ raced => raced'
         /\ acts' = acts => ~ByTheUser
<1>1. CASE ByTheUser
  <2>1. ByUser /\ acts' # acts
    BY <1>1 DEF ByTheUser, CommitAll, Edit, Restore, Stage, ByUser, Shape
  <2>2. raced => raced'
    BY <1>1 DEF ByTheUser, CommitAll, Edit, Restore, Stage
  <2> QED
    BY <2>1, <2>2 DEF ByUser
<1>2. CASE UNCHANGED <<calm, raced, acts>>
  <2>1. ByTheUser => acts' # acts
    BY DEF ByTheUser, CommitAll, Edit, Restore, Stage, ByUser, Shape
  <2> QED
    BY <1>2, <2>1
<1>3. CASE UNCHANGED vars
  BY <1>2, <1>3 DEF vars
<1>4. CASE Operator
  <2>1. ByCommand
    BY <1>4 DEF Operator, Admit, Resume, Answer, Cancel, Reconcile
  <2> QED
    BY <1>2, <2>1 DEF ByCommand
<1>5. CASE Program
  <2>1. ByCommand
    BY <1>5 DEF Program, Wake, Drive, Deliver, WriteJournal, Check, Name, ResetIndex, Mark,
       Settle, Owner, Block, Complete, FinishPending, Write
  <2> QED
    BY <1>2, <2>1 DEF ByCommand
<1>6. CASE Failure
  <2>1. ByCommand
    BY <1>6 DEF Failure, Crash, Interrupt, GitFails, WriteFails, Failing
  <2> QED
    BY <1>2, <2>1 DEF ByCommand
<1> QED
  BY <1>1, <1>3, <1>4, <1>5, <1>6 DEF Next

(* The journal of a delivery is written over paths whose content the user  *)
(* has committed: what it remembers of him is committed.                   *)
Remembers ==
  \A id \in OpIds : Journaled(id) =>
    \A p \in PathsOf(id) : journal[id].before[p] = User => Committed(p)
LEMMA StepRemembers ==
  ASSUME Shape, Control, Ordinals, Landings, Edits, [Next]_vars, ~raced'
  PROVE  Remembers'
<1> SUFFICES ASSUME NEW id \in OpIds, Journaled(id)', NEW p \in PathsOf(id),
                    journal'[id].before[p] = User
             PROVE  Committed(p)'
  BY DEF Remembers, PathsOf
<1>1. Watched
  BY CalmStep DEF Edits
<1>2. CASE JournalKept(id)
  <2>1. Committed(p)
    BY <1>1, <1>2 DEF JournalKept, Watched
  <2> QED
    BY <2>1, LandedStays
<1>3. CASE JournalWritten(id)
  <2>1. id[1] = run.work /\ At("journal")
    BY <1>3 DEF JournalWritten, Control, Driving, Active, At
  <2>2. p \in Paths /\ p \in Touched[run.work]
    BY <2>1, DeliveryAssumption DEF PathsOf, OpIds
  <2>3. file[p] = User
    BY <1>3, <2>2 DEF JournalWritten
  <2>4. Committed(p)
    BY <1>1, <2>1, <2>2, <2>3 DEF Watched
  <2> QED
    BY <2>4, LandedStays
<1> QED
  BY <1>2, <1>3, JournalStep

LEMMA EditsOut ==
  ASSUME Shape, Control, Ordinals, Landings, Edits, [Next]_vars,
         run'.at \notin {"journal", "naming", "writing", "marking", "settling"}
  PROVE  Edits'
<1>1. ~raced' => Remembers'
  BY StepRemembers
<1> QED
  BY <1>1 DEF Edits, Watched, Quiet, Remembers, At

(* A step that leaves files and command alone keeps the edits.             *)
LEMMA EditsStay ==
  ASSUME Shape, Control, Ordinals, Landings, Edits, [Next]_vars, UNCHANGED <<run, file, index, branch>>
  PROVE  Edits'
<1>1. (~raced' => Remembers' /\ Watched) /\ (calm' => Quiet)
  BY StepRemembers, CalmStep DEF Edits
<1>2. run' = run /\ file' = file /\ index' = index /\ branch' = branch
  OBVIOUS
<1>3. At("naming")' => run'.todo = PathsOf(Target)'
  BY <1>2 DEF Edits, At, PathsOf, Target
<1>4. ~raced' => Watched'
  BY <1>1, <1>2 DEF Watched, Remembers, At, Committed
<1>5. calm' => Quiet'
  BY <1>1, <1>2 DEF Quiet, At, PathsOf, Target
<1> QED
  BY <1>3, <1>4, <1>5 DEF Edits

(* The last commit is a commit.                                            *)
LEMMA HeadCommitted ==
  ASSUME Shape, NEW p \in Paths, HeadTree(branch)[p] = User
  PROVE  Committed(p)
  BY HeadTreeType DEF Committed, HeadTree, Last, Shape

(* The user changes a path on which no look is due only by committing what *)
(* he has, or by taking back what is committed.                            *)
LEMMA UserWatched ==
  ASSUME Shape, Control, Ordinals, Landings, Edits, ByTheUser, [Next]_vars, ~raced'
  PROVE  Watched'
<1>1. Watched /\ Remembers' /\ UNCHANGED run
  BY StepRemembers, CalmStep DEF Edits, ByTheUser, CommitAll, Edit, Restore, Stage, ByUser
<1>2. ASSUME NEW p \in Paths, Unwatched(p), file'[p] = User
      PROVE  Committed(p)'
  <2>1. \/ file[p] = User \/ HeadTree(branch)[p] = User
    <3>1. CASE \E q \in Paths : Edit(q)
      <4>1. PICK q \in Paths : Edit(q)
        BY <3>1
      <4>2. q # p
        BY <1>2, <4>1 DEF Edit
      <4> QED
        BY <1>2, <4>1, <4>2 DEF Edit, Shape
    <3>2. CASE \E q \in Paths : Restore(q)
      BY <1>2, <3>2 DEF Restore, Shape
    <3>3. CASE CommitAll \/ \E q \in Paths : Stage(q)
      BY <1>2, <3>3 DEF CommitAll, Stage
    <3> QED
      BY <3>1, <3>2, <3>3 DEF ByTheUser
  <2>2. CASE file[p] = User
    <3>1. Committed(p)
      BY <1>1, <1>2, <2>2, DeliveryAssumption DEF Unwatched, Watched
    <3> QED
      BY <3>1, LandedStays
  <2>3. CASE HeadTree(branch)[p] = User
    BY <2>3, HeadCommitted, LandedStays
  <2> QED
    BY <2>1, <2>2, <2>3
<1>3. At("journal") => Touched[run.work] \subseteq Paths
  BY DeliveryAssumption DEF Control, Driving, Active, At, Shape
<1>4. run.todo \subseteq Paths
  BY DEF Shape, Runs
<1> QED
  BY <1>1, <1>2, <1>3, <1>4 DEF Watched, Remembers, Unwatched, At

LEMMA StepEdits == Shape /\ Control /\ Ordinals /\ Landings /\ Edits /\ [Next]_vars => Edits'
<1> SUFFICES ASSUME Shape, Control, Ordinals, Landings, Edits, [Next]_vars PROVE Edits'
  OBVIOUS
<1>0. (~raced' => Remembers' /\ Watched) /\ (calm' => Quiet)
  BY StepRemembers, CalmStep DEF Edits
<1>100. \A p : Committed(p) => Committed(p)'
  BY LandedStays
<1>1. CASE run' = Idle
  BY <1>1, EditsOut DEF Idle
<1>2. ASSUME NEW state, NEW category, Raise(state, category) PROVE Edits'
  <2>1. run' = Idle \/ run'.at = "block"
    BY <1>2 DEF Raise, Shape, Runs
  <2> QED
    BY <1>1, <2>1, EditsOut
<1>3. CASE ByTheUser
  <2>1. UNCHANGED run
    BY <1>3 DEF ByTheUser, CommitAll, Edit, Restore, Stage, ByUser
  <2>2. CASE At("idle")
    BY <2>1, <2>2, EditsOut DEF At
  <2>3. CASE ~At("idle")
    <3>1. calm' = FALSE
      BY <1>3, <2>3, CalmStep, Zenon DEF ByTheUser, CommitAll, Edit, Restore, Stage, ByUser
    <3>2. At("naming")' => run'.todo = PathsOf(Target)'
      BY <2>1 DEF Edits, At, PathsOf, Target
    <3> QED
      BY <1>3, <3>1, <3>2, UserWatched DEF Edits
  <2> QED
    BY <2>2, <2>3
<1>4. CASE Operator
  <2>1. run'.at \in {"idle", "resume"}
    BY <1>4 DEF Operator, Admit, Resume, Answer, Cancel, Reconcile, Command, Idle, At
  <2> QED
    BY <2>1, EditsOut
<1>5. CASE Wake \/ Owner
  <2>1. run' = Idle \/ run'.at \in {"drive", "resume"}
    BY <1>5 DEF Wake, Owner, Goto, Shape, Runs
  <2> QED
    BY <1>1, <2>1, EditsOut
<1>6. CASE Drive
  <2>1. run'.at \in {"complete", "block", "deliver"}
    BY <1>6 DEF Drive, Replay, Refuse, Register, Goto, Shape, Runs
  <2> QED
    BY <2>1, EditsOut
<1>7. CASE Deliver
  <2>1. CASE Deliverable(run.work) /\ run' = [run EXCEPT !.at = "journal", !.head = branch]
    <3>1. run'.at = "journal" /\ run'.work = run.work /\ UNCHANGED <<file, branch>>
      BY <1>7, <2>1 DEF Deliver, repo, Shape, Runs
    <3>2. \A p \in Touched[run.work] : file[p] = HeadTree(branch)[p] /\ p \in Paths
      BY <1>7, <2>1, DeliveryAssumption
      DEF Deliver, Deliverable, Untouched, Dirty, Control, Driving, Active, At, Shape
    <3>3. \A p \in Touched[run.work] : file[p] = User => Committed(p)
      BY <3>2, HeadCommitted
    <3> QED
      BY <1>0, <1>100, <3>1, <3>3 DEF Edits, Watched, Quiet, Remembers, At
  <2> QED
    BY <1>2, <1>7, <2>1 DEF Deliver
<1>8. CASE WriteJournal
  <2>1. run'.at = "checking"
    BY <1>8 DEF WriteJournal, Shape, Runs
  <2> QED
    BY <2>1, EditsOut
<1>9. CASE Check
  <2>1. CASE Unclaimed(Target) /\ run' = [run EXCEPT !.todo = PathsOf(Target), !.at = Onward(Target)]
    <3>1. /\ run'.at \in {"naming", "writing"} /\ run'.target = run.target
          /\ run'.todo = PathsOf(Target) /\ Target' = Target /\ UNCHANGED file
      BY <1>9, <2>1 DEF Check, repo, Onward, Target, Shape, Runs
    <3>2. Target \in OpIds /\ Target[1] \in Works /\ Target[1] # User /\ Journaled(Target)
      BY <1>9, DeliveryAssumption DEF Check, At, Target, Control, Active, InDelivery, OpIds, Landings, Held
    <3>3. \A p \in PathsOf(Target) : ~raced' /\ file[p] = User => Committed(p)
      BY <1>0, <2>1, <3>2 DEF Unclaimed, Kept, Watched
    <3>4. run'.todo = PathsOf(Target)'
      BY <3>1 DEF PathsOf
    <3> QED
      BY <1>0, <1>100, <3>1, <3>3, <3>4 DEF Edits, Watched, Quiet, Remembers, At
  <2> QED
    BY <1>2, <1>9, <2>1 DEF Check
<1>10. CASE Name
  <2>1. CASE Goto("writing")
    <3>1. /\ run'.at = "writing" /\ run'.todo = run.todo /\ Target' = Target /\ UNCHANGED file
          /\ run.todo = PathsOf(Target) /\ At("naming")
      BY <1>10, <2>1 DEF Name, Goto, Target, Shape, Runs, Edits
    <3>2. PathsOf(Target)' = PathsOf(Target)
      BY <3>1 DEF PathsOf
    <3> QED
      BY <1>0, <1>100, <3>1, <3>2 DEF Edits, Watched, Quiet, Remembers, At
  <2> QED
    BY <1>2, <1>10, <2>1 DEF Name
<1>11. ASSUME NEW p \in Paths, Write(p) PROVE Edits'
  <2>1. /\ run.at = "writing" /\ run'.at = "writing" /\ run'.todo = run.todo \ {p}
        /\ Target' = Target /\ file' = [file EXCEPT ![p] = Target[1]] /\ file \in [Paths -> Contents]
    BY <1>11 DEF Write, At, Target, Shape, Runs
  <2>2. PathsOf(Target)' = PathsOf(Target) /\ PathsOf(Target) \subseteq Paths /\ run.todo \subseteq Paths
    BY <1>11, <2>1, DeliveryAssumption DEF PathsOf, Write, At, Target, Control, Active, InDelivery, OpIds, Shape, Runs
  <2> QED
    BY <1>0, <1>100, <2>1, <2>2 DEF Edits, Watched, Quiet, Remembers, At
<1>12. CASE ResetIndex
  <2>1. /\ run.at = "writing" /\ run'.at = "marking" /\ run.todo = {} /\ Target' = Target /\ UNCHANGED file
        /\ index' = [p \in Paths |-> IF p \in PathsOf(Target) THEN Target[1] ELSE index[p]]
    BY <1>12 DEF ResetIndex, Goto, At, Target, Shape, Runs
  <2>2. PathsOf(Target)' = PathsOf(Target) /\ PathsOf(Target) \subseteq Paths
    BY <1>12, <2>1, DeliveryAssumption DEF PathsOf, ResetIndex, At, Target, Control, Active, InDelivery, OpIds
  <2> QED
    BY <1>0, <2>1, <2>2 DEF Edits, Watched, Quiet, Remembers, At
<1>13. CASE Mark
  <2>1. run.at = "marking" /\ run'.at = "settling" /\ Target' = Target /\ UNCHANGED <<file, index>>
    BY <1>13 DEF Mark, repo, Goto, At, Target, Shape, Runs
  <2>2. PathsOf(Target)' = PathsOf(Target)
    BY <2>1 DEF PathsOf
  <2> QED
    BY <1>0, <2>1, <2>2 DEF Edits, Watched, Quiet, Remembers, At
<1>14. CASE Settle
  <2>1. run'.at \in {"complete", "owner"}
    BY <1>14 DEF Settle, Goto, Shape, Runs
  <2> QED
    BY <2>1, EditsOut
<1>15. ASSUME NEW id \in OpIds, FinishPending(id) PROVE Edits'
  <2>1. run'.at = "checking"
    BY <1>15 DEF FinishPending, Shape, Runs
  <2> QED
    BY <2>1, EditsOut
<1>16. CASE Failure
  BY <1>1, <1>2, <1>16 DEF Failure, Crash, Interrupt, GitFails, WriteFails
<1>17. CASE UNCHANGED vars
  BY <1>17, EditsStay DEF vars
<1>18. CASE Program
  BY <1>1, <1>5, <1>6, <1>7, <1>8, <1>9, <1>10, <1>11, <1>12, <1>13, <1>14, <1>15, <1>18
  DEF Program, Block, Complete
<1> QED
  BY <1>3, <1>4, <1>16, <1>17, <1>18 DEF Next

-----------------------------------------------------------------------------
(* The commits themselves, and the theorems.                               *)

LEMMA StepOnlyCandidate ==
  Shape /\ Control /\ Landings /\ OnlyCandidate /\ [Next]_vars => OnlyCandidate'
<1> SUFFICES ASSUME Shape, Control, Landings, OnlyCandidate, [Next]_vars PROVE OnlyCandidate'
  OBVIOUS
<1>1. CASE UNCHANGED branch
  BY <1>1 DEF OnlyCandidate
<1>2. ASSUME NEW c \in Commits, branch' = Append(branch, c),
             c.by[1] \in Works => \A p \in Paths \ Touched[c.by[1]] : c.tree[p] = Last(branch).tree[p]
      PROVE  OnlyCandidate'
  <2>1. /\ Len(branch') = Len(branch) + 1 /\ Len(branch) \in Nat
        /\ DOMAIN branch = 1 .. Len(branch)
        /\ branch'[Len(branch) + 1] = c
        /\ \A i \in DOMAIN branch : branch'[i] = branch[i]
        /\ Len(branch) \in DOMAIN branch
    BY <1>2, AppendFacts, HeadTreeType DEF Shape
  <2> SUFFICES ASSUME NEW i \in 2 .. Len(branch'), branch'[i].by[1] \in Works,
                      NEW p \in Paths \ Touched[branch'[i].by[1]]
               PROVE  branch'[i].tree[p] = branch'[i - 1].tree[p]
    BY DEF OnlyCandidate
  <2>2. CASE i \in 2 .. Len(branch)
    <3>1. i \in DOMAIN branch /\ i - 1 \in DOMAIN branch
      BY <2>1, <2>2
    <3>2. branch'[i] = branch[i] /\ branch'[i - 1] = branch[i - 1]
      BY <2>1, <3>1
    <3> QED
      BY <2>2, <3>2 DEF OnlyCandidate
  <2>3. CASE i = Len(branch) + 1
    <3>1. branch'[i] = c /\ branch'[i - 1] = branch[Len(branch)]
      BY <2>1, <2>3
    <3> QED
      BY <1>2, <3>1 DEF Last
  <2> QED
    BY <2>1, <2>2, <2>3
<1>3. CASE UserGrows
  <2>1. PICK t \in [Paths -> Contents] :
          branch' = Append(branch, [by |-> <<User, acts>>, tree |-> t])
    BY <1>3 DEF UserGrows
  <2>2. [by |-> <<User, acts>>, tree |-> t] \in Commits
    BY DeliveryAssumption DEF Shape, Commits
  <2>3. User \notin Works
    BY DeliveryAssumption
  <2> QED
    BY <1>2, <2>1, <2>2, <2>3
<1>4. CASE NameGrows
  <2>1. /\ Target \in OpIds /\ branch = journal[Target].base
        /\ branch' = Append(branch, Authored(Target))
        /\ Authored(Target) \in Commits /\ Authored(Target).by = Target
    BY <1>4, RevisionFacts DEF NameGrows
  <2>2. \A p \in Paths \ Touched[Target[1]] : Authored(Target).tree[p] = Last(branch).tree[p]
    BY <2>1 DEF Authored, CommitTree, HeadTree
  <2> QED
    BY <1>2, <2>1, <2>2
<1> QED
  BY <1>1, <1>3, <1>4, BranchStep

LEMMA InitOnlyCandidate == Init => OnlyCandidate
<1> SUFFICES ASSUME Init PROVE OnlyCandidate
  OBVIOUS
<1>1. Len(branch) = 1
  BY DEF Init
<1> QED
  BY <1>1 DEF OnlyCandidate

LEMMA Invariance == Spec => []IInv
<1>1. Init => IInv
  BY InitShape, InitControl, InitOrdinals, InitLandings, InitEdits, InitOnlyCandidate DEF IInv
<1>2. IInv /\ [Next]_vars => IInv'
  BY StepShape, StepControl, StepOrdinals, StepStored, StepHeld, StepEdits, StepOnlyCandidate
  DEF IInv, Landings
<1> QED
  BY <1>1, <1>2, PTL DEF Spec

(* The repository, the store and the command keep their shape, whatever    *)
(* the user, the operator and the failures do between the steps of         *)
(* Workspaces.deliver and finish_delivery.                                 *)
THEOREM TypeCorrect == Spec => []TypeOK
<1>1. IInv => TypeOK
  <2> SUFFICES ASSUME IInv PROVE TypeOK
    OBVIOUS
  <2>1. {Category[s] : s \in DOMAIN Category} = {"reconciliation", "state", "environment"}
    BY DEF Category
  <2>2. \A w \in Works : work[w] \in WorkRows
    BY DEF IInv, Shape
  <2>3. \A w \in Works :
          /\ work[w].status \in {"none", "READY", "RUNNING", "BLOCKED", "COMPLETED", "CANCELLED"}
          /\ work[w].failure \in {"none", "engine"} \cup {Category[s] : s \in DOMAIN Category}
          /\ work[w].dirty \subseteq Paths
    BY <2>1, <2>2 DEF WorkRows, Statuses, Failures
  <2>4. \A id \in OpIds : journal[id].state \in {"none", "written", "materialized"}
    BY DEF IInv, Shape, Journals
  <2>5. run.todo \subseteq Paths
    BY DEF IInv, Shape, Runs
  <2>6. branch \in Seq([by : (Works \cup {User}) \X Nat, tree : [Paths -> Contents]])
    BY DEF IInv, Shape, Commits
  <2> QED
    BY <2>3, <2>4, <2>5, <2>6 DEF IInv, Shape, TypeOK
<1> QED
  BY <1>1, Invariance, PTL

(* A delivered commit changes the candidate's paths and nothing else,      *)
(* because Workspaces.deliver builds its tree in a private index: for      *)
(* every set of works and paths, whatever the user has staged.             *)
THEOREM DeliversOnlyCandidate == Spec => []OnlyCandidate
<1>1. IInv => OnlyCandidate
  BY DEF IInv
<1> QED
  BY <1>1, Invariance, PTL

(* No step takes a commit off the branch: update-ref in finish_delivery    *)
(* names the base it replaces, whoever commits in between.                 *)
THEOREM KeepsCommits == Spec => CommitsKept
<1>1. IInv /\ [Next]_vars => [IsPrefix(branch, branch')]_branch
  <2> SUFFICES ASSUME IInv, [Next]_vars, branch' # branch PROVE IsPrefix(branch, branch')
    OBVIOUS
  <2>1. PICK c \in Commits : branch' = Append(branch, c)
    BY Grows DEF IInv
  <2> QED
    BY <2>1, AppendFacts DEF IInv, Shape
<1> QED
  BY <1>1, Invariance, PTL DEF Spec, CommitsKept

(* What the user wrote and committed nowhere is never overwritten by the   *)
(* program, unless he wrote it after its last look at the path: deliver    *)
(* refuses dirty paths, and finish_delivery, also of a resume, writes a    *)
(* path only if it held what the journal saw when it looked.               *)
THEOREM KeepsEdits == Spec => EditsKept
<1>1. IInv /\ [Next]_vars =>
        [~raced /\ acts' = acts => \A p \in Paths : Uncommitted(p) => file'[p] = User]_file
  <2> SUFFICES ASSUME IInv, [Next]_vars, file' # file, ~raced, acts' = acts,
                      NEW p \in Paths, Uncommitted(p)
               PROVE  file'[p] = User
    OBVIOUS
  <2>1. ~ByTheUser /\ Watched /\ ~Committed(p) /\ file[p] = User
    BY CalmStep DEF IInv, Edits, Uncommitted, Committed
  <2>2. PICK q \in Paths : Write(q)
    <3>1. ~(UNCHANGED vars) /\ ~Operator /\ ~Failure
      BY DEF vars, Operator, Admit, Resume, Answer, Cancel, Reconcile, Failure, Crash,
         Interrupt, GitFails, WriteFails, repo
    <3>2. Program
      BY <2>1, <3>1 DEF Next
    <3> QED
      BY <3>2 DEF Program, Wake, Drive, Deliver, WriteJournal, Check, Name, ResetIndex, Mark,
         Settle, Owner, Block, Complete, FinishPending, repo
  <2>3. p # q
    BY <2>1, <2>2 DEF Write, Watched, At
  <2> QED
    BY <2>1, <2>2, <2>3 DEF Write, IInv, Shape
<1> QED
  BY <1>1, Invariance, PTL DEF Spec, EditsKept

(* A delivery is confirmed only when its commit is on the branch, and by   *)
(* finish_delivery only when every path of it is in the working tree and   *)
(* in the index, however often it was cut off and taken up.                *)
THEOREM DeliversWhole == Spec => WholeDelivery
<1> DEFINE Whole == \A id \in OpIds :
      op[id] # "CONFIRMED" /\ op'[id] = "CONFIRMED" /\ calm =>
        /\ Landed(id)
        /\ At("settling") => \A p \in PathsOf(id) : file[p] = id[1] /\ index[p] = id[1]
<1>1. IInv /\ [Next]_vars => [Whole]_op
  <2> SUFFICES ASSUME IInv, [Next]_vars, NEW id \in OpIds,
                      op[id] # "CONFIRMED", op'[id] = "CONFIRMED", calm
               PROVE  /\ Landed(id)
                      /\ At("settling") => \A p \in PathsOf(id) : file[p] = id[1] /\ index[p] = id[1]
    OBVIOUS
  <2>1. (At("settling") /\ id = Target) \/ (At("idle") /\ Landed(id))
    BY OpStep DEF IInv
  <2>2. Landed(id)
    BY <2>1 DEF IInv, Landings, Held, At
  <2>3. At("settling") => id = Target
    BY <2>1 DEF At
  <2> QED
    BY <2>2, <2>3 DEF IInv, Edits, Quiet, At
<1> QED
  BY <1>1, Invariance, PTL DEF Spec, WholeDelivery

-----------------------------------------------------------------------------
(* The program implements AtomicDelivery, step by step.                    *)

Authors(b) == [i \in DOMAIN b |-> b[i].by[1]]
LEMMA AuthorsGrow ==
  ASSUME NEW b \in Seq(Commits), NEW c \in Commits
  PROVE  /\ Authors(b) \in Seq(Works \cup {User}) /\ Len(Authors(b)) = Len(b)
         /\ Authors(Append(b, c)) = Append(Authors(b), c.by[1])
<1> DEFINE B == Append(b, c)
<1>1. /\ B \in Seq(Commits) /\ Len(B) = Len(b) + 1 /\ Len(b) \in Nat /\ B[Len(b) + 1] = c
      /\ \A i \in 1 .. Len(b) : B[i] = b[i]
      /\ DOMAIN b = 1 .. Len(b) /\ DOMAIN B = 1 .. Len(b) + 1
  BY AppendFacts
<1>2. \A d \in Seq(Commits) : Authors(d) \in Seq(Works \cup {User}) /\ Len(Authors(d)) = Len(d)
  <2> SUFFICES ASSUME NEW d \in Seq(Commits)
               PROVE  Authors(d) \in Seq(Works \cup {User}) /\ Len(Authors(d)) = Len(d)
    OBVIOUS
  <2>1. Len(d) \in Nat /\ DOMAIN d = 1 .. Len(d) /\ \A i \in 1 .. Len(d) : d[i] \in Commits
    BY LenProperties
  <2>2. \A i \in 1 .. Len(d) : d[i].by[1] \in Works \cup {User}
    BY <2>1 DEF Commits
  <2>3. Authors(d) \in [1 .. Len(d) -> Works \cup {User}]
    BY <2>1, <2>2 DEF Authors
  <2> QED
    BY <2>1, <2>3
<1>3. /\ Authors(b) \in Seq(Works \cup {User}) /\ Authors(B) \in Seq(Works \cup {User})
      /\ Len(Authors(b)) = Len(b) /\ Len(Authors(B)) = Len(b) + 1
  BY <1>1, <1>2
<1>4. c.by[1] \in Works \cup {User}
  BY DEF Commits
<1> DEFINE A == Append(Authors(b), c.by[1])
<1>5. /\ A \in Seq(Works \cup {User}) /\ Len(A) = Len(b) + 1 /\ A[Len(b) + 1] = c.by[1]
      /\ \A i \in 1 .. Len(b) : A[i] = Authors(b)[i]
  BY <1>3, <1>4, AppendProperties
<1>6. \A i \in 1 .. Len(b) + 1 : Authors(B)[i] = A[i]
  BY <1>1, <1>5 DEF Authors
<1> HIDE DEF A, B
<1>7. Authors(B) = A
  BY <1>3, <1>5, <1>6, SeqEqual
<1> QED
  BY <1>3, <1>7 DEF A, B

Reported == {w \in Works : work[w].status = "COMPLETED"}
Admitted == [w \in Works |-> Len(work[w].source)]

LEMMA AtomicInit == Init => Atomic!Init
<1> SUFFICES ASSUME Init PROVE Atomic!Init
  OBVIOUS
<1>1. Authors(branch) = <<User>>
  BY DEF Init, Authors
<1>2. Admitted = [w \in Works |-> 0] /\ Reported = {}
  BY DEF Init, Admitted, Reported
<1> QED
  BY <1>1, <1>2 DEF Atomic!Init, Authors, Admitted, Reported

LEMMA AtomicStep == IInv /\ [Next]_vars => [Atomic!Next]_(Atomic!vars)
<1> SUFFICES ASSUME IInv, [Next]_vars PROVE [Atomic!Next]_(Atomic!vars)
  OBVIOUS
<1> USE DEF IInv
<1>1. ASSUME UNCHANGED work PROVE UNCHANGED <<Admitted, Reported>>
  BY <1>1 DEF Admitted, Reported
<1>2. ASSUME UNCHANGED branch PROVE UNCHANGED Authors(branch)
  BY <1>2 DEF Authors
<1>3. CASE UserGrows /\ UNCHANGED work
  <2>1. PICK t \in [Paths -> Contents] :
          branch' = Append(branch, [by |-> <<User, acts>>, tree |-> t])
    BY <1>3 DEF UserGrows
  <2>2. [by |-> <<User, acts>>, tree |-> t] \in Commits
    BY DeliveryAssumption DEF Shape, Commits
  <2>3. Authors(branch)' = Append(Authors(branch), User)
    BY <2>1, <2>2, AuthorsGrow DEF Shape
  <2> QED
    BY <1>1, <1>3, <2>3 DEF Atomic!Next, Atomic!UserCommits, Authors, Admitted, Reported
<1>4. CASE NameGrows
  <2>0. PICK w \in Works : w = Target[1]
    BY <1>4, RevisionFacts DEF NameGrows
  <2>1. /\ Target \in OpIds /\ branch = journal[Target].base /\ UNCHANGED work
        /\ branch' = Append(branch, Authored(Target))
        /\ Authored(Target) \in Commits /\ Authored(Target).by = Target
        /\ journal[Target].base = work[w].source
    BY <1>4, <2>0, RevisionFacts DEF NameGrows, Landings, Stored
  <2>2. Authors(branch)' = Append(Authors(branch), w) /\ Len(Authors(branch)) = Len(branch)
    BY <2>0, <2>1, AuthorsGrow DEF Shape
  <2>3. Admitted[w] = Len(Authors(branch))
    BY <2>1, <2>2 DEF Admitted
  <2>4. Atomic!Land(w)
    BY <1>1, <2>1, <2>2, <2>3 DEF Atomic!Land, Authors, Admitted, Reported
  <2> QED
    BY <2>4 DEF Atomic!Next
<1>5. CASE UNCHANGED branch
  <2>1. ASSUME NEW w \in Works, WorkAdmitted(w) PROVE Atomic!Admit(w)
    <3>1. Admitted[w] = 0
      BY <2>1 DEF WorkAdmitted, Admitted, Landings, Stored
    <3>2. \A v \in Works \ {w} : work'[v] = work[v]
      BY <2>1 DEF WorkAdmitted, Admit, Shape
    <3>3. Admitted' = [Admitted EXCEPT ![w] = Len(branch)]
      BY <2>1, <3>2 DEF WorkAdmitted, Admitted
    <3>4. Reported' = Reported
      BY <2>1, <3>2 DEF WorkAdmitted, Reported
    <3>5. Len(Authors(branch)) = Len(branch)
      <4>1. PICK c \in Commits : TRUE
        BY HeadTreeType DEF Shape
      <4> QED
        BY AuthorsGrow DEF Shape
    <3> QED
      BY <1>2, <1>5, <3>1, <3>3, <3>4, <3>5 DEF Atomic!Admit, Authors, Admitted, Reported
  <2>2. CASE \A w \in Works : WorkKept(w)
    <3>1. Admitted' = Admitted
      BY <2>2 DEF WorkKept, Admitted
    <3>2. Reported \subseteq Reported'
      BY CompletedStays DEF Reported
    <3>3. CASE Reported' = Reported
      BY <1>2, <1>5, <3>1, <3>3 DEF Atomic!vars, Authors, Admitted, Reported
    <3>4. CASE Reported' # Reported
      <4>1. PICK w \in Works : w \in Reported' /\ w \notin Reported
        BY <3>2, <3>4 DEF Reported
      <4>2. At("complete") /\ w = run.work
        BY <2>2, <4>1 DEF WorkKept, Reported
      <4>3. Reported' = Reported \cup {w}
        BY <2>2, <3>2, <4>1, <4>2 DEF WorkKept, Reported
      <4>4. ByWork(branch, w)
        BY <4>2 DEF Landings, Held
      <4>5. w \in ToSet(Authors(branch))
        <5>1. PICK i \in DOMAIN branch : branch[i].by[1] = w
          BY <4>4 DEF ByWork
        <5>2. i \in DOMAIN Authors(branch) /\ Authors(branch)[i] = w
          BY <5>1 DEF Authors
        <5> QED
          BY <5>2 DEF ToSet
      <4>6. Atomic!Report(w)
        <5>1. w \in Atomic!ToSet([i \in DOMAIN branch |-> branch[i].by[1]])
          BY <4>5 DEF Authors, ToSet, Atomic!ToSet
        <5> QED
          BY <1>2, <1>5, <3>1, <4>3, <5>1 DEF Atomic!Report, Authors, Admitted, Reported
      <4> QED
        BY <4>6 DEF Atomic!Next
    <3> QED
      BY <3>3, <3>4
  <2> QED
    BY <2>1, <2>2, WorkStep DEF Atomic!Next
<1> QED
  BY <1>3, <1>4, <1>5, BranchStep

(* The program implements the delivery it promises, whoever commits,       *)
(* whatever crashes and however often it resumes: a work lands at most     *)
(* once and directly on the commit it was admitted on, and it is           *)
(* completed only when its commit is there.                                *)
THEOREM ImplementsAtomic == Spec => AtomicSpec
  BY AtomicInit, AtomicStep, Invariance, PTL DEF Spec, AtomicSpec, Atomic!Spec
===============================================================================
