------------------------------ MODULE WorkTree ------------------------------
(***************************************************************************)
(* The controller over a tree of work items (control/engine.py: resume,    *)
(* drive and the steps that delegate).  A work item is a row of the store; *)
(* drive(n) is a frame of the running process, and a frame that waits for  *)
(* children calls drive on each of them, in threads when they are several. *)
(* Frames are lost when the process dies, rows and operations are not:     *)
(* every action is one transaction of the store or one step between two of *)
(* them, so a crash may fall anywhere.                                     *)
(*                                                                         *)
(* Abstracted: what a node does on its own (Stages) is one effect with one *)
(* result; phases are "open" (up to and including the phase that may       *)
(* delegate), "tasks" (the implement phase of a run) and "closing" (the    *)
(* rest); task dependencies and --max-tasks are left out; candidates are   *)
(* the set of children whose work was integrated.                          *)
(***************************************************************************)
EXTENDS Naturals, FiniteSets, Functions

CONSTANTS
  Nodes,      \* identities of work items of one workflow
  Root,       \* the root work item
  RootModes,  \* modes of the root: "run", "fix" or "collab"
  Tasks,      \* tasks of the plan of a run
  Parallel,   \* execution.parallel_tasks.enabled and several workers
  MaxDepth,   \* bound: depth of the tree below the root
  NoNode, NoTask

ASSUME TreeAssumption ==
  /\ Root \in Nodes
  /\ NoNode \notin Nodes
  /\ NoTask \notin Tasks
  /\ RootModes \subseteq {"run", "fix", "collab"}
  /\ MaxDepth \in Nat
  /\ Parallel \in BOOLEAN

VARIABLES
  node,     \* the work_items rows
  op,       \* the operation each node has not consumed yet
  frame,    \* where each node's drive() frame is
  session   \* the command that holds the project lock

vars == <<node, op, frame, session>>

-----------------------------------------------------------------------------
Modes    == {"run", "fix", "collab"}
Statuses == {"READY", "RUNNING", "WAITING", "BLOCKED", "COMPLETED"}
Holds    == {"no", "reconciliation", "provider", "other"}
(* FAILED is a provider or environment failure, REFUSED any other one.     *)
OpStates == {"none", "DISPATCHED", "UNKNOWN", "FAILED", "REFUSED",
             "CONFIRMED"}
Frames   == {"off", "resume", "rewait", "top", "kids", "step", "effect",
             "fault", "apply", "mark", "ready", "returned", "raised",
             "cancel"}

Row == [mode    : Modes \cup {"none"},
        parent  : Nodes \cup {NoNode},
        status  : Statuses \cup {"ABSENT"},
        phase   : {"open", "tasks", "closing"},
        task    : Tasks \cup {NoTask},
        done    : SUBSET Tasks,
        waiting : {"no", "child", "children", "user"},
        kids    : SUBSET Nodes,   \* context.child or context.children
        hold    : Holds]          \* failure.category

NewRow(mode, parent, phase, task) ==
  [mode |-> mode, parent |-> parent, status |-> "READY", phase |-> phase,
   task |-> task, done |-> {}, waiting |-> "no", kids |-> {}, hold |-> "no"]

NoRow == [NewRow("none", NoNode, "open", NoTask) EXCEPT !.status = "ABSENT"]

Exists(n)   == node[n].status # "ABSENT"
Waiting(n)  == node[n].waiting \in {"child", "children"}
Free        == {n \in Nodes : ~ Exists(n)}
Pending(n)  == Tasks \ node[n].done
Open(n)     == op[n] \in {"DISPATCHED", "UNKNOWN"}

(* The nodes resume reaches from the root through the links of contexts.   *)
Below(S) == S \cup UNION {node[n].kids : n \in S}
Selected == LET reach[i \in 0..Cardinality(Nodes)] ==
                  IF i = 0 THEN {Root} ELSE Below(reach[i - 1])
            IN  reach[Cardinality(Nodes)]

-----------------------------------------------------------------------------
Init == /\ \E mode \in RootModes :
             node = [n \in Nodes |->
                       IF n = Root THEN NewRow(mode, NoNode, "open", NoTask)
                       ELSE NoRow]
        /\ op = [n \in Nodes |-> "none"]
        /\ frame = [n \in Nodes |-> "off"]
        /\ session = "none"

Goto(n, pc) == frame' = [frame EXCEPT ![n] = pc]
Set(n, row) == node' = [node EXCEPT ![n] = row]

(* orphan_calls: a model call becomes UNKNOWN, a verification is FAILED    *)
(* and consumed.  The node's effect may have been either.                  *)
Orphans == {s \in [Nodes -> OpStates] :
              \A n \in Nodes : IF op[n] = "DISPATCHED"
                               THEN s[n] \in {"UNKNOWN", "none"}
                               ELSE s[n] = op[n]}

(* run, fix, collab or resume: orphan_calls, then resume(root).            *)
Start ==
  /\ session = "none"
  /\ session' = "execution"
  /\ op' \in Orphans
  /\ Goto(Root, "resume")
  /\ UNCHANGED node

(* answer: the one node that waits for the user is READY, and the command  *)
(* goes on to resume(root) without orphan_calls.                           *)
Answer(n) ==
  /\ session = "none"
  /\ node[n].status = "WAITING" /\ node[n].waiting = "user"
  /\ session' = "execution"
  /\ Set(n, [node[n] EXCEPT !.status = "READY", !.waiting = "no"])
  /\ Goto(Root, "resume")
  /\ UNCHANGED op

(* The process dies.                                                       *)
Crash ==
  /\ session # "none"
  /\ session' = "none"
  /\ frame' = [n \in Nodes |-> "off"]
  /\ UNCHANGED <<node, op>>

(* The root's frame returned or raised: the command ends.                  *)
Finish ==
  /\ session = "execution"
  /\ frame[Root] \in {"returned", "raised"}
  /\ session' = "none"
  /\ frame' = [n \in Nodes |-> "off"]
  /\ UNCHANGED <<node, op>>

-----------------------------------------------------------------------------
(* resume.                                                                 *)

Retried(n) == IF node[n].hold = "provider" /\ op[n] = "FAILED"
              THEN "none" ELSE op[n]

(* Mutant: whatever is not READY or WAITING is started again.              *)
StoppedAny(n) == /\ node[n].status \notin {"READY", "WAITING"}
                 /\ node[n].hold # "reconciliation"

(* A node below the root that a fault or a crash stopped becomes READY ... *)
Stopped(n) == /\ node[n].status \in {"BLOCKED", "RUNNING"}
              /\ node[n].hold # "reconciliation"

(* Mutant: resume forgets that a batch of children is waited for.          *)
RewaitsOne(n) == node[n].waiting = "child"

Rewaits(n) == Waiting(n)

Wakes(n) == n \in Selected \ {Root} /\ Stopped(n)

Wake(n) ==
  /\ frame[Root] = "resume" /\ node[Root].status # "COMPLETED"
  /\ \A m \in Nodes : frame[m] # "rewait"
  /\ Wakes(n)
  /\ Set(n, [node[n] EXCEPT !.status = "READY", !.hold = "no"])
  /\ op' = [op EXCEPT ![n] = Retried(n)]
  /\ frame' = IF Rewaits(n) THEN [frame EXCEPT ![n] = "rewait"] ELSE frame
  /\ UNCHANGED session

(* ... and, in another transaction, WAITING again if it waits for children.*)
Rewait(n) ==
  /\ frame[n] = "rewait"
  /\ Set(n, [node[n] EXCEPT !.status = "WAITING"])
  /\ Goto(n, IF n = Root THEN "top" ELSE "off")
  /\ UNCHANGED <<op, session>>

(* Then the root, unless it is finished or held.                           *)
WakeRoot ==
  /\ frame[Root] = "resume"
  /\ \/ node[Root].status = "COMPLETED"
     \/ \A n \in Nodes : ~ Wakes(n) /\ frame[n] # "rewait"
  /\ IF \/ node[Root].status = "COMPLETED"
        \/ node[Root].status = "BLOCKED" /\ node[Root].hold = "reconciliation"
     THEN Goto(Root, "returned") /\ UNCHANGED <<node, op>>
     ELSE LET stopped == node[Root].status \in {"BLOCKED", "RUNNING"} IN
          /\ IF stopped
             THEN Set(Root, [node[Root] EXCEPT !.status = "READY",
                               !.hold = IF node[Root].status = "BLOCKED"
                                        THEN "no" ELSE @])
             ELSE UNCHANGED node
          /\ op' = IF node[Root].status = "BLOCKED"
                   THEN [op EXCEPT ![Root] = Retried(Root)] ELSE op
          /\ Goto(Root, IF Rewaits(Root) /\ node[Root].status # "WAITING"
                        THEN "rewait" ELSE "top")
  /\ UNCHANGED session

-----------------------------------------------------------------------------
(* drive.                                                                  *)

(* The head of the loop: return, go into the children, or run the step.    *)
Top(n) ==
  /\ frame[n] = "top"
  /\ \/ /\ \/ node[n].status \in {"COMPLETED", "BLOCKED"}
           \/ node[n].status = "WAITING" /\ ~ Waiting(n)
        /\ Goto(n, "returned")
        /\ UNCHANGED node
     \/ /\ node[n].status = "WAITING" /\ Waiting(n)
        /\ frame' = [m \in Nodes |-> IF m = n THEN "kids"
                                     ELSE IF m \in node[n].kids THEN "top"
                                     ELSE frame[m]]
        /\ UNCHANGED node
     \/ /\ node[n].status \in {"READY", "RUNNING"}
        /\ Set(n, [node[n] EXCEPT !.status = "RUNNING"])
        /\ Goto(n, "step")
  /\ UNCHANGED <<op, session>>

Back(n)    == \A k \in node[n].kids : frame[k] \in {"returned", "raised"}
Leave(n, pc) == frame' = [m \in Nodes |-> IF m = n THEN pc
                                          ELSE IF m \in node[n].kids THEN "off"
                                          ELSE frame[m]]

(* A child's frame raised, the integration of a candidate conflicts, or a  *)
(* run's child does not name its task: the exception leaves drive.         *)
Unjoinable(n) == node[n].mode = "run" /\
                 \E k \in node[n].kids : node[k].task = NoTask

JoinRaises(n) ==
  /\ frame[n] = "kids"
  /\ Back(n)
  /\ \/ \E k \in node[n].kids : frame[k] = "raised"
     \/ \A k \in node[n].kids : node[k].status = "COMPLETED"
  /\ Leave(n, "raised")
  /\ UNCHANGED <<node, op, session>>

Block(n, hold) == Set(n, [node[n] EXCEPT !.status = "BLOCKED", !.hold = hold])

(* A child is not complete: the parent is blocked with it, or waits on.    *)
JoinIncomplete(n) ==
  LET blocked == {k \in node[n].kids : node[k].status = "BLOCKED"} IN
  /\ frame[n] = "kids"
  /\ Back(n)
  /\ \A k \in node[n].kids : frame[k] = "returned"
  /\ \E k \in node[n].kids : node[k].status # "COMPLETED"
  /\ IF blocked = {}
     THEN UNCHANGED node
     ELSE \E k \in blocked : Block(n, node[k].hold)
  /\ Leave(n, "returned")
  /\ UNCHANGED <<op, session>>

(* Mutant: a child that is not blocked counts as complete.                 *)
CompleteEnough(n) == \A k \in node[n].kids : /\ frame[k] = "returned"
                                             /\ node[k].status # "BLOCKED"

Complete(n) == \A k \in node[n].kids : /\ frame[k] = "returned"
                                       /\ node[k].status = "COMPLETED"

(* Every child is complete: their work is integrated, their tasks are done *)
(* and the parent goes on.                                                 *)
Join(n) ==
  /\ frame[n] = "kids"
  /\ Back(n)
  /\ Complete(n)
  /\ ~ Unjoinable(n)
  /\ Set(n, [node[n] EXCEPT
       !.status = "READY",
       !.waiting = "no",
       !.kids = {},
       !.done = IF node[n].mode = "run"
                THEN @ \cup {node[k].task : k \in node[n].kids} ELSE @,
       !.phase = IF node[n].mode = "run" THEN @ ELSE "closing"])
  /\ Leave(n, "top")
  /\ UNCHANGED <<op, session>>

-----------------------------------------------------------------------------
(* step.                                                                   *)

(* The node's own effect: a retained result is used again, a retained      *)
(* failure raised again, and nothing is sent while the workflow has an     *)
(* unknown outcome.                                                        *)
Mute(n)  == Open(n) \/ \E m \in Nodes : op[m] = "UNKNOWN"

Begin(n) ==
  /\ frame[n] = "step"
  /\ node[n].phase # "tasks"
  /\ \/ /\ op[n] = "CONFIRMED"
        /\ Goto(n, "apply")
        /\ UNCHANGED <<node, op>>
     \/ /\ op[n] = "FAILED"
        /\ Block(n, "provider")
        /\ Goto(n, "returned")
        /\ UNCHANGED op
     \/ /\ op[n] = "REFUSED"
        /\ Block(n, "other")
        /\ Goto(n, "returned")
        /\ UNCHANGED op
     \/ /\ op[n] \in {"none", "DISPATCHED", "UNKNOWN"} /\ Mute(n)
        /\ Block(n, "reconciliation")
        /\ Goto(n, "returned")
        /\ UNCHANGED op
     \/ /\ op[n] = "none" /\ ~ Mute(n)
        /\ op' = [op EXCEPT ![n] = "DISPATCHED"]
        /\ Goto(n, "effect")
        /\ UNCHANGED node
  /\ UNCHANGED session

(* The effect ends and is settled; a failure is written to the row by the  *)
(* next transaction.                                                       *)
Effect(n) ==
  /\ frame[n] = "effect"
  /\ \E s \in {"CONFIRMED", "FAILED", "REFUSED", "UNKNOWN"} :
       /\ op' = [op EXCEPT ![n] = s]
       /\ Goto(n, IF s = "CONFIRMED" THEN "apply" ELSE "fault")
  /\ UNCHANGED <<node, session>>

Fault(n) ==
  /\ frame[n] = "fault"
  /\ Block(n, CASE op[n] = "UNKNOWN" -> "reconciliation"
                [] op[n] = "FAILED"  -> "provider"
                [] OTHER             -> "other")
  /\ Goto(n, "returned")
  /\ UNCHANGED <<op, session>>

(* A result becomes the node's next state, together with its consumption.  *)
(* Mutant: the phases are called by another name.                          *)
NextPhaseNamed(n) == IF node[n].mode = "run" /\ node[n].phase = "open"
                     THEN "implement" ELSE "closing"

(* Mutant: the result is consumed and the phase stays.                     *)
NextPhaseSame(n) == node[n].phase

NextPhase(n) == IF node[n].mode = "run" /\ node[n].phase = "open"
                THEN "tasks" ELSE "closing"

Advance(n) ==
  /\ frame[n] = "apply"
  /\ IF node[n].phase = "closing"
     THEN Set(n, [node[n] EXCEPT !.status = "COMPLETED"])
     ELSE Set(n, [node[n] EXCEPT !.status = "READY", !.phase = NextPhase(n)])
  /\ op' = [op EXCEPT ![n] = "none"]
  /\ Goto(n, "top")
  /\ UNCHANGED session

AskUser(n) ==
  /\ frame[n] = "apply"
  /\ node[n].phase = "open"
  /\ Set(n, [node[n] EXCEPT !.status = "WAITING", !.waiting = "user"])
  /\ op' = [op EXCEPT ![n] = "none"]
  /\ Goto(n, "top")
  /\ UNCHANGED session

(* The result is rejected (verification, protocol, scope): it stays        *)
(* unconsumed and the node is blocked.                                     *)
Reject(n) ==
  /\ frame[n] = "apply"
  /\ Block(n, "other")
  /\ Goto(n, "returned")
  /\ UNCHANGED <<op, session>>

(* classify and diagnose may delegate the whole work: store.child inserts  *)
(* the child and makes the parent wait, in one transaction.  A fix that    *)
(* inherits bound checks is then moved on to its implement phase.          *)
Delegated(mode) == CASE mode = "collab" -> {"run", "fix"}
                     [] mode = "fix"    -> {"run"}
                     [] OTHER           -> {}

Depth(n) == LET up[m \in Nodes] ==
                  IF node[m].parent = NoNode THEN 0
                  ELSE 1 + up[node[m].parent]
            IN  up[n]

(* Bound: a run needs room for its tasks below it.                         *)
Fits(n, mode) == Depth(n) + (IF mode = "run" THEN 2 ELSE 1) <= MaxDepth

Spawn(n, child, mode) ==
  node' = [node EXCEPT
             ![child] = NewRow(mode, n, "open", NoTask),
             ![n] = [@ EXCEPT !.status = "WAITING", !.waiting = "child",
                              !.kids = {child}]]

Delegate(n, child, mode) ==
  /\ frame[n] = "apply"
  /\ node[n].phase = "open"
  /\ child \in Free
  /\ mode \in Delegated(node[n].mode)
  /\ Fits(n, mode)
  /\ Spawn(n, child, mode)
  /\ op' = [op EXCEPT ![n] = "none"]
  /\ \/ Goto(n, "top")
     \/ mode = "fix" /\ Goto(n, "mark")
  /\ UNCHANGED session

(* A run's implement phase: nothing pending, a batch, or one task.         *)
TasksDone(n) ==
  /\ frame[n] = "step"
  /\ node[n].phase = "tasks"
  /\ Pending(n) = {}
  /\ Set(n, [node[n] EXCEPT !.status = "READY", !.phase = "closing"])
  /\ Goto(n, "top")
  /\ UNCHANGED <<op, session>>

(* store.batch names the tasks in the transaction that inserts them.       *)
Batch(n, children, ts) ==
  /\ frame[n] = "step"
  /\ node[n].phase = "tasks"
  /\ Parallel
  /\ ts \subseteq Pending(n) /\ Cardinality(ts) > 1
  /\ children \subseteq Free
  /\ \E f \in Bijection(children, ts) :
       node' = [m \in Nodes |->
            IF m \in children THEN NewRow("fix", n, "closing", f[m])
            ELSE IF m = n
            THEN [node[n] EXCEPT !.status = "WAITING", !.waiting = "children",
                                 !.kids = children]
            ELSE node[m]]
  /\ Goto(n, "top")
  /\ UNCHANGED <<op, session>>

(* A single task takes three transactions: child, RUNNING with its task    *)
(* and phase, READY.                                                       *)
SpawnTask(n, child) ==
  /\ frame[n] = "step"
  /\ node[n].phase = "tasks"
  /\ Pending(n) # {}
  /\ child \in Free
  /\ Spawn(n, child, "fix")
  /\ Goto(n, "mark")
  /\ UNCHANGED <<op, session>>

(* Mutant: the task is taken from the whole plan.                          *)
MarksAny(n) == IF node[n].mode = "run" THEN Tasks \X {"open", "closing"}
               ELSE {<<NoTask, "closing">>}

Marks(n) == IF node[n].mode = "run" THEN Pending(n) \X {"open", "closing"}
            ELSE {<<NoTask, "closing">>}

MarkTask(n) ==
  /\ frame[n] = "mark"
  /\ \E k \in node[n].kids, m \in Marks(n) :
       Set(k, [node[k] EXCEPT !.status = "RUNNING", !.phase = m[2],
                              !.task = m[1]])
  /\ Goto(n, "ready")
  /\ UNCHANGED <<op, session>>

ReadyTask(n) ==
  /\ frame[n] = "ready"
  /\ \E k \in node[n].kids : Set(k, [node[k] EXCEPT !.status = "READY"])
  /\ Goto(n, "top")
  /\ UNCHANGED <<op, session>>

-----------------------------------------------------------------------------
(* reconcile-call: the outcome is settled, a confirmed cancellation also   *)
(* consumed by a transaction of its own; when nothing of the workflow is   *)
(* open any more, the nodes held for reconciliation become READY, one      *)
(* transaction each.                                                       *)
Reconcile(n) ==
  /\ session = "none"
  /\ Open(n)
  /\ session' = "reconcile"
  /\ \/ /\ op' = [op EXCEPT ![n] = "CONFIRMED"]
        /\ UNCHANGED frame
     \/ /\ op' = [op EXCEPT ![n] = "FAILED"]
        /\ Goto(n, "cancel")
  /\ UNCHANGED node

ConsumeCancelled(n) ==
  /\ frame[n] = "cancel"
  /\ op' = [op EXCEPT ![n] = "none"]
  /\ Goto(n, "off")
  /\ UNCHANGED <<node, session>>

Settled == /\ session = "reconcile"
           /\ \A m \in Nodes : frame[m] # "cancel"

Held(n) == node[n].status = "BLOCKED" /\ node[n].hold = "reconciliation"

Release(n) ==
  /\ Settled
  /\ \A m \in Nodes : ~ Open(m)
  /\ Held(n)
  /\ Set(n, [node[n] EXCEPT !.status = "READY", !.hold = "no"])
  /\ UNCHANGED <<op, frame, session>>

Reconciled ==
  /\ Settled
  /\ \/ \E m \in Nodes : Open(m)
     \/ \A m \in Nodes : ~ Held(m)
  /\ session' = "none"
  /\ UNCHANGED <<node, op, frame>>

-----------------------------------------------------------------------------
Frame(n) ==
  \/ Wake(n) \/ Rewait(n)
  \/ Top(n) \/ JoinRaises(n) \/ JoinIncomplete(n) \/ Join(n)
  \/ Begin(n) \/ Effect(n) \/ Fault(n)
  \/ Advance(n) \/ AskUser(n) \/ Reject(n)
  \/ \E c \in Free, mode \in Modes : Delegate(n, c, mode)
  \/ TasksDone(n)
  \/ \E c \in Free : SpawnTask(n, c)
  \/ \E cs \in SUBSET Free, ts \in SUBSET Pending(n) : Batch(n, cs, ts)
  \/ MarkTask(n)
  \/ ReadyTask(n)

Command == \/ Start
           \/ \E n \in Nodes : Answer(n)
           \/ \E n \in Nodes : Reconcile(n)

Step == \/ WakeRoot \/ Finish \/ Reconciled
        \/ \E n \in Nodes : Frame(n) \/ ConsumeCancelled(n) \/ Release(n)

Next == Command \/ Crash \/ Step

(* Every frame of a live process goes on, and every effect ends.           *)
Fairness == /\ \A n \in Nodes : WF_vars(Frame(n))
            /\ \A n \in Nodes : WF_vars(ConsumeCancelled(n) \/ Release(n))
            /\ WF_vars(WakeRoot) /\ WF_vars(Finish) /\ WF_vars(Reconciled)

Spec == Init /\ [][Next]_vars /\ Fairness

-----------------------------------------------------------------------------
TypeOK == /\ node \in [Nodes -> Row]
          /\ op \in [Nodes -> OpStates]
          /\ frame \in [Nodes -> Frames]
          /\ session \in {"none", "execution", "reconcile"}

Children(n) == {k \in Nodes : Exists(k) /\ node[k].parent = n}

(* Two children of a run never implement the same task: no crash between   *)
(* the transactions of resume, spawn and reconcile-call makes a run        *)
(* delegate a task again while an earlier child owns it (engine.py step).  *)
TaskOnce ==
  \A n \in Nodes : \A j, k \in Children(n) :
    node[j].task = node[k].task /\ node[j].task # NoTask => j = k

(* A node does its own work, and completes, only when all the work it ever *)
(* delegated is complete: drive joins children before it steps.            *)
Stepping == {"step", "effect", "fault", "apply"}
ChildrenFirst ==
  \A n \in Nodes : \A k \in Children(n) :
    frame[n] \in Stepping \/ node[n].status = "COMPLETED"
      => node[k].status = "COMPLETED"

(* What a run counts as done is the work of a completed child, whatever    *)
(* was interrupted, and a completed run has done every task.               *)
DoneByChildren ==
  \A n \in Nodes :
    /\ \A t \in node[n].done :
         \E k \in Children(n) : node[k].task = t /\ node[k].status = "COMPLETED"
    /\ node[n].mode = "run" /\ node[n].status = "COMPLETED"
         => node[n].done = Tasks

(* A child of a run names its task as soon as nobody is in the middle of   *)
(* creating it, also after a crash: without it the run cannot join it.     *)
TaskKept ==
  \A n \in Nodes : \A k \in Children(n) :
    node[n].mode = "run" /\ frame[n] \notin {"mark"} => node[k].task # NoTask

(* Every status change is one the store accepts (types.py TRANSITIONS):    *)
(* neither resume after a crash nor reconcile-call asks for another.       *)
Moves == [READY   |-> {"RUNNING", "WAITING", "BLOCKED"},
          RUNNING |-> {"READY", "WAITING", "BLOCKED", "COMPLETED"},
          WAITING |-> {"READY", "BLOCKED"},
          BLOCKED |-> {"READY"},
          COMPLETED |-> {},
          ABSENT  |-> {"READY"}]
LegalMoves ==
  [][\A n \in Nodes : node'[n].status # node[n].status
       => node'[n].status \in Moves[node[n].status]]_vars

(* Every command ends: frames that wait for their children do not wait on  *)
(* each other, and no loop of drive goes round forever.                    *)
CommandEnds == session # "none" ~> session = "none"
=============================================================================
