---------------------------- MODULE ControlStore ----------------------------
(***************************************************************************)
(* The business store (control/store.py): work items, their contracts,     *)
(* the operations table and the call budgets.  Every method is one         *)
(* transaction (BEGIN IMMEDIATE), so each is one action here.  Clients are *)
(* the drive() frames and the operator commands of the process that holds  *)
(* the project lock; a client acts on a copy of a row it read earlier, as  *)
(* the engine does, and the copy may be stale.  The process may die at any *)
(* moment: copies and running effects are lost, the tables are not.        *)
(*                                                                         *)
(* Abstracted: a workflow is named by its root work item (they are created *)
(* together, one to one); a contract is its bound checks; the context is   *)
(* the set of clients whose additions it contains; goals, results, inputs  *)
(* hashes, events and artifacts carry no control.                          *)
(***************************************************************************)
EXTENDS OperationLedger, FiniteSets

CONSTANTS
  NoWork,         \* "no parent", "no copy"
  ModelKinds,     \* kinds that call a provider and are charged
  MutationKinds,  \* local kinds that are not repeatable: deliver, persistence
  NodeLimit,      \* work_items.max_calls
  WorkflowLimit,  \* workflows.max_calls
  MaxRevision,    \* bound: writes of one row
  Clients,        \* concurrent users of the store
  Checks,         \* verification contracts that may be bound
  NoChecks,       \* the contract is not bound yet
  Phases,         \* phases of a work item
  BindPhases      \* phases whose owner may complete the contract

ASSUME StoreAssumption ==
  /\ NoWork \notin Works
  /\ NoChecks \notin Checks
  /\ ModelKinds \subseteq Kinds
  /\ MutationKinds \subseteq Kinds
  /\ NodeLimit \in Nat \ {0}
  /\ WorkflowLimit \in Nat \ {0}
  /\ MaxRevision \in Nat
  /\ BindPhases \subseteq Phases
  /\ Phases # {}

VARIABLES
  rows,     \* the work_items table
  calls,    \* work_items.calls
  wfcalls,  \* workflows.calls, by root
  copy,     \* the row each client read last
  flight,   \* the operation whose function each client is executing
  session   \* who holds the project lock

vars == <<ops, rows, calls, wfcalls, copy, flight, session>>

-----------------------------------------------------------------------------
Statuses == {"READY", "RUNNING", "WAITING", "BLOCKED", "COMPLETED",
             "CANCELLED"}
Terminal == {"COMPLETED", "CANCELLED"}

TRANSITIONS ==
  [READY     |-> {"RUNNING", "WAITING", "BLOCKED", "CANCELLED"},
   RUNNING   |-> {"READY", "WAITING", "BLOCKED", "COMPLETED", "CANCELLED"},
   WAITING   |-> {"READY", "BLOCKED", "CANCELLED"},
   BLOCKED   |-> {"READY", "CANCELLED"},
   COMPLETED |-> {},
   CANCELLED |-> {}]

Row == [status   : Statuses \cup {"ABSENT"},
        phase    : Phases,
        parent   : Works \cup {NoWork},
        root     : Works \cup {NoWork},
        checks   : Checks \cup {NoChecks},
        context  : SUBSET Clients,
        revision : 0..MaxRevision]

Copy    == [work : Works \cup {NoWork}, row : Row]
NoOp    == <<>>
Sessions == {"none", "execution", "command"}

NoRow == [status |-> "ABSENT", phase |-> CHOOSE p \in Phases : TRUE,
          parent |-> NoWork, root |-> NoWork, checks |-> NoChecks,
          context |-> {}, revision |-> 0]
NoCopy == [work |-> NoWork, row |-> NoRow]

Exists(w) == rows[w].status # "ABSENT"

(* Mutant: a copy is taken for current whatever its revision.              *)
FreshEnough(c) == copy[c].work # NoWork

(* The client's copy is the current version of its row.                    *)
Fresh(c) == /\ copy[c].work # NoWork
            /\ copy[c].row.revision = rows[copy[c].work].revision

(* The operations whose outcome is open and whose owner is w, or any work  *)
(* item of w's workflow.                                                   *)
OpenOps(w)      == {o \in OpIds : o[1] = w /\ ops[o].state \in Unresolved}
OpenInFlow(r)   == {o \in OpIds : /\ rows[o[1]].root = r
                                  /\ ops[o].state \in Unresolved}

ModelCalls(w) == {o \in OpIds : o[1] = w /\ o[2] \in ModelKinds /\ Present(o)}
FlowCalls(r)  == {o \in OpIds : /\ o[2] \in ModelKinds
                                /\ Present(o)
                                /\ rows[o[1]].root = r}

-----------------------------------------------------------------------------
Init == /\ LedgerInit
        /\ rows = [w \in Works |-> NoRow]
        /\ calls = [w \in Works |-> 0]
        /\ wfcalls = [w \in Works |-> 0]
        /\ copy = [c \in Clients |-> NoCopy]
        /\ flight = [c \in Clients |-> NoOp]
        /\ session = "none"

(* Mutant: interrupted calls are taken as answered.                        *)
OrphanedConsumed(o) ==
  IF ops[o].state # "DISPATCHED" THEN ops[o]
  ELSE [state |-> "UNKNOWN", consumed |-> TRUE]

(* orphan_calls: what a new process makes of operations its predecessor    *)
(* left DISPATCHED.                                                        *)
Orphaned(o) ==
  IF ops[o].state # "DISPATCHED" THEN ops[o]
  ELSE IF o[2] \in ModelKinds \cup MutationKinds
       THEN [state |-> "UNKNOWN", consumed |-> FALSE]
       ELSE [state |-> "FAILED", consumed |-> TRUE]

(* A process takes the project lock.  Only the execution commands call     *)
(* orphan_calls; answer, approve, reconcile-call and release-worker do not.*)
Acquire(kind) ==
  /\ session = "none"
  /\ session' = kind
  /\ ops' = IF kind = "execution" THEN [o \in OpIds |-> Orphaned(o)] ELSE ops
  /\ UNCHANGED <<rows, calls, wfcalls, copy, flight>>

(* The process exits or is killed, wherever its clients are.               *)
Leave ==
  /\ session # "none"
  /\ session' = "none"
  /\ copy' = [c \in Clients |-> NoCopy]
  /\ flight' = [c \in Clients |-> NoOp]
  /\ UNCHANGED <<ops, rows, calls, wfcalls>>

Idle(c) == session # "none" /\ flight[c] = NoOp

(* store.work: the client takes a copy it will act on later.               *)
Read(c, w) ==
  /\ Idle(c)
  /\ Exists(w)
  /\ copy' = [copy EXCEPT ![c] = [work |-> w, row |-> rows[w]]]
  /\ UNCHANGED <<ops, rows, calls, wfcalls, flight, session>>

NewRow(parent, root, phase, checks) ==
  [status |-> "READY", phase |-> phase, parent |-> parent, root |-> root,
   checks |-> checks, context |-> {}, revision |-> 0]

CreateWorkflow(c, w, phase, k) ==
  /\ Idle(c)
  /\ ~ Exists(w)
  /\ rows' = [rows EXCEPT ![w] = NewRow(NoWork, w, phase, k)]
  /\ copy' = [copy EXCEPT ![c] = [work |-> w, row |-> rows'[w]]]
  /\ UNCHANGED <<ops, calls, wfcalls, flight, session>>

(* addon: one more child, the parent's row is not touched.                 *)
Addon(c, w, phase) ==
  /\ Idle(c)
  /\ copy[c].work # NoWork
  /\ ~ Exists(w)
  /\ rows' = [rows EXCEPT ![w] =
                NewRow(copy[c].work, copy[c].row.root, phase, NoChecks)]
  /\ UNCHANGED <<ops, calls, wfcalls, copy, flight, session>>

(* _consume, for the operations a transition takes with it.                *)
Consumable(w) == {o \in OpIds : o[1] = w /\ ops[o].state \in Settled}
Consumed(used) == [o \in OpIds |-> IF o \in used
                                   THEN [ops[o] EXCEPT !.consumed = TRUE]
                                   ELSE ops[o]]

(* The row a client writes from its copy: a new revision, its own addition *)
(* to the context it read.                                                 *)
Revised(c, status, phase, checks) ==
  [copy[c].row EXCEPT !.status = status, !.phase = phase, !.checks = checks,
                      !.context = @ \cup {c}, !.revision = @ + 1]

MayMove(from, to) == to = from \/ to \in TRANSITIONS[from]

Writable(c) == /\ Idle(c)
               /\ Fresh(c)
               /\ copy[c].row.revision < MaxRevision

(* child and batch: the children are inserted and the parent waits for     *)
(* them, in one transaction.                                               *)
Delegate(c, ws, phase, used) ==
  LET p == copy[c].work IN
  /\ Writable(c)
  /\ \A w \in ws : ~ Exists(w)
  /\ MayMove(rows[p].status, "WAITING")
  /\ used \subseteq Consumable(p)
  /\ rows' = [w \in Works |->
                IF w \in ws THEN NewRow(p, copy[c].row.root, phase, NoChecks)
                ELSE IF w = p
                THEN Revised(c, "WAITING", copy[c].row.phase,
                             copy[c].row.checks)
                ELSE rows[w]]
  /\ ops' = Consumed(used)
  /\ copy' = [copy EXCEPT ![c].row = rows'[p]]
  /\ UNCHANGED <<calls, wfcalls, flight, session>>

(* Mutant: completion looks for unknown outcomes and not for running ones. *)
CompletionKnown(w) == \A o \in OpenOps(w) : ops[o].state # "UNKNOWN"

(* transition: a move of the status graph, refused when the copy is stale  *)
(* and, for COMPLETED, while an outcome is open.                           *)
CompletionSettled(w) ==
  /\ OpenOps(w) = {}
  /\ rows[w].parent = NoWork => OpenInFlow(rows[w].root) = {}

Transition(c, status, phase, used) ==
  LET w == copy[c].work IN
  /\ Writable(c)
  /\ MayMove(rows[w].status, status)
  /\ status = "COMPLETED" => CompletionSettled(w)
  /\ used \subseteq Consumable(w)
  /\ rows' = [rows EXCEPT ![w] = Revised(c, status, phase,
                                         copy[c].row.checks)]
  /\ ops' = Consumed(used)
  /\ copy' = [copy EXCEPT ![c].row = rows'[w]]
  /\ UNCHANGED <<calls, wfcalls, flight, session>>

(* bind_contract: unbound checks are filled, bound ones are repeated; with *)
(* a next phase the owner is READY there.  The engine calls it from step,  *)
(* on the RUNNING row it drives.                                           *)
BindContract(c, k, phase, used) ==
  LET w == copy[c].work IN
  /\ Writable(c)
  /\ copy[c].row.status = "RUNNING"
  /\ copy[c].row.phase \in BindPhases
  /\ copy[c].row.checks \in {NoChecks, k}
  /\ used \subseteq Consumable(w)
  /\ rows' = [rows EXCEPT ![w] = Revised(c, "READY", phase, k)]
  /\ ops' = Consumed(used)
  /\ copy' = [copy EXCEPT ![c].row = rows'[w]]
  /\ UNCHANGED <<calls, wfcalls, flight, session>>

(* reserve, as effect calls it: the ordinal is the first one that was not  *)
(* consumed.  Only the insertion of a new operation changes state; an      *)
(* existing one is returned or refused.                                    *)
NextOrdinal(w, k, n) ==
  /\ ~ Present(<<w, k, n>>)
  /\ Exhausted(<<w, k, n>>)

(* Mutant: only the node's own limit is enforced.                          *)
WithinNodeBudget(w) == calls[w] < NodeLimit

WithinBudget(w) == /\ calls[w] < NodeLimit
                   /\ wfcalls[rows[w].root] < WorkflowLimit

Reserve(c, k, n) ==
  LET w == copy[c].work IN
  /\ Idle(c)
  /\ Fresh(c)
  /\ rows[w].status = "RUNNING"
  /\ NextOrdinal(w, k, n)
  /\ \A o \in OpenInFlow(rows[w].root) : ops[o].state # "UNKNOWN"
  /\ k \in ModelKinds => WithinBudget(w)
  /\ ops' = [ops EXCEPT ![<<w, k, n>>] = Dispatched]
  /\ flight' = [flight EXCEPT ![c] = <<w, k, n>>]
  /\ IF k \in ModelKinds
     THEN /\ calls' = [calls EXCEPT ![w] = @ + 1]
          /\ wfcalls' = [wfcalls EXCEPT ![rows[w].root] = @ + 1]
     ELSE UNCHANGED <<calls, wfcalls>>
  /\ UNCHANGED <<rows, copy, session>>

(* settle, at the end of the effect: an error of category reconciliation   *)
(* and an interrupted model call or mutation leave the outcome open.       *)
Settle(c, state) ==
  /\ session # "none"
  /\ flight[c] # NoOp
  /\ ops[flight[c]].state \in Unresolved
  /\ ops' = [ops EXCEPT ![flight[c]].state = state]
  /\ flight' = [flight EXCEPT ![c] = NoOp]
  /\ UNCHANGED <<rows, calls, wfcalls, copy, session>>

(* settle, by reconcile-call and by resume's completion of an interrupted  *)
(* delivery: the outcome of an operation no client is executing.           *)
Reconcile(o, state) ==
  /\ session # "none"
  /\ \A c \in Clients : flight[c] # o
  /\ ops[o].state \in Unresolved
  /\ ops' = [ops EXCEPT ![o].state = state]
  /\ UNCHANGED <<rows, calls, wfcalls, copy, flight, session>>

(* consume, on its own: provider fallback, repair, cancelled calls.        *)
Consume(o) ==
  /\ session # "none"
  /\ ops[o].state \in Settled
  /\ ops' = Consumed({o})
  /\ UNCHANGED <<rows, calls, wfcalls, copy, flight, session>>

-----------------------------------------------------------------------------
ClientNext(c) ==
  \/ \E w \in Works : Read(c, w)
  \/ \E w \in Works, p \in Phases, k \in Checks \cup {NoChecks} :
       CreateWorkflow(c, w, p, k)
  \/ \E w \in Works, p \in Phases : Addon(c, w, p)
  \/ \E ws \in SUBSET Works \ {{}}, p \in Phases :
       \E used \in SUBSET Consumable(copy[c].work) : Delegate(c, ws, p, used)
  \/ \E s \in Statuses, p \in Phases :
       \E used \in SUBSET Consumable(copy[c].work) : Transition(c, s, p, used)
  \/ \E k \in Checks, p \in Phases :
       \E used \in SUBSET Consumable(copy[c].work) : BindContract(c, k, p, used)
  \/ \E k \in Kinds, n \in 0..MaxOrdinal : Reserve(c, k, n)
  \/ \E s \in Settled \cup {"UNKNOWN"} : Settle(c, s)

Next ==
  \/ \E kind \in Sessions \ {"none"} : Acquire(kind)
  \/ Leave
  \/ \E c \in Clients : ClientNext(c)
  \/ \E o \in OpIds : \E s \in Settled : Reconcile(o, s)
  \/ \E o \in OpIds : Consume(o)

Spec == Init /\ [][Next]_vars

-----------------------------------------------------------------------------
TypeOK == /\ LedgerTypeOK
          /\ rows \in [Works -> Row]
          /\ calls \in [Works -> Nat]
          /\ wfcalls \in [Works -> Nat]
          /\ copy \in [Clients -> Copy]
          /\ flight \in [Clients -> OpIds \cup {NoOp}]
          /\ session \in Sessions

(* The counters that enforce the provider budget (store.py reserve) are    *)
(* exactly the model calls ever registered, of the node and of its whole   *)
(* workflow, and neither passes its limit: concurrent children, stale      *)
(* copies and restarts neither refund a call nor overspend the budget.     *)
BudgetKept ==
  \A w \in Works :
    /\ calls[w] = Cardinality(ModelCalls(w))
    /\ wfcalls[w] = Cardinality(FlowCalls(w))
    /\ calls[w] <= NodeLimit
    /\ wfcalls[w] <= WorkflowLimit

(* A completed work item has no operation of its own whose outcome is open *)
(* and never gets one: the check of _transition is made once, the property *)
(* holds ever after, whatever copies other clients still hold.             *)
CompletedSettled ==
  \A w \in Works : rows[w].status = "COMPLETED" => OpenOps(w) = {}

(* Bound verification never changes and a terminal work item never         *)
(* reopens, also when bind_contract, which writes the status without       *)
(* consulting TRANSITIONS, acts on a copy read long before.                *)
AuthorityKept ==
  [][\A w \in Works :
       /\ rows[w].checks # NoChecks => rows'[w].checks = rows[w].checks
       /\ rows[w].status \in Terminal => rows'[w].status = rows[w].status
       /\ Exists(w) => /\ rows'[w].root = rows[w].root
                       /\ rows'[w].parent = rows[w].parent]_vars

(* No update is lost: a client that rewrites the context from a copy never *)
(* erases what another client added after that copy was read (the revision *)
(* check of _transition).                                                  *)
NoLostUpdate ==
  [][\A w \in Works : rows[w].context \subseteq rows'[w].context]_vars
=============================================================================
