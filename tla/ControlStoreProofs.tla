------------------------- MODULE ControlStoreProofs -------------------------
(***************************************************************************)
(* What ControlStore keeps for every set of work items, clients, kinds and *)
(* limits.                                                                 *)
(***************************************************************************)
EXTENDS ControlStore, FiniteSetTheorems, TLAPS

-----------------------------------------------------------------------------
(* Consuming and orphaning leave the operations table well typed, and      *)
(* never open an outcome that was decided.                                 *)
LEMMA ConsumedKeeps ==
  ASSUME LedgerTypeOK, NEW used \in SUBSET OpIds
  PROVE  /\ Consumed(used) \in [OpIds -> Op]
         /\ \A o \in OpIds : /\ Consumed(used)[o].state = ops[o].state
                             /\ o \notin used => Consumed(used)[o] = ops[o]
                             /\ o \in used => Consumed(used)[o].consumed
  BY DEF LedgerTypeOK, Consumed, Op

LEMMA OrphanedKeeps ==
  ASSUME LedgerTypeOK, NEW o \in OpIds
  PROVE  /\ Orphaned(o) \in Op
         /\ ops[o].state # "ABSENT" <=> Orphaned(o).state # "ABSENT"
         /\ Orphaned(o).state \in Unresolved => ops[o].state \in Unresolved
  BY DEF LedgerTypeOK, Orphaned, Op, Unresolved, Settled

LEMMA ConsumableOps == \A w \in Works : Consumable(w) \subseteq OpIds
  BY DEF Consumable

(* A row written from a well-typed copy is well typed.                     *)
LEMMA RevisedType ==
  ASSUME TypeOK, NEW c \in Clients, Writable(c), NEW s \in Statuses,
         NEW p \in Phases, NEW k \in Checks \cup {NoChecks}
  PROVE  Revised(c, s, p, k) \in Row
<1>1. copy[c].row \in Row
  BY DEF TypeOK, Copy
<1>2. copy[c].row.revision + 1 \in 0..MaxRevision
  BY <1>1, StoreAssumption DEF Writable, Row
<1> QED
  BY <1>1, <1>2 DEF Revised, Row

LEMMA NewRowType ==
  ASSUME NEW parent \in Works \cup {NoWork}, NEW root \in Works \cup {NoWork},
         NEW p \in Phases, NEW k \in Checks \cup {NoChecks}
  PROVE  NewRow(parent, root, p, k) \in Row
  BY StoreAssumption DEF NewRow, Row, Statuses

(* The store's tables keep their shape.                                    *)
LEMMA InitType == Init => TypeOK
<1> SUFFICES ASSUME Init PROVE TypeOK
  OBVIOUS
<1>1. (CHOOSE p \in Phases : TRUE) \in Phases
  BY StoreAssumption
<1>2. NoRow \in Row
  BY <1>1, StoreAssumption DEF NoRow, Row
<1>3. NoCopy \in Copy
  BY <1>2 DEF NoCopy, Copy
<1> QED
  BY <1>2, <1>3 DEF Init, TypeOK, LedgerInit, LedgerTypeOK, Op, Absent, Sessions, NoOp

LEMMA StepType == TypeOK /\ [Next]_vars => TypeOK'
<1> SUFFICES ASSUME TypeOK, [Next]_vars PROVE TypeOK'
  OBVIOUS
<1> USE DEF TypeOK
<1>1. CASE UNCHANGED vars
  BY <1>1 DEF vars, LedgerTypeOK
<1>2. ASSUME NEW kind \in Sessions \ {"none"}, Acquire(kind) PROVE TypeOK'
  BY <1>2, OrphanedKeeps DEF Acquire, LedgerTypeOK
<1>3. CASE Leave
  <2>1. NoCopy \in Copy
    <3>1. (CHOOSE p \in Phases : TRUE) \in Phases
      BY StoreAssumption
    <3> QED
      BY <3>1, StoreAssumption DEF NoCopy, NoRow, Copy, Row
  <2> QED
    BY <1>3, <2>1 DEF Leave, LedgerTypeOK, Sessions
<1>4. ASSUME NEW c \in Clients, ClientNext(c) PROVE TypeOK'
  <2>1. ASSUME NEW w \in Works, Read(c, w) PROVE TypeOK'
    BY <2>1 DEF Read, Copy, LedgerTypeOK
  <2>2. ASSUME NEW w \in Works, NEW p \in Phases,
               NEW k \in Checks \cup {NoChecks}, CreateWorkflow(c, w, p, k)
        PROVE TypeOK'
    <3>1. rows' \in [Works -> Row]
      BY <2>2, NewRowType DEF CreateWorkflow
    <3> QED
      BY <2>2, <3>1 DEF CreateWorkflow, Copy, LedgerTypeOK
  <2>3. ASSUME NEW w \in Works, NEW p \in Phases, Addon(c, w, p)
        PROVE TypeOK'
    <3>1. copy[c].work \in Works /\ copy[c].row.root \in Works \cup {NoWork}
      BY <2>3 DEF Addon, Copy, Row
    <3>2. NewRow(copy[c].work, copy[c].row.root, p, NoChecks) \in Row
      BY <3>1, NewRowType
    <3> QED
      BY <2>3, <3>2 DEF Addon, LedgerTypeOK
  <2>4. ASSUME NEW ws \in SUBSET Works, NEW p \in Phases,
               NEW used \in SUBSET Consumable(copy[c].work),
               Delegate(c, ws, p, used)
        PROVE TypeOK'
    <3>1. copy[c].work \in Works /\ copy[c].row \in Row
      BY <2>4 DEF Delegate, Writable, Fresh, Copy
    <3>2. Revised(c, "WAITING", copy[c].row.phase, copy[c].row.checks) \in Row
      BY <2>4, <3>1, RevisedType DEF Delegate, Row, Statuses
    <3>3. NewRow(copy[c].work, copy[c].row.root, p, NoChecks) \in Row
      BY <3>1, NewRowType DEF Row
    <3>4. rows' \in [Works -> Row]
      BY <2>4, <3>2, <3>3 DEF Delegate
    <3>5. ops' \in [OpIds -> Op]
      BY <2>4, <3>1, ConsumedKeeps, ConsumableOps DEF Delegate
    <3> QED
      BY <2>4, <3>1, <3>4, <3>5 DEF Delegate, Copy, LedgerTypeOK
  <2>5. ASSUME NEW s \in Statuses, NEW p \in Phases,
               NEW used \in SUBSET Consumable(copy[c].work),
               Transition(c, s, p, used)
        PROVE TypeOK'
    <3>1. copy[c].work \in Works /\ copy[c].row \in Row
      BY <2>5 DEF Transition, Writable, Fresh, Copy
    <3>2. Revised(c, s, p, copy[c].row.checks) \in Row
      BY <2>5, <3>1, RevisedType DEF Transition, Row
    <3>3. ops' \in [OpIds -> Op]
      BY <2>5, <3>1, ConsumedKeeps, ConsumableOps DEF Transition
    <3>4. rows' \in [Works -> Row]
      BY <2>5, <3>2 DEF Transition
    <3> QED
      BY <2>5, <3>1, <3>3, <3>4 DEF Transition, Copy, LedgerTypeOK
  <2>6. ASSUME NEW k \in Checks, NEW p \in Phases,
               NEW used \in SUBSET Consumable(copy[c].work),
               BindContract(c, k, p, used)
        PROVE TypeOK'
    <3>1. copy[c].work \in Works /\ copy[c].row \in Row
      BY <2>6 DEF BindContract, Writable, Fresh, Copy
    <3>2. Revised(c, "READY", p, k) \in Row
      BY <2>6, RevisedType DEF BindContract, Statuses
    <3>3. ops' \in [OpIds -> Op]
      BY <2>6, <3>1, ConsumedKeeps, ConsumableOps DEF BindContract
    <3>4. rows' \in [Works -> Row]
      BY <2>6, <3>2 DEF BindContract
    <3> QED
      BY <2>6, <3>1, <3>3, <3>4 DEF BindContract, Copy, LedgerTypeOK
  <2>7. ASSUME NEW k \in Kinds, NEW n \in 0..MaxOrdinal, Reserve(c, k, n)
        PROVE TypeOK'
    <3>1. copy[c].work \in Works
      BY <2>7 DEF Reserve, Fresh, Copy
    <3>2. <<copy[c].work, k, n>> \in OpIds
      BY <3>1 DEF OpIds
    <3>3. Dispatched \in Op
      BY DEF Dispatched, Op, Unresolved
    <3> QED
      BY <2>7, <3>1, <3>2, <3>3 DEF Reserve, LedgerTypeOK
  <2>8. ASSUME NEW s \in Settled \cup {"UNKNOWN"}, Settle(c, s) PROVE TypeOK'
    BY <2>8 DEF Settle, LedgerTypeOK, Op, Settled, Unresolved
  <2> QED
    BY <1>4, <2>1, <2>2, <2>3, <2>4, <2>5, <2>6, <2>7, <2>8 DEF ClientNext
<1>5. ASSUME NEW o \in OpIds, NEW s \in Settled, Reconcile(o, s) PROVE TypeOK'
  BY <1>5 DEF Reconcile, LedgerTypeOK, Op, Settled
<1>6. ASSUME NEW o \in OpIds, Consume(o) PROVE TypeOK'
  BY <1>6, ConsumedKeeps DEF Consume, LedgerTypeOK
<1> QED
  BY <1>1, <1>2, <1>3, <1>4, <1>5, <1>6 DEF Next

THEOREM TypeCorrect == Spec => []TypeOK
  BY InitType, StepType, PTL DEF Spec

-----------------------------------------------------------------------------
(* CopyCoherent: what a client's copy still says about its row.  The row   *)
(* exists and kept its place in the tree; when the copy has the row's      *)
(* revision it is the row.                                                 *)
Coherent(c) ==
  copy[c].work # NoWork =>
    LET w == copy[c].work IN
    /\ Exists(w)
    /\ copy[c].row.status # "ABSENT"
    /\ copy[c].row.root = rows[w].root
    /\ copy[c].row.parent = rows[w].parent
    /\ copy[c].row.revision <= rows[w].revision
    /\ copy[c].row.revision = rows[w].revision => copy[c].row = rows[w]

CopyCoherent == \A c \in Clients : Coherent(c)

(* Every step either leaves a row alone, or inserts it, or writes it from  *)
(* a fresh copy of it: what the invariants need to know of the table.      *)
Inserted(w) == /\ ~ Exists(w)
               /\ rows'[w].status = "READY"
               /\ rows'[w].revision = 0
Rewritten(w) == /\ Exists(w)
                /\ rows'[w].status # "ABSENT"
                /\ rows'[w].root = rows[w].root
                /\ rows'[w].parent = rows[w].parent
                /\ rows'[w].revision = rows[w].revision + 1
                /\ rows[w].context \subseteq rows'[w].context
                /\ rows[w].checks # NoChecks => rows'[w].checks = rows[w].checks
                /\ rows[w].status \in Terminal => rows'[w].status = rows[w].status
RowStep == \A w \in Works : \/ rows'[w] = rows[w]
                            \/ Inserted(w)
                            \/ Rewritten(w)

CopyStep == \A c \in Clients :
              \/ copy'[c] = copy[c]
              \/ copy'[c] = NoCopy
              \/ /\ copy'[c].work \in Works
                 /\ rows'[copy'[c].work].status # "ABSENT"
                 /\ copy'[c].row = rows'[copy'[c].work]

LEMMA RevisedRow ==
  ASSUME TypeOK, CopyCoherent, NEW c \in Clients, Writable(c),
         NEW s \in Statuses, NEW p \in Phases, NEW k \in Checks \cup {NoChecks},
         rows[copy[c].work].checks # NoChecks => k = rows[copy[c].work].checks,
         rows[copy[c].work].status \in Terminal =>
           s = rows[copy[c].work].status,
         rows'[copy[c].work] = Revised(c, s, p, k)
  PROVE  Rewritten(copy[c].work)
<1>1. /\ copy[c].work \in Works
      /\ copy[c].row \in Row
      /\ copy[c].row = rows[copy[c].work]
      /\ Exists(copy[c].work)
  BY DEF TypeOK, Copy, CopyCoherent, Coherent, Writable, Fresh
<1>2. Revised(c, s, p, k) =
        [copy[c].row EXCEPT !.status = s, !.phase = p, !.checks = k,
           !.context = copy[c].row.context \cup {c},
           !.revision = copy[c].row.revision + 1]
  BY DEF Revised
<1> QED
  BY <1>1, <1>2 DEF Rewritten, Row, Statuses

LEMMA StepRows ==
  ASSUME TypeOK, CopyCoherent, Next
  PROVE  RowStep /\ CopyStep
<1>1. ASSUME rows' = rows, copy' = copy PROVE RowStep /\ CopyStep
  BY <1>1 DEF RowStep, CopyStep
<1>2. ASSUME NEW kind \in Sessions, Acquire(kind) PROVE RowStep /\ CopyStep
  BY <1>1, <1>2 DEF Acquire
<1>3. CASE Leave
  BY <1>3 DEF Leave, RowStep, CopyStep
<1>4. ASSUME NEW c \in Clients, ClientNext(c) PROVE RowStep /\ CopyStep
  <2> USE DEF TypeOK
  <2>0. copy[c].work # NoWork => /\ copy[c].work \in Works
                                 /\ copy[c].row \in Row
                                 /\ Exists(copy[c].work)
    BY DEF Copy, CopyCoherent, Coherent
  <2>1. ASSUME NEW w \in Works, Read(c, w) PROVE RowStep /\ CopyStep
    BY <2>1 DEF Read, RowStep, CopyStep, Exists
  <2>2. ASSUME NEW w \in Works, NEW p \in Phases,
               NEW k \in Checks \cup {NoChecks}, CreateWorkflow(c, w, p, k)
        PROVE RowStep /\ CopyStep
    <3>1. RowStep
      BY <2>2 DEF CreateWorkflow, RowStep, Inserted, NewRow
    <3>2. rows'[w].status # "ABSENT"
      BY <2>2 DEF CreateWorkflow, NewRow
    <3>3. CopyStep
      BY <2>2, <3>2 DEF CreateWorkflow, CopyStep
    <3> QED
      BY <3>1, <3>3
  <2>3. ASSUME NEW w \in Works, NEW p \in Phases, Addon(c, w, p)
        PROVE RowStep /\ CopyStep
    BY <2>3 DEF Addon, RowStep, CopyStep, Inserted, NewRow
  <2>4. ASSUME NEW ws \in SUBSET Works, NEW p \in Phases,
               NEW used \in SUBSET Consumable(copy[c].work),
               Delegate(c, ws, p, used)
        PROVE RowStep /\ CopyStep
    <3>1. Writable(c)
      BY <2>4 DEF Delegate
    <3>2. /\ copy[c].work \in Works
          /\ copy[c].work \notin ws
          /\ copy[c].row = rows[copy[c].work]
          /\ copy[c].row \in Row
      BY <2>0, <2>4, <3>1 DEF Delegate, Writable, Fresh, CopyCoherent, Coherent
    <3>3. rows'[copy[c].work] =
            Revised(c, "WAITING", copy[c].row.phase, copy[c].row.checks)
      BY <2>4, <3>2 DEF Delegate
    <3>4. rows[copy[c].work].status \notin Terminal
      BY <2>4, <3>2 DEF Delegate, MayMove, TRANSITIONS, Terminal
    <3>5. Rewritten(copy[c].work)
      BY <3>1, <3>2, <3>3, <3>4, RevisedRow DEF Row, Statuses
    <3>6. RowStep
      BY <2>4, <3>2, <3>5 DEF Delegate, RowStep, Inserted, NewRow
    <3>7. CopyStep
      BY <2>4, <3>2, <3>5, ZenonT(120) DEF Delegate, CopyStep, Copy, Rewritten
    <3> QED
      BY <3>6, <3>7
  <2>5. ASSUME NEW s \in Statuses, NEW p \in Phases,
               NEW used \in SUBSET Consumable(copy[c].work),
               Transition(c, s, p, used)
        PROVE RowStep /\ CopyStep
    <3>1. Writable(c)
      BY <2>5 DEF Transition
    <3>2. /\ copy[c].work \in Works
          /\ copy[c].row = rows[copy[c].work]
          /\ copy[c].row \in Row
      BY <2>0, <3>1 DEF Writable, Fresh, CopyCoherent, Coherent
    <3>3. rows'[copy[c].work] = Revised(c, s, p, copy[c].row.checks)
      BY <2>5, <3>2 DEF Transition
    <3>4. rows[copy[c].work].status \in Terminal =>
            s = rows[copy[c].work].status
      BY <2>5, <3>2 DEF Transition, MayMove, TRANSITIONS, Terminal
    <3>5. Rewritten(copy[c].work)
      BY <3>1, <3>2, <3>3, <3>4, RevisedRow DEF Row
    <3>6. RowStep
      BY <2>5, <3>2, <3>5 DEF Transition, RowStep
    <3>7. CopyStep
      BY <2>5, <3>2, <3>5 DEF Transition, CopyStep, Copy, Rewritten
    <3> QED
      BY <3>6, <3>7
  <2>6. ASSUME NEW k \in Checks, NEW p \in Phases,
               NEW used \in SUBSET Consumable(copy[c].work),
               BindContract(c, k, p, used)
        PROVE RowStep /\ CopyStep
    <3>1. Writable(c)
      BY <2>6 DEF BindContract
    <3>2. /\ copy[c].work \in Works
          /\ copy[c].row = rows[copy[c].work]
          /\ copy[c].row \in Row
      BY <2>0, <3>1 DEF Writable, Fresh, CopyCoherent, Coherent
    <3>3. rows'[copy[c].work] = Revised(c, "READY", p, k)
      BY <2>6, <3>2 DEF BindContract
    <3>4. rows[copy[c].work].status \notin Terminal
      BY <2>6, <3>2 DEF BindContract, Terminal
    <3>5. rows[copy[c].work].checks # NoChecks =>
            k = rows[copy[c].work].checks
      BY <2>6, <3>2 DEF BindContract
    <3>6. Rewritten(copy[c].work)
      BY <3>1, <3>2, <3>3, <3>4, <3>5, RevisedRow DEF Statuses
    <3>7. RowStep
      BY <2>6, <3>2, <3>6 DEF BindContract, RowStep
    <3>8. CopyStep
      BY <2>6, <3>2, <3>6 DEF BindContract, CopyStep, Copy, Rewritten
    <3> QED
      BY <3>7, <3>8
  <2>7. ASSUME NEW k \in Kinds, NEW n \in 0..MaxOrdinal, Reserve(c, k, n)
        PROVE RowStep /\ CopyStep
    BY <1>1, <2>7 DEF Reserve
  <2>8. ASSUME NEW s \in Settled \cup {"UNKNOWN"}, Settle(c, s)
        PROVE RowStep /\ CopyStep
    BY <1>1, <2>8 DEF Settle
  <2> QED
    BY <1>4, <2>1, <2>2, <2>3, <2>4, <2>5, <2>6, <2>7, <2>8 DEF ClientNext
<1>5. ASSUME NEW o \in OpIds, NEW s \in Settled, Reconcile(o, s)
      PROVE RowStep /\ CopyStep
  BY <1>1, <1>5 DEF Reconcile
<1>6. ASSUME NEW o \in OpIds, Consume(o) PROVE RowStep /\ CopyStep
  BY <1>1, <1>6 DEF Consume
<1> QED
  BY <1>2, <1>3, <1>4, <1>5, <1>6 DEF Next

(* The revision check keeps copies coherent.                               *)
LEMMA InitCoherent == Init => CopyCoherent
  BY StoreAssumption DEF Init, CopyCoherent, Coherent, NoCopy

LEMMA StepCoherent == TypeOK /\ CopyCoherent /\ [Next]_vars => CopyCoherent'
<1> SUFFICES ASSUME TypeOK, CopyCoherent, [Next]_vars PROVE CopyCoherent'
  OBVIOUS
<1>1. CASE UNCHANGED vars
  BY <1>1 DEF vars, CopyCoherent, Coherent, Exists
<1>2. CASE Next
  <2> SUFFICES ASSUME NEW c \in Clients, copy'[c].work # NoWork
               PROVE  Coherent(c)'
    BY DEF CopyCoherent, Coherent
  <2>1. RowStep /\ CopyStep /\ TypeOK'
    BY <1>2, StepRows, StepType
  <2>2. CASE copy'[c] = copy[c]
    <3>1. copy[c].work \in Works /\ Coherent(c)
      BY <2>2 DEF TypeOK, Copy, CopyCoherent
    <3>2. /\ rows[copy[c].work] \in Row
          /\ copy[c].row \in Row
      BY <3>1 DEF TypeOK, Copy
    <3>3. CASE rows'[copy[c].work] = rows[copy[c].work]
      BY <2>2, <3>1, <3>3 DEF Coherent, Exists
    <3>4. CASE Rewritten(copy[c].work)
      BY <2>2, <3>1, <3>2, <3>4 DEF Coherent, Exists, Rewritten, Row
    <3>5. ~ Inserted(copy[c].work)
      BY <2>2, <3>1 DEF Coherent, Inserted
    <3> QED
      BY <2>1, <3>1, <3>3, <3>4, <3>5 DEF RowStep
  <2>3. CASE copy'[c] = NoCopy
    BY <2>3 DEF NoCopy
  <2>4. CASE /\ copy'[c].work \in Works
             /\ rows'[copy'[c].work].status # "ABSENT"
             /\ copy'[c].row = rows'[copy'[c].work]
    <3>1. rows'[copy'[c].work] \in Row
      BY <2>1, <2>4 DEF TypeOK
    <3> QED
      BY <2>4, <3>1 DEF Coherent, Exists, Row
  <2> QED
    BY <2>1, <2>2, <2>3, <2>4 DEF CopyStep
<1> QED
  BY <1>1, <1>2

(* A row that is not there carries no contract and no context.             *)
AbsentBlank == \A w \in Works : ~ Exists(w) => /\ rows[w].checks = NoChecks
                                              /\ rows[w].context = {}

LEMMA InitAbsent == Init => AbsentBlank
  BY DEF Init, AbsentBlank, NoRow

LEMMA StepAbsent ==
  TypeOK /\ CopyCoherent /\ AbsentBlank /\ [Next]_vars => AbsentBlank'
<1>1. ASSUME UNCHANGED vars, AbsentBlank PROVE AbsentBlank'
  BY <1>1 DEF vars, AbsentBlank, Exists
<1>2. ASSUME TypeOK, CopyCoherent, AbsentBlank, Next PROVE AbsentBlank'
  <2>1. RowStep
    BY <1>2, StepRows
  <2> QED
    BY <1>2, <2>1 DEF RowStep, AbsentBlank, Inserted, Rewritten, Exists
<1> QED
  BY <1>1, <1>2

TableInv == TypeOK /\ CopyCoherent /\ AbsentBlank

THEOREM TableCorrect == Spec => []TableInv
<1>1. Init => TableInv
  BY InitType, InitCoherent, InitAbsent DEF TableInv
<1>2. TableInv /\ [Next]_vars => TableInv'
  BY StepType, StepCoherent, StepAbsent DEF TableInv
<1> QED
  BY <1>1, <1>2, PTL DEF Spec

(* Bound verification, the place in the tree and a terminal status outlive *)
(* every stale copy (the revision check of _transition and bind_contract). *)
THEOREM AuthorityTheorem == Spec => AuthorityKept
<1>1. ASSUME TableInv, Next, NEW w \in Works
      PROVE  /\ rows[w].checks # NoChecks => rows'[w].checks = rows[w].checks
             /\ rows[w].status \in Terminal => rows'[w].status = rows[w].status
             /\ Exists(w) => /\ rows'[w].root = rows[w].root
                             /\ rows'[w].parent = rows[w].parent
  <2>1. RowStep
    BY <1>1, StepRows DEF TableInv
  <2> QED
    BY <1>1, <2>1
       DEF RowStep, Inserted, Rewritten, Exists, Terminal, TableInv, AbsentBlank
<1>2. TableInv /\ [Next]_vars =>
        [\A w \in Works :
           /\ rows[w].checks # NoChecks => rows'[w].checks = rows[w].checks
           /\ rows[w].status \in Terminal => rows'[w].status = rows[w].status
           /\ Exists(w) => /\ rows'[w].root = rows[w].root
                           /\ rows'[w].parent = rows[w].parent]_vars
  BY <1>1
<1> QED
  BY <1>2, TableCorrect, PTL DEF Spec, AuthorityKept

(* What one client added to a row's context survives every later write,    *)
(* whoever makes it and however old its copy is.                           *)
THEOREM LostUpdateTheorem == Spec => NoLostUpdate
<1>1. ASSUME TableInv, Next, NEW w \in Works
      PROVE  rows[w].context \subseteq rows'[w].context
  <2>1. RowStep
    BY <1>1, StepRows DEF TableInv
  <2> QED
    BY <1>1, <2>1 DEF RowStep, Inserted, Rewritten, Exists, TableInv, AbsentBlank
<1>2. TableInv /\ [Next]_vars =>
        [\A w \in Works : rows[w].context \subseteq rows'[w].context]_vars
  BY <1>1
<1> QED
  BY <1>2, TableCorrect, PTL DEF Spec, NoLostUpdate

-----------------------------------------------------------------------------
(* What a step does to the operations table: it reserves one operation, or *)
(* every row keeps its presence and an outcome is opened only for one that *)
(* is open already.                                                        *)
OpsStep == \A o \in OpIds :
             /\ ops'[o].state # "ABSENT" <=> ops[o].state # "ABSENT"
             /\ ops'[o].state \in Unresolved => ops[o].state \in Unresolved

Reserves == \E c \in Clients, k \in Kinds, n \in 0..MaxOrdinal : Reserve(c, k, n)

LEMMA StepOps ==
  ASSUME TypeOK, Next
  PROVE  Reserves \/ (OpsStep /\ UNCHANGED <<calls, wfcalls>>)
<1> USE DEF TypeOK
<1>1. ASSUME ops' = ops PROVE OpsStep
  BY <1>1 DEF OpsStep
<1>2. ASSUME NEW used \in SUBSET OpIds, ops' = Consumed(used) PROVE OpsStep
  BY <1>2, ConsumedKeeps DEF OpsStep
<1>3. ASSUME NEW w, NEW used \in SUBSET Consumable(w) PROVE used \subseteq OpIds
  BY DEF Consumable
<1>4. ASSUME NEW kind \in Sessions, Acquire(kind)
      PROVE OpsStep /\ UNCHANGED <<calls, wfcalls>>
  BY <1>4, OrphanedKeeps DEF Acquire, OpsStep
<1>5. CASE Leave
  BY <1>1, <1>5 DEF Leave
<1>6. ASSUME NEW c \in Clients, ClientNext(c)
      PROVE Reserves \/ (OpsStep /\ UNCHANGED <<calls, wfcalls>>)
  <2>1. ASSUME NEW w \in Works, Read(c, w)
        PROVE OpsStep /\ UNCHANGED <<calls, wfcalls>>
    BY <1>1, <2>1 DEF Read
  <2>2. ASSUME NEW w \in Works, NEW p \in Phases,
               NEW k \in Checks \cup {NoChecks}, CreateWorkflow(c, w, p, k)
        PROVE OpsStep /\ UNCHANGED <<calls, wfcalls>>
    BY <1>1, <2>2 DEF CreateWorkflow
  <2>3. ASSUME NEW w \in Works, NEW p \in Phases, Addon(c, w, p)
        PROVE OpsStep /\ UNCHANGED <<calls, wfcalls>>
    BY <1>1, <2>3 DEF Addon
  <2>4. ASSUME NEW ws \in SUBSET Works, NEW p \in Phases,
               NEW used \in SUBSET Consumable(copy[c].work),
               Delegate(c, ws, p, used)
        PROVE OpsStep /\ UNCHANGED <<calls, wfcalls>>
    BY <1>2, <1>3, <2>4 DEF Delegate
  <2>5. ASSUME NEW s \in Statuses, NEW p \in Phases,
               NEW used \in SUBSET Consumable(copy[c].work),
               Transition(c, s, p, used)
        PROVE OpsStep /\ UNCHANGED <<calls, wfcalls>>
    BY <1>2, <1>3, <2>5 DEF Transition
  <2>6. ASSUME NEW k \in Checks, NEW p \in Phases,
               NEW used \in SUBSET Consumable(copy[c].work),
               BindContract(c, k, p, used)
        PROVE OpsStep /\ UNCHANGED <<calls, wfcalls>>
    BY <1>2, <1>3, <2>6 DEF BindContract
  <2>7. ASSUME NEW k \in Kinds, NEW n \in 0..MaxOrdinal, Reserve(c, k, n)
        PROVE Reserves
    BY <2>7 DEF Reserves
  <2>8. ASSUME NEW s \in Settled \cup {"UNKNOWN"}, Settle(c, s)
        PROVE OpsStep /\ UNCHANGED <<calls, wfcalls>>
    BY <2>8 DEF Settle, OpsStep, LedgerTypeOK, Op, Settled, Unresolved
  <2> QED
    BY <1>6, <2>1, <2>2, <2>3, <2>4, <2>5, <2>6, <2>7, <2>8 DEF ClientNext
<1>7. ASSUME NEW o \in OpIds, NEW s \in Settled, Reconcile(o, s)
      PROVE OpsStep /\ UNCHANGED <<calls, wfcalls>>
  BY <1>7 DEF Reconcile, OpsStep, LedgerTypeOK, Op, Settled, Unresolved
<1>8. ASSUME NEW o \in OpIds, Consume(o)
      PROVE OpsStep /\ UNCHANGED <<calls, wfcalls>>
  BY <1>2, <1>8 DEF Consume
<1> QED
  BY <1>4, <1>5, <1>6, <1>7, <1>8 DEF Next

-----------------------------------------------------------------------------
(* Only Transition completes a row, and it looked at the row's operations. *)
LEMMA CompletesSettled ==
  ASSUME TypeOK, Next, NEW w \in Works, rows'[w].status = "COMPLETED"
  PROVE  rows[w].status = "COMPLETED" \/ OpenOps(w) = {}
<1> USE DEF TypeOK
<1>1. ASSUME rows' = rows PROVE rows[w].status = "COMPLETED"
  BY <1>1
<1>2. ASSUME NEW kind \in Sessions, Acquire(kind) PROVE rows' = rows
  BY <1>2 DEF Acquire
<1>3. CASE Leave
  BY <1>3 DEF Leave
<1>4. ASSUME NEW c \in Clients, ClientNext(c)
      PROVE rows[w].status = "COMPLETED" \/ OpenOps(w) = {}
  <2>1. ASSUME NEW v \in Works, Read(c, v) PROVE rows' = rows
    BY <2>1 DEF Read
  <2>2. ASSUME NEW v \in Works, NEW p \in Phases,
               NEW k \in Checks \cup {NoChecks}, CreateWorkflow(c, v, p, k)
        PROVE rows[w].status = "COMPLETED"
    BY <2>2 DEF CreateWorkflow, NewRow
  <2>3. ASSUME NEW v \in Works, NEW p \in Phases, Addon(c, v, p)
        PROVE rows[w].status = "COMPLETED"
    BY <2>3 DEF Addon, NewRow
  <2>4. ASSUME NEW ws \in SUBSET Works, NEW p \in Phases,
               NEW used \in SUBSET Consumable(copy[c].work),
               Delegate(c, ws, p, used)
        PROVE rows[w].status = "COMPLETED"
    <3>1. copy[c].row \in Row
      BY DEF Copy
    <3>2. Revised(c, "WAITING", copy[c].row.phase,
                  copy[c].row.checks).status = "WAITING"
      BY <3>1 DEF Revised, Row
    <3> QED
      BY <2>4, <3>2 DEF Delegate, NewRow
  <2>5. ASSUME NEW s \in Statuses, NEW p \in Phases,
               NEW used \in SUBSET Consumable(copy[c].work),
               Transition(c, s, p, used)
        PROVE rows[w].status = "COMPLETED" \/ OpenOps(w) = {}
    <3>1. copy[c].row \in Row
      BY DEF Copy
    <3>2. Revised(c, s, p, copy[c].row.checks).status = s
      BY <3>1 DEF Revised, Row
    <3>3. CASE w = copy[c].work
      BY <2>5, <3>2, <3>3 DEF Transition, CompletionSettled
    <3>4. CASE w # copy[c].work
      BY <2>5, <3>4 DEF Transition
    <3> QED
      BY <3>3, <3>4
  <2>6. ASSUME NEW k \in Checks, NEW p \in Phases,
               NEW used \in SUBSET Consumable(copy[c].work),
               BindContract(c, k, p, used)
        PROVE rows[w].status = "COMPLETED"
    <3>1. copy[c].row \in Row
      BY DEF Copy
    <3>2. Revised(c, "READY", p, k).status = "READY"
      BY <3>1 DEF Revised, Row
    <3> QED
      BY <2>6, <3>2 DEF BindContract
  <2>7. ASSUME NEW k \in Kinds, NEW n \in 0..MaxOrdinal, Reserve(c, k, n)
        PROVE rows' = rows
    BY <2>7 DEF Reserve
  <2>8. ASSUME NEW s \in Settled \cup {"UNKNOWN"}, Settle(c, s)
        PROVE rows' = rows
    BY <2>8 DEF Settle
  <2> QED
    BY <1>1, <1>4, <2>1, <2>2, <2>3, <2>4, <2>5, <2>6, <2>7, <2>8
       DEF ClientNext
<1>5. ASSUME NEW o \in OpIds, NEW s \in Settled, Reconcile(o, s)
      PROVE rows' = rows
  BY <1>5 DEF Reconcile
<1>6. ASSUME NEW o \in OpIds, Consume(o) PROVE rows' = rows
  BY <1>6 DEF Consume
<1> QED
  BY <1>1, <1>2, <1>3, <1>4, <1>5, <1>6 DEF Next

(* A completed work item never has an operation whose outcome is open.     *)
THEOREM CompletedTheorem == Spec => []CompletedSettled
<1>1. Init => CompletedSettled
  BY DEF Init, NoRow, CompletedSettled
<1>2. TypeOK /\ CompletedSettled /\ [Next]_vars => CompletedSettled'
  <2> SUFFICES ASSUME TypeOK, CompletedSettled, [Next]_vars,
                      NEW w \in Works, rows'[w].status = "COMPLETED",
                      NEW o \in OpIds, o[1] = w,
                      ops'[o].state \in Unresolved
               PROVE  FALSE
    BY DEF CompletedSettled, OpenOps
  <2>1. CASE UNCHANGED vars
    BY <2>1 DEF vars, CompletedSettled, OpenOps
  <2>2. CASE Next /\ OpsStep
    <3>1. o \in OpenOps(w)
      BY <2>2 DEF OpsStep, OpenOps
    <3> QED
      BY <2>2, <3>1, CompletesSettled DEF CompletedSettled
  <2>3. CASE Next /\ Reserves
    <3>1. PICK c \in Clients, k \in Kinds, n \in 0..MaxOrdinal :
            Reserve(c, k, n)
      BY <2>3 DEF Reserves
    <3>2. rows' = rows /\ copy[c].work # w
      BY <3>1 DEF Reserve
    <3>3. o # <<copy[c].work, k, n>>
      BY <3>2
    <3>4. ops'[o] = ops[o]
      BY <3>1, <3>3 DEF Reserve, TypeOK, LedgerTypeOK
    <3> QED
      BY <3>2, <3>4 DEF CompletedSettled, OpenOps
  <2> QED
    BY <2>1, <2>2, <2>3, StepOps
<1> QED
  BY <1>1, <1>2, TypeCorrect, PTL DEF Spec

-----------------------------------------------------------------------------
(* The store implements the operation ledger.                              *)
DecidedConsumed == \A o \in OpIds : ops[o].consumed => ops[o].state \in Settled

LEMMA StepLedger ==
  ASSUME TypeOK, DecidedConsumed, Next
  PROVE  LedgerNext
<1> USE DEF TypeOK
<1>0. ops' \in [OpIds -> Op]
  BY StepType DEF LedgerTypeOK
<1> SUFFICES ASSUME NEW o \in OpIds PROVE Lawful(o)
  BY <1>0 DEF LedgerNext
<1>a. ops[o] \in Op
  BY DEF LedgerTypeOK
<1>1. ASSUME ops' = ops PROVE Lawful(o)
  BY <1>1 DEF Lawful
<1>2. ASSUME NEW used \in SUBSET OpIds, ops' = Consumed(used),
             \A u \in used : ops[u].state \in Settled
      PROVE Lawful(o)
  BY <1>a, <1>2 DEF Consumed, Lawful, Decides
<1>3. ASSUME NEW w, NEW used \in SUBSET Consumable(w), ops' = Consumed(used)
      PROVE Lawful(o)
  BY <1>2, <1>3 DEF Consumable
<1>4. ASSUME NEW kind \in Sessions, Acquire(kind) PROVE Lawful(o)
  <2>1. ops'[o] = ops[o] \/ ops'[o] = Orphaned(o)
    BY <1>4 DEF Acquire
  <2> QED
    BY <1>a, <2>1 DEF Orphaned, Lawful, Decides, Unresolved, Settled, Op
<1>5. CASE Leave
  BY <1>1, <1>5 DEF Leave
<1>6. ASSUME NEW c \in Clients, ClientNext(c) PROVE Lawful(o)
  <2>1. ASSUME NEW w \in Works, Read(c, w) PROVE Lawful(o)
    BY <1>1, <2>1 DEF Read
  <2>2. ASSUME NEW w \in Works, NEW p \in Phases,
               NEW k \in Checks \cup {NoChecks}, CreateWorkflow(c, w, p, k)
        PROVE Lawful(o)
    BY <1>1, <2>2 DEF CreateWorkflow
  <2>3. ASSUME NEW w \in Works, NEW p \in Phases, Addon(c, w, p)
        PROVE Lawful(o)
    BY <1>1, <2>3 DEF Addon
  <2>4. ASSUME NEW ws \in SUBSET Works, NEW p \in Phases,
               NEW used \in SUBSET Consumable(copy[c].work),
               Delegate(c, ws, p, used)
        PROVE Lawful(o)
    BY <1>3, <2>4 DEF Delegate
  <2>5. ASSUME NEW s \in Statuses, NEW p \in Phases,
               NEW used \in SUBSET Consumable(copy[c].work),
               Transition(c, s, p, used)
        PROVE Lawful(o)
    BY <1>3, <2>5 DEF Transition
  <2>6. ASSUME NEW k \in Checks, NEW p \in Phases,
               NEW used \in SUBSET Consumable(copy[c].work),
               BindContract(c, k, p, used)
        PROVE Lawful(o)
    BY <1>3, <2>6 DEF BindContract
  <2>7. ASSUME NEW k \in Kinds, NEW n \in 0..MaxOrdinal, Reserve(c, k, n)
        PROVE Lawful(o)
    <3>1. copy[c].work \in Works
      BY <2>7 DEF Reserve, Fresh, Copy
    <3>2. <<copy[c].work, k, n>> \in OpIds
      BY <3>1 DEF OpIds
    <3> QED
      BY <2>7, <3>2 DEF Reserve, NextOrdinal, Lawful, LedgerTypeOK
  <2>8. ASSUME NEW s \in Settled \cup {"UNKNOWN"}, Settle(c, s)
        PROVE Lawful(o)
    <3>1. CASE o = flight[c]
      <4>1. ops'[o] = [ops[o] EXCEPT !.state = s] /\ ops[o].state \in Unresolved
        BY <2>8, <3>1 DEF Settle, LedgerTypeOK
      <4>2. ~ ops[o].consumed
        BY <4>1 DEF DecidedConsumed, Unresolved, Settled
      <4> QED
        BY <1>a, <4>1, <4>2 DEF Lawful, Decides, Op, Settled
    <3>2. CASE o # flight[c]
      BY <2>8, <3>2 DEF Settle, Lawful, LedgerTypeOK
    <3> QED
      BY <3>1, <3>2
  <2> QED
    BY <1>6, <2>1, <2>2, <2>3, <2>4, <2>5, <2>6, <2>7, <2>8 DEF ClientNext
<1>7. ASSUME NEW q \in OpIds, NEW s \in Settled, Reconcile(q, s)
      PROVE Lawful(o)
  BY <1>a, <1>7 DEF Reconcile, Lawful, Decides, LedgerTypeOK, Op
<1>8. ASSUME NEW q \in OpIds, Consume(q) PROVE Lawful(o)
  BY <1>2, <1>8 DEF Consume
<1> QED
  BY <1>4, <1>5, <1>6, <1>7, <1>8 DEF Next

LEMMA LawfulDecided ==
  ASSUME LedgerTypeOK, DecidedConsumed, LedgerNext
  PROVE  DecidedConsumed'
  BY DEF LedgerTypeOK, LedgerNext, Lawful, DecidedConsumed, Decides, Op,
         Dispatched, Unresolved, Settled

LEMMA LedgerInv == Spec => [](TypeOK /\ DecidedConsumed)
<1>1. Init => DecidedConsumed
  BY DEF Init, LedgerInit, DecidedConsumed, Absent
<1>2. TypeOK /\ DecidedConsumed /\ [Next]_vars => DecidedConsumed'
  <2>1. ASSUME UNCHANGED vars, DecidedConsumed PROVE DecidedConsumed'
    BY <2>1 DEF vars, DecidedConsumed
  <2> QED
    BY <2>1, StepLedger, LawfulDecided DEF TypeOK
<1> QED
  BY <1>1, <1>2, TypeCorrect, PTL DEF Spec

(* Every behaviour of the store is one the ledger allows.                  *)
THEOREM ImplementsLedger == Spec => LedgerSpec
<1>1. Init => LedgerInit
  BY DEF Init
<1>2. TypeOK /\ DecidedConsumed /\ [Next]_vars => [LedgerNext]_ops
  BY StepLedger DEF vars
<1> QED
  BY <1>1, <1>2, LedgerInv, PTL DEF Spec, LedgerSpec

(* What the ledger promises of retries, for every number of attempts.      *)
THEOREM LedgerOneOpen == LedgerSpec => []OneOpenAttempt
<1>0. LedgerInit => LedgerTypeOK /\ OneOpenAttempt
  BY DEF LedgerInit, LedgerTypeOK, OneOpenAttempt, Absent, Op, Present
<1>1. LedgerTypeOK /\ OneOpenAttempt /\ [LedgerNext]_ops
        => LedgerTypeOK' /\ OneOpenAttempt'
  <2>1. ASSUME UNCHANGED ops, LedgerTypeOK, OneOpenAttempt
        PROVE  LedgerTypeOK' /\ OneOpenAttempt'
    BY <2>1 DEF LedgerTypeOK, OneOpenAttempt, Present, Exhausted
  <2>2. ASSUME LedgerNext, LedgerTypeOK, OneOpenAttempt
        PROVE  LedgerTypeOK' /\ OneOpenAttempt'
    <3>1. LedgerTypeOK'
      BY <2>2 DEF LedgerNext, LedgerTypeOK
    <3>2. DecidedConsumed /\ DecidedConsumed'
      BY <2>2, LawfulDecided DEF OneOpenAttempt, DecidedConsumed
    <3>3. \A o \in OpIds : ops[o].consumed => ops'[o].consumed
      BY <2>2, <3>2 DEF LedgerNext, Lawful, Decides, LedgerTypeOK, Op, Present,
                        DecidedConsumed, Unresolved, Settled
    <3>4. ASSUME NEW o \in OpIds, ops'[o].state # "ABSENT" PROVE Exhausted(o)
      BY <2>2, <3>4 DEF LedgerNext, Lawful, Decides, OneOpenAttempt, Present,
                        Unresolved, Settled
    <3>5. ASSUME NEW o \in OpIds, ops'[o].state # "ABSENT" PROVE Exhausted(o)'
      <4>1. \A m \in 0..MaxOrdinal : <<o[1], o[2], m>> \in OpIds
        BY DEF OpIds
      <4> QED
        BY <3>3, <3>4, <3>5, <4>1 DEF Exhausted
    <3> QED
      BY <3>1, <3>2, <3>5 DEF OneOpenAttempt, DecidedConsumed, Present
  <2> QED
    BY <2>1, <2>2
<1> QED
  BY <1>0, <1>1, PTL DEF LedgerSpec

(* A retry of an operation never overlaps the attempt it replaces.         *)
THEOREM OneOpenTheorem == Spec => []OneOpenAttempt
  BY ImplementsLedger, LedgerOneOpen, PTL

-----------------------------------------------------------------------------
(* The budget.  Strengthening: an operation belongs to a row that exists,  *)
(* a row's root is a work item, and the sets that are counted are finite.  *)
Owned == /\ \A o \in OpIds : Present(o) => Exists(o[1])
         /\ \A w \in Works : Exists(w) => rows[w].root \in Works

Finite == \A w \in Works : /\ IsFiniteSet(ModelCalls(w))
                           /\ IsFiniteSet(FlowCalls(w))

BudgetInv == TableInv /\ Owned /\ Finite /\ BudgetKept

(* A row that is inserted has a root: the new work item itself, or the     *)
(* root of the row it was added under.                                     *)
LEMMA InsertedRoots ==
  ASSUME TableInv, Owned, Next, NEW w \in Works, Inserted(w)
  PROVE  rows'[w].root \in Works
<1> USE DEF TableInv, TypeOK
<1>0. \A c \in Clients : copy[c].work # NoWork =>
        /\ copy[c].work \in Works
        /\ copy[c].row.root \in Works
  BY DEF Copy, CopyCoherent, Coherent, Owned
<1>1. ASSUME rows' = rows PROVE FALSE
  BY <1>1 DEF Inserted, Exists
<1>2. ASSUME NEW kind \in Sessions, Acquire(kind) PROVE rows' = rows
  BY <1>2 DEF Acquire
<1>3. CASE Leave
  BY <1>1, <1>3 DEF Leave
<1>4. ASSUME NEW c \in Clients, ClientNext(c) PROVE rows'[w].root \in Works
  <2>1. ASSUME NEW v \in Works, Read(c, v) PROVE rows' = rows
    BY <2>1 DEF Read
  <2>2. ASSUME NEW v \in Works, NEW p \in Phases,
               NEW k \in Checks \cup {NoChecks}, CreateWorkflow(c, v, p, k)
        PROVE rows'[w].root \in Works
    BY <2>2 DEF CreateWorkflow, NewRow, Inserted, Exists
  <2>3. ASSUME NEW v \in Works, NEW p \in Phases, Addon(c, v, p)
        PROVE rows'[w].root \in Works
    BY <1>0, <2>3 DEF Addon, NewRow, Inserted, Exists
  <2>4. ASSUME NEW ws \in SUBSET Works, NEW p \in Phases,
               NEW used \in SUBSET Consumable(copy[c].work),
               Delegate(c, ws, p, used)
        PROVE rows'[w].root \in Works
    <3>1. copy[c].work # NoWork /\ Exists(copy[c].work)
      BY <2>4 DEF Delegate, Writable, Fresh, CopyCoherent, Coherent
    <3>2. w # copy[c].work
      BY <3>1 DEF Inserted
    <3>3. w \in ws
      BY <2>4, <3>2 DEF Delegate, Inserted, Exists
    <3> QED
      BY <1>0, <2>4, <3>1, <3>3 DEF Delegate, NewRow
  <2>5. ASSUME NEW s \in Statuses, NEW p \in Phases,
               NEW used \in SUBSET Consumable(copy[c].work),
               Transition(c, s, p, used)
        PROVE FALSE
    <3>1. copy[c].work # NoWork /\ Exists(copy[c].work)
      BY <2>5 DEF Transition, Writable, Fresh, CopyCoherent, Coherent
    <3> QED
      BY <2>5, <3>1 DEF Transition, Inserted, Exists
  <2>6. ASSUME NEW k \in Checks, NEW p \in Phases,
               NEW used \in SUBSET Consumable(copy[c].work),
               BindContract(c, k, p, used)
        PROVE FALSE
    <3>1. copy[c].work # NoWork /\ Exists(copy[c].work)
      BY <2>6 DEF BindContract, Writable, Fresh, CopyCoherent, Coherent
    <3> QED
      BY <2>6, <3>1 DEF BindContract, Inserted, Exists
  <2>7. ASSUME NEW k \in Kinds, NEW n \in 0..MaxOrdinal, Reserve(c, k, n)
        PROVE rows' = rows
    BY <2>7 DEF Reserve
  <2>8. ASSUME NEW s \in Settled \cup {"UNKNOWN"}, Settle(c, s)
        PROVE rows' = rows
    BY <2>8 DEF Settle
  <2> QED
    BY <1>1, <1>4, <2>1, <2>2, <2>3, <2>4, <2>5, <2>6, <2>7, <2>8
       DEF ClientNext
<1>5. ASSUME NEW o \in OpIds, NEW s \in Settled, Reconcile(o, s)
      PROVE rows' = rows
  BY <1>5 DEF Reconcile
<1>6. ASSUME NEW o \in OpIds, Consume(o) PROVE rows' = rows
  BY <1>6 DEF Consume
<1> QED
  BY <1>1, <1>2, <1>3, <1>4, <1>5, <1>6 DEF Next

(* Rows that exist keep their root, and with it their operations stay in   *)
(* the workflow that paid for them.                                        *)
LEMMA RootsKept ==
  ASSUME TableInv, Owned, Next
  PROVE  /\ \A w \in Works : Exists(w) => /\ Exists(w)'
                                         /\ rows'[w].root = rows[w].root
         /\ \A w \in Works : Exists(w)' => rows'[w].root \in Works
<1>1. RowStep
  BY StepRows DEF TableInv
<1> QED
  BY <1>1, InsertedRoots DEF RowStep, Inserted, Rewritten, Exists, Owned

(* A step that reserves nothing counts the same calls.                     *)
LEMMA CallsKept ==
  ASSUME TableInv, Owned, Next, OpsStep, NEW w \in Works
  PROVE  ModelCalls(w)' = ModelCalls(w) /\ FlowCalls(w)' = FlowCalls(w)
<1>1. \A o \in OpIds : Present(o)' <=> Present(o)
  BY DEF OpsStep, Present
<1>2. \A o \in OpIds : Present(o) => rows'[o[1]].root = rows[o[1]].root
  BY RootsKept DEF Owned, OpIds
<1> QED
  BY <1>1, <1>2 DEF ModelCalls, FlowCalls

(* A reservation adds one operation, to its owner and to its workflow.     *)
LEMMA CallsReserved ==
  ASSUME TableInv, NEW c \in Clients, NEW k \in Kinds,
         NEW n \in 0..MaxOrdinal, Reserve(c, k, n), NEW w \in Works
  PROVE  LET v == copy[c].work
             o == <<copy[c].work, k, n>> IN
         /\ v \in Works
         /\ o \in OpIds
         /\ ~ Present(o)
         /\ rows' = rows
         /\ \A q \in OpIds : Present(q)' <=> Present(q) \/ q = o
         /\ ModelCalls(w)' = IF k \in ModelKinds /\ w = v
                             THEN ModelCalls(w) \cup {o} ELSE ModelCalls(w)
         /\ FlowCalls(w)' = IF k \in ModelKinds /\ w = rows[v].root
                            THEN FlowCalls(w) \cup {o} ELSE FlowCalls(w)
<1> DEFINE v == copy[c].work
           o == <<copy[c].work, k, n>>
<1>1. v \in Works
  BY DEF Reserve, Fresh, TableInv, TypeOK, Copy
<1>2. o \in OpIds /\ o[1] = v /\ o[2] = k
  BY <1>1 DEF OpIds
<1>3. ~ Present(o) /\ rows' = rows
  BY DEF Reserve, NextOrdinal
<1>4. \A q \in OpIds : ops'[q] = IF q = o THEN Dispatched ELSE ops[q]
  BY <1>2 DEF Reserve, TableInv, TypeOK, LedgerTypeOK
<1>5. \A q \in OpIds : Present(q)' <=> Present(q) \/ q = o
  BY <1>4 DEF Present, Dispatched
<1>6. ModelCalls(w)' = IF k \in ModelKinds /\ w = v
                       THEN ModelCalls(w) \cup {o} ELSE ModelCalls(w)
  BY <1>2, <1>5 DEF ModelCalls
<1>7. FlowCalls(w)' = IF k \in ModelKinds /\ w = rows[v].root
                      THEN FlowCalls(w) \cup {o} ELSE FlowCalls(w)
  BY <1>2, <1>3, <1>5 DEF FlowCalls
<1> HIDE DEF v, o
<1>8. /\ v \in Works
      /\ o \in OpIds
      /\ ~ Present(o)
      /\ rows' = rows
      /\ \A q \in OpIds : Present(q)' <=> Present(q) \/ q = o
      /\ ModelCalls(w)' = IF k \in ModelKinds /\ w = v
                          THEN ModelCalls(w) \cup {o} ELSE ModelCalls(w)
      /\ FlowCalls(w)' = IF k \in ModelKinds /\ w = rows[v].root
                         THEN FlowCalls(w) \cup {o} ELSE FlowCalls(w)
  BY <1>1, <1>2, <1>3, <1>5, <1>6, <1>7
<1> QED
  BY <1>8 DEF v, o

LEMMA InitBudget == Init => BudgetInv
<1> SUFFICES ASSUME Init PROVE BudgetInv
  OBVIOUS
<1>1. \A o \in OpIds : ~ Present(o)
  BY DEF Init, LedgerInit, Present, Absent
<1>2. \A w \in Works : ModelCalls(w) = {} /\ FlowCalls(w) = {}
  BY <1>1 DEF ModelCalls, FlowCalls
<1>3. \A w \in Works : ~ Exists(w)
  BY DEF Init, Exists, NoRow
<1>4. TableInv
  BY InitType, InitCoherent, InitAbsent DEF TableInv
<1>5. Owned
  BY <1>1, <1>3 DEF Owned
<1>6. Finite
  BY <1>2, FS_EmptySet DEF Finite
<1>7. BudgetKept
  <2>1. \A w \in Works : calls[w] = 0 /\ wfcalls[w] = 0
    BY DEF Init
  <2>2. Cardinality({}) = 0
    BY FS_EmptySet
  <2>3. 0 <= NodeLimit /\ 0 <= WorkflowLimit
    BY StoreAssumption
  <2> QED
    BY <1>2, <2>1, <2>2, <2>3 DEF BudgetKept
<1> QED
  BY <1>4, <1>5, <1>6, <1>7 DEF BudgetInv

LEMMA StepBudget == BudgetInv /\ [Next]_vars => BudgetInv'
<1>1. ASSUME BudgetInv, UNCHANGED vars PROVE BudgetInv'
  <2>1. TableInv'
    BY <1>1, StepType, StepCoherent, StepAbsent DEF BudgetInv, TableInv
  <2>2. \A w \in Works : ModelCalls(w)' = ModelCalls(w) /\ FlowCalls(w)' = FlowCalls(w)
    BY <1>1 DEF ModelCalls, FlowCalls, Present, vars
  <2>3. Owned'
    BY <1>1 DEF BudgetInv, Owned, Present, Exists, vars
  <2> QED
    BY <1>1, <2>1, <2>2, <2>3 DEF BudgetInv, Finite, BudgetKept, vars
<1>2. ASSUME BudgetInv, Next PROVE BudgetInv'
  <2> USE DEF BudgetInv
  <2>1. TableInv'
    BY <1>2, StepType, StepCoherent, StepAbsent DEF TableInv
  <2>2. CASE OpsStep /\ UNCHANGED <<calls, wfcalls>>
    <3>1. \A w \in Works : ModelCalls(w)' = ModelCalls(w) /\ FlowCalls(w)' = FlowCalls(w)
      BY <1>2, <2>2, CallsKept
    <3>2. \A o \in OpIds : o[1] \in Works
      BY DEF OpIds
    <3>3. Owned'
      BY <1>2, <2>2, <3>2, RootsKept DEF Owned, OpsStep, Present
    <3> QED
      BY <1>2, <2>1, <2>2, <3>1, <3>3 DEF Finite, BudgetKept
  <2>3. CASE Reserves
    <3>1. PICK c \in Clients, k \in Kinds, n \in 0..MaxOrdinal :
            Reserve(c, k, n)
      BY <2>3 DEF Reserves
    <3> DEFINE v == copy[c].work
               o == <<copy[c].work, k, n>>
               r == rows[v].root
    <3>2. /\ v \in Works
          /\ o \in OpIds
          /\ ~ Present(o)
          /\ rows' = rows
          /\ \A q \in OpIds : Present(q)' <=> Present(q) \/ q = o
          /\ \A w \in Works :
               /\ ModelCalls(w)' = IF k \in ModelKinds /\ w = v
                                   THEN ModelCalls(w) \cup {o} ELSE ModelCalls(w)
               /\ FlowCalls(w)' = IF k \in ModelKinds /\ w = r
                                  THEN FlowCalls(w) \cup {o} ELSE FlowCalls(w)
      <4>1. TableInv
        BY <1>2
      <4>2. v \in Works
        BY <3>1, <4>1 DEF Reserve, Fresh, TableInv, TypeOK, Copy
      <4>3. ASSUME NEW w \in Works
            PROVE  /\ o \in OpIds
                   /\ ~ Present(o)
                   /\ rows' = rows
                   /\ \A q \in OpIds : Present(q)' <=> Present(q) \/ q = o
                   /\ ModelCalls(w)' = IF k \in ModelKinds /\ w = v
                                       THEN ModelCalls(w) \cup {o}
                                       ELSE ModelCalls(w)
                   /\ FlowCalls(w)' = IF k \in ModelKinds /\ w = r
                                      THEN FlowCalls(w) \cup {o}
                                      ELSE FlowCalls(w)
        BY <3>1, <4>1, CallsReserved
      <4> QED
        BY <4>2, <4>3
    <3>3. Exists(v) /\ r \in Works /\ o[1] = v
      BY <1>2, <3>1, <3>2 DEF Reserve, Exists, Owned
    <3>4. Owned'
      BY <1>2, <3>2, <3>3 DEF Owned, Exists
    <3>5. \A w \in Works : o \notin ModelCalls(w) /\ o \notin FlowCalls(w)
      BY <3>2 DEF ModelCalls, FlowCalls
    <3>6. \A w \in Works :
            /\ IsFiniteSet(ModelCalls(w) \cup {o})
            /\ IsFiniteSet(FlowCalls(w) \cup {o})
            /\ Cardinality(ModelCalls(w) \cup {o}) = Cardinality(ModelCalls(w)) + 1
            /\ Cardinality(FlowCalls(w) \cup {o}) = Cardinality(FlowCalls(w)) + 1
      BY <1>2, <3>5, FS_AddElement DEF Finite
    <3>7. Finite'
      BY <1>2, <3>2, <3>6 DEF Finite
    <3>8. calls \in [Works -> Nat] /\ wfcalls \in [Works -> Nat]
      BY <1>2 DEF TableInv, TypeOK
    <3>9. k \in ModelKinds => /\ calls' = [calls EXCEPT ![v] = calls[v] + 1]
                              /\ wfcalls' = [wfcalls EXCEPT ![r] = wfcalls[r] + 1]
                              /\ calls[v] < NodeLimit
                              /\ wfcalls[r] < WorkflowLimit
      BY <3>1 DEF Reserve, WithinBudget
    <3>10. k \notin ModelKinds => calls' = calls /\ wfcalls' = wfcalls
      BY <3>1 DEF Reserve
    <3> HIDE DEF v, o, r
    <3>11. ASSUME NEW w \in Works
           PROVE  /\ calls'[w] = Cardinality(ModelCalls(w)')
                  /\ wfcalls'[w] = Cardinality(FlowCalls(w)')
                  /\ calls'[w] <= NodeLimit
                  /\ wfcalls'[w] <= WorkflowLimit
      <4>1. /\ calls[w] = Cardinality(ModelCalls(w))
            /\ wfcalls[w] = Cardinality(FlowCalls(w))
            /\ calls[w] <= NodeLimit
            /\ wfcalls[w] <= WorkflowLimit
        BY <1>2 DEF BudgetKept
      <4>2. CASE k \notin ModelKinds
        BY <3>2, <3>10, <4>1, <4>2
      <4>3. CASE k \in ModelKinds
        <5>1. calls'[w] = IF w = v THEN calls[w] + 1 ELSE calls[w]
          BY <3>8, <3>9, <4>3
        <5>2. wfcalls'[w] = IF w = r THEN wfcalls[w] + 1 ELSE wfcalls[w]
          BY <3>8, <3>9, <4>3
        <5>3. calls'[w] = Cardinality(ModelCalls(w)')
          BY <3>2, <3>6, <4>1, <4>3, <5>1
        <5>4. wfcalls'[w] = Cardinality(FlowCalls(w)')
          BY <3>2, <3>6, <4>1, <4>3, <5>2
        <5>5. calls'[w] <= NodeLimit /\ wfcalls'[w] <= WorkflowLimit
          BY <3>8, <3>9, <4>1, <4>3, <5>1, <5>2, StoreAssumption
        <5> QED
          BY <5>3, <5>4, <5>5
      <4> QED
        BY <4>2, <4>3
    <3>12. BudgetKept'
      BY <3>11 DEF BudgetKept
    <3> QED
      BY <2>1, <3>4, <3>7, <3>12
  <2> QED
    BY <1>2, <2>2, <2>3, StepOps DEF TableInv
<1> QED
  BY <1>1, <1>2

(* The provider budget is exact and never overspent.                       *)
THEOREM BudgetTheorem == Spec => []BudgetKept
<1>1. BudgetInv => BudgetKept
  BY DEF BudgetInv
<1> QED
  BY <1>1, InitBudget, StepBudget, PTL DEF Spec
=============================================================================
