----------------------------- MODULE WorkTreeProofs -----------------------------
(* What the controller keeps over every tree of work items, however deep and       *)
(* wherever it crashes: status changes are legal and what counts as done is the     *)
(* work of a completed child; and the root waits for all it delegates and delegates *)
(* a task once.  Below the root the last two can fail, which the configuration      *)
(* TreeDuplicate shows; the last section proves them at every depth for as long as  *)
(* drive does not step a node that still waits.                                     *)
EXTENDS WorkTree, TLAPS

--------------------------------------------------------------------------------
(* The inductive invariant.                                                         *)

(* Rows: children are rows of their parent, a row that is not there is empty, and a *)
(* run that closes has done its tasks.                                              *)
Kin ==
  /\ Exists(Root) /\ node[Root].parent = NoNode
  /\ \A n \in Nodes : ~ Exists(n) => node[n] = NoRow /\ frame[n] \in {"off", "cancel"}
  /\ \A n \in Nodes : \A k \in node[n].kids : Exists(k) /\ node[k].parent = n /\ k # n
Closed(n) ==
  /\ node[n].phase = "tasks" => node[n].mode = "run"
  /\ node[n].mode = "run" /\ node[n].phase = "closing" => node[n].done = Tasks
  /\ node[n].status = "COMPLETED" => node[n].phase = "closing"
  /\ \A t \in node[n].done : \E k \in Children(n) : node[k].task = t /\ node[k].status = "COMPLETED"

(* Frames: who runs, and what the row of a frame says.                              *)
Sessions ==
  /\ session = "none" => \A n \in Nodes : frame[n] = "off"
  /\ session = "reconcile" => \A n \in Nodes : frame[n] \in {"off", "cancel"}
  /\ session = "execution" => \A n \in Nodes : frame[n] # "cancel"
Resuming ==
  /\ frame[Root] \in {"resume", "rewait"} => \A n \in Nodes \ {Root} : frame[n] \in {"off", "rewait"}
  /\ \A n \in Nodes \ {Root} :
       /\ frame[n] # "resume"
       /\ frame[n] = "rewait" => frame[Root] = "resume" /\ node[Root].status # "COMPLETED"
(* A frame below the root is called by its parent's.                                *)
Called ==
  \A k \in Nodes \ {Root} : frame[k] \notin {"off", "rewait", "cancel"} =>
    \E n \in Nodes : k \in node[n].kids /\ frame[n] = "kids"
(* The one child that is being created.                                             *)
Creating(n, status) ==
  /\ node[n].status = "WAITING" /\ node[n].waiting = "child"
  /\ \E k \in Nodes : node[n].kids = {k} /\ node[k].status = status /\ node[k].mode = "fix" /\ node[k].done = {}
Placed(n) ==
  /\ frame[n] \in Stepping => node[n].status = "RUNNING"
  /\ frame[n] \in {"effect", "fault", "apply"} => node[n].phase # "tasks"
  /\ frame[n] = "kids" => node[n].status = "WAITING" /\ Waiting(n)
  /\ frame[n] = "rewait" => node[n].status = "READY" /\ Waiting(n)
  /\ frame[n] = "mark" => Creating(n, "READY")
  /\ frame[n] = "ready" => Creating(n, "RUNNING")

(* A node waits for what it has delegated: only of the root it is always so.        *)
Rests(n) ==
  /\ node[n].kids # {} => Waiting(n)
  /\ node[n].status = "COMPLETED" \/ frame[n] \in Stepping => ~ Waiting(n)
  /\ frame[n] = "top" /\ node[n].status \in {"READY", "RUNNING"} => ~ Waiting(n)
RootWaits == \A k \in Children(Root) : node[k].status # "COMPLETED" => k \in node[Root].kids
(* A task that a child of the root had is done, one that it has is not.             *)
RootTasks ==
  /\ \A k \in Children(Root) \ node[Root].kids : node[k].task \in node[Root].done \cup {NoTask}
  /\ node[Root].mode # "run" => \A k \in Children(Root) : node[k].task = NoTask
  /\ \A j, k \in Children(Root) : node[j].task = node[k].task /\ node[j].task # NoTask => j = k

TreeInv ==
  /\ TypeOK /\ Kin /\ Sessions /\ Resuming /\ Called /\ RootWaits /\ RootTasks /\ Rests(Root)
  /\ \A n \in Nodes : Closed(n) /\ Placed(n)

--------------------------------------------------------------------------------
(* Rows.                                                                            *)

LEMMA RootIsNode == Root \in Nodes /\ NoNode \notin Nodes /\ NoTask \notin Tasks
BY TreeAssumption

LEMMA KidsApart ==
  ASSUME TreeInv, NEW n \in Nodes, NEW k \in node[n].kids
  PROVE  /\ k \in Nodes /\ Exists(k) /\ node[k].parent = n /\ k # n /\ k # Root
         /\ \A m \in Nodes : k \in node[m].kids => m = n
<1>1. k \in Nodes
  BY DEF TreeInv, TypeOK, Row
<1>2. \A m \in Nodes : k \in node[m].kids => Exists(k) /\ node[k].parent = m /\ k # m
  BY DEF TreeInv, Kin
<1>3. k # Root
  BY <1>2, RootIsNode DEF TreeInv, Kin
<1> QED
  BY <1>1, <1>2, <1>3

(* What an action may write into the row of a node that works: anything but its     *)
(* place in the tree and its task, and nothing once it is complete.                 *)
Keeps(n, row) ==
  \/ row = node[n]
  \/ /\ row \in Row /\ row.status # "ABSENT" /\ Exists(n) /\ node[n].status # "COMPLETED"
     /\ row.mode = node[n].mode /\ row.parent = node[n].parent /\ row.kids = node[n].kids
     /\ row.task = node[n].task /\ row.done = node[n].done
     /\ row.phase = "tasks" => row.mode = "run"
     /\ row.mode = "run" /\ row.phase = "closing" => row.done = Tasks
     /\ row.status = "COMPLETED" => row.phase = "closing"

Rows == node \in [Nodes -> Row] /\ Kin /\ RootWaits /\ RootTasks /\ \A n \in Nodes : Closed(n)

LEMMA RowKept ==
  ASSUME TreeInv, NEW n \in Nodes, NEW row, Keeps(n, row), Set(n, row),
         \A m \in Nodes : ~ Exists(m) => frame'[m] \in {"off", "cancel"}
  PROVE  /\ Rows' /\ node'[n] = row /\ \A m \in Nodes \ {n} : node'[m] = node[m]
         /\ \A m \in Nodes : Exists(m)' <=> Exists(m)
<1>1. node \in [Nodes -> Row]
  BY DEF TreeInv, TypeOK
<1>2. node' \in [Nodes -> Row] /\ node'[n] = row /\ \A m \in Nodes \ {n} : node'[m] = node[m]
  BY <1>1 DEF Set, Keeps
<1>3. \A m \in Nodes :
        /\ node'[m].mode = node[m].mode /\ node'[m].parent = node[m].parent /\ node'[m].kids = node[m].kids
        /\ node'[m].task = node[m].task /\ node'[m].done = node[m].done
        /\ node[m].status = "COMPLETED" => node'[m] = node[m]
        /\ Exists(m)' <=> Exists(m)
  BY <1>2 DEF Keeps, Exists
<1>4. \A m \in Nodes : Children(m)' = Children(m)
  BY <1>3 DEF Children
<1>5. Kin'
  <2>1. \A m \in Nodes : ~ Exists(m) => node'[m] = node[m]
    BY <1>2 DEF Keeps
  <2>2. \A m \in Nodes : ~ Exists(m)' => node'[m] = NoRow /\ frame'[m] \in {"off", "cancel"}
    BY <1>3, <2>1 DEF TreeInv, Kin
  <2>3. \A m \in Nodes : \A k \in node'[m].kids : k \in Nodes /\ Exists(k) /\ node[k].parent = m /\ k # m
    BY <1>3, KidsApart
  <2> QED
    BY <1>3, <2>2, <2>3, RootIsNode DEF TreeInv, Kin
<1>6. RootWaits'
  BY <1>3, <1>4, RootIsNode DEF TreeInv, RootWaits, Children
<1>7. RootTasks'
  BY <1>3, <1>4, RootIsNode DEF TreeInv, RootTasks, Children
<1>8. ASSUME NEW m \in Nodes PROVE Closed(m)'
  <2>1. Closed(m)
    BY <1>8 DEF TreeInv
  <2>2. \A k \in Children(m) : node[k].status = "COMPLETED" => node'[k] = node[k]
    BY <1>3 DEF Children
  <2>3. \A t \in node'[m].done : \E k \in Children(m)' : node'[k].task = t /\ node'[k].status = "COMPLETED"
    BY <1>3, <1>4, <1>8, <2>1, <2>2 DEF Closed
  <2>4. CASE node'[m] = node[m]
    BY <2>1, <2>3, <2>4 DEF Closed
  <2>5. CASE node'[m] # node[m]
    BY <1>2, <2>3, <2>5 DEF Closed, Keeps
  <2> QED
    BY <2>4, <2>5
<1> QED
  BY <1>2, <1>3, <1>5, <1>6, <1>7, <1>8 DEF Rows

--------------------------------------------------------------------------------
(* Frames.                                                                          *)

Active == Frames \ {"off", "resume", "rewait", "cancel"}

(* A frame that runs is not being created: who delegated it waits for it.           *)
LEMMA CallerWaits ==
  ASSUME TreeInv, NEW n \in Nodes, frame[n] \in Active
  PROVE  /\ session = "execution"
         /\ frame[Root] \notin {"resume", "rewait"}
         /\ \A m \in Nodes : frame[m] \notin {"rewait", "resume", "cancel"}
         /\ \A m \in Nodes : n \in node[m].kids => frame[m] = "kids"
         /\ Exists(n)
<1>1. frame[n] \notin {"off", "resume", "rewait", "cancel"}
  BY DEF Active
<1>2. session = "execution"
  BY <1>1 DEF TreeInv, Sessions, TypeOK
<1>3. frame[Root] \notin {"resume", "rewait"}
  BY <1>1 DEF TreeInv, Resuming
<1>4. \A m \in Nodes : frame[m] \notin {"rewait", "resume", "cancel"}
  BY <1>2, <1>3, RootIsNode DEF TreeInv, Resuming, Sessions
<1>5. ASSUME NEW m \in Nodes, n \in node[m].kids PROVE frame[m] = "kids"
  <2>1. n # Root /\ \A i \in Nodes : n \in node[i].kids => i = m
    BY <1>5, KidsApart
  <2> QED
    BY <1>1, <2>1 DEF TreeInv, Called
<1>6. Exists(n)
  BY <1>1 DEF TreeInv, Kin
<1> QED
  BY <1>2, <1>3, <1>4, <1>5, <1>6

(* What a step of one frame may do to the rows of others.                           *)
Apart(n) ==
  \A m \in Nodes \ {n} : \/ node'[m] = node[m]
                         \/ ~ Exists(m)
                         \/ m \in node[n].kids /\ node'[m].kids = node[m].kids

Others(n) == Sessions /\ Resuming /\ Called /\ \A m \in Nodes \ {n} : Placed(m)

LEMMA FrameStep ==
  ASSUME TreeInv, NEW n \in Nodes, frame[n] \in Active \ {"kids"}, NEW pc \in Active,
         Goto(n, pc), session' = session, Apart(n)
  PROVE  /\ Others(n)' /\ frame' \in [Nodes -> Frames] /\ frame'[n] = pc
         /\ \A m \in Nodes : ~ Exists(m) => frame'[m] \in {"off", "cancel"}
         /\ \A m \in Nodes \ {n} : frame'[m] = frame[m]
<1>1. frame \in [Nodes -> Frames] /\ pc \in Frames
  BY DEF TreeInv, TypeOK, Active
<1>2. frame' \in [Nodes -> Frames] /\ frame'[n] = pc /\ \A m \in Nodes \ {n} : frame'[m] = frame[m]
  BY <1>1 DEF Goto
<1>3. /\ session = "execution" /\ frame[Root] \notin {"resume", "rewait"} /\ Exists(n)
      /\ \A m \in Nodes : frame[m] \notin {"rewait", "resume", "cancel"}
      /\ \A m \in Nodes : n \in node[m].kids => frame[m] = "kids"
  BY CallerWaits
<1>4. \A m \in Nodes : ~ Exists(m) => m # n /\ frame[m] \in {"off", "cancel"} /\ node[m].kids = {}
  BY <1>3 DEF TreeInv, Kin, NoRow, NewRow
<1>5. \A m \in Nodes : frame'[m] \notin {"rewait", "resume", "cancel"}
  BY <1>2, <1>3 DEF Active
<1>6. Sessions'
  BY <1>3, <1>5 DEF Sessions
<1>7. Resuming'
  BY <1>5, RootIsNode DEF Resuming
<1>8. \A m \in Nodes : frame[m] = "kids" =>
        m # n /\ frame'[m] = "kids" /\ node'[m].kids = node[m].kids
  BY <1>2, <1>4 DEF Apart
<1>9. \A k \in Nodes : frame'[k] \notin {"off", "rewait", "cancel"} =>
        frame[k] \notin {"off", "rewait", "cancel"}
  BY <1>2 DEF Active
<1>10. Called'
  BY <1>8, <1>9 DEF TreeInv, Called
<1>11. ASSUME NEW m \in Nodes \ {n} PROVE Placed(m)'
  <2>1. frame'[m] = frame[m] /\ Placed(m)
    BY <1>2 DEF TreeInv
  <2>2. CASE ~ Exists(m)
    BY <1>4, <2>1, <2>2 DEF Placed, Stepping
  <2>3. CASE m \in node[n].kids
    <3>1. m # Root /\ \A i \in Nodes : m \in node[i].kids => i = n
      BY <2>3, KidsApart
    <3>2. frame[m] \in {"off", "rewait", "cancel"}
      BY <3>1 DEF TreeInv, Called
    <3>3. frame'[m] = "off"
      BY <1>5, <2>1, <3>2
    <3> QED
      BY <3>3 DEF Placed, Stepping
  <2>4. CASE Exists(m) /\ m \notin node[n].kids
    <3>1. node'[m] = node[m]
      BY <2>4 DEF Apart
    <3>2. ASSUME frame[m] \in {"mark", "ready"}, NEW k \in node[m].kids PROVE node'[k] = node[k]
      <4>1. k \in Nodes /\ Exists(k) /\ \A i \in Nodes : k \in node[i].kids => i = m
        BY <3>2, KidsApart
      <4>2. k # n
        BY <1>3, <3>2
      <4>3. k \notin node[n].kids
        BY <4>1
      <4> QED
        BY <4>1, <4>2, <4>3 DEF Apart
    <3>3. frame[m] = "mark" => Creating(m, "READY")'
      BY <2>1, <3>1, <3>2 DEF Placed, Creating
    <3>4. frame[m] = "ready" => Creating(m, "RUNNING")'
      BY <2>1, <3>1, <3>2 DEF Placed, Creating
    <3> QED
      BY <2>1, <3>1, <3>3, <3>4 DEF Placed, Waiting
  <2> QED
    BY <2>2, <2>3, <2>4
<1>12. \A m \in Nodes : ~ Exists(m) => frame'[m] \in {"off", "cancel"}
  BY <1>2, <1>4
<1>13. Others(n)'
  BY <1>6, <1>7, <1>10, <1>11 DEF Others
<1> QED
  BY <1>2, <1>12, <1>13

--------------------------------------------------------------------------------
(* Steps of one frame.                                                              *)

(* Status changes as the store accepts them.                                        *)
Legal(old, new) == new.status # old.status => new.status \in Moves[old.status]
Legally == \A m \in Nodes : Legal(node[m], node'[m])

LEMMA MovesAre ==
  /\ Moves["READY"] = {"RUNNING", "WAITING", "BLOCKED"}
  /\ Moves["RUNNING"] = {"READY", "WAITING", "BLOCKED", "COMPLETED"}
  /\ Moves["WAITING"] = {"READY", "BLOCKED"}
  /\ Moves["BLOCKED"] = {"READY"}
  /\ Moves["ABSENT"] = {"READY"}
BY DEF Moves

(* What the row of a frame says, and what the root's must.                          *)
Suits(pc, row) ==
  /\ pc \notin {"kids", "rewait", "mark", "ready"}
  /\ pc \in Stepping => row.status = "RUNNING"
  /\ pc \in {"effect", "fault", "apply"} => row.phase # "tasks"
RestsAs(pc, row) ==
  /\ row.kids # {} => row.waiting \in {"child", "children"}
  /\ row.status = "COMPLETED" \/ pc \in Stepping => row.waiting \notin {"child", "children"}
  /\ pc = "top" /\ row.status \in {"READY", "RUNNING"} => row.waiting \notin {"child", "children"}

LEMMA StepKept ==
  ASSUME TreeInv, NEW n \in Nodes, frame[n] \in Active \ {"kids"}, NEW pc \in Active, NEW row,
         Goto(n, pc), Set(n, row), Keeps(n, row), session' = session, op' \in [Nodes -> OpStates],
         Suits(pc, row), n = Root => RestsAs(pc, row), Legal(node[n], row)
  PROVE  TreeInv' /\ Legally
<1>1. node \in [Nodes -> Row]
  BY DEF TreeInv, TypeOK
<1>2. Apart(n)
  BY <1>1 DEF Apart, Set
<1>3. /\ Others(n)' /\ frame' \in [Nodes -> Frames] /\ frame'[n] = pc
      /\ \A m \in Nodes : ~ Exists(m) => frame'[m] \in {"off", "cancel"}
      /\ \A m \in Nodes \ {n} : frame'[m] = frame[m]
  BY <1>2, FrameStep
<1>4. Rows' /\ node'[n] = row /\ \A m \in Nodes \ {n} : node'[m] = node[m]
  BY <1>3, RowKept
<1>5. Placed(n)'
  BY <1>3, <1>4 DEF Suits, Placed, Stepping
<1>6. Rests(Root)'
  <2>1. CASE n = Root
    BY <1>3, <1>4, <2>1 DEF Rests, RestsAs, Waiting
  <2>2. CASE n # Root
    BY <1>3, <1>4, <2>2, RootIsNode DEF TreeInv, Rests, Waiting
  <2> QED
    BY <2>1, <2>2
<1>7. session' \in {"none", "execution", "reconcile"}
  BY DEF TreeInv, TypeOK
<1>8. TreeInv'
  BY <1>3, <1>4, <1>5, <1>6, <1>7 DEF Rows, Others, TreeInv, TypeOK
<1>9. Legally
  BY <1>4 DEF Legally, Legal
<1> QED
  BY <1>8, <1>9

(* The row of a node, and its parts.                                                *)
LEMMA RowOf ==
  ASSUME TreeInv, NEW n \in Nodes
  PROVE  /\ node[n] \in Row
         /\ node[n].status \in Statuses \cup {"ABSENT"} /\ node[n].done \subseteq Tasks
         /\ Closed(n) /\ Placed(n)
         /\ op \in [Nodes -> OpStates] /\ frame \in [Nodes -> Frames] /\ frame[n] \in Frames
         /\ frame[Root] = "top" /\ node[Root].status \in {"READY", "RUNNING"} => ~ Waiting(Root)
         /\ frame[Root] \in Stepping => ~ Waiting(Root) /\ node[Root].kids = {}
         /\ node[Root].kids # {} => Waiting(Root)
         /\ node[Root].status = "COMPLETED" => ~ Waiting(Root)
BY DEF TreeInv, TypeOK, Row, Rests

LEMMA BlockKept ==
  ASSUME TreeInv, NEW n \in Nodes, frame[n] \in Stepping, NEW hold \in Holds, Block(n, hold),
         Goto(n, "returned"), op' \in [Nodes -> OpStates], session' = session
  PROVE  TreeInv' /\ Legally
<1> DEFINE row == [node[n] EXCEPT !.status = "BLOCKED", !.hold = hold]
<1>1. node[n] \in Row /\ Closed(n) /\ node[n].status = "RUNNING"
  BY RowOf DEF Placed
<1>2. /\ row \in Row /\ row.status = "BLOCKED" /\ row.mode = node[n].mode /\ row.parent = node[n].parent
      /\ row.kids = node[n].kids /\ row.task = node[n].task /\ row.done = node[n].done
      /\ row.phase = node[n].phase /\ row.waiting = node[n].waiting
  BY <1>1 DEF Row, Statuses
<1>3. Set(n, row)
  BY DEF Block
<1> HIDE DEF row
<1>4. Keeps(n, row)
  BY <1>1, <1>2 DEF Keeps, Exists, Closed
<1>5. n = Root => RestsAs("returned", row)
  BY <1>2, RowOf DEF RestsAs, Stepping, Waiting
<1>6. Suits("returned", row)
  BY DEF Suits, Stepping
<1>7. frame[n] \in Active \ {"kids"} /\ "returned" \in Active
  BY DEF Stepping, Active, Frames
<1>8. Legal(node[n], row)
  BY <1>1, <1>2, MovesAre DEF Legal
<1> QED
  BY <1>3, <1>4, <1>5, <1>6, <1>7, <1>8, StepKept

LEMMA StaysKept ==
  ASSUME TreeInv, NEW n \in Nodes, frame[n] \in Active \ {"kids"}, NEW pc \in Active,
         Goto(n, pc), UNCHANGED node, session' = session, op' \in [Nodes -> OpStates],
         Suits(pc, node[n]), n = Root => RestsAs(pc, node[n])
  PROVE  TreeInv' /\ Legally
<1>1. node \in [Nodes -> Row]
  BY DEF TreeInv, TypeOK
<1>2. Set(n, node[n])
  BY <1>1 DEF Set
<1>3. Keeps(n, node[n]) /\ Legal(node[n], node[n])
  BY DEF Keeps, Legal
<1> QED
  BY <1>2, <1>3, StepKept

LEMMA AdvanceKept ==
  ASSUME TreeInv, NEW n \in Nodes, Advance(n)
  PROVE  TreeInv' /\ Legally
<1>1. /\ node[n] \in Row /\ Closed(n) /\ node[n].status = "RUNNING" /\ node[n].phase # "tasks"
      /\ op' \in [Nodes -> OpStates] /\ frame[n] = "apply"
  BY RowOf DEF Advance, Placed, Stepping, OpStates
<1>2. frame[n] \in Active \ {"kids"} /\ "top" \in Active /\ Goto(n, "top") /\ session' = session
  BY DEF Advance, Active, Frames
<1>3. n = Root => node[n].waiting \notin {"child", "children"} /\ node[n].kids = {}
  BY <1>1, RowOf DEF Stepping, Waiting
<1>4. CASE node[n].phase = "closing"
  <2> DEFINE row == [node[n] EXCEPT !.status = "COMPLETED"]
  <2>1. /\ row \in Row /\ row.status = "COMPLETED" /\ row.mode = node[n].mode /\ row.parent = node[n].parent
        /\ row.kids = node[n].kids /\ row.task = node[n].task /\ row.done = node[n].done
        /\ row.phase = node[n].phase /\ row.waiting = node[n].waiting
    BY <1>1 DEF Row, Statuses
  <2>2. Set(n, row)
    BY <1>4 DEF Advance
  <2> HIDE DEF row
  <2>3. Keeps(n, row)
    BY <1>1, <1>4, <2>1 DEF Keeps, Exists, Closed
  <2>4. Suits("top", row) /\ (n = Root => RestsAs("top", row))
    BY <1>3, <2>1 DEF Suits, RestsAs, Stepping
  <2>5. Legal(node[n], row)
    BY <1>1, <2>1, MovesAre DEF Legal
  <2> QED
    BY <1>1, <1>2, <2>2, <2>3, <2>4, <2>5, StepKept
<1>5. CASE node[n].phase # "closing"
  <2> DEFINE row == [node[n] EXCEPT !.status = "READY", !.phase = NextPhase(n)]
  <2>1. /\ NextPhase(n) \in {"tasks", "closing"}
        /\ NextPhase(n) = "tasks" => node[n].mode = "run"
        /\ NextPhase(n) = "closing" => node[n].mode # "run"
    BY <1>1, <1>5 DEF NextPhase, Row
  <2>2. /\ row \in Row /\ row.status = "READY" /\ row.mode = node[n].mode /\ row.parent = node[n].parent
        /\ row.kids = node[n].kids /\ row.task = node[n].task /\ row.done = node[n].done
        /\ row.phase = NextPhase(n) /\ row.waiting = node[n].waiting
    BY <1>1, <2>1 DEF Row, Statuses
  <2>3. Set(n, row)
    BY <1>5 DEF Advance
  <2> HIDE DEF row
  <2>4. Keeps(n, row)
    BY <1>1, <2>1, <2>2 DEF Keeps, Exists, Closed
  <2>5. Suits("top", row) /\ (n = Root => RestsAs("top", row))
    BY <1>3, <2>2 DEF Suits, RestsAs, Stepping
  <2>6. Legal(node[n], row)
    BY <1>1, <2>2, MovesAre DEF Legal
  <2> QED
    BY <1>1, <1>2, <2>3, <2>4, <2>5, <2>6, StepKept
<1> QED
  BY <1>4, <1>5

LEMMA AskUserKept ==
  ASSUME TreeInv, NEW n \in Nodes, AskUser(n)
  PROVE  TreeInv' /\ Legally
<1> DEFINE row == [node[n] EXCEPT !.status = "WAITING", !.waiting = "user"]
<1>1. /\ node[n] \in Row /\ Closed(n) /\ node[n].status = "RUNNING" /\ node[n].phase = "open"
      /\ op' \in [Nodes -> OpStates] /\ frame[n] = "apply"
  BY RowOf DEF AskUser, Placed, Stepping, OpStates
<1>2. /\ frame[n] \in Active \ {"kids"} /\ "top" \in Active /\ Goto(n, "top") /\ session' = session
      /\ Set(n, row)
  BY DEF AskUser, Active, Frames
<1>3. n = Root => node[n].kids = {}
  BY <1>1, RowOf DEF Stepping, Waiting
<1>4. /\ row \in Row /\ row.status = "WAITING" /\ row.mode = node[n].mode /\ row.parent = node[n].parent
      /\ row.kids = node[n].kids /\ row.task = node[n].task /\ row.done = node[n].done
      /\ row.phase = node[n].phase /\ row.waiting = "user"
  BY <1>1 DEF Row, Statuses
<1> HIDE DEF row
<1>5. Keeps(n, row)
  BY <1>1, <1>4 DEF Keeps, Exists
<1>6. Suits("top", row) /\ (n = Root => RestsAs("top", row))
  BY <1>3, <1>4 DEF Suits, RestsAs, Stepping
<1>7. Legal(node[n], row)
  BY <1>1, <1>4, MovesAre DEF Legal
<1> QED
  BY <1>1, <1>2, <1>5, <1>6, <1>7, StepKept

LEMMA TasksDoneKept ==
  ASSUME TreeInv, NEW n \in Nodes, TasksDone(n)
  PROVE  TreeInv' /\ Legally
<1> DEFINE row == [node[n] EXCEPT !.status = "READY", !.phase = "closing"]
<1>1. /\ node[n] \in Row /\ Closed(n) /\ node[n].status = "RUNNING" /\ node[n].done = Tasks
      /\ op' \in [Nodes -> OpStates] /\ frame[n] = "step"
  BY RowOf DEF TasksDone, Placed, Stepping, Pending
<1>2. /\ frame[n] \in Active \ {"kids"} /\ "top" \in Active /\ Goto(n, "top") /\ session' = session
      /\ Set(n, row)
  BY DEF TasksDone, Active, Frames
<1>3. n = Root => node[n].waiting \notin {"child", "children"} /\ node[n].kids = {}
  BY <1>1, RowOf DEF Stepping, Waiting
<1>4. /\ row \in Row /\ row.status = "READY" /\ row.mode = node[n].mode /\ row.parent = node[n].parent
      /\ row.kids = node[n].kids /\ row.task = node[n].task /\ row.done = node[n].done
      /\ row.phase = "closing" /\ row.waiting = node[n].waiting
  BY <1>1 DEF Row, Statuses
<1> HIDE DEF row
<1>5. Keeps(n, row)
  BY <1>1, <1>4 DEF Keeps, Exists
<1>6. Suits("top", row) /\ (n = Root => RestsAs("top", row))
  BY <1>3, <1>4 DEF Suits, RestsAs, Stepping
<1>7. Legal(node[n], row)
  BY <1>1, <1>4, MovesAre DEF Legal
<1> QED
  BY <1>1, <1>2, <1>5, <1>6, <1>7, StepKept

LEMMA EffectsKept ==
  ASSUME TreeInv, NEW n \in Nodes, Begin(n) \/ Effect(n) \/ Fault(n) \/ Reject(n)
  PROVE  TreeInv' /\ Legally
<1>1. /\ frame[n] \in Stepping /\ node[n] \in Row /\ node[n].status = "RUNNING" /\ session' = session
      /\ op \in [Nodes -> OpStates]
  BY RowOf DEF Begin, Effect, Fault, Reject, Stepping, Placed
<1>2. node[n].phase # "tasks"
  BY RowOf DEF Begin, Effect, Fault, Reject, Placed
<1>3. n = Root => node[n].waiting \notin {"child", "children"} /\ node[n].kids = {}
  BY <1>1, RowOf DEF Waiting
<1>4. op' \in [Nodes -> OpStates]
  BY <1>1 DEF Begin, Effect, Fault, Reject, OpStates
<1>5. ASSUME NEW hold \in Holds, Block(n, hold), Goto(n, "returned") PROVE TreeInv' /\ Legally
  BY <1>1, <1>4, <1>5, BlockKept
<1>6. ASSUME NEW pc \in {"apply", "fault", "effect"}, Goto(n, pc), UNCHANGED node PROVE TreeInv' /\ Legally
  <2>1. frame[n] \in Active \ {"kids"} /\ pc \in Active
    BY <1>1 DEF Active, Frames, Stepping
  <2>2. Suits(pc, node[n]) /\ (n = Root => RestsAs(pc, node[n]))
    BY <1>1, <1>2, <1>3, <1>6 DEF Suits, RestsAs
  <2> QED
    BY <1>1, <1>4, <1>6, <2>1, <2>2, StaysKept
<1>7. CASE Begin(n)
  <2>1. \/ \E hold \in Holds : Block(n, hold) /\ Goto(n, "returned")
        \/ \E pc \in {"apply", "fault", "effect"} : Goto(n, pc) /\ UNCHANGED node
    BY <1>7 DEF Begin, Holds
  <2> QED
    BY <1>5, <1>6, <2>1
<1>8. CASE Effect(n)
  <2>1. \E pc \in {"apply", "fault", "effect"} : Goto(n, pc) /\ UNCHANGED node
    BY <1>8 DEF Effect
  <2> QED
    BY <1>6, <2>1
<1>9. CASE Fault(n)
  <2>1. \E hold \in Holds : Block(n, hold) /\ Goto(n, "returned")
    BY <1>9 DEF Fault, Holds
  <2> QED
    BY <1>5, <2>1
<1>10. CASE Reject(n)
  BY <1>5, <1>10 DEF Reject, Holds
<1> QED
  BY <1>7, <1>8, <1>9, <1>10

--------------------------------------------------------------------------------
(* Waiting for children.                                                            *)

(* Going into the children: their frames start.                                     *)
LEMMA EnterKept ==
  ASSUME TreeInv, NEW n \in Nodes, frame[n] = "top", node[n].status = "WAITING", Waiting(n),
         frame' = [m \in Nodes |-> IF m = n THEN "kids"
                                   ELSE IF m \in node[n].kids THEN "top" ELSE frame[m]],
         UNCHANGED <<node, op, session>>
  PROVE  TreeInv' /\ Legally
<1>1. frame[n] \in Active
  BY DEF Active, Frames
<1>2. /\ session = "execution" /\ Exists(n)
      /\ \A m \in Nodes : frame[m] \notin {"rewait", "resume", "cancel"}
      /\ \A m \in Nodes : n \in node[m].kids => frame[m] = "kids"
  BY <1>1, CallerWaits
<1>3. frame \in [Nodes -> Frames]
  BY DEF TreeInv, TypeOK
<1>4. /\ frame' \in [Nodes -> Frames] /\ frame'[n] = "kids"
      /\ \A m \in Nodes \ {n} : frame'[m] = IF m \in node[n].kids THEN "top" ELSE frame[m]
  BY <1>3 DEF Frames
<1>5. ASSUME NEW k \in node[n].kids PROVE k \in Nodes \ {n, Root} /\ Exists(k) /\ frame[k] = "off"
  <2>1. k \in Nodes /\ Exists(k) /\ k # n /\ k # Root /\ \A m \in Nodes : k \in node[m].kids => m = n
    BY <1>5, KidsApart
  <2> QED
    BY <1>2, <2>1 DEF TreeInv, Called
<1>6. \A m \in Nodes : frame'[m] \notin {"rewait", "resume", "cancel"}
  BY <1>2, <1>4
<1>7. Sessions' /\ Resuming'
  BY <1>2, <1>6, RootIsNode DEF Sessions, Resuming
<1>8. ASSUME NEW k \in Nodes \ {Root}, frame'[k] \notin {"off", "rewait", "cancel"}
      PROVE  \E m \in Nodes : k \in node'[m].kids /\ frame'[m] = "kids"
  <2>1. CASE k \in node[n].kids
    BY <1>4, <2>1
  <2>2. CASE k \notin node[n].kids
    <3>1. frame[k] \notin {"off", "rewait", "cancel"}
      BY <1>4, <1>8, <2>2
    <3>2. PICK m \in Nodes : k \in node[m].kids /\ frame[m] = "kids"
      BY <1>8, <3>1 DEF TreeInv, Called
    <3>3. m # n /\ m \notin node[n].kids
      BY <1>5, <3>2
    <3> QED
      BY <1>4, <3>2, <3>3
  <2> QED
    BY <2>1, <2>2
<1>9. Called'
  BY <1>8 DEF Called
<1>10. Kin' /\ Rests(Root)' /\ RootWaits' /\ RootTasks' /\ \A m \in Nodes : Closed(m)'
  <2>1. Kin'
    BY <1>2, <1>4, <1>5 DEF TreeInv, Kin, Exists
  <2>2. Rests(Root)'
    BY <1>4, <1>5, RootIsNode DEF TreeInv, Rests, Waiting, Stepping
  <2>3. RootWaits' /\ RootTasks'
    BY DEF TreeInv, RootWaits, RootTasks, Children, Exists
  <2>4. \A m \in Nodes : Closed(m)'
    BY DEF TreeInv, Closed, Children, Exists
  <2> QED
    BY <2>1, <2>2, <2>3, <2>4
<1>11. ASSUME NEW m \in Nodes PROVE Placed(m)'
  <2>1. CASE m = n
    BY <1>4, <2>1 DEF Placed, Stepping, Waiting
  <2>2. CASE m # n /\ m \in node[n].kids
    BY <1>4, <2>2 DEF Placed, Stepping
  <2>3. CASE m # n /\ m \notin node[n].kids
    <3>1. frame'[m] = frame[m] /\ Placed(m)
      BY <1>4, <2>3 DEF TreeInv
    <3> QED
      BY <3>1 DEF Placed, Creating, Waiting
  <2> QED
    BY <2>1, <2>2, <2>3
<1>12. TreeInv'
  BY <1>4, <1>7, <1>9, <1>10, <1>11 DEF TreeInv, TypeOK
<1>13. Legally
  BY DEF Legally, Legal
<1> QED
  BY <1>12, <1>13

LEMMA TopKept ==
  ASSUME TreeInv, NEW n \in Nodes, Top(n)
  PROVE  TreeInv' /\ Legally
<1>1. /\ frame[n] = "top" /\ session' = session /\ op' = op /\ op \in [Nodes -> OpStates]
      /\ node[n] \in Row /\ Closed(n)
  BY RowOf DEF Top
<1>2. frame[n] \in Active \ {"kids"} /\ "returned" \in Active /\ "step" \in Active
  BY <1>1 DEF Active, Frames
<1>3. CASE Goto(n, "returned") /\ UNCHANGED node
  <2>1. Suits("returned", node[n]) /\ (n = Root => RestsAs("returned", node[n]))
    BY RowOf DEF Suits, RestsAs, Stepping, Waiting
  <2> QED
    BY <1>1, <1>2, <1>3, <2>1, StaysKept
<1>4. CASE /\ node[n].status = "WAITING" /\ Waiting(n) /\ UNCHANGED node
           /\ frame' = [m \in Nodes |-> IF m = n THEN "kids"
                                        ELSE IF m \in node[n].kids THEN "top" ELSE frame[m]]
  BY <1>1, <1>4, EnterKept
<1>5. CASE /\ node[n].status \in {"READY", "RUNNING"}
           /\ Set(n, [node[n] EXCEPT !.status = "RUNNING"]) /\ Goto(n, "step")
  <2> DEFINE row == [node[n] EXCEPT !.status = "RUNNING"]
  <2>1. /\ row \in Row /\ row.status = "RUNNING" /\ row.mode = node[n].mode /\ row.parent = node[n].parent
        /\ row.kids = node[n].kids /\ row.task = node[n].task /\ row.done = node[n].done
        /\ row.phase = node[n].phase /\ row.waiting = node[n].waiting
    BY <1>1 DEF Row, Statuses
  <2>2. Set(n, row)
    BY <1>5
  <2> HIDE DEF row
  <2>3. Keeps(n, row)
    BY <1>1, <1>5, <2>1 DEF Keeps, Exists, Closed
  <2>4. n = Root => node[n].waiting \notin {"child", "children"} /\ node[n].kids = {}
    BY <1>1, <1>5, RowOf DEF Waiting
  <2>5. Suits("step", row) /\ (n = Root => RestsAs("step", row))
    BY <2>1, <2>4 DEF Suits, RestsAs
  <2>6. Legal(node[n], row)
    BY <1>5, <2>1, MovesAre DEF Legal
  <2> QED
    BY <1>1, <1>2, <1>5, <2>2, <2>3, <2>5, <2>6, StepKept
<1> QED
  BY <1>3, <1>4, <1>5 DEF Top

(* Coming back: the children's frames end with it.                                  *)
LEMMA LeaveFrames ==
  ASSUME TreeInv, NEW n \in Nodes, frame[n] = "kids", Back(n),
         NEW pc \in {"raised", "returned", "top"}, Leave(n, pc), session' = session,
         \A m \in Nodes \ {n} : node'[m] = node[m], node'[n].status # "ABSENT"
  PROVE  /\ Others(n)' /\ Placed(n)' /\ frame' \in [Nodes -> Frames] /\ frame'[n] = pc
         /\ \A m \in Nodes : ~ Exists(m) => frame'[m] \in {"off", "cancel"}
         /\ n # Root => frame'[Root] = frame[Root]
<1>1. frame[n] \in Active
  BY DEF Active, Frames
<1>2. /\ session = "execution" /\ Exists(n)
      /\ \A m \in Nodes : frame[m] \notin {"rewait", "resume", "cancel"}
      /\ \A m \in Nodes : n \in node[m].kids => frame[m] = "kids"
  BY <1>1, CallerWaits
<1>3. frame \in [Nodes -> Frames]
  BY DEF TreeInv, TypeOK
<1>4. /\ frame' \in [Nodes -> Frames] /\ frame'[n] = pc
      /\ \A m \in Nodes \ {n} : frame'[m] = IF m \in node[n].kids THEN "off" ELSE frame[m]
  BY <1>3 DEF Frames, Leave
<1>5. \A k \in node[n].kids : k \in Nodes \ {n, Root} /\ frame[k] \in {"returned", "raised"}
  BY KidsApart DEF Back
<1>6. \A m \in Nodes : frame'[m] \notin {"rewait", "resume", "cancel"}
  BY <1>2, <1>4
<1>7. Sessions' /\ Resuming'
  BY <1>2, <1>6, RootIsNode DEF Sessions, Resuming
<1>8. ASSUME NEW k \in Nodes \ {Root}, frame'[k] \notin {"off", "rewait", "cancel"}
      PROVE  \E m \in Nodes : k \in node'[m].kids /\ frame'[m] = "kids"
  <2>1. k \notin node[n].kids /\ frame[k] \notin {"off", "rewait", "cancel"}
    BY <1>4, <1>5, <1>8
  <2>2. PICK m \in Nodes : k \in node[m].kids /\ frame[m] = "kids"
    BY <1>8, <2>1 DEF TreeInv, Called
  <2>3. m # n /\ m \notin node[n].kids
    BY <1>5, <2>1, <2>2
  <2> QED
    BY <1>4, <2>2, <2>3
<1>9. Called'
  BY <1>8 DEF Called
<1>10. ASSUME NEW m \in Nodes \ {n} PROVE Placed(m)'
  <2>1. CASE m \in node[n].kids
    BY <1>4, <2>1 DEF Placed, Stepping
  <2>2. CASE m \notin node[n].kids
    <3>1. frame'[m] = frame[m] /\ Placed(m) /\ node'[m] = node[m]
      BY <1>4, <2>2 DEF TreeInv
    <3>2. frame[m] # "kids" => \A k \in node[m].kids : node'[k] = node[k]
      BY <1>2, KidsApart
    <3> QED
      BY <3>1, <3>2 DEF Placed, Creating, Waiting
  <2> QED
    BY <2>1, <2>2
<1>11. Placed(n)'
  BY <1>4 DEF Placed, Stepping
<1>12. \A m \in Nodes : ~ Exists(m) => frame'[m] \in {"off", "cancel"}
  BY <1>2, <1>4 DEF TreeInv, Kin
<1>13. Others(n)'
  BY <1>7, <1>9, <1>10 DEF Others
<1>14. n # Root => frame'[Root] = frame[Root]
  BY <1>4, <1>5, RootIsNode
<1> QED
  BY <1>4, <1>11, <1>12, <1>13, <1>14

LEMMA LeaveKept ==
  ASSUME TreeInv, NEW n \in Nodes, frame[n] = "kids", Back(n),
         NEW pc \in {"raised", "returned"}, Leave(n, pc), session' = session, op' = op,
         NEW row, Set(n, row), Keeps(n, row), row.waiting = node[n].waiting,
         row.status \in {"WAITING", "BLOCKED"}
  PROVE  TreeInv' /\ Legally
<1>1. /\ node \in [Nodes -> Row] /\ op \in [Nodes -> OpStates]
      /\ session \in {"none", "execution", "reconcile"}
  BY DEF TreeInv, TypeOK
<1>2. node[n].status = "WAITING" /\ Waiting(n)
  BY RowOf DEF Placed
<1>3. \A m \in Nodes \ {n} : node'[m] = node[m]
  BY <1>1 DEF Set
<1>4. node'[n] = row
  BY <1>1 DEF Set
<1>5. /\ Others(n)' /\ Placed(n)' /\ frame' \in [Nodes -> Frames] /\ frame'[n] = pc
      /\ \A m \in Nodes : ~ Exists(m) => frame'[m] \in {"off", "cancel"}
      /\ n # Root => frame'[Root] = frame[Root]
  BY <1>3, <1>4, LeaveFrames
<1>6. Rows'
  BY <1>5, RowKept
<1>7. Rests(Root)'
  <2>1. CASE n = Root
    BY <1>2, <1>4, <1>5, <2>1 DEF Rests, Waiting, Stepping
  <2>2. CASE n # Root
    BY <1>3, <1>5, <2>2, RootIsNode DEF TreeInv, Rests, Waiting
  <2> QED
    BY <2>1, <2>2
<1>8. TreeInv'
  BY <1>1, <1>5, <1>6, <1>7 DEF Rows, Others, TreeInv, TypeOK
<1>9. Legally
  BY <1>2, <1>3, <1>4, MovesAre DEF Legally, Legal
<1> QED
  BY <1>8, <1>9

LEMMA JoinRaisesKept ==
  ASSUME TreeInv, NEW n \in Nodes, JoinRaises(n)
  PROVE  TreeInv' /\ Legally
<1>1. node \in [Nodes -> Row] /\ node[n].status = "WAITING"
  BY RowOf DEF JoinRaises, Placed, TreeInv, TypeOK
<1>2. Set(n, node[n]) /\ Keeps(n, node[n])
  BY <1>1 DEF Set, Keeps, JoinRaises
<1> QED
  BY <1>1, <1>2, LeaveKept DEF JoinRaises

LEMMA JoinIncompleteKept ==
  ASSUME TreeInv, NEW n \in Nodes, JoinIncomplete(n)
  PROVE  TreeInv' /\ Legally
<1>1. node \in [Nodes -> Row] /\ node[n] \in Row /\ node[n].status = "WAITING" /\ Closed(n)
  BY RowOf DEF JoinIncomplete, Placed, TreeInv, TypeOK
<1>2. CASE UNCHANGED node
  <2>1. Set(n, node[n]) /\ Keeps(n, node[n])
    BY <1>1, <1>2 DEF Set, Keeps
  <2> QED
    BY <1>1, <2>1, LeaveKept DEF JoinIncomplete
<1>3. ASSUME NEW k \in node[n].kids, Block(n, node[k].hold) PROVE TreeInv' /\ Legally
  <2> DEFINE row == [node[n] EXCEPT !.status = "BLOCKED", !.hold = node[k].hold]
  <2>1. node[k].hold \in Holds
    BY <1>1, <1>3, KidsApart DEF Row
  <2>2. /\ row \in Row /\ row.status = "BLOCKED" /\ row.mode = node[n].mode /\ row.parent = node[n].parent
        /\ row.kids = node[n].kids /\ row.task = node[n].task /\ row.done = node[n].done
        /\ row.phase = node[n].phase /\ row.waiting = node[n].waiting
    BY <1>1, <2>1 DEF Row, Statuses
  <2>3. Set(n, row)
    BY <1>3 DEF Block
  <2> HIDE DEF row
  <2>4. Keeps(n, row)
    BY <1>1, <2>2 DEF Keeps, Exists, Closed
  <2> QED
    BY <2>2, <2>3, <2>4, LeaveKept DEF JoinIncomplete
<1> QED
  BY <1>2, <1>3 DEF JoinIncomplete

(* The one step that counts tasks as done: those of children that are complete.     *)
LEMMA JoinRow ==
  ASSUME TreeInv, NEW n \in Nodes, Join(n)
  PROVE  /\ node' \in [Nodes -> Row] /\ \A m \in Nodes \ {n} : node'[m] = node[m]
         /\ node'[n].status = "READY" /\ node'[n].waiting = "no" /\ node'[n].kids = {}
         /\ node'[n].mode = node[n].mode /\ node'[n].parent = node[n].parent /\ node'[n].task = node[n].task
         /\ node'[n].done \subseteq Tasks /\ node[n].done \subseteq node'[n].done
         /\ node[n].mode = "run" => \A k \in node[n].kids : node[k].task \in node'[n].done
         /\ \A t \in node'[n].done : t \in node[n].done \/ \E k \in node[n].kids : node[k].task = t
         /\ node'[n].phase \in {"open", "tasks", "closing"}
         /\ node'[n].phase = "tasks" => node[n].mode = "run"
         /\ node[n].mode = "run" /\ node'[n].phase = "closing" => node[n].done = Tasks
<1> DEFINE done  == IF node[n].mode = "run"
                    THEN node[n].done \cup {node[k].task : k \in node[n].kids} ELSE node[n].done
           phase == IF node[n].mode = "run" THEN node[n].phase ELSE "closing"
           row   == [node[n] EXCEPT !.status = "READY", !.waiting = "no", !.kids = {},
                                    !.done = done, !.phase = phase]
<1>1. /\ node \in [Nodes -> Row] /\ node[n] \in Row /\ node[n].status = "WAITING" /\ Waiting(n)
      /\ Closed(n) /\ node[n].done \subseteq Tasks /\ op \in [Nodes -> OpStates]
      /\ session \in {"none", "execution", "reconcile"}
  BY RowOf DEF Join, Placed, TreeInv, TypeOK
<1>2. /\ frame[n] = "kids" /\ Back(n) /\ Leave(n, "top") /\ session' = session /\ op' = op
      /\ \A k \in node[n].kids : node[k].status = "COMPLETED"
      /\ node[n].mode = "run" => \A k \in node[n].kids : node[k].task # NoTask
  BY DEF Join, Complete, Unjoinable
<1>3. Set(n, row)
  BY DEF Join
<1>4. \A k \in node[n].kids : k \in Nodes /\ Exists(k) /\ node[k].parent = n /\ k # n /\ k # Root
  BY KidsApart
<1>5. \A k \in node[n].kids : node[n].mode = "run" => node[k].task \in Tasks
  BY <1>1, <1>2, <1>4 DEF Row
<1>6. /\ done \subseteq Tasks /\ node[n].done \subseteq done
      /\ node[n].mode = "run" => \A k \in node[n].kids : node[k].task \in done
      /\ \A t \in done : t \in node[n].done \/ \E k \in node[n].kids : node[k].task = t
  BY <1>1, <1>5
<1>7. /\ phase \in {"open", "tasks", "closing"}
      /\ phase = "tasks" => node[n].mode = "run"
      /\ node[n].mode = "run" /\ phase = "closing" => node[n].done = Tasks
  BY <1>1 DEF Closed, Row
<1> HIDE DEF done, phase
<1>8. /\ row \in Row /\ row.status = "READY" /\ row.mode = node[n].mode /\ row.parent = node[n].parent
      /\ row.kids = {} /\ row.task = node[n].task /\ row.done = done
      /\ row.phase = phase /\ row.waiting = "no"
  <2>1. {} \in SUBSET Nodes /\ done \in SUBSET Tasks /\ "READY" \in Statuses
    BY <1>6 DEF Statuses
  <2>2. row \in Row
    BY <1>1, <1>7, <2>1 DEF Row
  <2> QED
    BY <1>1, <2>2 DEF Row
<1> HIDE DEF row
<1>9. node' \in [Nodes -> Row] /\ node'[n] = row /\ \A m \in Nodes \ {n} : node'[m] = node[m]
  BY <1>1, <1>3, <1>8 DEF Set
<1> QED
  BY <1>6, <1>7, <1>8, <1>9

LEMMA JoinKept ==
  ASSUME TreeInv, NEW n \in Nodes, Join(n)
  PROVE  TreeInv' /\ Legally
<1> DEFINE row == node'[n]
           done == node'[n].done
           phase == node'[n].phase
<1>1. /\ node \in [Nodes -> Row] /\ node[n] \in Row /\ node[n].status = "WAITING" /\ Waiting(n)
      /\ Closed(n) /\ node[n].done \subseteq Tasks /\ op \in [Nodes -> OpStates]
      /\ session \in {"none", "execution", "reconcile"}
  BY RowOf DEF Join, Placed, TreeInv, TypeOK
<1>2. /\ frame[n] = "kids" /\ Back(n) /\ Leave(n, "top") /\ session' = session /\ op' = op
      /\ \A k \in node[n].kids : node[k].status = "COMPLETED"
      /\ node[n].mode = "run" => \A k \in node[n].kids : node[k].task # NoTask
  BY DEF Join, Complete, Unjoinable
<1>4. \A k \in node[n].kids : k \in Nodes /\ Exists(k) /\ node[k].parent = n /\ k # n /\ k # Root
  BY KidsApart
<1>6. /\ done \subseteq Tasks /\ node[n].done \subseteq done
      /\ node[n].mode = "run" => \A k \in node[n].kids : node[k].task \in done
      /\ \A t \in done : t \in node[n].done \/ \E k \in node[n].kids : node[k].task = t
  BY JoinRow
<1>7. /\ phase \in {"open", "tasks", "closing"}
      /\ phase = "tasks" => node[n].mode = "run"
      /\ node[n].mode = "run" /\ phase = "closing" => node[n].done = Tasks
  BY JoinRow
<1>8. /\ row.status = "READY" /\ row.mode = node[n].mode /\ row.parent = node[n].parent
      /\ row.kids = {} /\ row.task = node[n].task /\ row.done = done
      /\ row.phase = phase /\ row.waiting = "no"
  BY JoinRow
<1>9. node' \in [Nodes -> Row] /\ node'[n] = row /\ \A m \in Nodes \ {n} : node'[m] = node[m]
  BY JoinRow
<1> HIDE DEF row, done, phase
<1>10. /\ Others(n)' /\ Placed(n)' /\ frame' \in [Nodes -> Frames] /\ frame'[n] = "top"
       /\ \A m \in Nodes : ~ Exists(m) => frame'[m] \in {"off", "cancel"}
       /\ n # Root => frame'[Root] = frame[Root]
  <2>1. node'[n].status # "ABSENT" /\ \A m \in Nodes \ {n} : node'[m] = node[m]
    BY <1>8, <1>9
  <2> QED
    BY <1>2, <2>1, LeaveFrames
<1>11. \A m \in Nodes :
         /\ node'[m].parent = node[m].parent /\ node'[m].mode = node[m].mode
         /\ node'[m].task = node[m].task /\ (Exists(m)' <=> Exists(m))
         /\ node[m].status = "COMPLETED" => node'[m] = node[m]
  BY <1>1, <1>8, <1>9 DEF Exists
<1>12. \A m \in Nodes : Children(m)' = Children(m)
  BY <1>11 DEF Children
<1>13. Kin'
  <2>1. \A m \in Nodes : ~ Exists(m)' => node'[m] = NoRow /\ frame'[m] \in {"off", "cancel"}
    BY <1>1, <1>9, <1>10, <1>11 DEF TreeInv, Kin, Exists
  <2>2. \A m \in Nodes : \A k \in node'[m].kids : k \in Nodes /\ Exists(k) /\ node[k].parent = m /\ k # m
    BY <1>8, <1>9, KidsApart
  <2> QED
    BY <1>11, <2>1, <2>2, RootIsNode DEF TreeInv, Kin
<1>14. ASSUME NEW m \in Nodes PROVE Closed(m)'
  <2>1. Closed(m)
    BY DEF TreeInv
  <2>2. \A k \in Children(m) : node[k].status = "COMPLETED" => node'[k] = node[k]
    BY <1>11 DEF Children
  <2>3. CASE m # n
    BY <1>9, <1>12, <2>1, <2>2, <2>3 DEF Closed
  <2>4. CASE m = n
    <3>1. \A t \in done : \E k \in Children(n) : node[k].task = t /\ node[k].status = "COMPLETED"
      BY <1>1, <1>2, <1>4, <1>6 DEF Closed, Children
    <3>2. \A t \in node'[n].done : \E k \in Children(n)' : node'[k].task = t /\ node'[k].status = "COMPLETED"
      BY <1>8, <1>9, <1>12, <2>2, <2>4, <3>1
    <3>3. node[n].mode = "run" /\ phase = "closing" => done = Tasks
      BY <1>6, <1>7
    <3> QED
      BY <1>7, <1>8, <1>9, <2>4, <3>2, <3>3 DEF Closed
  <2> QED
    BY <2>3, <2>4
<1>15. RootWaits'
  <2>1. \A k \in Children(Root) : node'[k].status # "COMPLETED" => node[k].status # "COMPLETED"
    BY <1>11 DEF Children
  <2>2. \A k \in Children(Root) : node'[k].status # "COMPLETED" => k \in node[Root].kids
    BY <2>1 DEF TreeInv, RootWaits
  <2>3. CASE n = Root
    BY <1>2, <1>11, <1>12, <2>2, <2>3, KidsApart DEF RootWaits
  <2>4. CASE n # Root
    BY <1>9, <1>12, <2>2, <2>4, RootIsNode DEF RootWaits
  <2> QED
    BY <2>3, <2>4
<1>16. RootTasks'
  <2>1. \A k \in Children(Root) : k \in Nodes /\ node'[k].task = node[k].task
    BY <1>11 DEF Children
  <2>2. CASE n = Root
    <3>1. \A k \in node[Root].kids : node[k].task \in done \cup {NoTask}
      BY <1>6, <2>2, <1>4 DEF TreeInv, RootTasks, Children
    <3>2. \A k \in Children(Root) : node[k].task \in done \cup {NoTask}
      BY <1>6, <2>2, <3>1 DEF TreeInv, RootTasks
    <3>3. \A k \in Children(Root)' \ node'[Root].kids : node'[k].task \in node'[Root].done \cup {NoTask}
      BY <1>8, <1>9, <1>12, <2>1, <2>2, <3>2
    <3> QED
      BY <1>11, <1>12, <2>1, <3>3, RootIsNode DEF TreeInv, RootTasks
  <2>3. CASE n # Root
    BY <1>9, <1>12, <2>1, <2>3, RootIsNode DEF TreeInv, RootTasks
  <2> QED
    BY <2>2, <2>3
<1>17. Rests(Root)'
  <2>1. CASE n = Root
    BY <1>8, <1>9, <1>10, <2>1 DEF Rests, Waiting, Stepping
  <2>2. CASE n # Root
    BY <1>9, <1>10, <2>2, RootIsNode DEF TreeInv, Rests, Waiting
  <2> QED
    BY <2>1, <2>2
<1>18. TreeInv'
  BY <1>1, <1>2, <1>9, <1>10, <1>13, <1>14, <1>15, <1>16, <1>17 DEF Others, TreeInv, TypeOK
<1>19. Legally
  BY <1>1, <1>8, <1>9, MovesAre DEF Legally, Legal
<1> QED
  BY <1>18, <1>19

--------------------------------------------------------------------------------
(* Delegation: rows of new children, and a parent that waits for them.              *)

Inserts(n, cs) ==
  /\ cs \subseteq Free /\ node' \in [Nodes -> Row]
  /\ \A m \in Nodes \ (cs \cup {n}) : node'[m] = node[m]
  /\ \A m \in cs : /\ node'[m].status = "READY" /\ node'[m].parent = n
                   /\ node'[m].done = {} /\ node'[m].kids = {}
                   /\ node'[m].phase # "tasks" /\ (node'[m].mode = "fix" \/ node'[m].phase = "open")
                   /\ node'[m].task \in Pending(n) \cup {NoTask}
                   /\ node[n].mode # "run" => node'[m].task = NoTask
                   /\ \A i \in cs : node'[i].task = node'[m].task /\ node'[i].task # NoTask => i = m
  /\ node'[n].status = "WAITING" /\ node'[n].waiting \in {"child", "children"} /\ node'[n].kids = cs
  /\ node'[n].mode = node[n].mode /\ node'[n].parent = node[n].parent /\ node'[n].task = node[n].task
  /\ node'[n].done = node[n].done /\ node'[n].phase = node[n].phase

LEMMA InsertRows ==
  ASSUME TreeInv, NEW n \in Nodes, frame[n] \in {"step", "apply"}, NEW cs, Inserts(n, cs)
  PROVE  /\ Exists(n) /\ n \notin cs /\ node[n].status = "RUNNING"
         /\ \A m \in cs : m \in Nodes /\ ~ Exists(m) /\ node[m].status = "ABSENT" /\ m # Root
         /\ \A m \in Nodes \ cs : m # n => node'[m] = node[m]
         /\ \A m \in Nodes : Exists(m)' <=> Exists(m) \/ m \in cs
         /\ \A m \in Nodes \ cs : node'[m].parent = node[m].parent /\ node'[m].mode = node[m].mode
                                 /\ node'[m].task = node[m].task /\ node'[m].done = node[m].done
                                 /\ node'[m].phase = node[m].phase
         /\ \A m \in Nodes \ cs : node[m].status = "COMPLETED" => node'[m] = node[m]
         /\ Children(n)' = Children(n) \cup cs
         /\ \A m \in Nodes \ {n} : Children(m)' = Children(m)
<1>1. node[n].status = "RUNNING"
  BY RowOf DEF Placed, Stepping
<1>3. Exists(n) /\ n \notin cs
  BY <1>1 DEF Exists, Inserts, Free
<1>4. \A m \in cs : m \in Nodes /\ ~ Exists(m) /\ node[m].status = "ABSENT" /\ m # Root
  BY DEF Inserts, Free, Exists, TreeInv, Kin
<1>5. \A m \in Nodes \ cs : m # n => node'[m] = node[m]
  BY DEF Inserts
<1>8. \A m \in Nodes : Exists(m)' <=> Exists(m) \/ m \in cs
  BY <1>3, <1>4, <1>5 DEF Inserts, Exists
<1>9. \A m \in Nodes \ cs : node'[m].parent = node[m].parent /\ node'[m].mode = node[m].mode
                            /\ node'[m].task = node[m].task /\ node'[m].done = node[m].done
                            /\ node'[m].phase = node[m].phase
  BY <1>5 DEF Inserts
<1>10. \A m \in Nodes \ cs : node[m].status = "COMPLETED" => node'[m] = node[m]
  BY <1>1, <1>5
<1>11. /\ Children(n)' = Children(n) \cup cs
       /\ \A m \in Nodes \ {n} : Children(m)' = Children(m)
  <2>1. \A m \in Nodes : \A k \in Nodes \ cs : k \in Children(m)' <=> k \in Children(m)
    BY <1>8, <1>9 DEF Children
  <2>2. \A m \in Nodes : \A k \in cs : k \notin Children(m) /\ (k \in Children(m)' <=> m = n)
    BY <1>4, <1>8 DEF Children, Inserts
  <2>3. \A m \in Nodes : Children(m) \subseteq Nodes /\ Children(m)' \subseteq Nodes
    BY DEF Children
  <2>4. cs \subseteq Nodes
    BY <1>4
  <2> QED
    BY <2>1, <2>2, <2>3, <2>4
<1> QED
  BY <1>1, <1>3, <1>4, <1>5, <1>8, <1>9, <1>10, <1>11

LEMMA InsertKept ==
  ASSUME TreeInv, NEW n \in Nodes, frame[n] \in {"step", "apply"}, NEW pc \in {"top", "mark"},
         NEW cs, Inserts(n, cs), Goto(n, pc), session' = session, op' \in [Nodes -> OpStates],
         pc = "mark" => \E k \in cs : cs = {k} /\ node'[k].mode = "fix" /\ node'[n].waiting = "child"
  PROVE  TreeInv' /\ Legally
<1>1. /\ node[n] \in Row /\ node[n].status = "RUNNING" /\ Closed(n)
      /\ session \in {"none", "execution", "reconcile"}
  BY RowOf DEF Placed, Stepping, TreeInv, TypeOK
<1>2. frame[n] \in Active \ {"kids"} /\ pc \in Active
  BY DEF Active, Frames
<1>3. Exists(n) /\ n \notin cs
  BY InsertRows
<1>4. \A m \in cs : m \in Nodes /\ ~ Exists(m) /\ node[m].status = "ABSENT" /\ m # Root
  BY InsertRows
<1>5. \A m \in Nodes \ cs : m # n => node'[m] = node[m]
  BY InsertRows
<1>6. Apart(n)
  BY <1>4, <1>5 DEF Apart
<1>7. /\ Others(n)' /\ frame' \in [Nodes -> Frames] /\ frame'[n] = pc
      /\ \A m \in Nodes : ~ Exists(m) => frame'[m] \in {"off", "cancel"}
      /\ \A m \in Nodes \ {n} : frame'[m] = frame[m]
  BY <1>2, <1>6, FrameStep
<1>8. \A m \in Nodes : Exists(m)' <=> Exists(m) \/ m \in cs
  BY InsertRows
<1>9. \A m \in Nodes \ cs : node'[m].parent = node[m].parent /\ node'[m].mode = node[m].mode
                            /\ node'[m].task = node[m].task /\ node'[m].done = node[m].done
                            /\ node'[m].phase = node[m].phase
  BY InsertRows
<1>10. \A m \in Nodes \ cs : node[m].status = "COMPLETED" => node'[m] = node[m]
  BY InsertRows
<1>11. /\ Children(n)' = Children(n) \cup cs
       /\ \A m \in Nodes \ {n} : Children(m)' = Children(m)
  BY InsertRows
<1>12. Kin'
  <2>1. Exists(Root)' /\ node'[Root].parent = NoNode
    BY <1>4, <1>8, <1>9, RootIsNode DEF TreeInv, Kin
  <2>2. \A m \in Nodes : ~ Exists(m)' => node'[m] = NoRow /\ frame'[m] \in {"off", "cancel"}
    BY <1>3, <1>5, <1>7, <1>8 DEF TreeInv, Kin
  <2>3. ASSUME NEW m \in Nodes, NEW k \in node'[m].kids PROVE Exists(k)' /\ node'[k].parent = m /\ k # m
    <3>1. CASE m = n
      BY <1>3, <1>4, <1>8, <2>3, <3>1 DEF Inserts
    <3>2. CASE m \in cs
      BY <2>3, <3>2 DEF Inserts
    <3>3. CASE m \in Nodes \ cs /\ m # n
      <4>1. k \in Nodes /\ Exists(k) /\ node[k].parent = m /\ k # m
        BY <1>5, <2>3, <3>3, KidsApart
      <4> QED
        BY <1>4, <1>8, <1>9, <4>1
    <3> QED
      BY <3>1, <3>2, <3>3
  <2> QED
    BY <2>1, <2>2, <2>3 DEF Kin
<1>13. ASSUME NEW m \in Nodes PROVE Closed(m)'
  <2>1. Closed(m)
    BY DEF TreeInv
  <2>2. CASE m \in cs
    BY <2>2 DEF Closed, Inserts
  <2>3. CASE m \notin cs
    <3>1. \A k \in Children(m) : node[k].status = "COMPLETED" => k \in Children(m)' /\ node'[k] = node[k]
      BY <1>4, <1>10, <1>11 DEF Children
    <3>2. \A t \in node'[m].done : \E k \in Children(m)' : node'[k].task = t /\ node'[k].status = "COMPLETED"
      BY <1>9, <2>1, <2>3, <3>1 DEF Closed
    <3>3. node'[m].status = "COMPLETED" => node[m].status = "COMPLETED"
      BY <1>5, <2>3 DEF Inserts
    <3> QED
      BY <1>9, <2>1, <2>3, <3>2, <3>3 DEF Closed
  <2> QED
    BY <2>2, <2>3
<1>14. RootWaits' /\ RootTasks'
  <2>1. CASE n # Root
    <3>1. Children(Root)' = Children(Root) /\ node'[Root] = node[Root]
      BY <1>4, <1>5, <1>11, <2>1, RootIsNode
    <3>2. \A k \in Children(Root) : k \in Nodes \ cs
      BY <1>4 DEF Children
    <3>3. \A k \in Children(Root) : node'[k].task = node[k].task
                                    /\ (node'[k].status # "COMPLETED" => node[k].status # "COMPLETED")
      BY <1>9, <1>10, <3>2
    <3>4. RootWaits'
      BY <3>1, <3>3 DEF TreeInv, RootWaits
    <3>5. RootTasks'
      BY <3>1, <3>3 DEF TreeInv, RootTasks
    <3> QED
      BY <3>4, <3>5
  <2>2. CASE n = Root
    <3>1. node[Root].kids = {}
      BY <2>2, RowOf DEF Stepping
    <3>2. /\ Children(Root)' = Children(Root) \cup cs /\ node'[Root].kids = cs
          /\ node'[Root].mode = node[Root].mode /\ node'[Root].done = node[Root].done
      BY <1>11, <2>2 DEF Inserts
    <3>3. \A k \in Children(Root) : k \in Nodes \ cs
      BY <1>4 DEF Children
    <3>4. \A k \in Children(Root) : /\ k \notin cs /\ node'[k].task = node[k].task
                                    /\ node'[k].status = "COMPLETED"
                                    /\ node'[k].task \in node[Root].done \cup {NoTask}
      BY <1>9, <1>10, <3>1, <3>3 DEF TreeInv, RootWaits, RootTasks
    <3>5. RootWaits'
      BY <3>2, <3>4 DEF RootWaits
    <3>6. \A k \in cs : /\ node'[k].task \notin node[Root].done \cup {NoTask} \/ node'[k].task = NoTask
                        /\ node[Root].mode # "run" => node'[k].task = NoTask
      BY <2>2 DEF Inserts, Pending
    <3>7. \A j, k \in Children(Root)' : node'[j].task = node'[k].task /\ node'[j].task # NoTask => j = k
      <4> SUFFICES ASSUME NEW j \in Children(Root) \cup cs, NEW k \in Children(Root) \cup cs,
                          node'[j].task = node'[k].task, node'[j].task # NoTask
                   PROVE  j = k
        BY <3>2
      <4>1. CASE j \in cs /\ k \in cs
        BY <4>1 DEF Inserts
      <4>2. CASE j \in Children(Root) /\ k \in Children(Root)
        BY <3>4, <4>2 DEF TreeInv, RootTasks
      <4>3. ~ (j \in cs /\ k \in Children(Root)) /\ ~ (j \in Children(Root) /\ k \in cs)
        BY <3>4, <3>6
      <4> QED
        BY <4>1, <4>2, <4>3
    <3>8. node'[Root].mode # "run" => \A k \in Children(Root)' : node'[k].task = NoTask
      BY <3>2, <3>4, <3>6 DEF TreeInv, RootTasks
    <3>9. \A k \in Children(Root)' \ node'[Root].kids : node'[k].task \in node'[Root].done \cup {NoTask}
      BY <3>2, <3>4
    <3>10. RootTasks'
      BY <3>7, <3>8, <3>9 DEF RootTasks
    <3> QED
      BY <3>5, <3>10
  <2> QED
    BY <2>1, <2>2
<1>15. Rests(Root)'
  <2>1. CASE n = Root
    BY <1>7, <2>1 DEF Inserts, Rests, Waiting, Stepping
  <2>2. CASE n # Root
    BY <1>4, <1>5, <1>7, <2>2, RootIsNode DEF TreeInv, Rests, Waiting
  <2> QED
    BY <2>1, <2>2
<1>16. Placed(n)'
  <2>1. pc = "mark" => Creating(n, "READY")'
    <3> SUFFICES ASSUME pc = "mark" PROVE Creating(n, "READY")'
      OBVIOUS
    <3>1. PICK k \in cs : cs = {k} /\ node'[k].mode = "fix" /\ node'[n].waiting = "child"
      OBVIOUS
    <3> QED
      BY <1>4, <3>1 DEF Creating, Inserts
  <2> QED
    BY <1>7, <2>1 DEF Placed, Stepping
<1>17. TreeInv'
  BY <1>1, <1>7, <1>12, <1>13, <1>14, <1>15, <1>16 DEF Others, TreeInv, TypeOK, Inserts
<1>18. Legally
  <2>1. \A m \in cs : Legal(node[m], node'[m])
    BY <1>4, MovesAre DEF Legal, Inserts
  <2>2. Legal(node[n], node'[n])
    BY <1>1, MovesAre DEF Legal, Inserts
  <2>3. \A m \in Nodes \ cs : m # n => Legal(node[m], node'[m])
    BY <1>5 DEF Legal
  <2> QED
    BY <2>1, <2>2, <2>3 DEF Legally
<1> QED
  BY <1>17, <1>18

LEMMA NewRowIs ==
  ASSUME NEW mode \in Modes, NEW n \in Nodes, NEW phase \in {"open", "closing"}, NEW task \in Tasks \cup {NoTask}
  PROVE  /\ NewRow(mode, n, phase, task) \in Row
         /\ NewRow(mode, n, phase, task).status = "READY" /\ NewRow(mode, n, phase, task).parent = n
         /\ NewRow(mode, n, phase, task).done = {} /\ NewRow(mode, n, phase, task).kids = {}
         /\ NewRow(mode, n, phase, task).phase = phase /\ NewRow(mode, n, phase, task).mode = mode
         /\ NewRow(mode, n, phase, task).task = task
BY DEF NewRow, Row, Statuses, Holds

LEMMA SpawnInserts ==
  ASSUME TreeInv, NEW n \in Nodes, Exists(n), NEW child \in Free, NEW mode \in Modes, Spawn(n, child, mode)
  PROVE  Inserts(n, {child}) /\ node'[child].mode = mode /\ node'[n].waiting = "child"
<1> DEFINE row == [node[n] EXCEPT !.status = "WAITING", !.waiting = "child", !.kids = {child}]
<1>1. child \in Nodes /\ child # n /\ node \in [Nodes -> Row] /\ node[n] \in Row
  BY RowOf DEF Free, TreeInv, TypeOK
<1>2. node' = [node EXCEPT ![child] = NewRow(mode, n, "open", NoTask), ![n] = row]
  BY <1>1 DEF Spawn
<1>3. /\ row \in Row /\ row.status = "WAITING" /\ row.waiting = "child" /\ row.kids = {child}
      /\ row.mode = node[n].mode /\ row.parent = node[n].parent /\ row.task = node[n].task
      /\ row.done = node[n].done /\ row.phase = node[n].phase
  <2>1. {child} \in SUBSET Nodes
    BY <1>1
  <2> QED
    BY <1>1, <2>1 DEF Row, Statuses
<1> HIDE DEF row
<1> DEFINE new == NewRow(mode, n, "open", NoTask)
<1>4. /\ new \in Row /\ new.status = "READY" /\ new.parent = n /\ new.done = {} /\ new.kids = {}
      /\ new.phase = "open" /\ new.mode = mode /\ new.task = NoTask
  BY NewRowIs
<1>5. node' = [node EXCEPT ![child] = new, ![n] = row]
  BY <1>2
<1> HIDE DEF new
<1>6. /\ node' \in [Nodes -> Row] /\ node'[child] = new /\ node'[n] = row
      /\ \A m \in Nodes \ ({child} \cup {n}) : node'[m] = node[m]
  BY <1>1, <1>3, <1>4, <1>5
<1> QED
  BY <1>3, <1>4, <1>6 DEF Inserts

LEMMA DelegateKept ==
  ASSUME TreeInv, NEW n \in Nodes, NEW c \in Free, NEW mode \in Modes, Delegate(n, c, mode)
  PROVE  TreeInv' /\ Legally
<1>1. frame[n] = "apply" /\ op' \in [Nodes -> OpStates] /\ session' = session
  BY RowOf DEF Delegate, OpStates
<1>2. Exists(n)
  BY <1>1 DEF TreeInv, Kin
<1>3. Inserts(n, {c}) /\ node'[c].mode = mode /\ node'[n].waiting = "child"
  BY <1>2, SpawnInserts DEF Delegate
<1>4. CASE Goto(n, "top")
  BY <1>1, <1>3, <1>4, InsertKept
<1>5. CASE mode = "fix" /\ Goto(n, "mark")
  BY <1>1, <1>3, <1>5, InsertKept
<1> QED
  BY <1>4, <1>5 DEF Delegate

LEMMA SpawnTaskKept ==
  ASSUME TreeInv, NEW n \in Nodes, NEW c \in Free, SpawnTask(n, c)
  PROVE  TreeInv' /\ Legally
<1>1. frame[n] = "step" /\ op' \in [Nodes -> OpStates] /\ session' = session /\ Goto(n, "mark")
  BY RowOf DEF SpawnTask
<1>2. Exists(n)
  BY <1>1 DEF TreeInv, Kin
<1>3. Inserts(n, {c}) /\ node'[c].mode = "fix" /\ node'[n].waiting = "child"
  BY <1>2, SpawnInserts DEF SpawnTask, Modes
<1> QED
  BY <1>1, <1>3, InsertKept

LEMMA BatchInserts ==
  ASSUME TreeInv, NEW n \in Nodes, NEW cs \in SUBSET Free, NEW ts \in SUBSET Pending(n), Batch(n, cs, ts)
  PROVE  Inserts(n, cs)
<1>1. /\ frame[n] = "step" /\ op' \in [Nodes -> OpStates] /\ session' = session /\ Goto(n, "top")
      /\ node[n] \in Row /\ node[n].mode = "run" /\ node \in [Nodes -> Row]
  BY RowOf DEF Batch, Closed, TreeInv, TypeOK
<1>2. Exists(n) /\ n \notin cs /\ cs \in SUBSET Nodes
  BY <1>1 DEF TreeInv, Kin, Free
<1> DEFINE row == [node[n] EXCEPT !.status = "WAITING", !.waiting = "children", !.kids = cs]
<1>3. /\ row \in Row /\ row.status = "WAITING" /\ row.waiting = "children" /\ row.kids = cs
      /\ row.mode = node[n].mode /\ row.parent = node[n].parent /\ row.task = node[n].task
      /\ row.done = node[n].done /\ row.phase = node[n].phase
  BY <1>1, <1>2 DEF Row, Statuses
<1>4. PICK f \in Bijection(cs, ts) :
        node' = [m \in Nodes |-> IF m \in cs THEN NewRow("fix", n, "closing", f[m])
                                 ELSE IF m = n THEN row ELSE node[m]]
  BY DEF Batch
<1> HIDE DEF row
<1>5. \A m \in cs : f[m] \in Pending(n) /\ f[m] \in Tasks
  BY DEF Bijection, Injection, Pending
<1>6. \A i, m \in cs : f[i] = f[m] => i = m
  BY DEF Bijection, Injection, IsInjective
<1>7. ASSUME NEW m \in cs
      PROVE  /\ node'[m] \in Row /\ node'[m].status = "READY" /\ node'[m].parent = n /\ node'[m].done = {}
             /\ node'[m].kids = {} /\ node'[m].phase = "closing" /\ node'[m].mode = "fix" /\ node'[m].task = f[m]
  <2>1. node'[m] = NewRow("fix", n, "closing", f[m])
    BY <1>2, <1>4, <1>7
  <2> QED
    BY <1>5, <1>7, <2>1, NewRowIs DEF Modes
<1>8. node'[n] = row /\ \A m \in Nodes \ (cs \cup {n}) : node'[m] = node[m]
  BY <1>2, <1>4
<1>9. node' \in [Nodes -> Row]
  <2>1. \A m \in Nodes : node'[m] \in Row
    BY <1>1, <1>3, <1>7, <1>8
  <2>2. node' = [m \in Nodes |-> node'[m]]
    BY <1>4
  <2> QED
    BY <2>1, <2>2
<1>10. \A m \in cs : /\ node'[m].status = "READY" /\ node'[m].parent = n
                     /\ node'[m].done = {} /\ node'[m].kids = {}
                     /\ node'[m].phase # "tasks" /\ (node'[m].mode = "fix" \/ node'[m].phase = "open")
                     /\ node'[m].task \in Pending(n) \cup {NoTask}
                     /\ node[n].mode # "run" => node'[m].task = NoTask
                     /\ \A i \in cs : node'[i].task = node'[m].task /\ node'[i].task # NoTask => i = m
  BY <1>1, <1>5, <1>6, <1>7
<1> QED
  BY <1>3, <1>8, <1>9, <1>10 DEF Inserts

LEMMA BatchKept ==
  ASSUME TreeInv, NEW n \in Nodes, NEW cs \in SUBSET Free, NEW ts \in SUBSET Pending(n), Batch(n, cs, ts)
  PROVE  TreeInv' /\ Legally
<1>1. frame[n] = "step" /\ op' \in [Nodes -> OpStates] /\ session' = session /\ Goto(n, "top")
  BY RowOf DEF Batch
<1> QED
  BY <1>1, BatchInserts, InsertKept

(* The child that is being created: no one else's row and no one else's frame.      *)
LEMMA CreatingOne ==
  ASSUME TreeInv, NEW n \in Nodes, NEW status \in {"READY", "RUNNING"}, Creating(n, status),
         frame[n] \in {"mark", "ready"}, NEW k \in node[n].kids
  PROVE  /\ k \in Nodes /\ Exists(k) /\ node[k].parent = n /\ k # n /\ k # Root /\ node[n].kids = {k}
         /\ node[k].status = status /\ node[k].mode = "fix" /\ node[k].done = {}
         /\ node[k] \in Row /\ Closed(k) /\ node[n].status = "WAITING" /\ Waiting(n)
<1>1. k \in Nodes /\ Exists(k) /\ node[k].parent = n /\ k # n /\ k # Root
  BY KidsApart
<1> QED
  BY <1>1, RowOf DEF Creating, Waiting

LEMMA ReadyTaskKept ==
  ASSUME TreeInv, NEW n \in Nodes, ReadyTask(n)
  PROVE  TreeInv' /\ Legally
<1>1. /\ frame[n] = "ready" /\ Goto(n, "top") /\ session' = session /\ op' = op
      /\ op \in [Nodes -> OpStates] /\ node \in [Nodes -> Row] /\ Creating(n, "RUNNING")
      /\ session \in {"none", "execution", "reconcile"}
  BY RowOf DEF ReadyTask, Placed, TreeInv, TypeOK
<1>2. PICK k \in node[n].kids : Set(k, [node[k] EXCEPT !.status = "READY"])
  BY DEF ReadyTask
<1>3. /\ k \in Nodes /\ Exists(k) /\ k # n /\ k # Root /\ node[n].kids = {k} /\ node[k].status = "RUNNING"
      /\ node[k] \in Row /\ Closed(k) /\ node[n].status = "WAITING" /\ Waiting(n)
  BY <1>1, CreatingOne
<1> DEFINE row == [node[k] EXCEPT !.status = "READY"]
<1>4. /\ row \in Row /\ row.status = "READY" /\ row.mode = node[k].mode /\ row.parent = node[k].parent
      /\ row.kids = node[k].kids /\ row.task = node[k].task /\ row.done = node[k].done
      /\ row.phase = node[k].phase /\ row.waiting = node[k].waiting
  BY <1>3 DEF Row, Statuses
<1>5. Set(k, row)
  BY <1>2
<1> HIDE DEF row
<1>6. Keeps(k, row)
  BY <1>3, <1>4 DEF Keeps, Closed
<1>7. node'[k] = row /\ \A m \in Nodes \ {k} : node'[m] = node[m]
  BY <1>1, <1>3, <1>5 DEF Set
<1>8. Apart(n)
  BY <1>3, <1>4, <1>7 DEF Apart
<1>9. frame[n] \in Active \ {"kids"} /\ "top" \in Active
  BY <1>1 DEF Active, Frames
<1>10. /\ Others(n)' /\ frame' \in [Nodes -> Frames] /\ frame'[n] = "top"
       /\ \A m \in Nodes : ~ Exists(m) => frame'[m] \in {"off", "cancel"}
       /\ \A m \in Nodes \ {n} : frame'[m] = frame[m]
  BY <1>1, <1>8, <1>9, FrameStep
<1>11. Rows'
  BY <1>3, <1>5, <1>6, <1>10, RowKept
<1>12. Placed(n)'
  BY <1>10 DEF Placed, Stepping
<1>13. Rests(Root)'
  <2>1. node'[Root] = node[Root]
    BY <1>3, <1>7, RootIsNode
  <2>2. CASE n = Root
    BY <1>3, <1>10, <2>1, <2>2 DEF Rests, Waiting, Stepping
  <2>3. CASE n # Root
    BY <1>10, <2>1, <2>3, RootIsNode DEF TreeInv, Rests, Waiting
  <2> QED
    BY <2>2, <2>3
<1>14. TreeInv'
  BY <1>1, <1>10, <1>11, <1>12, <1>13 DEF Rows, Others, TreeInv, TypeOK
<1>15. Legally
  BY <1>3, <1>4, <1>7, MovesAre DEF Legally, Legal
<1> QED
  BY <1>14, <1>15

LEMMA MarkRow ==
  ASSUME TreeInv, NEW n \in Nodes, MarkTask(n)
  PROVE  \E k \in node[n].kids, task \in Tasks \cup {NoTask} :
           /\ k \in Nodes /\ Exists(k) /\ k # n /\ k # Root /\ node[n].kids = {k} /\ node[k].status = "READY"
           /\ node[k].mode = "fix" /\ node[k].done = {} /\ node[k].parent = n
           /\ Closed(k) /\ node[n].status = "WAITING" /\ node[n].waiting = "child"
           /\ node[n].mode = "run" => task \in Pending(n)
           /\ node[n].mode # "run" => task = NoTask
           /\ node' \in [Nodes -> Row] /\ \A m \in Nodes \ {k} : node'[m] = node[m]
           /\ node'[k].status = "RUNNING" /\ node'[k].mode = "fix" /\ node'[k].parent = n
           /\ node'[k].kids = node[k].kids /\ node'[k].task = task /\ node'[k].done = {}
           /\ node'[k].phase \in {"open", "closing"} /\ node'[k].waiting = node[k].waiting
<1>1. /\ frame[n] = "mark" /\ Goto(n, "ready") /\ session' = session /\ op' = op
      /\ op \in [Nodes -> OpStates] /\ node \in [Nodes -> Row] /\ Creating(n, "READY")
      /\ session \in {"none", "execution", "reconcile"} /\ node[n] \in Row
  BY RowOf DEF MarkTask, Placed, TreeInv, TypeOK
<1>2. PICK k \in node[n].kids, mark \in Marks(n) :
        Set(k, [node[k] EXCEPT !.status = "RUNNING", !.phase = mark[2], !.task = mark[1]])
  BY Zenon DEF MarkTask
<1>3. /\ k \in Nodes /\ Exists(k) /\ k # n /\ k # Root /\ node[n].kids = {k} /\ node[k].status = "READY"
      /\ node[k].mode = "fix" /\ node[k].done = {} /\ node[k].parent = n
      /\ node[k] \in Row /\ Closed(k) /\ node[n].status = "WAITING" /\ Waiting(n)
  BY <1>1, CreatingOne
<1> DEFINE task == mark[1]
           phase == mark[2]
<1>4. /\ phase \in {"open", "closing"}
      /\ node[n].mode = "run" => task \in Pending(n)
      /\ node[n].mode # "run" => task = NoTask
  BY DEF Marks
<1>5. task \in Tasks \cup {NoTask}
  BY <1>4 DEF Pending
<1> DEFINE row == [node[k] EXCEPT !.status = "RUNNING", !.phase = phase, !.task = task]
<1>6. Set(k, row)
  BY <1>2
<1> HIDE DEF task, phase
<1>7. /\ row \in Row /\ row.status = "RUNNING" /\ row.mode = "fix" /\ row.parent = n
      /\ row.kids = node[k].kids /\ row.task = task /\ row.done = {}
      /\ row.phase = phase /\ row.waiting = node[k].waiting
  BY <1>3, <1>4, <1>5 DEF Row, Statuses
<1> HIDE DEF row
<1>8. node' \in [Nodes -> Row] /\ node'[k] = row /\ \A m \in Nodes \ {k} : node'[m] = node[m]
  BY <1>1, <1>3, <1>6, <1>7 DEF Set
<1>9. node[n].waiting = "child"
  BY <1>1 DEF Creating
<1> QED
  BY <1>3, <1>4, <1>5, <1>7, <1>8, <1>9

LEMMA MarkTaskKept ==
  ASSUME TreeInv, NEW n \in Nodes, MarkTask(n)
  PROVE  TreeInv' /\ Legally
<1>1. /\ frame[n] = "mark" /\ Goto(n, "ready") /\ session' = session /\ op' = op
      /\ op \in [Nodes -> OpStates] /\ node \in [Nodes -> Row]
      /\ session \in {"none", "execution", "reconcile"} /\ node[n] \in Row
  BY RowOf DEF MarkTask, TreeInv, TypeOK
<1>2. PICK k \in node[n].kids, task \in Tasks \cup {NoTask} :
           /\ k \in Nodes /\ Exists(k) /\ k # n /\ k # Root /\ node[n].kids = {k} /\ node[k].status = "READY"
           /\ node[k].mode = "fix" /\ node[k].done = {} /\ node[k].parent = n
           /\ Closed(k) /\ node[n].status = "WAITING" /\ node[n].waiting = "child"
           /\ node[n].mode = "run" => task \in Pending(n)
           /\ node[n].mode # "run" => task = NoTask
           /\ node' \in [Nodes -> Row] /\ \A m \in Nodes \ {k} : node'[m] = node[m]
           /\ node'[k].status = "RUNNING" /\ node'[k].mode = "fix" /\ node'[k].parent = n
           /\ node'[k].kids = node[k].kids /\ node'[k].task = task /\ node'[k].done = {}
           /\ node'[k].phase \in {"open", "closing"} /\ node'[k].waiting = node[k].waiting
  BY MarkRow
<1> DEFINE row == node'[k]
<1>3. /\ k \in Nodes /\ Exists(k) /\ k # n /\ k # Root /\ node[n].kids = {k} /\ node[k].status = "READY"
      /\ node[k].mode = "fix" /\ node[k].done = {} /\ node[k].parent = n
      /\ Closed(k) /\ node[n].status = "WAITING" /\ node[n].waiting = "child" /\ Waiting(n)
  BY <1>2 DEF Waiting
<1>4. /\ row.phase \in {"open", "closing"}
      /\ node[n].mode = "run" => task \in Pending(n)
      /\ node[n].mode # "run" => task = NoTask
  BY <1>2
<1>7. /\ row.status = "RUNNING" /\ row.mode = "fix" /\ row.parent = n
      /\ row.kids = node[k].kids /\ row.task = task /\ row.done = {} /\ row.waiting = node[k].waiting
  BY <1>2
<1>8. node' \in [Nodes -> Row] /\ node'[k] = row /\ \A m \in Nodes \ {k} : node'[m] = node[m]
  BY <1>2
<1> HIDE DEF row
<1>9. Apart(n)
  BY <1>3, <1>7, <1>8 DEF Apart
<1>10. frame[n] \in Active \ {"kids"} /\ "ready" \in Active
  BY <1>1 DEF Active, Frames
<1>11. /\ Others(n)' /\ frame' \in [Nodes -> Frames] /\ frame'[n] = "ready"
       /\ \A m \in Nodes : ~ Exists(m) => frame'[m] \in {"off", "cancel"}
       /\ \A m \in Nodes \ {n} : frame'[m] = frame[m]
  BY <1>1, <1>9, <1>10, FrameStep
<1>12. \A m \in Nodes :
         /\ node'[m].parent = node[m].parent /\ node'[m].mode = node[m].mode /\ node'[m].kids = node[m].kids
         /\ node'[m].done = node[m].done /\ (Exists(m)' <=> Exists(m))
         /\ node[m].status = "COMPLETED" => node'[m] = node[m]
         /\ node'[m].status = "COMPLETED" => node[m].status = "COMPLETED"
  BY <1>3, <1>7, <1>8 DEF Exists
<1>13. \A m \in Nodes : Children(m)' = Children(m)
  BY <1>12 DEF Children
<1>14. Kin'
  <2>1. \A m \in Nodes : ~ Exists(m)' => node'[m] = NoRow /\ frame'[m] \in {"off", "cancel"}
    BY <1>3, <1>8, <1>11, <1>12 DEF TreeInv, Kin
  <2>2. \A m \in Nodes : \A i \in node'[m].kids : i \in Nodes /\ Exists(i) /\ node[i].parent = m /\ i # m
    BY <1>12, KidsApart
  <2> QED
    BY <1>12, <2>1, <2>2, RootIsNode DEF TreeInv, Kin
<1>15. ASSUME NEW m \in Nodes PROVE Closed(m)'
  <2>1. Closed(m)
    BY DEF TreeInv
  <2>2. \A i \in Children(m) : node[i].status = "COMPLETED" => node'[i] = node[i]
    BY <1>12 DEF Children
  <2>3. \A t \in node'[m].done : \E i \in Children(m)' : node'[i].task = t /\ node'[i].status = "COMPLETED"
    BY <1>12, <1>13, <2>1, <2>2 DEF Closed
  <2>4. CASE m = k
    BY <1>4, <1>7, <1>8, <2>3, <2>4 DEF Closed
  <2>5. CASE m # k
    BY <1>8, <2>1, <2>3, <2>5 DEF Closed
  <2> QED
    BY <2>4, <2>5
<1>16. RootWaits'
  BY <1>12, <1>13, RootIsNode DEF TreeInv, RootWaits, Children
<1>17. RootTasks'
  <2>1. CASE n # Root
    <3>1. \A i \in Children(Root) : node'[i].task = node[i].task
      BY <1>3, <1>8, <2>1 DEF Children
    <3> QED
      BY <1>12, <1>13, <3>1, RootIsNode DEF TreeInv, RootTasks
  <2>2. CASE n = Root
    <3>1. \A i \in Children(Root) : i # k => node'[i].task = node[i].task
                                             /\ node'[i].task \in node[Root].done \cup {NoTask}
      BY <1>3, <1>8, <2>2 DEF TreeInv, RootTasks, Children
    <3>2. node'[k].task = task /\ task \notin node[Root].done
      BY <1>1, <1>4, <1>7, <1>8, <2>2, RootIsNode, RowOf DEF Pending
    <3>3. \A i \in Children(Root)' \ node'[Root].kids : node'[i].task \in node'[Root].done \cup {NoTask}
      BY <1>3, <1>12, <1>13, <2>2, <3>1
    <3>4. node'[Root].mode # "run" => \A i \in Children(Root)' : node'[i].task = NoTask
      BY <1>4, <1>12, <1>13, <2>2, <3>1, <3>2 DEF TreeInv, RootTasks
    <3>5. \A i, j \in Children(Root)' : node'[i].task = node'[j].task /\ node'[i].task # NoTask => i = j
      <4> SUFFICES ASSUME NEW i \in Children(Root)', NEW j \in Children(Root)',
                          node'[i].task = node'[j].task, node'[i].task # NoTask
                   PROVE  i = j
        OBVIOUS
      <4>0. i \in Children(Root) /\ j \in Children(Root)
        BY <1>13, RootIsNode
      <4>1. CASE i # k /\ j # k
        <5>1. node[i].task = node[j].task /\ node[i].task # NoTask
          BY <3>1, <4>0, <4>1
        <5> QED
          BY <4>0, <5>1 DEF TreeInv, RootTasks
      <4>2. ASSUME i = k \/ j = k PROVE i = j
        BY <3>1, <3>2, <4>0, <4>2
      <4> QED
        BY <4>1, <4>2
    <3> QED
      BY <3>3, <3>4, <3>5 DEF RootTasks
  <2> QED
    BY <2>1, <2>2
<1>18. Placed(n)'
  <2>1. Creating(n, "RUNNING")'
    BY <1>1, <1>3, <1>7, <1>8 DEF Creating
  <2> QED
    BY <1>11, <2>1 DEF Placed, Stepping
<1>19. Rests(Root)'
  <2>1. node'[Root] = node[Root]
    BY <1>3, <1>8, RootIsNode
  <2>2. CASE n = Root
    BY <1>3, <1>11, <2>1, <2>2 DEF Rests, Waiting, Stepping
  <2>3. CASE n # Root
    BY <1>11, <2>1, <2>3, RootIsNode DEF TreeInv, Rests, Waiting
  <2> QED
    BY <2>2, <2>3
<1>20. TreeInv'
  BY <1>1, <1>8, <1>11, <1>14, <1>15, <1>16, <1>17, <1>18, <1>19 DEF Others, TreeInv, TypeOK
<1>21. Legally
  BY <1>3, <1>7, <1>8, MovesAre DEF Legally, Legal
<1> QED
  BY <1>20, <1>21

--------------------------------------------------------------------------------
(* Commands and resume: no frame of drive runs but the root's.                      *)

Quiet ==
  /\ frame \in [Nodes -> Frames] /\ op \in [Nodes -> OpStates]
  /\ session \in {"none", "execution", "reconcile"}
  /\ \A k \in Nodes \ {Root} : frame[k] \in {"off", "rewait", "cancel"}
  /\ frame[Root] \in {"off", "resume", "rewait", "cancel", "top", "returned"}
  /\ \A m \in Nodes : frame[m] = "rewait" =>
       node[m].status = "READY" /\ node[m].waiting \in {"child", "children"}
  /\ Sessions /\ Resuming /\ RestsAs(frame[Root], node[Root])

LEMMA QuietKept ==
  ASSUME TreeInv, NEW n \in Nodes, NEW row, Set(n, row), Keeps(n, row), Legal(node[n], row), Quiet',
         \A m \in Nodes : ~ Exists(m) => frame'[m] \in {"off", "cancel"}
  PROVE  TreeInv' /\ Legally
<1>1. Rows' /\ node'[n] = row /\ \A m \in Nodes \ {n} : node'[m] = node[m]
  BY RowKept
<1>2. Called'
  BY DEF Called, Quiet
<1>3. \A m \in Nodes : Placed(m)'
  <2>1. \A m \in Nodes : frame'[m] \in {"off", "rewait", "cancel", "resume", "top", "returned"}
    BY DEF Quiet
  <2> QED
    BY <2>1 DEF Quiet, Placed, Stepping, Waiting
<1>4. Rests(Root)'
  BY DEF Quiet, Rests, RestsAs, Waiting
<1>5. TreeInv'
  BY <1>1, <1>2, <1>3, <1>4 DEF Quiet, Rows, TreeInv, TypeOK
<1>6. Legally
  BY <1>1 DEF Legally, Legal
<1> QED
  BY <1>5, <1>6

LEMMA QuietStays ==
  ASSUME TreeInv, UNCHANGED node, Quiet', \A m \in Nodes : ~ Exists(m) => frame'[m] \in {"off", "cancel"}
  PROVE  TreeInv' /\ Legally
<1>1. Set(Root, node[Root])
  BY DEF Set, TreeInv, TypeOK
<1>2. Keeps(Root, node[Root]) /\ Legal(node[Root], node[Root])
  BY DEF Keeps, Legal
<1> QED
  BY <1>1, <1>2, RootIsNode, QuietKept

(* Between commands nothing runs.                                                   *)
LEMMA Idle ==
  ASSUME TreeInv
  PROVE  /\ session = "none" => \A m \in Nodes : frame[m] = "off"
         /\ frame \in [Nodes -> Frames] /\ op \in [Nodes -> OpStates] /\ Exists(Root)
         /\ session \in {"none", "execution", "reconcile"}
         /\ RestsAs("off", node[Root]) /\ RestsAs("resume", node[Root]) /\ RestsAs("cancel", node[Root])
         /\ \A m \in Nodes : ~ Exists(m) => frame[m] \in {"off", "cancel"}
BY DEF TreeInv, Sessions, TypeOK, Kin, Rests, RestsAs, Waiting, Stepping

LEMMA CommandKept ==
  ASSUME TreeInv, Start \/ Crash \/ Finish \/ Reconciled
                  \/ \E n \in Nodes : Reconcile(n) \/ ConsumeCancelled(n)
  PROVE  TreeInv' /\ Legally
<1>1. UNCHANGED node
  BY DEF Start, Crash, Finish, Reconciled, Reconcile, ConsumeCancelled
<1>2. CASE Start
  <2>1. op' \in [Nodes -> OpStates]
    BY <1>2 DEF Start, Orphans
  <2>2. frame' \in [Nodes -> Frames] /\ frame'[Root] = "resume" /\ \A m \in Nodes \ {Root} : frame'[m] = "off"
    BY <1>2, RootIsNode, Idle DEF Start, Goto, Frames
  <2>3. Quiet'
    BY <1>1, <1>2, <2>1, <2>2, Idle, RootIsNode DEF Start, Quiet, Sessions, Resuming
  <2>4. \A m \in Nodes : ~ Exists(m) => frame'[m] \in {"off", "cancel"}
    BY <2>2, Idle
  <2> QED
    BY <1>1, <2>3, <2>4, QuietStays
<1>3. CASE Crash \/ Finish
  <2>1. /\ frame' \in [Nodes -> Frames] /\ op' = op /\ session' = "none"
        /\ \A m \in Nodes : frame'[m] = "off"
    BY <1>3 DEF Crash, Finish, Frames
  <2>2. Quiet'
    BY <1>1, <2>1, Idle, RootIsNode DEF Quiet, Sessions, Resuming
  <2> QED
    BY <1>1, <2>1, <2>2, QuietStays
<1>4. CASE Reconciled
  <2>1. \A m \in Nodes : frame[m] = "off"
    BY <1>4 DEF Reconciled, Settled, TreeInv, Sessions
  <2>2. frame' = frame /\ op' = op /\ session' = "none"
    BY <1>4 DEF Reconciled
  <2>3. Quiet'
    BY <1>1, <2>1, <2>2, Idle, RootIsNode DEF Quiet, Sessions, Resuming
  <2> QED
    BY <1>1, <2>1, <2>2, <2>3, QuietStays
<1>5. ASSUME NEW n \in Nodes, Reconcile(n) \/ ConsumeCancelled(n) PROVE TreeInv' /\ Legally
  <2>1. op' \in [Nodes -> OpStates]
    BY <1>5, Idle DEF Reconcile, ConsumeCancelled, OpStates
  <2>2. \A m \in Nodes : frame[m] \in {"off", "cancel"}
    BY <1>5, Idle DEF Reconcile, ConsumeCancelled, TreeInv, Sessions
  <2>3. frame' \in [Nodes -> Frames] /\ \A m \in Nodes : frame'[m] \in {"off", "cancel"}
    BY <1>5, <2>2, Idle DEF Reconcile, ConsumeCancelled, Goto, Frames
  <2>4. session' = "reconcile"
    BY <1>5, Idle DEF Reconcile, ConsumeCancelled, TreeInv, Sessions
  <2>5. Quiet'
    BY <1>1, <2>1, <2>3, <2>4, Idle, RootIsNode DEF Quiet, Sessions, Resuming
  <2> QED
    BY <1>1, <2>3, <2>5, QuietStays
<1> QED
  BY <1>2, <1>3, <1>4, <1>5

LEMMA AnswerKept ==
  ASSUME TreeInv, NEW n \in Nodes, Answer(n)
  PROVE  TreeInv' /\ Legally
<1> DEFINE row == [node[n] EXCEPT !.status = "READY", !.waiting = "no"]
<1>1. /\ node[n] \in Row /\ Closed(n) /\ node[n].status = "WAITING" /\ node[n].waiting = "user"
      /\ session = "none" /\ session' = "execution" /\ op' = op /\ node \in [Nodes -> Row]
  BY RowOf DEF Answer, TreeInv, TypeOK
<1>2. /\ row \in Row /\ row.status = "READY" /\ row.mode = node[n].mode /\ row.parent = node[n].parent
      /\ row.kids = node[n].kids /\ row.task = node[n].task /\ row.done = node[n].done
      /\ row.phase = node[n].phase /\ row.waiting = "no"
  BY <1>1 DEF Row, Statuses
<1>3. Set(n, row)
  BY DEF Answer
<1> HIDE DEF row
<1>4. Keeps(n, row) /\ Legal(node[n], row)
  BY <1>1, <1>2, MovesAre DEF Keeps, Exists, Closed, Legal
<1>5. frame' \in [Nodes -> Frames] /\ frame'[Root] = "resume" /\ \A m \in Nodes \ {Root} : frame'[m] = "off"
  BY <1>1, RootIsNode, Idle DEF Answer, Goto, Frames
<1>6. RestsAs("resume", node'[Root])
  <2>1. CASE n = Root
    <3>1. node[n].kids = {}
      BY <1>1, <2>1, RowOf DEF Waiting
    <3> QED
      BY <1>1, <1>2, <1>3, <2>1, <3>1 DEF Set, RestsAs, Stepping
  <2>2. CASE n # Root
    BY <1>1, <1>3, <2>2, Idle, RootIsNode DEF Set
  <2> QED
    BY <2>1, <2>2
<1>7. Quiet'
  BY <1>1, <1>5, <1>6, Idle, RootIsNode DEF Quiet, Sessions, Resuming
<1>8. \A m \in Nodes : ~ Exists(m) => frame'[m] \in {"off", "cancel"}
  BY <1>5, Idle
<1> QED
  BY <1>3, <1>4, <1>7, <1>8, QuietKept

(* A row that becomes READY again.                                                  *)
LEMMA AgainKept ==
  ASSUME TreeInv, NEW n \in Nodes, node[n].status \in {"BLOCKED", "RUNNING"}, NEW hold \in Holds
  PROVE  LET row == [node[n] EXCEPT !.status = "READY", !.hold = hold]
         IN  /\ Keeps(n, row) /\ Legal(node[n], row) /\ row.status = "READY"
             /\ row.waiting = node[n].waiting /\ row.kids = node[n].kids
<1> DEFINE row == [node[n] EXCEPT !.status = "READY", !.hold = hold]
<1>1. node[n] \in Row /\ Closed(n)
  BY RowOf
<1>2. /\ row \in Row /\ row.status = "READY" /\ row.mode = node[n].mode /\ row.parent = node[n].parent
      /\ row.kids = node[n].kids /\ row.task = node[n].task /\ row.done = node[n].done
      /\ row.phase = node[n].phase /\ row.waiting = node[n].waiting
  BY <1>1 DEF Row, Statuses
<1> HIDE DEF row
<1>3. Keeps(n, row) /\ Legal(node[n], row)
  BY <1>1, <1>2, MovesAre DEF Keeps, Exists, Closed, Legal
<1>4. /\ Keeps(n, row) /\ Legal(node[n], row) /\ row.status = "READY"
      /\ row.waiting = node[n].waiting /\ row.kids = node[n].kids
  BY <1>2, <1>3
<1> QED
  BY <1>4 DEF row

LEMMA ReleaseKept ==
  ASSUME TreeInv, NEW n \in Nodes, Release(n)
  PROVE  TreeInv' /\ Legally
<1> DEFINE row == [node[n] EXCEPT !.status = "READY", !.hold = "no"]
<1>1. /\ node[n].status = "BLOCKED" /\ Set(n, row) /\ session = "reconcile" /\ node \in [Nodes -> Row]
      /\ frame' = frame /\ op' = op /\ session' = session
  BY DEF Release, Held, Settled, TreeInv, TypeOK
<1>2. /\ Keeps(n, row) /\ Legal(node[n], row) /\ row.status = "READY"
      /\ row.waiting = node[n].waiting /\ row.kids = node[n].kids
  BY <1>1, AgainKept DEF Holds
<1> HIDE DEF row
<1>3. \A m \in Nodes : frame[m] \in {"off", "cancel"}
  BY <1>1 DEF TreeInv, Sessions
<1>4. RestsAs(frame'[Root], node'[Root])
  BY <1>1, <1>2, <1>3, Idle, RootIsNode DEF Set, RestsAs, Stepping
<1>5. Quiet'
  BY <1>1, <1>3, <1>4, Idle, RootIsNode DEF Quiet, Sessions, Resuming
<1> QED
  BY <1>1, <1>2, <1>5, Idle, QuietKept

LEMMA WakeKept ==
  ASSUME TreeInv, NEW n \in Nodes, Wake(n)
  PROVE  TreeInv' /\ Legally
<1> DEFINE row == [node[n] EXCEPT !.status = "READY", !.hold = "no"]
<1>1. /\ node[n].status \in {"BLOCKED", "RUNNING"} /\ Set(n, row) /\ n # Root
      /\ node \in [Nodes -> Row] /\ session' = session /\ frame[Root] = "resume"
      /\ node[Root].status # "COMPLETED" /\ \A m \in Nodes : frame[m] # "rewait"
      /\ op' = [op EXCEPT ![n] = Retried(n)]
  BY DEF Wake, Wakes, Stopped, TreeInv, TypeOK
<1>2. /\ Keeps(n, row) /\ Legal(node[n], row) /\ row.status = "READY"
      /\ row.waiting = node[n].waiting /\ row.kids = node[n].kids
  BY <1>1, AgainKept DEF Holds
<1> HIDE DEF row
<1>3. /\ \A m \in Nodes \ {Root} : frame[m] = "off"
      /\ session = "execution"
  BY <1>1, Idle, RootIsNode DEF TreeInv, Resuming, Sessions
<1>4. /\ frame' \in [Nodes -> Frames] /\ frame'[Root] = "resume"
      /\ \A m \in Nodes \ {n} : frame'[m] = frame[m]
      /\ frame'[n] = IF Waiting(n) THEN "rewait" ELSE "off"
  BY <1>1, <1>3, Idle DEF Wake, Rewaits, Frames
<1>5. op' \in [Nodes -> OpStates]
  BY <1>1, Idle DEF Retried, OpStates
<1>6. node'[n] = row /\ node'[Root] = node[Root]
  BY <1>1, RootIsNode DEF Set
<1>7. RestsAs("resume", node'[Root])
  BY <1>6, Idle
<1>8. Quiet'
  <2>1. \A m \in Nodes : frame'[m] = "rewait" =>
          node'[m].status = "READY" /\ node'[m].waiting \in {"child", "children"}
    BY <1>1, <1>2, <1>3, <1>4, <1>6 DEF Waiting
  <2>2. Sessions' /\ Resuming'
    BY <1>1, <1>3, <1>4, <1>6, RootIsNode DEF Sessions, Resuming
  <2>3. \A k \in Nodes \ {Root} : frame'[k] \in {"off", "rewait", "cancel"}
    BY <1>3, <1>4
  <2> QED
    BY <1>1, <1>3, <1>4, <1>5, <1>7, <2>1, <2>2, <2>3 DEF Quiet
<1>9. Exists(n)
  BY <1>1 DEF Exists
<1>10. \A m \in Nodes : ~ Exists(m) => frame'[m] \in {"off", "cancel"}
  BY <1>4, <1>9, Idle
<1> QED
  BY <1>1, <1>2, <1>8, <1>10, QuietKept

LEMMA RewaitKept ==
  ASSUME TreeInv, NEW n \in Nodes, Rewait(n)
  PROVE  TreeInv' /\ Legally
<1> DEFINE row == [node[n] EXCEPT !.status = "WAITING"]
<1>1. /\ frame[n] = "rewait" /\ node[n].status = "READY" /\ Waiting(n) /\ Set(n, row) /\ node[n] \in Row
      /\ Closed(n) /\ node \in [Nodes -> Row] /\ session' = session /\ op' = op
      /\ Goto(n, IF n = Root THEN "top" ELSE "off")
  BY RowOf DEF Rewait, Placed, TreeInv, TypeOK
<1>2. /\ row \in Row /\ row.status = "WAITING" /\ row.mode = node[n].mode /\ row.parent = node[n].parent
      /\ row.kids = node[n].kids /\ row.task = node[n].task /\ row.done = node[n].done
      /\ row.phase = node[n].phase /\ row.waiting = node[n].waiting
  BY <1>1 DEF Row, Statuses
<1> HIDE DEF row
<1>3. Keeps(n, row) /\ Legal(node[n], row) /\ Exists(n)
  BY <1>1, <1>2, MovesAre DEF Keeps, Exists, Closed, Legal
<1>4. /\ session = "execution" /\ \A m \in Nodes : frame[m] # "cancel"
      /\ \A m \in Nodes \ {Root} : frame[m] \in {"off", "rewait"}
      /\ n = Root => \A m \in Nodes \ {Root} : frame[m] = "off"
      /\ n # Root => frame[Root] = "resume" /\ node[Root].status # "COMPLETED"
  <2>1. session = "execution" /\ \A m \in Nodes : frame[m] # "cancel"
    BY <1>1, Idle DEF TreeInv, Sessions
  <2>2. n # Root => frame[Root] = "resume" /\ node[Root].status # "COMPLETED"
    BY <1>1 DEF TreeInv, Resuming
  <2>3. frame[Root] \in {"resume", "rewait"}
    BY <1>1, <2>2
  <2>4. \A m \in Nodes \ {Root} : frame[m] \in {"off", "rewait"}
    BY <2>3 DEF TreeInv, Resuming
  <2>5. n = Root => \A m \in Nodes \ {Root} : frame[m] = "off"
    BY <1>1, <2>4 DEF TreeInv, Resuming
  <2> QED
    BY <2>1, <2>2, <2>4, <2>5
<1>5. /\ frame' \in [Nodes -> Frames] /\ frame'[n] = IF n = Root THEN "top" ELSE "off"
      /\ \A m \in Nodes \ {n} : frame'[m] = frame[m]
  BY <1>1, Idle DEF Goto, Frames
<1>6. node'[n] = row /\ \A m \in Nodes \ {n} : node'[m] = node[m]
  BY <1>1 DEF Set
<1>7. RestsAs(frame'[Root], node'[Root])
  <2>1. CASE n = Root
    BY <1>1, <1>2, <1>5, <1>6, <2>1 DEF RestsAs, Waiting, Stepping
  <2>2. CASE n # Root
    BY <1>4, <1>5, <1>6, <2>2, Idle, RootIsNode
  <2> QED
    BY <2>1, <2>2
<1>8. Quiet'
  <2>1. \A m \in Nodes : frame'[m] = "rewait" =>
          node'[m].status = "READY" /\ node'[m].waiting \in {"child", "children"}
    BY <1>5, <1>6 DEF TreeInv, Placed, Waiting
  <2>2. Sessions'
    BY <1>1, <1>4, <1>5 DEF Sessions
  <2>3. Resuming'
    BY <1>4, <1>5, <1>6, RootIsNode DEF Resuming
  <2>4. \A k \in Nodes \ {Root} : frame'[k] \in {"off", "rewait", "cancel"}
    BY <1>4, <1>5
  <2>5. frame'[Root] \in {"off", "resume", "rewait", "cancel", "top", "returned"}
    BY <1>4, <1>5, RootIsNode
  <2> QED
    BY <1>1, <1>5, <1>7, <2>1, <2>2, <2>3, <2>4, <2>5, Idle DEF Quiet
<1>9. \A m \in Nodes : ~ Exists(m) => frame'[m] \in {"off", "cancel"}
  BY <1>3, <1>5, Idle
<1> QED
  BY <1>1, <1>3, <1>8, <1>9, QuietKept

LEMMA WakeRootKept ==
  ASSUME TreeInv, WakeRoot
  PROVE  TreeInv' /\ Legally
<1>1. /\ frame[Root] = "resume" /\ session' = session /\ node[Root] \in Row /\ Exists(Root)
      /\ node \in [Nodes -> Row] /\ op \in [Nodes -> OpStates]
  BY RowOf, RootIsNode, Idle DEF WakeRoot, TreeInv, TypeOK
<1>2. session = "execution" /\ \A m \in Nodes \ {Root} : frame[m] = "off"
  BY <1>1, Idle, RootIsNode DEF WakeRoot, TreeInv, Resuming, Sessions
<1>3. op' \in [Nodes -> OpStates]
  BY <1>1, RootIsNode DEF WakeRoot, Retried, OpStates
<1> DEFINE pc == frame'[Root]
<1>4. ASSUME frame' \in [Nodes -> Frames], \A m \in Nodes \ {Root} : frame'[m] = "off",
             pc \in {"returned", "rewait", "top"},
             pc = "rewait" => node'[Root].status = "READY" /\ node'[Root].waiting \in {"child", "children"},
             RestsAs(pc, node'[Root])
      PROVE  Quiet'
  BY <1>1, <1>2, <1>3, <1>4, RootIsNode, Idle DEF Quiet, Sessions, Resuming
<1>5. ASSUME frame'[Root] # "off", \A m \in Nodes \ {Root} : frame'[m] = "off"
      PROVE  \A m \in Nodes : ~ Exists(m) => frame'[m] \in {"off", "cancel"}
  BY <1>1, <1>5
<1>6. CASE Goto(Root, "returned") /\ UNCHANGED node
  <2>1. frame' \in [Nodes -> Frames] /\ pc = "returned" /\ \A m \in Nodes \ {Root} : frame'[m] = "off"
    BY <1>2, <1>6, Idle, RootIsNode DEF Goto, Frames
  <2>2. RestsAs(pc, node'[Root])
    BY <1>6, <2>1, Idle DEF RestsAs, Stepping
  <2> QED
    BY <1>4, <1>5, <1>6, <2>1, <2>2, QuietStays
<1>7. CASE /\ node[Root].status # "COMPLETED"
           /\ ~ (node[Root].status = "BLOCKED" /\ node[Root].hold = "reconciliation")
           /\ IF node[Root].status \in {"BLOCKED", "RUNNING"}
              THEN Set(Root, [node[Root] EXCEPT !.status = "READY",
                                !.hold = IF node[Root].status = "BLOCKED" THEN "no" ELSE @])
              ELSE UNCHANGED node
           /\ Goto(Root, IF Rewaits(Root) /\ node[Root].status # "WAITING" THEN "rewait" ELSE "top")
  <2>1. /\ frame' \in [Nodes -> Frames] /\ \A m \in Nodes \ {Root} : frame'[m] = "off"
        /\ pc = IF Waiting(Root) /\ node[Root].status # "WAITING" THEN "rewait" ELSE "top"
    BY <1>2, <1>7, Idle, RootIsNode DEF Goto, Frames, Rewaits
  <2>2. RestsAs("resume", node[Root]) /\ node[Root].status \in Statuses
    BY <1>1, Idle DEF Row, Exists
  <2>3. CASE node[Root].status \in {"BLOCKED", "RUNNING"}
    <3> DEFINE hold == IF node[Root].status = "BLOCKED" THEN "no" ELSE node[Root].hold
               row == [node[Root] EXCEPT !.status = "READY", !.hold = hold]
    <3>1. Set(Root, row) /\ hold \in Holds
      BY <1>1, <1>7, <2>3 DEF Row, Holds
    <3> HIDE DEF hold
    <3>2. /\ Keeps(Root, row) /\ Legal(node[Root], row) /\ row.status = "READY"
          /\ row.waiting = node[Root].waiting /\ row.kids = node[Root].kids
      BY <2>3, <3>1, RootIsNode, AgainKept
    <3> HIDE DEF row
    <3>3. node'[Root] = row
      BY <1>1, <3>1, RootIsNode DEF Set
    <3>4. /\ pc = "rewait" => node'[Root].status = "READY" /\ node'[Root].waiting \in {"child", "children"}
          /\ RestsAs(pc, node'[Root])
      BY <2>1, <2>2, <2>3, <3>2, <3>3 DEF RestsAs, Waiting, Stepping
    <3> QED
      BY <1>4, <1>5, <2>1, <3>1, <3>2, <3>4, RootIsNode, QuietKept
  <2>4. CASE node[Root].status \notin {"BLOCKED", "RUNNING"}
    <3>1. UNCHANGED node /\ node[Root].status \in {"READY", "WAITING"}
      BY <1>7, <2>2, <2>4 DEF Statuses
    <3>2. /\ pc = "rewait" => node'[Root].status = "READY" /\ node'[Root].waiting \in {"child", "children"}
          /\ RestsAs(pc, node'[Root])
      BY <2>1, <2>2, <3>1 DEF RestsAs, Waiting, Stepping
    <3> QED
      BY <1>4, <1>5, <2>1, <3>1, <3>2, QuietStays
  <2> QED
    BY <2>3, <2>4
<1> QED
  BY <1>6, <1>7 DEF WakeRoot

--------------------------------------------------------------------------------
(* The invariant.                                                                   *)

LEMMA InitInv == Init => TreeInv
<1> SUFFICES ASSUME Init PROVE TreeInv
  OBVIOUS
<1>1. PICK mode \in RootModes : node = [n \in Nodes |-> IF n = Root THEN NewRow(mode, NoNode, "open", NoTask)
                                                      ELSE NoRow]
  BY DEF Init
<1>2. mode \in {"run", "fix", "collab"}
  BY TreeAssumption
<1>3. \A n \in Nodes \ {Root} : node[n] = NoRow
  BY <1>1
<1>4. node[Root] = NewRow(mode, NoNode, "open", NoTask)
  BY <1>1, RootIsNode
<1>5. NoRow \in Row /\ NoRow.status = "ABSENT" /\ NoRow.kids = {} /\ NoRow.done = {} /\ NoRow.phase = "open"
  BY DEF NoRow, NewRow, Row, Modes, Statuses, Holds
<1>6. /\ node[Root] \in Row /\ node[Root].status = "READY" /\ node[Root].kids = {} /\ node[Root].done = {}
      /\ node[Root].phase = "open" /\ node[Root].waiting = "no" /\ node[Root].parent = NoNode
  BY <1>2, <1>4 DEF NewRow, Row, Modes, Statuses, Holds
<1>7. /\ \A n \in Nodes : frame[n] = "off" /\ session = "none"
      /\ op \in [Nodes -> OpStates] /\ frame \in [Nodes -> Frames]
  BY DEF Init, OpStates, Frames
<1>8. TypeOK
  <2>1. \A n \in Nodes : node[n] \in Row
    BY <1>3, <1>5, <1>6
  <2>2. node = [n \in Nodes |-> node[n]]
    BY <1>1
  <2>3. node \in [Nodes -> Row]
    BY <2>1, <2>2
  <2>4. session = "none"
    BY DEF Init
  <2> QED
    BY <1>7, <2>3, <2>4 DEF TypeOK
<1>9. \A n \in Nodes : Exists(n) <=> n = Root
  BY <1>3, <1>5, <1>6 DEF Exists
<1>10. Kin
  <2>1. \A n \in Nodes : node[n].kids = {}
    BY <1>3, <1>5, <1>6
  <2> QED
    BY <1>3, <1>6, <1>7, <1>9, <2>1, RootIsNode DEF Kin
<1>11. Children(Root) = {}
  BY <1>6, <1>9, RootIsNode DEF Children
<1>12. RootWaits /\ RootTasks
  BY <1>11 DEF RootWaits, RootTasks
<1>13. Rests(Root) /\ \A n \in Nodes : Placed(n)
  BY <1>6, <1>7, RootIsNode DEF Rests, Placed, Stepping
<1>14. \A n \in Nodes : node[n].phase = "open" /\ node[n].status # "COMPLETED" /\ node[n].done = {}
  BY <1>3, <1>5, <1>6
<1>15. \A n \in Nodes : Closed(n)
  BY <1>14 DEF Closed
<1>16. Sessions /\ Resuming /\ Called
  BY <1>7, RootIsNode DEF Sessions, Resuming, Called, Init
<1> QED
  BY <1>8, <1>10, <1>12, <1>13, <1>15, <1>16 DEF TreeInv

LEMMA FrameKept ==
  ASSUME TreeInv, NEW n \in Nodes, Frame(n)
  PROVE  TreeInv' /\ Legally
<1>1. CASE Wake(n) \/ Rewait(n)
  BY <1>1, WakeKept, RewaitKept
<1>2. CASE Top(n) \/ JoinRaises(n) \/ JoinIncomplete(n) \/ Join(n)
  BY <1>2, TopKept, JoinRaisesKept, JoinIncompleteKept, JoinKept
<1>3. CASE Begin(n) \/ Effect(n) \/ Fault(n) \/ Reject(n)
  BY <1>3, EffectsKept
<1>4. CASE Advance(n) \/ AskUser(n)
  BY <1>4, AdvanceKept, AskUserKept
<1>5. ASSUME NEW c \in Free, NEW mode \in Modes, Delegate(n, c, mode) PROVE TreeInv' /\ Legally
  BY <1>5, DelegateKept
<1>6. CASE TasksDone(n)
  BY <1>6, TasksDoneKept
<1>7. ASSUME NEW c \in Free, SpawnTask(n, c) PROVE TreeInv' /\ Legally
  BY <1>7, SpawnTaskKept
<1>8. ASSUME NEW cs \in SUBSET Free, NEW ts \in SUBSET Pending(n), Batch(n, cs, ts) PROVE TreeInv' /\ Legally
  BY <1>8, BatchKept
<1>9. CASE MarkTask(n) \/ ReadyTask(n)
  BY <1>9, MarkTaskKept, ReadyTaskKept
<1> QED
  BY <1>1, <1>2, <1>3, <1>4, <1>5, <1>6, <1>7, <1>8, <1>9 DEF Frame

LEMMA NextKept ==
  ASSUME TreeInv, Next
  PROVE  TreeInv' /\ Legally
<1>1. CASE Start \/ Crash \/ Finish \/ Reconciled \/ \E n \in Nodes : Reconcile(n) \/ ConsumeCancelled(n)
  BY <1>1, CommandKept
<1>2. ASSUME NEW n \in Nodes, Answer(n) PROVE TreeInv' /\ Legally
  BY <1>2, AnswerKept
<1>3. CASE WakeRoot
  BY <1>3, WakeRootKept
<1>4. ASSUME NEW n \in Nodes, Frame(n) PROVE TreeInv' /\ Legally
  BY <1>4, FrameKept
<1>5. ASSUME NEW n \in Nodes, Release(n) PROVE TreeInv' /\ Legally
  BY <1>5, ReleaseKept
<1> QED
  BY <1>1, <1>2, <1>3, <1>4, <1>5 DEF Next, Command, Step

LEMMA StutterKept ==
  ASSUME TreeInv, UNCHANGED vars
  PROVE  TreeInv'
<1>1. node' = node /\ op' = op /\ frame' = frame /\ session' = session
  BY DEF vars
<1>2. TypeOK' /\ Kin' /\ Sessions' /\ Resuming' /\ Called'
  BY <1>1 DEF TreeInv, TypeOK, Kin, Sessions, Resuming, Called, Exists
<1>3. RootWaits' /\ RootTasks' /\ Rests(Root)'
  BY <1>1 DEF TreeInv, RootWaits, RootTasks, Rests, Waiting, Children, Exists
<1>4. \A n \in Nodes : Closed(n)' /\ Placed(n)'
  BY <1>1 DEF TreeInv, Closed, Placed, Creating, Waiting, Children, Exists
<1> QED
  BY <1>2, <1>3, <1>4 DEF TreeInv

(* The inductive invariant holds in every state: rows, frames and what the root     *)
(* waits for fit together, also after a crash between any two transactions.         *)
THEOREM TreeInvariant == Spec => []TreeInv
<1>1. TreeInv /\ [Next]_vars => TreeInv'
  BY NextKept, StutterKept
<1> QED
  BY <1>1, InitInv, PTL DEF Spec

(* Rows, operations, frames and the session stay what the schema and drive allow,   *)
(* for every set of nodes and tasks and every depth.                                *)
THEOREM TypeCorrect == Spec => []TypeOK
<1>1. TreeInv => TypeOK
  BY DEF TreeInv
<1> QED
  BY <1>1, TreeInvariant, PTL

(* Every status change is one types.py TRANSITIONS lists, whatever resume, answer,  *)
(* drive and reconcile-call do and wherever the process died before.                *)
THEOREM MovesLegal == Spec => LegalMoves
<1>1. TreeInv /\ [Next]_vars =>
        [\A n \in Nodes : node'[n].status # node[n].status
           => node'[n].status \in Moves[node[n].status]]_vars
  BY NextKept DEF Legally, Legal
<1> QED
  BY <1>1, TreeInvariant, PTL DEF Spec, LegalMoves

(* What a run counts as done is a completed child's work, and a completed run has   *)
(* done every task of its plan, at any depth of the tree (engine.py drive, step).   *)
THEOREM CountsChildrensWork == Spec => []DoneByChildren
<1>1. TreeInv => DoneByChildren
  BY DEF TreeInv, Closed, DoneByChildren
<1> QED
  BY <1>1, TreeInvariant, PTL

(* The root does its own work, and completes, only when all the work it ever        *)
(* delegated is complete; and no two of its children have the same task.            *)
RootFirst ==
  /\ \A k \in Children(Root) :
       frame[Root] \in Stepping \/ node[Root].status = "COMPLETED" => node[k].status = "COMPLETED"
  /\ \A j, k \in Children(Root) : node[j].task = node[k].task /\ node[j].task # NoTask => j = k

THEOREM RootWaitsForAll == Spec => []RootFirst
<1>1. TreeInv => RootFirst
  BY DEF TreeInv, RootFirst, RootWaits, RootTasks, Rests
<1> QED
  BY <1>1, TreeInvariant, PTL

(* Nobody below the root has delegated: a run that is the root, or a collaboration  *)
(* whose one child does the work itself.                                            *)
Flat == \A n \in Nodes \ {Root} : Children(n) = {}

(* In such a tree a node steps, and completes, only after all it delegated.         *)
THEOREM FlatChildrenFirst == Spec => [](Flat => ChildrenFirst)
<1>1. RootFirst => (Flat => ChildrenFirst)
  BY DEF RootFirst, Flat, ChildrenFirst
<1> QED
  BY <1>1, RootWaitsForAll, PTL

(* In such a tree no task is ever delegated twice, whatever crashed.                *)
THEOREM FlatTaskOnce == Spec => [](Flat => TaskOnce)
<1>1. RootFirst => (Flat => TaskOnce)
  BY DEF RootFirst, Flat, TaskOnce
<1> QED
  BY <1>1, RootWaitsForAll, PTL
--------------------------------------------------------------------------------
(* Deeper trees.  What the root always does, every node does for as long as drive   *)
(* runs the step of no node that still waits for children.                          *)

(* The head of the loop steps a node that is READY or RUNNING, whatever it waits    *)
(* for (engine.py drive): a node below the root that resume or reconcile-call made  *)
(* READY, and that no one made WAITING again, would step beside its child.          *)
Careful == \A n \in Nodes : frame[n] = "top" /\ node[n].status \in {"READY", "RUNNING"} => ~ Waiting(n)

Awaits(n) == \A k \in Children(n) : node[k].status # "COMPLETED" => k \in node[n].kids
TasksApart(n) ==
  /\ \A k \in Children(n) \ node[n].kids : node[k].task \in node[n].done \cup {NoTask}
  /\ node[n].mode # "run" => \A k \in Children(n) : node[k].task = NoTask
  /\ \A j, k \in Children(n) : node[j].task = node[k].task /\ node[j].task # NoTask => j = k
Settles(n) ==
  /\ node[n].kids # {} => Waiting(n)
  /\ node[n].status = "COMPLETED" \/ frame[n] \in Stepping => ~ Waiting(n)
DeepInv ==
  \A n \in Nodes : Awaits(n) /\ TasksApart(n) /\ Settles(n) /\ (~ Exists(n) => Children(n) = {})

(* No row changes its place in the tree, its task or what is done; a frame steps,   *)
(* and a row completes, only where nothing is waited for.                           *)
Steady ==
  \A m \in Nodes :
    /\ node'[m].mode = node[m].mode /\ node'[m].parent = node[m].parent /\ node'[m].kids = node[m].kids
    /\ node'[m].task = node[m].task /\ node'[m].done = node[m].done
    /\ (Exists(m)' <=> Exists(m)) /\ (node[m].status = "COMPLETED" => node'[m].status = "COMPLETED")
    /\ node'[m].waiting = node[m].waiting \/ (node[m].kids = {} /\ ~ Waiting(m)')
Allowed == \A m \in Nodes : node'[m].status = "COMPLETED" \/ frame'[m] \in Stepping => ~ Waiting(m)

LEMMA SteadyKept ==
  ASSUME DeepInv, Steady, Allowed
  PROVE  DeepInv'
<1>1. \A m \in Nodes : Children(m)' = Children(m) /\ \A k \in Children(m) : k \in Nodes
  BY DEF Steady, Children
<1>2. ASSUME NEW n \in Nodes PROVE Awaits(n)'
  BY <1>1 DEF DeepInv, Awaits, Steady
<1>3. ASSUME NEW n \in Nodes PROVE TasksApart(n)'
  <2>1. TasksApart(n) /\ \A k \in Children(n) : node'[k].task = node[k].task
    BY <1>1 DEF DeepInv, Steady
  <2>2. node'[n].kids = node[n].kids /\ node'[n].done = node[n].done /\ node'[n].mode = node[n].mode
    BY DEF Steady
  <2> QED
    BY <1>1, <2>1, <2>2 DEF TasksApart
<1>4. ASSUME NEW n \in Nodes PROVE Settles(n)'
  <2>1. Settles(n) /\ node'[n].kids = node[n].kids
        /\ (node'[n].waiting = node[n].waiting \/ (node[n].kids = {} /\ ~ Waiting(n)'))
    BY DEF DeepInv, Steady
  <2>2. node'[n].status = "COMPLETED" \/ frame'[n] \in Stepping => ~ Waiting(n)
    BY DEF Allowed
  <2> QED
    BY <2>1, <2>2 DEF Settles, Waiting
<1>5. ASSUME NEW n \in Nodes, ~ Exists(n)' PROVE Children(n)' = {}
  BY <1>1, <1>5 DEF DeepInv, Steady
<1> QED
  BY <1>2, <1>3, <1>4, <1>5 DEF DeepInv

(* Rows stay, and no frame begins to step.                                          *)
LEMMA DeepStays ==
  ASSUME DeepInv, UNCHANGED node, \A m \in Nodes : frame'[m] \in Stepping => frame[m] \in Stepping
  PROVE  DeepInv'
<1>1. Steady
  BY DEF Steady, Exists
<1>2. Allowed
  BY DEF Allowed, DeepInv, Settles
<1> QED
  BY <1>1, <1>2, SteadyKept

(* One row is written, and not its place in the tree.                               *)
Places(n, row) ==
  /\ Exists(n) /\ node[n].status # "COMPLETED" /\ row.status # "ABSENT"
  /\ row.mode = node[n].mode /\ row.parent = node[n].parent /\ row.kids = node[n].kids
  /\ row.task = node[n].task /\ row.done = node[n].done
  /\ row.waiting = node[n].waiting \/ (node[n].kids = {} /\ row.waiting \notin {"child", "children"})

LEMMA PlacesSteady ==
  ASSUME TreeInv, NEW n \in Nodes, NEW row, Set(n, row), Places(n, row)
  PROVE  Steady /\ node'[n] = row /\ \A m \in Nodes \ {n} : node'[m] = node[m]
<1>1. node \in [Nodes -> Row]
  BY DEF TreeInv, TypeOK
<1>2. node'[n] = row /\ \A m \in Nodes \ {n} : node'[m] = node[m]
  BY <1>1 DEF Set
<1>3. ASSUME NEW m \in Nodes \ {n}
      PROVE  node'[m] = node[m] /\ (Exists(m)' <=> Exists(m))
  BY <1>2 DEF Exists
<1>4. Exists(n)' /\ Exists(n)
  BY <1>2 DEF Exists, Places
<1>5. Steady
  BY <1>2, <1>3, <1>4 DEF Steady, Places, Waiting
<1> QED
  BY <1>2, <1>5

LEMMA DeepSet ==
  ASSUME TreeInv, DeepInv, NEW n \in Nodes, NEW row, Set(n, row), Places(n, row),
         \A m \in Nodes : frame'[m] \in Stepping => frame[m] \in Stepping,
         row.status = "COMPLETED" => frame[n] \in Stepping
  PROVE  DeepInv'
<1>1. Steady /\ node'[n] = row /\ \A m \in Nodes \ {n} : node'[m] = node[m]
  BY PlacesSteady
<1>2. Allowed
  BY <1>1 DEF Allowed, DeepInv, Settles
<1> QED
  BY <1>1, <1>2, SteadyKept

(* The frame that goes on does not begin to step, or stepped already.               *)
LEMMA GoesOn ==
  ASSUME TreeInv, NEW n \in Nodes, NEW pc, Goto(n, pc), pc \in Stepping => frame[n] \in Stepping
  PROVE  \A m \in Nodes : frame'[m] \in Stepping => frame[m] \in Stepping
<1>1. frame \in [Nodes -> Frames]
  BY DEF TreeInv, TypeOK
<1> QED
  BY <1>1 DEF Goto

LEMMA DeepCommands ==
  ASSUME TreeInv, DeepInv, Start \/ Crash \/ Finish \/ Reconciled
                           \/ \E n \in Nodes : Reconcile(n) \/ ConsumeCancelled(n)
  PROVE  DeepInv'
<1>1. UNCHANGED node /\ frame \in [Nodes -> Frames]
  BY Idle DEF Start, Crash, Finish, Reconciled, Reconcile, ConsumeCancelled
<1>2. ASSUME NEW m \in Nodes, frame'[m] \in Stepping PROVE frame[m] \in Stepping
  BY <1>1, <1>2, RootIsNode
     DEF Start, Crash, Finish, Reconciled, Reconcile, ConsumeCancelled, Goto, Stepping
<1> QED
  BY <1>1, <1>2, DeepStays

(* A row that an action changes in its status, hold and phase alone.                *)
Restates(n, status) ==
  \/ Set(n, [node[n] EXCEPT !.status = status])
  \/ \E hold : Set(n, [node[n] EXCEPT !.status = status, !.hold = hold])
  \/ \E phase : Set(n, [node[n] EXCEPT !.status = status, !.phase = phase])

LEMMA DeepRestates ==
  ASSUME TreeInv, DeepInv, NEW n \in Nodes, NEW status \in Statuses, Restates(n, status),
         Exists(n), node[n].status # "COMPLETED", status = "COMPLETED" => frame[n] \in Stepping,
         \A m \in Nodes : frame'[m] \in Stepping => frame[m] \in Stepping
  PROVE  DeepInv'
<1> DEFINE Same(row) == /\ row.status = status /\ row.mode = node[n].mode /\ row.parent = node[n].parent
                        /\ row.kids = node[n].kids /\ row.task = node[n].task /\ row.done = node[n].done
                        /\ row.waiting = node[n].waiting
<1>1. ASSUME NEW row, Set(n, row), Same(row) PROVE DeepInv'
  <2>1. Places(n, row) /\ (row.status = "COMPLETED" => frame[n] \in Stepping)
    BY <1>1 DEF Places, Statuses
  <2> QED
    BY <1>1, <2>1, DeepSet
<1>2. node[n] \in Row
  BY RowOf
<1>3. CASE Set(n, [node[n] EXCEPT !.status = status])
  <2> DEFINE row == [node[n] EXCEPT !.status = status]
  <2>1. Same(row)
    BY <1>2 DEF Row
  <2> QED
    BY <1>1, <1>3, <2>1
<1>4. ASSUME NEW hold, Set(n, [node[n] EXCEPT !.status = status, !.hold = hold]) PROVE DeepInv'
  <2> DEFINE row == [node[n] EXCEPT !.status = status, !.hold = hold]
  <2>1. Same(row)
    BY <1>2 DEF Row
  <2> QED
    BY <1>1, <1>4, <2>1
<1>5. ASSUME NEW phase, Set(n, [node[n] EXCEPT !.status = status, !.phase = phase]) PROVE DeepInv'
  <2> DEFINE row == [node[n] EXCEPT !.status = status, !.phase = phase]
  <2>1. Same(row)
    BY <1>2 DEF Row
  <2> QED
    BY <1>1, <1>5, <2>1
<1> QED
  <2>1. ASSUME \E hold : Set(n, [node[n] EXCEPT !.status = status, !.hold = hold]) PROVE DeepInv'
    BY <1>4, <2>1, Zenon
  <2>2. ASSUME \E phase : Set(n, [node[n] EXCEPT !.status = status, !.phase = phase]) PROVE DeepInv'
    BY <1>5, <2>2, Zenon
  <2> QED
    BY <1>3, <2>1, <2>2, Zenon DEF Restates

(* Who resume, reconcile-call and answer make READY.                                *)
LEMMA DeepResumes ==
  ASSUME TreeInv, DeepInv, NEW n \in Nodes, Answer(n) \/ Release(n) \/ Wake(n) \/ Rewait(n)
  PROVE  DeepInv'
<1>1. node[n] \in Row /\ frame \in [Nodes -> Frames] /\ node \in [Nodes -> Row] /\ Settles(n)
  BY RowOf DEF TreeInv, TypeOK, DeepInv
<1>2. CASE Answer(n)
  <2> DEFINE row == [node[n] EXCEPT !.status = "READY", !.waiting = "no"]
  <2>1. Set(n, row) /\ node[n].status = "WAITING" /\ node[n].waiting = "user" /\ node[n].kids = {}
    BY <1>1, <1>2 DEF Answer, Settles, Waiting
  <2>2. /\ row.status = "READY" /\ row.mode = node[n].mode /\ row.parent = node[n].parent
        /\ row.kids = node[n].kids /\ row.task = node[n].task /\ row.done = node[n].done
        /\ row.waiting = "no"
    BY <1>1 DEF Row
  <2> HIDE DEF row
  <2>3. Places(n, row)
    BY <2>1, <2>2 DEF Places, Exists
  <2>4. \A m \in Nodes : frame'[m] \in Stepping => frame[m] \in Stepping
    BY <1>1, <1>2 DEF Answer, Goto, Stepping
  <2> QED
    BY <2>1, <2>2, <2>3, <2>4, DeepSet
<1>3. CASE Release(n)
  <2>1. /\ Set(n, [node[n] EXCEPT !.status = "READY", !.hold = "no"])
        /\ node[n].status = "BLOCKED" /\ frame' = frame
    BY <1>3 DEF Release, Held
  <2>2. Restates(n, "READY")
    BY <2>1, Zenon DEF Restates
  <2> QED
    BY <2>1, <2>2, DeepRestates DEF Statuses, Exists
<1>4. CASE Wake(n)
  <2>1. /\ Set(n, [node[n] EXCEPT !.status = "READY", !.hold = "no"])
        /\ node[n].status \in {"BLOCKED", "RUNNING"}
        /\ frame' = [frame EXCEPT ![n] = "rewait"] \/ frame' = frame
    BY <1>4 DEF Wake, Wakes, Stopped
  <2>2. Restates(n, "READY")
    BY <2>1, Zenon DEF Restates
  <2>3. \A m \in Nodes : frame'[m] \in Stepping => frame[m] \in Stepping
    BY <1>1, <2>1 DEF Stepping
  <2> QED
    BY <2>1, <2>2, <2>3, DeepRestates DEF Statuses, Exists
<1>5. CASE Rewait(n)
  <2>1. Set(n, [node[n] EXCEPT !.status = "WAITING"]) /\ node[n].status = "READY"
    BY <1>5, RowOf DEF Rewait, Placed
  <2>3. Restates(n, "WAITING")
    BY <2>1, Zenon DEF Restates
  <2>2. \A m \in Nodes : frame'[m] \in Stepping => frame[m] \in Stepping
    BY <1>1, <1>5 DEF Rewait, Goto, Stepping
  <2> QED
    BY <2>1, <2>2, <2>3, DeepRestates DEF Statuses, Exists
<1> QED
  BY <1>2, <1>3, <1>4, <1>5

LEMMA DeepWakesRoot ==
  ASSUME TreeInv, DeepInv, WakeRoot
  PROVE  DeepInv'
<1>1. Root \in Nodes /\ frame \in [Nodes -> Frames] /\ Exists(Root)
  BY RootIsNode, Idle
<1>2. \A m \in Nodes : frame'[m] \in Stepping => frame[m] \in Stepping
  BY <1>1 DEF WakeRoot, Goto, Stepping
<1>3. CASE UNCHANGED node
  BY <1>2, <1>3, DeepStays
<1>4. CASE ~ UNCHANGED node
  <2> DEFINE hold == IF node[Root].status = "BLOCKED" THEN "no" ELSE node[Root].hold
  <2>1. /\ node[Root].status \in {"BLOCKED", "RUNNING"}
        /\ Set(Root, [node[Root] EXCEPT !.status = "READY",
                        !.hold = IF node[Root].status = "BLOCKED" THEN "no" ELSE @])
    BY <1>4 DEF WakeRoot
  <2>2. Set(Root, [node[Root] EXCEPT !.status = "READY", !.hold = hold])
    BY <1>1, <2>1, RowOf DEF Row
  <2> HIDE DEF hold
  <2>3. Restates(Root, "READY")
    BY <2>2, Zenon DEF Restates
  <2> QED
    BY <1>1, <1>2, <2>1, <2>3, DeepRestates DEF Statuses
<1> QED
  BY <1>3, <1>4

(* The frames that return.                                                          *)
LEMMA DeepLeaves ==
  ASSUME TreeInv, DeepInv, NEW n \in Nodes, JoinRaises(n) \/ JoinIncomplete(n)
  PROVE  DeepInv'
<1>1. frame \in [Nodes -> Frames] /\ node[n].status = "WAITING"
  BY RowOf DEF JoinRaises, JoinIncomplete, Placed
<1>2. \A m \in Nodes : frame'[m] \in Stepping => frame[m] \in Stepping
  BY <1>1 DEF JoinRaises, JoinIncomplete, Leave, Stepping
<1>3. CASE UNCHANGED node
  BY <1>2, <1>3, DeepStays
<1>4. CASE \E hold : Block(n, hold)
  <2>1. Restates(n, "BLOCKED")
    BY <1>4, Zenon DEF Block, Restates
  <2> QED
    BY <1>1, <1>2, <2>1, DeepRestates DEF Statuses, Exists
<1> QED
  BY <1>3, <1>4 DEF JoinRaises, JoinIncomplete

(* The node's own steps.                                                            *)
LEMMA DeepWorks ==
  ASSUME TreeInv, DeepInv, NEW n \in Nodes,
         Begin(n) \/ Effect(n) \/ Fault(n) \/ Reject(n) \/ Advance(n) \/ AskUser(n) \/ TasksDone(n)
  PROVE  DeepInv'
<1>1. /\ frame[n] \in Stepping /\ node[n].status = "RUNNING" /\ node[n] \in Row
      /\ Exists(n) /\ Settles(n) /\ frame \in [Nodes -> Frames]
  <2>1. frame[n] \in Stepping
    BY DEF Begin, Effect, Fault, Reject, Advance, AskUser, TasksDone, Stepping
  <2> QED
    BY <2>1, RowOf DEF Placed, Exists, DeepInv
<1>2. \A m \in Nodes : frame'[m] \in Stepping => frame[m] \in Stepping
  <2>1. \E pc : Goto(n, pc)
    BY DEF Begin, Effect, Fault, Reject, Advance, AskUser, TasksDone
  <2> QED
    BY <1>1, <2>1 DEF Goto
<1>3. CASE UNCHANGED node
  BY <1>2, <1>3, DeepStays
<1>4. CASE \E hold : Block(n, hold)
  <2>1. Restates(n, "BLOCKED")
    BY <1>4, Zenon DEF Block, Restates
  <2> QED
    BY <1>1, <1>2, <2>1, DeepRestates DEF Statuses
<1>5. CASE Advance(n) \/ TasksDone(n)
  <2>1. \/ Set(n, [node[n] EXCEPT !.status = "COMPLETED"])
        \/ Set(n, [node[n] EXCEPT !.status = "READY", !.phase = NextPhase(n)])
        \/ Set(n, [node[n] EXCEPT !.status = "READY", !.phase = "closing"])
    BY <1>5 DEF Advance, TasksDone
  <2>2. Restates(n, "READY") \/ Restates(n, "COMPLETED")
    BY <2>1, Zenon DEF Restates
  <2> QED
    BY <1>1, <1>2, <2>2, DeepRestates DEF Statuses
<1>6. CASE AskUser(n)
  <2> DEFINE row == [node[n] EXCEPT !.status = "WAITING", !.waiting = "user"]
  <2>1. Set(n, row) /\ node[n].kids = {}
    BY <1>1, <1>6 DEF AskUser, Settles
  <2>2. /\ row.status = "WAITING" /\ row.mode = node[n].mode /\ row.parent = node[n].parent
        /\ row.kids = node[n].kids /\ row.task = node[n].task /\ row.done = node[n].done
        /\ row.waiting = "user"
    BY <1>1 DEF Row
  <2> HIDE DEF row
  <2>3. Places(n, row)
    BY <1>1, <2>1, <2>2 DEF Places
  <2> QED
    BY <1>2, <2>1, <2>2, <2>3, DeepSet
<1>7. CASE Begin(n) \/ Effect(n) \/ Fault(n) \/ Reject(n)
  <2>1. UNCHANGED node \/ \E hold : Block(n, hold)
    BY <1>7 DEF Begin, Effect, Fault, Reject
  <2> QED
    BY <1>3, <1>4, <2>1
<1> QED
  BY <1>5, <1>6, <1>7

(* The head of the loop: here a careful drive is what matters.                      *)
LEMMA DeepTop ==
  ASSUME TreeInv, DeepInv, Careful, NEW n \in Nodes, Top(n)
  PROVE  DeepInv'
<1>1. frame[n] = "top" /\ node[n] \in Row /\ frame \in [Nodes -> Frames]
  BY RowOf DEF Top
<1>2. CASE UNCHANGED node /\ Goto(n, "returned")
  <2>1. \A m \in Nodes : frame'[m] \in Stepping => frame[m] \in Stepping
    BY <1>1, <1>2 DEF Goto, Stepping
  <2> QED
    BY <1>2, <2>1, DeepStays
<1>3. CASE /\ UNCHANGED node
           /\ frame' = [m \in Nodes |-> IF m = n THEN "kids"
                                        ELSE IF m \in node[n].kids THEN "top" ELSE frame[m]]
  <2>1. \A m \in Nodes : frame'[m] \in Stepping => frame[m] \in Stepping
    BY <1>1, <1>3 DEF Stepping
  <2> QED
    BY <1>3, <2>1, DeepStays
<1>4. CASE /\ node[n].status \in {"READY", "RUNNING"}
           /\ Set(n, [node[n] EXCEPT !.status = "RUNNING"]) /\ Goto(n, "step")
  <2> DEFINE row == [node[n] EXCEPT !.status = "RUNNING"]
  <2>1. /\ row.status = "RUNNING" /\ row.mode = node[n].mode /\ row.parent = node[n].parent
        /\ row.kids = node[n].kids /\ row.task = node[n].task /\ row.done = node[n].done
        /\ row.waiting = node[n].waiting
    BY <1>1 DEF Row
  <2>2. Set(n, row)
    BY <1>4
  <2> HIDE DEF row
  <2>3. Places(n, row)
    BY <1>4, <2>1 DEF Places, Exists
  <2>4. Steady /\ node'[n] = row /\ \A m \in Nodes \ {n} : node'[m] = node[m]
    BY <2>2, <2>3, PlacesSteady
  <2>5. ~ Waiting(n)
    BY <1>1, <1>4 DEF Careful
  <2>6. \A m \in Nodes \ {n} : frame'[m] = frame[m]
    BY <1>1, <1>4 DEF Goto
  <2>7. Allowed
    BY <2>4, <2>5, <2>6 DEF Allowed, DeepInv, Settles
  <2> QED
    BY <2>4, <2>7, SteadyKept
<1> QED
  BY <1>2, <1>3, <1>4 DEF Top

(* The children a node has joined are complete, and its waiting is over.            *)
LEMMA DeepJoins ==
  ASSUME TreeInv, DeepInv, NEW n \in Nodes, Join(n)
  PROVE  DeepInv'
<1>1. /\ node[n].status = "WAITING" /\ frame \in [Nodes -> Frames] /\ frame' = [m \in Nodes |->
            IF m = n THEN "top" ELSE IF m \in node[n].kids THEN "off" ELSE frame[m]]
      /\ \A k \in node[n].kids : node[k].status = "COMPLETED"
  BY RowOf DEF Join, Complete, Placed, Leave
<1>2. /\ \A m \in Nodes \ {n} : node'[m] = node[m]
      /\ node'[n].status = "READY" /\ node'[n].waiting = "no" /\ node'[n].kids = {}
      /\ node'[n].mode = node[n].mode /\ node'[n].parent = node[n].parent /\ node'[n].task = node[n].task
      /\ node[n].done \subseteq node'[n].done
      /\ node[n].mode = "run" => \A k \in node[n].kids : node[k].task \in node'[n].done
  BY JoinRow
<1>3. \A m \in Nodes : /\ node'[m].parent = node[m].parent /\ node'[m].task = node[m].task
                       /\ (Exists(m)' <=> Exists(m))
                       /\ node[m].status = "COMPLETED" => node'[m].status = "COMPLETED"
  BY <1>1, <1>2 DEF Exists
<1>4. \A m \in Nodes : Children(m)' = Children(m) /\ \A k \in Children(m) : k \in Nodes
  BY <1>3 DEF Children
<1>5. ASSUME NEW m \in Nodes PROVE Awaits(m)' /\ TasksApart(m)' /\ Settles(m)'
  <2>1. Awaits(m) /\ TasksApart(m) /\ Settles(m)
    BY DEF DeepInv
  <2>2. CASE m = n
    <3>1. \A k \in Children(n) : node'[k].status = "COMPLETED"
      BY <1>1, <1>3, <1>4, <2>1, <2>2 DEF Awaits
    <3>2. Awaits(m)'
      BY <1>4, <2>2, <3>1 DEF Awaits
    <3>3. \A k \in Children(n) : node'[k].task \in node'[n].done \cup {NoTask}
      <4> SUFFICES ASSUME NEW k \in Children(n) PROVE node[k].task \in node'[n].done \cup {NoTask}
        BY <1>3, <1>4
      <4>1. CASE k \in node[n].kids
        BY <1>2, <2>1, <2>2, <4>1 DEF TasksApart
      <4>2. CASE k \notin node[n].kids
        BY <1>2, <2>1, <2>2, <4>2 DEF TasksApart
      <4> QED
        BY <4>1, <4>2
    <3>4. TasksApart(m)'
      BY <1>2, <1>3, <1>4, <2>1, <2>2, <3>3 DEF TasksApart
    <3>5. Settles(m)'
      BY <1>1, <1>2, <2>2 DEF Settles, Waiting, Stepping
    <3> QED
      BY <3>2, <3>4, <3>5
  <2>3. CASE m # n
    <3>1. node'[m] = node[m] /\ \A k \in Children(m) : node'[k].task = node[k].task
                                  /\ (node'[k].status # "COMPLETED" => node[k].status # "COMPLETED")
      BY <1>2, <1>3, <1>4, <2>3
    <3>2. Awaits(m)'
      BY <1>4, <2>1, <3>1 DEF Awaits
    <3>3. TasksApart(m)'
      BY <1>4, <2>1, <3>1 DEF TasksApart
    <3>4. Settles(m)'
      BY <1>1, <2>1, <2>3, <3>1 DEF Settles, Waiting, Stepping
    <3> QED
      BY <3>2, <3>3, <3>4
  <2> QED
    BY <2>2, <2>3
<1> QED
  BY <1>3, <1>4, <1>5 DEF DeepInv

(* New children are waited for, and the children there are have other tasks.        *)
LEMMA DeepInserts ==
  ASSUME TreeInv, DeepInv, NEW n \in Nodes, frame[n] \in {"step", "apply"}, NEW pc \in {"top", "mark"},
         NEW cs, Inserts(n, cs), Goto(n, pc)
  PROVE  DeepInv'
<1>1. Settles(n) /\ Awaits(n) /\ TasksApart(n) /\ node[n].kids = {} /\ frame \in [Nodes -> Frames]
  BY RowOf DEF DeepInv, Settles, Stepping
<1>2. /\ Exists(n) /\ n \notin cs /\ node[n].status = "RUNNING"
      /\ \A m \in cs : m \in Nodes /\ ~ Exists(m) /\ node[m].status = "ABSENT"
      /\ \A m \in Nodes \ cs : m # n => node'[m] = node[m]
      /\ \A m \in Nodes : Exists(m)' <=> Exists(m) \/ m \in cs
      /\ \A m \in Nodes \ cs : node'[m].task = node[m].task /\ node'[m].done = node[m].done
      /\ \A m \in Nodes \ cs : node[m].status = "COMPLETED" => node'[m] = node[m]
      /\ Children(n)' = Children(n) \cup cs
      /\ \A m \in Nodes \ {n} : Children(m)' = Children(m)
  BY InsertRows
<1>3. \A m \in Nodes : \A k \in Children(m) : k \in Nodes \ cs
  BY <1>2 DEF Children
<1>4. frame'[n] = pc /\ \A m \in Nodes \ {n} : frame'[m] = frame[m]
  BY <1>1 DEF Goto
<1>5. ASSUME NEW m \in cs PROVE Awaits(m)' /\ TasksApart(m)' /\ Settles(m)'
  <2>1. m \in Nodes \ {n} /\ Children(m)' = {}
    BY <1>2 DEF DeepInv
  <2>2. frame[m] \in {"off", "cancel"}
    BY <1>2, Idle
  <2>3. node'[m].kids = {} /\ node'[m].status = "READY" /\ frame'[m] \notin Stepping
    BY <1>4, <2>1, <2>2 DEF Inserts, Stepping
  <2> QED
    BY <2>1, <2>3 DEF Awaits, TasksApart, Settles
<1>6. ASSUME NEW m \in Nodes \ cs, m # n PROVE Awaits(m)' /\ TasksApart(m)' /\ Settles(m)'
  <2>1. Awaits(m) /\ TasksApart(m) /\ Settles(m)
    BY DEF DeepInv
  <2>2. node'[m] = node[m] /\ frame'[m] = frame[m] /\ Children(m)' = Children(m)
    BY <1>2, <1>4, <1>6
  <2>3. \A k \in Children(m) : /\ node'[k].task = node[k].task
                               /\ node'[k].status # "COMPLETED" => node[k].status # "COMPLETED"
    BY <1>2, <1>3
  <2>4. Awaits(m)' /\ TasksApart(m)'
    BY <2>1, <2>2, <2>3 DEF Awaits, TasksApart
  <2>5. Settles(m)'
    BY <2>1, <2>2 DEF Settles, Waiting
  <2> QED
    BY <2>4, <2>5
<1>7. Awaits(n)' /\ TasksApart(n)' /\ Settles(n)'
  <2>1. /\ node'[n].kids = cs /\ node'[n].mode = node[n].mode /\ node'[n].done = node[n].done
        /\ node'[n].status = "WAITING" /\ Waiting(n)'
    BY DEF Inserts, Waiting
  <2>2. \A k \in Children(n) : /\ k \notin cs /\ node'[k].task = node[k].task
                               /\ node'[k].status = "COMPLETED"
                               /\ node'[k].task \in node[n].done \cup {NoTask}
    BY <1>1, <1>2, <1>3 DEF Awaits, TasksApart
  <2>3. Awaits(n)'
    BY <1>2, <2>1, <2>2 DEF Awaits
  <2>4. \A k \in cs : /\ node'[k].task \notin node[n].done \/ node'[k].task = NoTask
                      /\ node[n].mode # "run" => node'[k].task = NoTask
    BY DEF Inserts, Pending
  <2>5. \A j, k \in Children(n)' : node'[j].task = node'[k].task /\ node'[j].task # NoTask => j = k
    <3> SUFFICES ASSUME NEW j \in Children(n) \cup cs, NEW k \in Children(n) \cup cs,
                        node'[j].task = node'[k].task, node'[j].task # NoTask
                 PROVE  j = k
      BY <1>2
    <3>1. CASE j \in cs /\ k \in cs
      BY <3>1 DEF Inserts
    <3>2. CASE j \in Children(n) /\ k \in Children(n)
      BY <1>1, <2>2, <3>2 DEF TasksApart
    <3>3. ~ (j \in cs /\ k \in Children(n)) /\ ~ (j \in Children(n) /\ k \in cs)
      BY <2>2, <2>4
    <3> QED
      BY <3>1, <3>2, <3>3
  <2>6. node'[n].mode # "run" => \A k \in Children(n)' : node'[k].task = NoTask
    BY <1>1, <1>2, <2>1, <2>2, <2>4 DEF TasksApart
  <2>7. TasksApart(n)'
    BY <1>2, <2>1, <2>2, <2>5, <2>6 DEF TasksApart
  <2>8. Settles(n)'
    BY <1>4, <2>1 DEF Settles, Stepping
  <2> QED
    BY <2>3, <2>7, <2>8
<1>8. \A m \in Nodes : ~ Exists(m)' => Children(m)' = {}
  BY <1>2 DEF DeepInv
<1> QED
  BY <1>5, <1>6, <1>7, <1>8 DEF DeepInv

(* The task a new child gets is pending: no child there is has it.                  *)
LEMMA DeepMarks ==
  ASSUME TreeInv, DeepInv, NEW n \in Nodes, MarkTask(n)
  PROVE  DeepInv'
<1>1. PICK k \in node[n].kids, task \in Tasks \cup {NoTask} :
        /\ k \in Nodes /\ Exists(k) /\ k # n /\ node[n].kids = {k} /\ node[k].status = "READY"
        /\ node[k].mode = "fix" /\ node[k].done = {} /\ node[k].parent = n
        /\ node[n].mode = "run" => task \in Pending(n)
        /\ node[n].mode # "run" => task = NoTask
        /\ \A m \in Nodes \ {k} : node'[m] = node[m]
        /\ node'[k].status = "RUNNING" /\ node'[k].mode = "fix" /\ node'[k].parent = n
        /\ node'[k].kids = node[k].kids /\ node'[k].task = task /\ node'[k].done = {}
        /\ node'[k].waiting = node[k].waiting
  BY MarkRow
<1>2. \A m \in Nodes : frame'[m] \in Stepping => frame[m] \in Stepping
  BY RowOf DEF MarkTask, Goto, Stepping
<1>3. \A m \in Nodes : /\ node'[m].mode = node[m].mode /\ node'[m].parent = node[m].parent
                       /\ node'[m].kids = node[m].kids /\ node'[m].done = node[m].done
                       /\ node'[m].waiting = node[m].waiting /\ (Exists(m)' <=> Exists(m))
                       /\ (node'[m].status = "COMPLETED" <=> node[m].status = "COMPLETED")
                       /\ (m # k => node'[m].task = node[m].task)
  BY <1>1 DEF Exists
<1>4. \A m \in Nodes : Children(m)' = Children(m) /\ \A i \in Children(m) : i \in Nodes /\ node[i].parent = m
  BY <1>3 DEF Children
<1>5. ASSUME NEW m \in Nodes PROVE Awaits(m)' /\ Settles(m)'
  <2>1. Awaits(m) /\ Settles(m)
    BY DEF DeepInv
  <2>2. Awaits(m)'
    BY <1>3, <1>4, <2>1 DEF Awaits
  <2>3. Settles(m)'
    BY <1>2, <1>3, <2>1 DEF Settles, Waiting
  <2> QED
    BY <2>2, <2>3
<1>6. ASSUME NEW m \in Nodes, m # n PROVE TasksApart(m)'
  <2>1. TasksApart(m) /\ \A i \in Children(m) : node'[i].task = node[i].task
    BY <1>1, <1>3, <1>4, <1>6 DEF DeepInv
  <2> QED
    BY <1>3, <1>4, <2>1 DEF TasksApart
<1>7. TasksApart(n)'
  <2>1. TasksApart(n)
    BY DEF DeepInv
  <2>2. \A i \in Children(n) : i # k => node'[i].task = node[i].task
                                        /\ node'[i].task \in node[n].done \cup {NoTask}
    BY <1>1, <1>3, <1>4, <2>1 DEF TasksApart
  <2>3. node'[k].task = task /\ (task \notin node[n].done \/ task = NoTask)
    BY <1>1 DEF Pending
  <2>4. \A i \in Children(n)' \ node'[n].kids : node'[i].task \in node'[n].done \cup {NoTask}
    BY <1>1, <1>3, <1>4, <2>2
  <2>5. node'[n].mode # "run" => \A i \in Children(n)' : node'[i].task = NoTask
    BY <1>1, <1>3, <1>4, <2>1, <2>2, <2>3 DEF TasksApart
  <2>6. ASSUME NEW i \in Children(n)', NEW j \in Children(n)', node'[i].task = node'[j].task, node'[i].task # NoTask
        PROVE  i = j
    <3>1. i \in Children(n) /\ j \in Children(n)
      BY <1>4
    <3>2. CASE i # k /\ j # k
      BY <2>1, <2>2, <2>6, <3>1, <3>2 DEF TasksApart
    <3>3. CASE i = k \/ j = k
      BY <2>2, <2>3, <2>6, <3>1, <3>3
    <3> QED
      BY <3>2, <3>3
  <2> QED
    BY <2>4, <2>5, <2>6 DEF TasksApart
<1>8. \A m \in Nodes : ~ Exists(m)' => Children(m)' = {}
  BY <1>3, <1>4 DEF DeepInv
<1> QED
  BY <1>5, <1>6, <1>7, <1>8 DEF DeepInv

LEMMA DeepReadies ==
  ASSUME TreeInv, DeepInv, NEW n \in Nodes, ReadyTask(n)
  PROVE  DeepInv'
<1>1. PICK k \in node[n].kids : Set(k, [node[k] EXCEPT !.status = "READY"])
  BY Zenon DEF ReadyTask
<1>2. k \in Nodes /\ Exists(k) /\ node[k].status = "RUNNING"
  BY CreatingOne, RowOf DEF ReadyTask, Placed
<1>3. Restates(k, "READY")
  BY <1>1, Zenon DEF Restates
<1>4. \A m \in Nodes : frame'[m] \in Stepping => frame[m] \in Stepping
  BY RowOf DEF ReadyTask, Goto, Stepping
<1> QED
  BY <1>2, <1>3, <1>4, DeepRestates DEF Statuses

LEMMA DeepStep ==
  ASSUME TreeInv, DeepInv, Careful, [Next]_vars
  PROVE  DeepInv'
<1>1. CASE Start \/ Crash \/ Finish \/ Reconciled \/ \E n \in Nodes : Reconcile(n) \/ ConsumeCancelled(n)
  BY <1>1, DeepCommands
<1>2. ASSUME NEW n \in Nodes, Answer(n) \/ Release(n) PROVE DeepInv'
  BY <1>2, DeepResumes
<1>3. CASE WakeRoot
  BY <1>3, DeepWakesRoot
<1>4. ASSUME NEW n \in Nodes, Frame(n) PROVE DeepInv'
  <2>1. CASE Wake(n) \/ Rewait(n)
    BY <2>1, DeepResumes
  <2>2. CASE Top(n) \/ JoinRaises(n) \/ JoinIncomplete(n) \/ Join(n)
    BY <2>2, DeepTop, DeepLeaves, DeepJoins
  <2>3. CASE Begin(n) \/ Effect(n) \/ Fault(n) \/ Reject(n) \/ Advance(n) \/ AskUser(n) \/ TasksDone(n)
    BY <2>3, DeepWorks
  <2>4. ASSUME NEW c \in Free, NEW mode \in Modes, Delegate(n, c, mode) PROVE DeepInv'
    <3>1. frame[n] = "apply" /\ (Goto(n, "top") \/ Goto(n, "mark")) /\ Spawn(n, c, mode)
      BY <2>4 DEF Delegate
    <3>2. Exists(n)
      BY <3>1 DEF TreeInv, Kin
    <3>3. Inserts(n, {c})
      BY <3>1, <3>2, SpawnInserts
    <3> QED
      BY <3>1, <3>3, DeepInserts
  <2>5. ASSUME NEW c \in Free, SpawnTask(n, c) PROVE DeepInv'
    <3>1. frame[n] = "step" /\ Goto(n, "mark") /\ Spawn(n, c, "fix")
      BY <2>5 DEF SpawnTask
    <3>2. Exists(n)
      BY <3>1 DEF TreeInv, Kin
    <3>3. Inserts(n, {c})
      BY <3>1, <3>2, SpawnInserts DEF Modes
    <3> QED
      BY <3>1, <3>3, DeepInserts
  <2>6. ASSUME NEW cs \in SUBSET Free, NEW ts \in SUBSET Pending(n), Batch(n, cs, ts) PROVE DeepInv'
    <3>1. frame[n] = "step" /\ Goto(n, "top")
      BY <2>6 DEF Batch
    <3>2. Inserts(n, cs)
      BY <2>6, BatchInserts
    <3> QED
      BY <3>1, <3>2, DeepInserts
  <2>7. CASE MarkTask(n) \/ ReadyTask(n)
    BY <2>7, DeepMarks, DeepReadies
  <2> QED
    BY <1>4, <2>1, <2>2, <2>3, <2>4, <2>5, <2>6, <2>7 DEF Frame
<1>5. CASE UNCHANGED vars
  BY <1>5, DeepStays DEF vars
<1> QED
  BY <1>1, <1>2, <1>3, <1>4, <1>5 DEF Next, Command, Step

LEMMA DeepStart == Init => DeepInv
<1> SUFFICES ASSUME Init PROVE DeepInv
  OBVIOUS
<1>1. PICK mode \in RootModes : node = [n \in Nodes |-> IF n = Root THEN NewRow(mode, NoNode, "open", NoTask)
                                                      ELSE NoRow]
  BY DEF Init
<1>2. \A n \in Nodes : /\ node[n].parent = NoNode /\ node[n].kids = {}
                       /\ node[n].waiting = "no" /\ node[n].status # "COMPLETED"
  BY <1>1 DEF NoRow, NewRow
<1>3. \A n \in Nodes : Children(n) = {}
  BY <1>2, RootIsNode DEF Children
<1> QED
  BY <1>2, <1>3 DEF DeepInv, Awaits, TasksApart, Settles, Waiting

(* In a tree of any depth a node does its own work, and completes, only when all    *)
(* the work it ever delegated is complete, for as long as drive is careful.         *)
(* What tree_duplicate shows is the one way there is to break it: a command that    *)
(* runs the step of a node which still waits (engine.py drive, resume).             *)
THEOREM CarefulChildrenFirst == Spec /\ []Careful => []ChildrenFirst
<1>1. DeepInv => ChildrenFirst
  BY DEF DeepInv, Awaits, Settles, ChildrenFirst
<1> QED
  BY <1>1, DeepStart, DeepStep, TreeInvariant, PTL DEF Spec

(* Likewise no task is delegated twice, at any depth and whatever crashed, for as   *)
(* long as drive is careful (engine.py step, where a run delegates its tasks).      *)
THEOREM CarefulTaskOnce == Spec /\ []Careful => []TaskOnce
<1>1. DeepInv => TaskOnce
  BY DEF DeepInv, TasksApart, TaskOnce
<1> QED
  BY <1>1, DeepStart, DeepStep, TreeInvariant, PTL DEF Spec
===============================================================================
