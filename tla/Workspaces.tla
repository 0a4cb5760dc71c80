------------------------------ MODULE Workspaces ------------------------------
\* What the controller owns beside its database: the archive of Git objects with its
\* references, one worktree per work item (control/workspace.py) and one scratch
\* directory per operation; and the collection of what is no longer needed
\* (control/cleanup.py), by every thread after every step, by the commands, and with
\* the objects at the end of a command. Threads of one command interleave and a
\* command dies anywhere.
EXTENDS Naturals, Sequences
CONSTANTS
  Items,       \* work items
  Above,       \* the parent of an item, or NoItem
  NoItem,
  MaxObjects,  \* bound: commits in the archive
  MaxCalls,    \* bound: operations of an item
  MaxRemovals, \* bound: resources removed by a collection
  MaxDeaths    \* bound: commands that die

ASSUME WorkspacesAssumption ==
  /\ NoItem \notin Items /\ Above \in [Items -> Items \cup {NoItem}]
  /\ \A i \in Items : Above[i] # NoItem => Above[Above[i]] = NoItem
  /\ MaxObjects \in Nat /\ MaxCalls \in Nat /\ MaxRemovals \in Nat /\ MaxDeaths \in Nat

VARIABLES
  item,    \* the row of each item: status, source, candidate, operation left open
  commits, \* past[c]: c and the commits below it; kept: objects not pruned
  refs,    \* snapshots: a set of commits; candidate: of each item, 0 when there is none
  head,    \* the commit each worktree is at
  known,   \* the items whose worktree is recorded in the store
  dirs,    \* the directories that exist
  rows,    \* the artifacts table
  frame,   \* where the thread of each item is
  sweep,   \* the resource the collection of each thread is removing
  removals,
  holder,  \* what holds the project lock
  deaths

resourceVars == <<item, commits, refs, head, known, dirs, rows, frame, sweep, holder, removals, deaths>>
Archive == <<commits, refs>>
Places == <<head, known, dirs, rows>>

Tree(i) == <<"workspace", i, 0>>
Scratch(i, n) == <<"scratch", i, n>>
Resources == {Tree(i) : i \in Items} \cup {Scratch(i, n) : i \in Items, n \in 1..MaxCalls}
NoRow == <<>>
NewItem == [status |-> "none", source |-> 0, cand |-> 0, joined |-> FALSE, calls |-> 0, open |-> FALSE, settled |-> FALSE]

ResourceInit ==
  /\ item = [i \in Items |-> NewItem] /\ commits = [past |-> <<>>, kept |-> {}]
  /\ refs = [snapshots |-> {}, candidate |-> [i \in Items |-> 0]]
  /\ head = [i \in Items |-> 0] /\ known = {} /\ dirs = {} /\ rows = [r \in Resources |-> "none"]
  /\ frame = [i \in Items |-> "idle"] /\ sweep = [i \in Items |-> NoRow]
  /\ holder = [name |-> "none", root |-> NoItem] /\ removals = 0 /\ deaths = 0

-----------------------------------------------------------------------------
LastCommit == Len(commits.past)
Past(c) == IF c = 0 THEN {} ELSE commits.past[c]
Present(c) == Past(c) \subseteq commits.kept
Add(below) == [past |-> Append(commits.past, Past(below) \cup {LastCommit + 1}),
               kept |-> commits.kept \cup {LastCommit + 1}]

Roots == {i \in Items : Above[i] = NoItem}
Root(i) == IF Above[i] = NoItem THEN i ELSE Above[i]
Below(i) == {k \in Items : Above[k] = i /\ item[k].status # "none"}
Finished(i) == item[i].status \in {"COMPLETED", "CANCELLED"}
Open(i) == item[i].open
Waits(i) == \E k \in Below(i) : ~item[k].joined

Holds(name) == holder.name = name
Unheld == Holds("none")
Stands(i, place) == Holds("work") /\ Root(i) = holder.root /\ frame[i] = place /\ sweep[i] = NoRow
Runs(i, place) == Stands(i, place) /\ (place = "idle" => ~Waits(i))
Goes(i, place) == frame' = [frame EXCEPT ![i] = place]
Row(i, row) == item' = [item EXCEPT ![i] = row]
Static == <<sweep, holder, removals, deaths>>

-----------------------------------------------------------------------------
\* Commands. A root is admitted over a snapshot, which is fetched into the archive
\* before the row is inserted.
Snapshot(i) ==
  /\ Unheld /\ i \in Roots /\ item[i].status = "none" /\ LastCommit < MaxObjects
  /\ commits' = Add(0) /\ refs' = [refs EXCEPT !.snapshots = @ \cup {LastCommit + 1}]
  /\ holder' = [name |-> "admit", root |-> i]
  /\ UNCHANGED <<item, Places, frame, sweep, removals, deaths>>
AdmitRoot ==
  /\ Holds("admit")
  /\ Row(holder.root, [NewItem EXCEPT !.status = "active", !.source = LastCommit])
  /\ holder' = [holder EXCEPT !.name = "work"]
  /\ UNCHANGED <<Archive, Places, frame, sweep, removals, deaths>>

\* orphan_calls leaves the interrupted calls of a model open, and only frees checks. A
\* finished root is returned at once, and its command still collects.
ResumeRoot(i) ==
  /\ Unheld /\ i \in Roots /\ item[i].status # "none"
  /\ holder' = [name |-> "work", root |-> i]
  /\ UNCHANGED <<item, Archive, Places, frame, sweep, removals, deaths>>
Settles(i) ==
  /\ Unheld /\ Open(i) /\ Row(i, [item[i] EXCEPT !.open = FALSE, !.settled = TRUE])
  /\ UNCHANGED <<Archive, Places, frame, Static>>

\* cancel: the items one after the other, the youngest first, and then a collection.
CancelRoot(i) ==
  /\ Unheld /\ i \in Roots /\ item[i].status = "active"
  /\ holder' = [name |-> "cancel", root |-> i]
  /\ UNCHANGED <<item, Archive, Places, frame, sweep, removals, deaths>>
Released(i) == [r \in Resources |-> IF r[2] = i /\ rows[r] # "none" THEN "RELEASED" ELSE rows[r]]
CancelItem(i) ==
  /\ Holds("cancel") /\ Root(i) = holder.root /\ item[i].status = "active"
  /\ \A k \in Below(i) : Finished(k)
  /\ \A k \in Items : frame[k] = "idle"
  /\ Row(i, [item[i] EXCEPT !.status = "CANCELLED"]) /\ Goes(i, "free")
  /\ UNCHANGED <<Archive, Places, Static>>
CancelFrees(i) ==
  /\ Holds("cancel") /\ frame[i] = "free" /\ rows' = Released(i) /\ Goes(i, "idle")
  /\ UNCHANGED <<item, Archive, head, known, dirs, Static>>

-----------------------------------------------------------------------------
\* ensure: the worktree is added, recorded in the store, and registered. One that is
\* there and not recorded is refused ever after.
Start(i) == IF item[i].cand # 0 THEN item[i].cand ELSE item[i].source
AddTree(i) ==
  /\ Runs(i, "idle") /\ item[i].status = "active" /\ Tree(i) \notin dirs /\ Present(Start(i))
  /\ dirs' = dirs \cup {Tree(i)} /\ head' = [head EXCEPT ![i] = Start(i)] /\ Goes(i, "record")
  /\ UNCHANGED <<item, Archive, known, rows, Static>>
RecordTree(i) ==
  /\ Runs(i, "record") /\ known' = known \cup {i} /\ Goes(i, "register")
  /\ UNCHANGED <<item, Archive, head, dirs, rows, Static>>
RegisterTree(i) ==
  /\ Runs(i, "register") /\ rows' = [rows EXCEPT ![Tree(i)] = "LIVE"] /\ Goes(i, "idle")
  /\ UNCHANGED <<item, Archive, head, known, dirs, Static>>

Ready(i) == Runs(i, "idle") /\ item[i].status = "active" /\ Tree(i) \in dirs /\ i \in known /\ ~Open(i)

\* An operation and then its scratch directory.
Reserve(i) ==
  /\ Ready(i) /\ item[i].calls < MaxCalls
  /\ Row(i, [item[i] EXCEPT !.open = TRUE, !.calls = @ + 1]) /\ Goes(i, "scratch")
  /\ UNCHANGED <<Archive, Places, Static>>
MakeScratch(i) ==
  /\ Runs(i, "scratch") /\ dirs' = dirs \cup {Scratch(i, item[i].calls)}
  /\ Goes(i, "lease") /\ UNCHANGED <<item, Archive, head, known, rows, Static>>
RegisterScratch(i) ==
  /\ Runs(i, "lease") /\ rows' = [rows EXCEPT ![Scratch(i, item[i].calls)] = "LIVE"] /\ Goes(i, "call")
  /\ UNCHANGED <<item, Archive, head, known, dirs, Static>>
\* An unknown outcome leaves the operation open and blocks the item.
CallEnds(i) ==
  /\ Runs(i, "call") /\ Goes(i, "idle")
  /\ \/ Row(i, [item[i] EXCEPT !.open = FALSE, !.settled = TRUE])
     \/ UNCHANGED item
  /\ UNCHANGED <<Archive, Places, Static>>

\* candidate: a commit of the worktree if anything has changed, the reference, and at
\* last the row.
Grows(i) == LastCommit < MaxObjects /\ commits' = Add(head[i]) /\ head' = [head EXCEPT ![i] = LastCommit + 1]
Commit(i) ==
  /\ Ready(i) /\ item[i].settled /\ Goes(i, "ref")
  /\ Grows(i) \/ UNCHANGED <<commits, head>>
  /\ UNCHANGED <<item, refs, known, dirs, rows, Static>>
PointRef(i) ==
  /\ Runs(i, "ref") /\ refs' = [refs EXCEPT !.candidate[i] = head[i]] /\ Goes(i, "save")
  /\ UNCHANGED <<item, commits, Places, Static>>
SaveCandidate(i) ==
  /\ Runs(i, "save") /\ Goes(i, "idle")
  /\ item' = [k \in Items |-> IF k = i THEN [item[i] EXCEPT !.cand = refs.candidate[i]]
                             ELSE [item[k] EXCEPT !.joined = @ \/ k \in Below(i)]]
  /\ UNCHANGED <<Archive, Places, Static>>

\* Delegation, of one task or of a batch, on the commit the parent is at: an interrupted
\* candidate is made again, and saved, before the phase that delegates.
Spawn(i) ==
  /\ Ready(i) /\ item[i].settled /\ head[i] = Start(i)
  /\ \E K \in SUBSET {k \in Items : Above[k] = i /\ item[k].status = "none"} \ {{}} :
       item' = [k \in Items |-> IF k \in K THEN [NewItem EXCEPT !.status = "active", !.source = head[i]] ELSE item[k]]
  /\ UNCHANGED <<Archive, Places, frame, Static>>
\* adopt: the difference between the source and the candidate of each child, taken from
\* the archive, unless an interrupted join has applied it already. The candidate that is
\* saved next marks the children.
Joins(i) ==
  LET children == {k \in Below(i) : ~item[k].joined} IN
  /\ Stands(i, "idle") /\ item[i].status = "active" /\ Tree(i) \in dirs /\ i \in known
  /\ children # {} /\ \A k \in children :
       item[k].status = "COMPLETED" /\ Present(item[k].source) /\ Present(item[k].cand)
  /\ Grows(i) \/ UNCHANGED <<commits, head>>
  /\ Goes(i, "ref") /\ UNCHANGED <<item, refs, known, dirs, rows, Static>>

\* complete: a candidate once more, which is the result of a child; the row, the release
\* of what it owned, and the worktree at once.
CompleteItem(i) ==
  /\ Runs(i, "save") /\ item[i].settled /\ ~Waits(i)
  /\ Row(i, [item[i] EXCEPT !.status = "COMPLETED", !.cand = refs.candidate[i]]) /\ Goes(i, "free")
  /\ UNCHANGED <<Archive, Places, Static>>
Frees(i) ==
  /\ Runs(i, "free") /\ rows' = Released(i) /\ Goes(i, "remove")
  /\ UNCHANGED <<item, Archive, head, known, dirs, Static>>
\* What fails here is left to the collection.
RemoveTree(i) ==
  /\ Runs(i, "remove") /\ dirs' \in {dirs, dirs \ {Tree(i)}}
  /\ known' = IF Tree(i) \in dirs' THEN known ELSE known \ {i}
  /\ Goes(i, "idle") /\ UNCHANGED <<item, Archive, head, rows, Static>>

-----------------------------------------------------------------------------
\* collect. What is selected stays so until it is deleted, so the rows that are read at
\* the beginning are chosen one by one; the operations of the owner are read for each
\* of them. A collection may end after any row.
Selected == {r \in Resources : rows[r] \in {"RELEASED", "DELETING"}
                               \/ (r[1] = "scratch" /\ rows[r] = "LIVE" /\ item[r[2]].settled)}
Leased(r) == Open(r[2]) /\ (r[1] = "scratch" => r[3] = item[r[2]].calls)

Sweeps(i) ==
  \/ Runs(i, "idle")
  \/ Holds("cancel") /\ i = holder.root /\ Finished(i) /\ frame[i] = "idle" /\ sweep[i] = NoRow
MarkRow(i, r) ==
  /\ Sweeps(i) /\ r \in Selected /\ ~Leased(r)
  /\ removals < MaxRemovals /\ removals' = removals + 1
  /\ sweep' = [sweep EXCEPT ![i] = r]
  /\ rows' = [rows EXCEPT ![r] = IF r \in dirs THEN "DELETING" ELSE @]
  /\ UNCHANGED <<item, Archive, head, known, dirs, frame, holder, deaths>>
\* It may fail, and is then left to the next collection.
RemoveRow(i) ==
  /\ sweep[i] # NoRow /\ sweep' = [sweep EXCEPT ![i] = NoRow]
  /\ \/ dirs' = dirs \ {sweep[i]} /\ rows' = [rows EXCEPT ![sweep[i]] = "DELETED"]
     \/ UNCHANGED <<dirs, rows>>
  /\ UNCHANGED <<item, Archive, head, known, frame, holder, removals, deaths>>

\* collect_git, once the threads have ended: references nobody needs, then the objects
\* that neither a reference nor a worktree reaches.
Quiet == \A i \in Items : sweep[i] = NoRow /\ frame[i] = "idle"
LiveOnly == {i \in Items : item[i].status = "active" \/ Open(i)}
LiveItems == {i \in Items : \E k \in Items : Root(k) = Root(i) /\ (item[k].status = "active" \/ Open(k))}
Keep == {item[i].source : i \in LiveItems} \cup {item[i].cand : i \in LiveItems}
Ends ==
  /\ Holds("work") /\ Quiet /\ holder' = [name |-> "refs", root |-> NoItem]
  /\ UNCHANGED <<item, Archive, Places, frame, sweep, removals, deaths>>
DropRefs ==
  /\ Holds("refs") /\ holder' = [name |-> "gc", root |-> NoItem]
  /\ refs' = [snapshots |-> refs.snapshots \cap Keep,
              candidate |-> [i \in Items |-> IF refs.candidate[i] \in Keep THEN refs.candidate[i] ELSE 0]]
  /\ UNCHANGED <<item, commits, Places, frame, sweep, removals, deaths>>
Reached == refs.snapshots \cup {refs.candidate[i] : i \in Items} \cup {head[i] : i \in {k \in Items : Tree(k) \in dirs}}
Gc ==
  /\ Holds("gc") /\ holder' = [name |-> "none", root |-> NoItem]
  /\ commits' = [commits EXCEPT !.kept = @ \cap UNION {Past(c) : c \in Reached}]
  /\ UNCHANGED <<item, refs, Places, frame, sweep, removals, deaths>>
Leave ==
  /\ Holds("cancel") /\ Quiet /\ Finished(holder.root) /\ holder' = [name |-> "none", root |-> NoItem]
  /\ UNCHANGED <<item, Archive, Places, frame, sweep, removals, deaths>>

Dies ==
  /\ ~Unheld /\ deaths < MaxDeaths /\ deaths' = deaths + 1
  /\ holder' = [name |-> "none", root |-> NoItem]
  /\ frame' = [i \in Items |-> "idle"] /\ sweep' = [i \in Items |-> NoRow]
  /\ UNCHANGED <<item, Archive, Places, removals>>

\* Nobody calls.
Rests == Unheld /\ UNCHANGED resourceVars

ResourceNext ==
  \/ Rests \/ AdmitRoot \/ Ends \/ DropRefs \/ Gc \/ Leave \/ Dies
  \/ \E i \in Items :
       \/ Snapshot(i) \/ ResumeRoot(i) \/ Settles(i) \/ CancelRoot(i) \/ CancelItem(i) \/ CancelFrees(i)
       \/ AddTree(i) \/ RecordTree(i) \/ RegisterTree(i) \/ Reserve(i) \/ MakeScratch(i) \/ RegisterScratch(i)
       \/ CallEnds(i) \/ Commit(i) \/ PointRef(i) \/ SaveCandidate(i) \/ Spawn(i) \/ Joins(i)
       \/ CompleteItem(i) \/ Frees(i) \/ RemoveTree(i) \/ RemoveRow(i)
       \/ \E r \in Resources : MarkRow(i, r)
ResourceSpec == ResourceInit /\ [][ResourceNext]_resourceVars

-----------------------------------------------------------------------------
ResourceTypeOK ==
  /\ item \in [Items -> [status : {"none", "active", "COMPLETED", "CANCELLED"}, source : 0..MaxObjects,
                         cand : 0..MaxObjects, joined : BOOLEAN, calls : 0..MaxCalls,
                         open : BOOLEAN, settled : BOOLEAN]]
  /\ commits.kept \subseteq 1..LastCommit /\ refs.snapshots \subseteq 1..LastCommit
  /\ known \subseteq Items /\ dirs \subseteq Resources
  /\ rows \in [Resources -> {"none", "LIVE", "RELEASED", "DELETING", "DELETED"}]

\* The collection takes nothing that is still needed: the sources and candidates of
\* unfinished work and of open operations, the results of finished children until their
\* parent has taken them over, the worktrees of both, and the scratch directory of an
\* open operation, whoever collects beside whom and whichever command died where.
Needs(i) == item[i].status = "active" \/ Open(i)
NothingNeededCollected ==
  \A i \in Items :
    /\ Needs(i) \/ (item[i].status = "COMPLETED" /\ Above[i] # NoItem /\ ~item[i].joined /\ Needs(Above[i]))
         => Present(item[i].source) /\ Present(item[i].cand)
    /\ Needs(i) /\ i \in known => Tree(i) \in dirs
    /\ Open(i) /\ rows[Scratch(i, item[i].calls)] # "none" => Scratch(i, item[i].calls) \in dirs
===============================================================================
