--------------------------- MODULE WorkspacesProofs ----------------------------
\* What Workspaces keeps for every family of items and every number of commits,
\* operations, removals and deaths: the collection takes nothing that is still needed.
EXTENDS Workspaces, SequenceTheorems, TLAPS

-----------------------------------------------------------------------------
\* The inductive invariant.

Working == {"record", "register", "scratch", "lease", "call", "ref", "save"}
Rows == [status : {"none", "active", "COMPLETED", "CANCELLED"}, source : 0..MaxObjects, cand : 0..MaxObjects,
         joined : BOOLEAN, calls : 0..MaxCalls, open : BOOLEAN, settled : BOOLEAN]
Holders == {"none", "admit", "work", "cancel", "refs", "gc"}
Shape ==
  /\ item \in [Items -> Rows] /\ commits \in [past : Seq(SUBSET Nat), kept : SUBSET Nat]
  /\ LastCommit <= MaxObjects /\ commits.kept \subseteq 1..LastCommit
  /\ refs \in [snapshots : SUBSET (1..LastCommit), candidate : [Items -> 0..LastCommit]]
  /\ head \in [Items -> 0..LastCommit] /\ known \subseteq Items /\ dirs \subseteq Resources
  /\ rows \in [Resources -> {"none", "LIVE", "RELEASED", "DELETING", "DELETED"}]
  /\ frame \in [Items -> Working \cup {"idle", "free", "remove"}]
  /\ sweep \in [Items -> Resources \cup {NoRow}]
  /\ holder \in [name : Holders, root : Items \cup {NoItem}]

\* A commit is in its own past, after whatever else is there, with the past of that.
Ancestry ==
  \A c \in 1..LastCommit :
    /\ c \in commits.past[c] /\ commits.past[c] \subseteq 1..c
    /\ \A d \in commits.past[c] : commits.past[d] \subseteq commits.past[c]

Active(i) == item[i].status = "active"
Exists(i) == item[i].status # "none"
Live(i) == Tree(i) \in dirs
On(c, i) == c = 0 \/ c \in Past(head[i])

\* The row of an item: what is open has a worktree, a recorded worktree of unfinished
\* work is there, work without one has no candidate yet, and the source of a root is a
\* snapshot with a reference.
Rowed(i) ==
  /\ ~Exists(i) => item[i] = NewItem /\ i \notin known /\ ~Live(i)
  /\ item[i].source <= LastCommit /\ item[i].cand <= LastCommit
  /\ Open(i) => Exists(i) /\ Live(i) /\ item[i].calls # 0
  /\ item[i].status = "COMPLETED" => ~Open(i)
  /\ Active(i) /\ i \in known => Live(i)
  /\ Active(i) /\ ~Live(i) => item[i].cand = 0
  /\ Active(i) /\ Above[i] = NoItem => item[i].source \in refs.snapshots
  /\ item[i].joined => item[i].status = "COMPLETED"

\* The worktree of what is needed is at a descendant of its source and its candidate.
Based(i) == Live(i) /\ Needs(i) => On(item[i].source, i) /\ On(item[i].cand, i)

\* A child, under a parent that outlives it and whose worktree carries its source; its
\* result, until it is joined, has a reference of its own.
Carried(k, p) ==
  /\ Exists(p) /\ (Active(k) => Active(p)) /\ (~item[k].joined => ~Open(p))
  /\ Active(p) => Live(p) /\ On(item[k].source, p)
  /\ Active(p) /\ item[k].status = "COMPLETED" /\ ~item[k].joined => item[k].cand = refs.candidate[k]
Kin == \A k \in Items : Above[k] # NoItem /\ Exists(k) => Carried(k, Above[k])

\* The whole past of what a reference or a worktree reaches is in the archive.
Whole == \A c \in Reached : Past(c) \subseteq commits.kept

\* Where a thread may be, and what it holds there.
Framed(i) ==
  /\ frame[i] # "idle" => Holds("work") \/ Holds("cancel")
  /\ Holds("cancel") => frame[i] \in {"idle", "free"}
  /\ frame[i] \in Working => Active(i) /\ Live(i)
  /\ frame[i] \in {"scratch", "lease", "call"} => Open(i)
  /\ frame[i] = "lease" => Scratch(i, item[i].calls) \in dirs
  /\ frame[i] \in {"ref", "save"} => ~Open(i) /\ \A k \in Below(i) : item[k].status = "COMPLETED"
  /\ frame[i] = "save" => refs.candidate[i] = head[i]
  /\ frame[i] = "free" => Finished(i) /\ (Holds("work") => item[i].status = "COMPLETED")
  /\ frame[i] = "remove" => item[i].status = "COMPLETED"

\* What a collection has chosen stays unneeded until it is removed, whoever works beside
\* it: a worktree of finished work, a scratch directory of an earlier operation.
Swept(j) ==
  sweep[j] # NoRow =>
    /\ Holds("work") \/ Holds("cancel")
    /\ \A i \in Items : sweep[j] = Tree(i) => Finished(i) /\ ~Open(i)
    /\ \A i \in Items : \A n \in 1..MaxCalls :
         sweep[j] = Scratch(i, n) => n <= item[i].calls /\ (Open(i) => n # item[i].calls)

\* What the artifacts table says of an item is so.
Told(i) ==
  /\ rows[Tree(i)] \in {"RELEASED", "DELETING", "DELETED"} => Finished(i)
  /\ \A n \in 1..MaxCalls : rows[Scratch(i, n)] # "none" => n <= item[i].calls
  /\ Open(i) /\ rows[Scratch(i, item[i].calls)] # "none" => Scratch(i, item[i].calls) \in dirs

\* A root that is being admitted has its snapshot fetched.
Admitting == Holds("admit") => holder.root \in Roots /\ ~Exists(holder.root) /\ LastCommit \in refs.snapshots

IInv ==
  /\ Shape /\ Ancestry /\ \A i \in Items : Rowed(i) /\ Based(i) /\ Framed(i) /\ Swept(i) /\ Told(i)
  /\ Kin /\ Whole /\ Admitting

-----------------------------------------------------------------------------
\* Different items and operations have different directories.
LEMMA ResourceNames ==
  /\ \A i, k \in Items : Tree(i) = Tree(k) => i = k
  /\ \A i, k \in Items : \A n \in Nat : Tree(i) # Scratch(k, n)
  /\ \A i, k \in Items : \A n, m \in Nat : Scratch(i, n) = Scratch(k, m) => i = k /\ n = m
  /\ \A i \in Items : Tree(i) \in Resources /\ Tree(i)[1] = "workspace" /\ Tree(i)[2] = i
  /\ \A i \in Items : \A n \in 1..MaxCalls :
       Scratch(i, n) \in Resources /\ Scratch(i, n)[1] = "scratch" /\ Scratch(i, n)[2] = i /\ Scratch(i, n)[3] = n
<1>1. /\ \A i, k \in Items : Tree(i) = Tree(k) => i = k
      /\ \A i, k \in Items : \A n, m \in Nat : Scratch(i, n) = Scratch(k, m) => i = k /\ n = m
  BY DEF Tree, Scratch
<1>2. \A i, k \in Items : \A n \in Nat : Tree(i) # Scratch(k, n)
  <2>1. SUFFICES ASSUME NEW i \in Items, NEW k \in Items, NEW n \in Nat, Tree(i) = Scratch(k, n)
                 PROVE  FALSE
    OBVIOUS
  <2>2. Tree(i)[1] = Scratch(k, n)[1]
    BY <2>1
  <2> QED
    BY <2>2 DEF Tree, Scratch
<1>3. /\ \A i \in Items : Tree(i) \in Resources /\ Tree(i)[1] = "workspace" /\ Tree(i)[2] = i
      /\ \A i \in Items : \A n \in 1..MaxCalls :
           Scratch(i, n) \in Resources /\ Scratch(i, n)[1] = "scratch" /\ Scratch(i, n)[2] = i /\ Scratch(i, n)[3] = n
  BY DEF Tree, Scratch, Resources
<1> QED
  BY <1>1, <1>2, <1>3

\* The past of a commit is of commits, and contains theirs.
LEMMA PastShape ==
  ASSUME Shape, Ancestry
  PROVE  /\ LastCommit \in Nat
         /\ \A c \in 0..LastCommit :
              /\ Past(c) \subseteq 1..LastCommit /\ (c # 0 => c \in Past(c))
              /\ \A d \in Past(c) : d \in 1..LastCommit /\ d # 0 /\ Past(d) \subseteq Past(c)
<1>1. LastCommit \in Nat
  BY DEF Shape, LastCommit
<1>2. \A c \in 1..LastCommit : c \in Nat /\ c # 0 /\ Past(c) = commits.past[c] /\ 1..c \subseteq 1..LastCommit
  BY <1>1 DEF Past
<1>3. Past(0) = {}
  BY DEF Past
<1>4. \A c \in 1..LastCommit : c \in Past(c) /\ Past(c) \subseteq 1..LastCommit
  BY <1>2 DEF Ancestry
<1>5. \A c \in 1..LastCommit : \A d \in Past(c) : d \in 1..LastCommit /\ Past(d) \subseteq Past(c)
  BY <1>2, <1>4 DEF Ancestry
<1> QED
  BY <1>1, <1>3, <1>4, <1>5

\* A commit that is added leaves the past of the others, and has that of its parent.
LEMMA Grown ==
  ASSUME Shape, Ancestry, NEW b \in 0..LastCommit, LastCommit < MaxObjects, commits' = Add(b)
  PROVE  /\ LastCommit' = LastCommit + 1 /\ LastCommit' <= MaxObjects
         /\ commits' \in [past : Seq(SUBSET Nat), kept : SUBSET Nat]
         /\ commits'.kept = commits.kept \cup {LastCommit + 1} /\ commits'.kept \subseteq 1..LastCommit'
         /\ Ancestry'
         /\ \A c \in 0..LastCommit : Past(c)' = Past(c)
         /\ \A c \in Nat : c = LastCommit + 1 => Past(c)' = Past(b) \cup {c}
<1> DEFINE new == LastCommit + 1
<1>1. LastCommit \in Nat /\ new \in Nat /\ new # 0 /\ Past(b) \subseteq 1..LastCommit
      /\ \A d \in Past(b) : d \in 1..LastCommit /\ Past(d) \subseteq Past(b)
  BY PastShape
<1>2. commits.past \in Seq(SUBSET Nat) /\ commits.kept \subseteq 1..LastCommit
  BY DEF Shape
<1>3. Past(b) \cup {new} \in SUBSET Nat
  BY <1>1
<1>4. commits'.past = Append(commits.past, Past(b) \cup {new}) /\ commits'.kept = commits.kept \cup {new}
      /\ commits' = [past |-> commits'.past, kept |-> commits'.kept]
  BY DEF Add
<1>5. /\ commits'.past \in Seq(SUBSET Nat) /\ Len(commits'.past) = Len(commits.past) + 1
      /\ \A c \in 1..Len(commits.past) : commits'.past[c] = commits.past[c]
      /\ commits'.past[Len(commits.past) + 1] = Past(b) \cup {new}
  BY <1>2, <1>3, <1>4, AppendProperties
<1>6. LastCommit' = new /\ new <= MaxObjects
  BY <1>1, <1>5, WorkspacesAssumption DEF LastCommit
<1>7. commits'.kept \subseteq 1..new /\ commits'.kept \in SUBSET Nat
  BY <1>1, <1>2, <1>4
<1>8. /\ \A c \in 1..LastCommit : commits'.past[c] = commits.past[c]
      /\ commits'.past[new] = Past(b) \cup {new}
  BY <1>5 DEF LastCommit
<1>9. \A c \in 1..LastCommit : c # 0 /\ c \in Nat
  BY <1>1
<1>10. \A c \in 0..LastCommit : c = 0 \/ c \in 1..LastCommit
  BY <1>1
<1>11. /\ \A c \in 0..LastCommit : Past(c)' = Past(c)
       /\ \A c \in Nat : c = new => Past(c)' = Past(b) \cup {c}
  BY <1>1, <1>8, <1>9, <1>10 DEF Past
<1>12. Ancestry'
  <2>1. SUFFICES ASSUME NEW c \in 1..new
                 PROVE  /\ c \in commits'.past[c] /\ commits'.past[c] \subseteq 1..c
                        /\ \A d \in commits'.past[c] : commits'.past[d] \subseteq commits'.past[c]
    BY <1>6 DEF Ancestry
  <2>2. CASE c \in 1..LastCommit
    <3>1. commits.past[c] \subseteq 1..LastCommit
      BY <1>1, <2>2 DEF Ancestry
    <3> QED
      BY <1>8, <2>2, <3>1 DEF Ancestry
  <2>3. CASE c = new
    <3>1. \A d \in Past(b) : commits'.past[d] \subseteq Past(b)
      BY <1>1, <1>8, <1>9 DEF Past
    <3>2. Past(b) \cup {new} \subseteq 1..new
      BY <1>1
    <3> QED
      BY <1>8, <2>3, <3>1, <3>2
  <2> QED
    BY <1>1, <2>1, <2>2, <2>3
<1> QED
  BY <1>4, <1>5, <1>6, <1>7, <1>11, <1>12

\* The fields of a row, and the commits its item is at, are in their ranges.
LEMMA RowTyped ==
  ASSUME IInv
  PROVE  /\ LastCommit \in Nat
         /\ \A i \in Items :
              /\ item[i] \in Rows /\ item[i].calls \in 0..MaxCalls /\ item[i].open \in BOOLEAN /\ item[i].joined \in BOOLEAN
              /\ item[i].source \in 0..LastCommit /\ item[i].cand \in 0..LastCommit
              /\ head[i] \in 0..LastCommit /\ refs.candidate[i] \in 0..LastCommit
<1>1. LastCommit \in Nat
  BY DEF IInv, Shape, LastCommit
<1>2. \A i \in Items : item[i] \in Rows /\ Rowed(i) /\ head[i] \in 0..LastCommit /\ refs.candidate[i] \in 0..LastCommit
  BY DEF IInv, Shape
<1> QED
  BY <1>1, <1>2, WorkspacesAssumption DEF Rows, Rowed

\* What is needed lies under a worktree or a reference, and so it is there.
LEMMA NeededPresent ==
  ASSUME IInv
  PROVE  NothingNeededCollected
<1>1. /\ \A c \in Reached : Past(c) \subseteq commits.kept
      /\ \A i \in Items : (Live(i) => head[i] \in Reached) /\ refs.candidate[i] \in Reached
      /\ \A c \in refs.snapshots : c \in Reached
  BY DEF IInv, Whole, Reached, Live
<1>2. \A i \in Items : head[i] \in 0..LastCommit /\ refs.candidate[i] \in 0..LastCommit
  BY DEF IInv, Shape
<1>3. \A i \in Items : \A c : Live(i) /\ On(c, i) => Present(c)
  <2>1. Present(0)
    BY DEF Present, Past
  <2> QED
    BY <1>1, <1>2, <2>1, PastShape DEF IInv, On, Present
<1>4. \A i \in Items : Rowed(i) /\ Based(i) /\ Told(i)
  BY DEF IInv
<1>5. \A i \in Items : Above[i] # NoItem => Above[i] \in Items
  BY WorkspacesAssumption
<1>6. \A i \in Items : Needs(i) => Present(item[i].source) /\ Present(item[i].cand)
  <2>1. SUFFICES ASSUME NEW i \in Items, Needs(i)
                 PROVE  Present(item[i].source) /\ Present(item[i].cand)
    OBVIOUS
  <2>2. CASE Live(i)
    BY <1>3, <1>4, <2>1, <2>2 DEF Based
  <2>3. CASE ~Live(i)
    <3>1. Active(i) /\ item[i].cand = 0
      BY <1>4, <2>1, <2>3 DEF Rowed, Needs, Active
    <3>2. Present(item[i].cand)
      BY <3>1 DEF Present, Past
    <3>3. CASE Above[i] = NoItem
      BY <1>1, <1>4, <3>1, <3>2, <3>3 DEF Rowed, Present
    <3>4. CASE Above[i] # NoItem
      <4>1. Carried(i, Above[i])
        BY <3>1, <3>4 DEF IInv, Kin, Exists, Active
      <4> QED
        BY <1>3, <1>5, <3>1, <3>2, <3>4, <4>1 DEF Carried
    <3> QED
      BY <3>3, <3>4
  <2> QED
    BY <2>2, <2>3
<1>7. \A i \in Items :
        item[i].status = "COMPLETED" /\ Above[i] # NoItem /\ ~item[i].joined /\ Needs(Above[i]) =>
          Present(item[i].source) /\ Present(item[i].cand)
  <2>1. SUFFICES ASSUME NEW i \in Items, item[i].status = "COMPLETED", Above[i] # NoItem, ~item[i].joined, Needs(Above[i])
                 PROVE  Present(item[i].source) /\ Present(item[i].cand)
    OBVIOUS
  <2>2. Carried(i, Above[i])
    BY <2>1 DEF IInv, Kin, Exists
  <2>3. Active(Above[i])
    BY <2>1, <2>2 DEF Carried, Needs, Active
  <2> QED
    BY <1>1, <1>3, <1>5, <2>1, <2>2, <2>3 DEF Carried, Present
<1>8. \A i \in Items : /\ Needs(i) /\ i \in known => Tree(i) \in dirs
                       /\ Open(i) /\ rows[Scratch(i, item[i].calls)] # "none" => Scratch(i, item[i].calls) \in dirs
  BY <1>4 DEF Rowed, Told, Needs, Live, Active
<1> QED
  BY <1>6, <1>7, <1>8 DEF NothingNeededCollected

-----------------------------------------------------------------------------
\* Nothing exists in the beginning.
LEMMA ResourceInitHolds ==
  ASSUME ResourceInit
  PROVE  IInv
<1>1. LastCommit = 0 /\ commits.past \in Seq(SUBSET Nat) /\ commits.past = <<>>
  BY DEF ResourceInit, LastCommit
<1>2. /\ \A i \in Items : item[i] = NewItem /\ frame[i] = "idle" /\ sweep[i] = NoRow
      /\ known = {} /\ dirs = {}
  BY DEF ResourceInit
<1>3. Shape
  <2>1. commits \in [past : Seq(SUBSET Nat), kept : SUBSET Nat] /\ commits.kept \subseteq 1..LastCommit /\ LastCommit <= MaxObjects
    BY <1>1, WorkspacesAssumption DEF ResourceInit
  <2>2. item \in [Items -> Rows]
    <3>1. NewItem \in Rows
      BY WorkspacesAssumption DEF NewItem, Rows
    <3> QED
      BY <3>1 DEF ResourceInit
  <2>3. refs \in [snapshots : SUBSET (1..LastCommit), candidate : [Items -> 0..LastCommit]] /\ head \in [Items -> 0..LastCommit]
    BY <1>1 DEF ResourceInit
  <2>4. rows \in [Resources -> {"none", "LIVE", "RELEASED", "DELETING", "DELETED"}] /\ known \subseteq Items /\ dirs \subseteq Resources
    BY DEF ResourceInit
  <2>5. frame \in [Items -> Working \cup {"idle", "free", "remove"}] /\ sweep \in [Items -> Resources \cup {NoRow}]
        /\ holder \in [name : Holders, root : Items \cup {NoItem}]
    BY DEF ResourceInit, Holders
  <2> QED
    BY <2>1, <2>2, <2>3, <2>4, <2>5 DEF Shape
<1>4. Ancestry
  BY <1>1 DEF Ancestry
<1>5. \A i \in Items : Rowed(i) /\ Based(i)
  <2>1. /\ NewItem.status = "none" /\ NewItem.source = 0 /\ NewItem.cand = 0
        /\ NewItem.open = FALSE /\ NewItem.joined = FALSE
    BY DEF NewItem
  <2>2. \A i \in Items : ~Exists(i) /\ ~Active(i) /\ ~Open(i) /\ ~item[i].joined /\ item[i].status # "COMPLETED" /\ ~Live(i)
    BY <1>2, <2>1 DEF Exists, Active, Open, Live
  <2>3. \A i \in Items : item[i] = NewItem /\ i \notin known
    BY <1>2
  <2>4. \A i \in Items : item[i].source <= LastCommit /\ item[i].cand <= LastCommit
    <3>1. \A i \in Items : item[i].source = 0 /\ item[i].cand = 0
      BY <1>2, <2>1
    <3>2. 0 <= 0
      OBVIOUS
    <3>3. \A i \in Items : item[i].source <= 0 /\ item[i].cand <= 0
      BY <3>1, <3>2
    <3> QED
      BY <1>1, <3>3
  <2> QED
    BY <2>2, <2>3, <2>4 DEF Rowed, Based
<1>6. \A i \in Items : Framed(i) /\ Swept(i)
  <2>1. holder.name = "none"
    BY DEF ResourceInit
  <2> QED
    BY <1>2, <2>1 DEF Framed, Swept, Working
<1>7. \A i \in Items : Told(i)
  BY <1>2, ResourceNames DEF ResourceInit, NewItem, Told, Open
<1>8. Kin /\ Admitting
  BY DEF ResourceInit, NewItem, Kin, Exists, Admitting, Holds
<1>9. Whole
  BY DEF ResourceInit, Whole, Reached, Past
<1> QED
  BY <1>3, <1>4, <1>5, <1>6, <1>7, <1>8, <1>9 DEF IInv

\* While no command works or cancels, no thread is anywhere.
LEMMA Quieted ==
  ASSUME IInv, ~Holds("work"), ~Holds("cancel")
  PROVE  \A i \in Items : frame[i] = "idle" /\ sweep[i] = NoRow
BY DEF IInv, Framed, Swept

\* Where only the lock changes hands, and the threads are gone.
LEMMA HolderStep ==
  ASSUME IInv, UNCHANGED <<item, commits, refs, head, known, dirs, rows>>,
         frame' = [i \in Items |-> "idle"], sweep' = [i \in Items |-> NoRow],
         holder' \in [name : Holders \ {"admit"}, root : Items \cup {NoItem}]
  PROVE  IInv'
<1>1. LastCommit' = LastCommit /\ \A c : Past(c)' = Past(c)
  BY DEF LastCommit, Past
<1>2. Shape'
  BY <1>1 DEF IInv, Shape
<1>3. Ancestry' /\ Whole' /\ Kin'
  BY <1>1 DEF IInv, Ancestry, Whole, Reached, Kin, Carried, Exists, Active, Open, Live, On
<1>4. \A i \in Items : Rowed(i)' /\ Based(i)' /\ Told(i)'
  BY <1>1 DEF IInv, Rowed, Based, Told, Needs, Exists, Active, Open, Live, On, Finished
<1>5. \A i \in Items : Framed(i)' /\ Swept(i)'
  BY DEF Framed, Swept, Working
<1>6. Admitting'
  BY DEF Admitting, Holds
<1> QED
  BY <1>2, <1>3, <1>4, <1>5, <1>6 DEF IInv

\* The steps of the project lock alone.
LEMMA LockSteps ==
  ASSUME IInv, \/ Ends \/ Leave \/ Dies \/ \E i \in Items : ResumeRoot(i) \/ CancelRoot(i)
  PROVE  IInv'
<1>1. UNCHANGED <<item, commits, refs, head, known, dirs, rows>>
  BY DEF Ends, Leave, Dies, ResumeRoot, CancelRoot, Archive, Places
<1>2. holder' \in [name : Holders \ {"admit"}, root : Items \cup {NoItem}]
  BY DEF Ends, Leave, Dies, ResumeRoot, CancelRoot, Holders
<1>3. frame \in [Items -> Working \cup {"idle", "free", "remove"}] /\ sweep \in [Items -> Resources \cup {NoRow}]
  BY DEF IInv, Shape
<1>4. CASE Dies
  BY <1>1, <1>2, <1>4, HolderStep DEF Dies
<1>5. CASE \/ Ends \/ Leave \/ \E i \in Items : ResumeRoot(i) \/ CancelRoot(i)
  <2>1. UNCHANGED <<frame, sweep>>
    BY <1>5 DEF Ends, Leave, ResumeRoot, CancelRoot
  <2>2. \A i \in Items : frame[i] = "idle" /\ sweep[i] = NoRow
    BY <1>5, Quieted DEF Ends, Leave, ResumeRoot, CancelRoot, Quiet, Unheld, Holds
  <2>3. frame' = [i \in Items |-> "idle"] /\ sweep' = [i \in Items |-> NoRow]
    BY <1>3, <2>1, <2>2
  <2> QED
    BY <1>1, <1>2, <2>3, HolderStep
<1> QED
  BY <1>4, <1>5

\* Nothing changes.
LEMMA StutterStep ==
  ASSUME IInv, UNCHANGED resourceVars
  PROVE  IInv'
<1>1. UNCHANGED <<item, commits, refs, head, known, dirs, rows, frame, sweep, holder>>
  BY DEF resourceVars
<1>2. LastCommit' = LastCommit /\ \A c : Past(c)' = Past(c)
  BY <1>1 DEF LastCommit, Past
<1>3. Shape' /\ Ancestry'
  BY <1>1, <1>2 DEF IInv, Shape, Ancestry
<1>4. Whole' /\ Kin' /\ Admitting'
  BY <1>1, <1>2 DEF IInv, Whole, Reached, Kin, Carried, Exists, Active, Open, Live, On, Admitting,
     Holds
<1>5. \A i \in Items : Rowed(i)' /\ Based(i)' /\ Told(i)' /\ Framed(i)' /\ Swept(i)'
  BY <1>1, <1>2 DEF IInv, Rowed, Based, Told, Framed, Swept, Needs, Exists, Active, Open, Live,
     On, Finished, Holds, Below
<1> QED
  BY <1>3, <1>5, <1>4 DEF IInv

\* A snapshot is a commit without a past, with a reference of its own.
LEMMA SnapshotStep ==
  ASSUME IInv, NEW i \in Items, Snapshot(i)
  PROVE  IInv'
<1>1. UNCHANGED <<item, head, known, dirs, rows, frame, sweep>> /\ Unheld /\ i \in Roots /\ item[i].status = "none"
  BY DEF Snapshot, Places
<1>2. LastCommit \in Nat /\ LastCommit' = LastCommit + 1 /\ LastCommit' <= MaxObjects
      /\ commits' \in [past : Seq(SUBSET Nat), kept : SUBSET Nat]
      /\ commits'.kept = commits.kept \cup {LastCommit'} /\ commits'.kept \subseteq 1..LastCommit'
      /\ Ancestry' /\ \A c \in 0..LastCommit : Past(c)' = Past(c)
  <2>1. 0 \in 0..LastCommit /\ LastCommit \in Nat
    BY RowTyped
  <2> QED
    BY <2>1, Grown DEF Snapshot, IInv
<1>3. Past(LastCommit)' \subseteq commits'.kept
  <2>1. 0 \in 0..LastCommit /\ Past(0) = {}
    BY RowTyped DEF Past
  <2>2. \A c \in Nat : c = LastCommit + 1 => Past(c)' = {c}
    BY <2>1, Grown DEF Snapshot, IInv
  <2> QED
    BY <1>2, <2>2
<1>4. refs' = [refs EXCEPT !.snapshots = @ \cup {LastCommit'}] /\ holder' = [name |-> "admit", root |-> i]
  BY <1>2 DEF Snapshot
<1>5. refs' \in [snapshots : SUBSET (1..LastCommit'), candidate : [Items -> 0..LastCommit']]
      /\ refs'.snapshots = refs.snapshots \cup {LastCommit'} /\ refs'.candidate = refs.candidate
  <2>1. refs \in [snapshots : SUBSET (1..LastCommit), candidate : [Items -> 0..LastCommit]]
    BY DEF IInv, Shape
  <2>2. refs' = [snapshots |-> refs.snapshots \cup {LastCommit'}, candidate |-> refs.candidate]
    BY <1>4, <2>1
  <2>3. refs.snapshots \cup {LastCommit'} \subseteq 1..LastCommit' /\ refs.candidate \in [Items -> 0..LastCommit']
    BY <1>2, <2>1
  <2> QED
    BY <2>2, <2>3
<1>6. \A k \in Items : frame[k] = "idle" /\ sweep[k] = NoRow
  BY <1>1, Quieted DEF Unheld, Holds
<1>7. Shape'
  <2>1. holder' \in [name : Holders, root : Items \cup {NoItem}]
    BY <1>4 DEF Holders
  <2> QED
    BY <1>1, <1>2, <1>5, <2>1 DEF IInv, Shape
<1>8. \A k \in Items : \A c \in 0..LastCommit : On(c, k)' <=> On(c, k)
  BY <1>1, <1>2, RowTyped DEF On
<1>9. \A k \in Items : Rowed(k)' /\ Based(k)' /\ Told(k)'
  BY <1>1, <1>2, <1>5, <1>8, RowTyped DEF IInv, Rowed, Based, Told, Needs, Exists, Active, Open,
     Live, Finished
<1>10. \A k \in Items : Framed(k)' /\ Swept(k)'
  BY <1>1, <1>6 DEF Framed, Swept, Working
<1>11. Kin'
  BY <1>1, <1>5, <1>8, RowTyped, WorkspacesAssumption DEF IInv, Kin, Carried, Exists, Active,
     Open, Live
<1>12. Whole'
  <2>1. Reached' = Reached \cup {LastCommit'} /\ Reached \subseteq 0..LastCommit
    BY <1>1, <1>5, RowTyped DEF IInv, Shape, Reached
  <2>2. Whole
    BY DEF IInv
  <2>3. ASSUME NEW c \in Reached PROVE Past(c)' \subseteq commits'.kept
    BY <1>2, <1>3, <2>1, <2>2, <2>3 DEF Whole
  <2> QED
    BY <1>3, <2>1, <2>3 DEF Whole
<1>13. Admitting'
  BY <1>1, <1>4, <1>5 DEF Admitting, Exists
<1> QED
  BY <1>2, <1>7, <1>9, <1>10, <1>11, <1>12, <1>13 DEF IInv

\* A commit of the worktree of an item, or none, on the way to its candidate.
LEMMA GrowStep ==
  ASSUME IInv, NEW i \in Items, Holds("work"), Active(i), Live(i), ~Open(i),
         \A k \in Below(i) : item[k].status = "COMPLETED",
         Grows(i) \/ UNCHANGED <<commits, head>>, Goes(i, "ref"), UNCHANGED <<item, refs, known, dirs, rows, sweep, holder>>
  PROVE  IInv'
<1>1. head[i] \in 0..LastCommit /\ LastCommit \in Nat /\ head[i] \in Reached /\ Past(head[i]) \subseteq commits.kept
  BY RowTyped DEF IInv, Whole, Reached, Live
<1>2. /\ LastCommit' \in Nat /\ LastCommit <= LastCommit' /\ LastCommit' <= MaxObjects
      /\ commits' \in [past : Seq(SUBSET Nat), kept : SUBSET Nat]
      /\ commits.kept \subseteq commits'.kept /\ commits'.kept \subseteq 1..LastCommit' /\ Ancestry'
      /\ \A c \in 0..LastCommit : Past(c)' = Past(c)
      /\ head' \in [Items -> 0..LastCommit'] /\ \A k \in Items \ {i} : head'[k] = head[k]
      /\ Past(head[i]) \subseteq Past(head[i])' /\ Past(head[i])' \subseteq commits'.kept
  <2>1. CASE Grows(i)
    <3>1. LastCommit < MaxObjects /\ commits' = Add(head[i]) /\ head' = [head EXCEPT ![i] = LastCommit + 1]
      BY <2>1 DEF Grows
    <3>2. /\ LastCommit' = LastCommit + 1 /\ LastCommit' <= MaxObjects
          /\ commits' \in [past : Seq(SUBSET Nat), kept : SUBSET Nat]
          /\ commits'.kept = commits.kept \cup {LastCommit + 1} /\ commits'.kept \subseteq 1..LastCommit' /\ Ancestry'
          /\ \A c \in 0..LastCommit : Past(c)' = Past(c)
          /\ \A c \in Nat : c = LastCommit + 1 => Past(c)' = Past(head[i]) \cup {c}
      BY <1>1, <3>1, Grown DEF IInv
    <3>3. head' \in [Items -> 0..LastCommit'] /\ head'[i] = LastCommit + 1 /\ \A k \in Items \ {i} : head'[k] = head[k]
      BY <1>1, <3>1, <3>2 DEF IInv, Shape
    <3>4. Past(head[i])' = Past(head[i]) \cup {LastCommit + 1}
      BY <1>1, <3>2, <3>3
    <3> QED
      BY <1>1, <3>2, <3>3, <3>4
  <2>2. CASE UNCHANGED <<commits, head>>
    BY <1>1, <2>2 DEF IInv, Shape, Ancestry, LastCommit, Past
  <2> QED
    BY <2>1, <2>2
<1>3. frame' \in [Items -> Working \cup {"idle", "free", "remove"}] /\ frame'[i] = "ref" /\ \A k \in Items \ {i} : frame'[k] = frame[k]
  BY DEF IInv, Shape, Goes, Working
<1>4. Shape'
  <2>1. refs \in [snapshots : SUBSET (1..LastCommit'), candidate : [Items -> 0..LastCommit']]
    BY <1>1, <1>2 DEF IInv, Shape
  <2> QED
    BY <1>2, <1>3, <2>1 DEF IInv, Shape
<1>5. \A k \in Items : \A c \in 0..LastCommit : On(c, k) => On(c, k)'
  BY <1>2, RowTyped DEF On
<1>6. \A k \in Items : Rowed(k)' /\ Based(k)' /\ Told(k)' /\ Swept(k)'
  BY <1>1, <1>2, <1>5, RowTyped DEF IInv, Rowed, Based, Told, Swept, Needs, Exists, Active, Open,
     Live, Finished, Holds
<1>7. \A k \in Items : Framed(k)'
  BY <1>2, <1>3 DEF IInv, Framed, Holds, Active, Live, Open, Below, Finished
<1>8. Kin'
  BY <1>5, RowTyped, WorkspacesAssumption DEF IInv, Kin, Carried, Exists, Active, Open, Live
<1>9. Whole'
  <2>1. \A c \in Reached' : c = head'[i] \/ c \in Reached
    BY <1>2 DEF Reached
  <2>2. Reached \subseteq 0..LastCommit
    BY <1>1, RowTyped DEF IInv, Shape, Reached
  <2> QED
    BY <1>2, <2>1, <2>2 DEF IInv, Whole
<1>10. Admitting'
  BY DEF Admitting, Holds
<1> QED
  BY <1>2, <1>4, <1>6, <1>7, <1>8, <1>9, <1>10 DEF IInv

\* A candidate is committed when there is nothing left to join.
LEMMA CommitStep ==
  ASSUME IInv, NEW i \in Items, Commit(i)
  PROVE  IInv'
<1>1. Holds("work") /\ Active(i) /\ Live(i) /\ ~Open(i) /\ \A k \in Below(i) : item[k].joined
  BY DEF Commit, Ready, Runs, Stands, Waits, Active, Live
<1>2. \A k \in Below(i) : item[k].status = "COMPLETED"
  BY <1>1 DEF IInv, Rowed, Below
<1> QED
  BY <1>1, <1>2, GrowStep DEF Commit, Static

\* A join commits over results that are all there.
LEMMA JoinsStep ==
  ASSUME IInv, NEW i \in Items, Joins(i)
  PROVE  IInv'
<1>1. /\ Holds("work") /\ Active(i) /\ Live(i) /\ Goes(i, "ref") /\ (Grows(i) \/ UNCHANGED <<commits, head>>)
      /\ UNCHANGED <<item, refs, known, dirs, rows, sweep, holder>>
      /\ \E k \in Below(i) : ~item[k].joined
      /\ \A k \in Below(i) : ~item[k].joined => item[k].status = "COMPLETED"
  BY DEF Joins, Stands, Active, Live, Static
<1>2. \A k \in Below(i) : item[k].status = "COMPLETED"
  BY <1>1 DEF IInv, Rowed, Below
<1>3. ~Open(i)
  BY <1>1, WorkspacesAssumption DEF IInv, Kin, Carried, Below, Exists
<1> QED
  BY <1>1, <1>2, <1>3, GrowStep

\* A delegation inserts children on the commit their parent is at.
LEMMA SpawnStep ==
  ASSUME IInv, NEW i \in Items, Spawn(i)
  PROVE  IInv'
<1>1. UNCHANGED <<commits, refs, head, known, dirs, rows, frame, sweep, holder>>
  BY DEF Spawn, Archive, Places, Static
<1>2. LastCommit' = LastCommit /\ \A c : Past(c)' = Past(c)
  BY <1>1 DEF LastCommit, Past
<1>3. Holds("work") /\ Active(i) /\ Live(i) /\ ~Open(i) /\ frame[i] = "idle"
  BY DEF Spawn, Ready, Runs, Stands, Active, Live
<1>4. PICK K \in SUBSET {k \in Items : Above[k] = i /\ item[k].status = "none"} :
        item' = [k \in Items |-> IF k \in K THEN [NewItem EXCEPT !.status = "active", !.source = head[i]] ELSE item[k]]
  BY DEF Spawn
<1>5. [NewItem EXCEPT !.status = "active", !.source = head[i]] \in Rows
  <2>1. head[i] \in 0..MaxObjects /\ 0 \in 0..MaxObjects /\ 0 \in 0..MaxCalls
    BY RowTyped, WorkspacesAssumption DEF IInv, Shape
  <2>2. NewItem \in Rows
    BY <2>1, WorkspacesAssumption DEF NewItem, Rows
  <2> QED
    BY <2>1, <2>2 DEF Rows
<1>6. item' \in [Items -> Rows] /\ \A k \in Items \ K : item'[k] = item[k]
  BY <1>4, <1>5 DEF IInv, Shape
<1>7. \A k \in K : /\ k \in Items /\ Above[k] = i /\ k # i /\ item[k].status = "none"
                   /\ item'[k].status = "active" /\ item'[k].source = head[i] /\ item'[k].cand = 0
                   /\ item'[k].joined = FALSE /\ item'[k].calls = 0 /\ item'[k].open = FALSE
  BY <1>4, <1>3 DEF NewItem, Active
<1>8. \A k \in K : item[k].calls = 0 /\ k \notin known /\ ~Live(k) /\ frame[k] = "idle"
  <2>1. SUFFICES ASSUME NEW k \in K
                 PROVE  item[k].calls = 0 /\ k \notin known /\ ~Live(k) /\ frame[k] = "idle"
    OBVIOUS
  <2>2. k \in Items /\ ~Exists(k) /\ Rowed(k) /\ Framed(k) /\ frame[k] \in Working \cup {"idle", "free", "remove"}
    BY <1>7 DEF IInv, Exists, Shape
  <2>3. item[k] = NewItem /\ k \notin known /\ ~Live(k)
    BY <2>2 DEF Rowed
  <2> QED
    BY <2>2, <2>3 DEF NewItem, Framed, Finished
<1>9. Shape'
  BY <1>1, <1>2, <1>6 DEF IInv, Shape
<1>10. \A k \in Items : Rowed(k)'
  <2>1. \A k \in K : Rowed(k)'
    BY <1>1, <1>2, <1>7, <1>8, RowTyped, WorkspacesAssumption DEF Rowed, Exists, Open
  <2> QED
    BY <1>1, <1>2, <1>6, <2>1 DEF IInv, Rowed, Exists, Live, Open, Active
<1>11. \A k \in Items : Based(k)'
  BY <1>1, <1>2, <1>6, <1>8 DEF IInv, Based, Needs, Live, Open, On
<1>12. \A k \in Items : Framed(k)'
  <2>1. \A k \in K : Framed(k)'
    BY <1>1, <1>7, <1>8 DEF Framed, Working
  <2>2. \A k \in Items : frame[k] \in {"ref", "save"} => Below(k)' = Below(k)
    BY <1>3, <1>6, <1>7 DEF Below
  <2> QED
    BY <1>1, <1>6, <2>1, <2>2 DEF IInv, Framed, Holds, Active, Live, Open, Below, Finished
<1>13. \A k \in Items : Swept(k)'
  BY <1>1, <1>6, <1>7, <1>8 DEF IInv, Swept, Finished, Open, Holds
<1>14. \A k \in Items : Told(k)'
  BY <1>1, <1>6, <1>7, <1>8 DEF IInv, Told, Finished, Open
<1>15. Kin'
  <2>1. SUFFICES ASSUME NEW k \in Items, Above[k] # NoItem, Exists(k)' PROVE Carried(k, Above[k])'
    BY DEF Kin
  <2>2. Above[k] \in Items /\ Above[k] \notin K
    BY <1>3, <1>7, <2>1, WorkspacesAssumption
  <2>3. CASE k \in K
    <3>1. On(head[i], i)
      BY RowTyped, PastShape DEF IInv, On
    <3>2. item'[i] = item[i]
      BY <1>3, <1>6, <1>7
    <3> QED
      BY <1>1, <1>2, <1>3, <1>7, <2>3, <3>1, <3>2 DEF Carried, Exists, Active, Open, Live, On
  <2>4. CASE k \notin K
    BY <1>1, <1>2, <1>6, <2>1, <2>2, <2>4 DEF IInv, Kin, Carried, Exists, Active, Open, Live, On
  <2> QED
    BY <2>3, <2>4
<1>16. Ancestry' /\ Whole' /\ Admitting'
  BY <1>1, <1>2, <1>3 DEF IInv, Ancestry, Whole, Reached, Admitting, Holds
<1> QED
  BY <1>9, <1>10, <1>11, <1>12, <1>13, <1>14, <1>15, <1>16 DEF IInv

\* A root is inserted over its snapshot, and its command works.
LEMMA AdmitRootStep ==
  ASSUME IInv, AdmitRoot
  PROVE  IInv'
<1>1. UNCHANGED <<commits, refs, head, known, dirs, rows, frame, sweep>>
  BY DEF AdmitRoot, Archive, Places
<1>2. LastCommit' = LastCommit /\ \A c : Past(c)' = Past(c)
  BY <1>1 DEF LastCommit, Past
<1>3. /\ holder.root \in Items /\ Above[holder.root] = NoItem /\ item[holder.root] = NewItem /\ LastCommit \in refs.snapshots
      /\ Holds("admit") /\ holder' = [holder EXCEPT !.name = "work"] /\ holder'.name = "work" /\ holder' \in [name : Holders, root : Items \cup {NoItem}]
  BY DEF AdmitRoot, IInv, Shape, Admitting, Rowed, Roots, Holders
<1>4. [NewItem EXCEPT !.status = "active", !.source = LastCommit] \in Rows
  <2>1. LastCommit \in 0..MaxObjects /\ 0 \in 0..MaxObjects /\ 0 \in 0..MaxCalls
    BY RowTyped, WorkspacesAssumption DEF IInv, Shape
  <2>2. NewItem \in Rows
    BY <2>1 DEF NewItem, Rows
  <2> QED
    BY <2>1, <2>2 DEF Rows
<1>5. item' = [item EXCEPT ![holder.root] = [NewItem EXCEPT !.status = "active", !.source = LastCommit]]
  BY DEF AdmitRoot, Row
<1>6. Shape'
  BY <1>1, <1>2, <1>3, <1>4, <1>5 DEF IInv, Shape
<1>7. \A k \in Items : Rowed(k)'
  <2>1. SUFFICES ASSUME NEW k \in Items PROVE Rowed(k)'
    OBVIOUS
  <2>2. Rowed(k) /\ Framed(k)
    BY DEF IInv
  <2>3. item[k].calls \in 0..MaxCalls /\ item[k].source \in 0..LastCommit /\ item[k].cand \in 0..LastCommit /\ LastCommit \in Nat
      /\ head[k] \in 0..LastCommit
    BY RowTyped
  <2>4. CASE k = holder.root
    BY <1>1, <1>2, <1>3, <1>5, <2>2, <2>3 DEF Rowed, Exists, Active, Open, Live, NewItem
  <2>5. CASE k # holder.root
    BY <1>1, <1>2, <1>3, <1>5, <2>2, <2>3 DEF Rowed, Exists, Active, Open, Live, NewItem
  <2> QED
    BY <2>4, <2>5
<1>8. \A k \in Items : Based(k)'
  <2>1. SUFFICES ASSUME NEW k \in Items PROVE Based(k)'
    OBVIOUS
  <2>2. Based(k) /\ Rowed(k) /\ Framed(k)
    BY DEF IInv
  <2>3. CASE k = holder.root
    BY <1>1, <1>2, <1>3, <1>5, <2>2 DEF Based, Needs, Open, Live, On, Rowed, NewItem, Exists
  <2>4. CASE k # holder.root
    BY <1>1, <1>2, <1>3, <1>5, <2>2 DEF Based, Needs, Open, Live, On, Rowed, NewItem, Exists
  <2> QED
    BY <2>3, <2>4
<1>9. \A k \in Items : Framed(k)'
  BY <1>1, <1>3 DEF IInv, Framed, Working, Holds
<1>10. \A k \in Items : Swept(k)'
  BY <1>1, <1>3 DEF IInv, Swept, Holds
<1>11. \A k \in Items : Told(k)'
  <2>1. SUFFICES ASSUME NEW k \in Items PROVE Told(k)'
    OBVIOUS
  <2>2. Told(k) /\ Rowed(k) /\ Framed(k)
    BY DEF IInv
  <2>3. CASE k = holder.root
    BY <1>1, <1>3, <1>5, <2>2 DEF Told, Finished, Open, NewItem
  <2>4. CASE k # holder.root
    BY <1>1, <1>3, <1>5, <2>2 DEF Told, Finished, Open, NewItem
  <2> QED
    BY <2>3, <2>4
<1>12. Kin'
  <2>1. SUFFICES ASSUME NEW k \in Items, Above[k] # NoItem, Exists(k)' PROVE Carried(k, Above[k])'
    BY DEF Kin
  <2>2. PICK p \in Items : p = Above[k] /\ p # k /\ Above[p] = NoItem
    BY <2>1, WorkspacesAssumption
  <2>3. /\ (Exists(k) => Carried(k, p)) /\ Rowed(k) /\ Rowed(p) /\ Framed(k) /\ Framed(p)
        /\ item[k].source \in 0..LastCommit /\ LastCommit \in Nat
    BY <2>1, <2>2, RowTyped DEF IInv, Kin
  <2>4. Carried(k, p)'
    BY <1>1, <1>2, <1>3, <1>5, <2>1, <2>3 DEF Carried, Exists, Active, Open, Live, On, NewItem
  <2> QED
    BY <2>2, <2>4
<1>13. Admitting'
  BY <1>3 DEF Admitting, Holds
<1>14. Ancestry' /\ Whole'
  BY <1>1, <1>2 DEF IInv, Ancestry, Whole, Reached
<1> QED
  BY <1>6, <1>7, <1>8, <1>9, <1>10, <1>11, <1>12, <1>13, <1>14 DEF IInv

\* An interrupted operation is settled while nobody works.
LEMMA SettlesStep ==
  ASSUME IInv, NEW i \in Items, Settles(i)
  PROVE  IInv'
<1>1. UNCHANGED <<commits, refs, head, known, dirs, rows, frame, sweep, holder>>
  BY DEF Settles, Archive, Places, Static
<1>2. LastCommit' = LastCommit /\ \A c : Past(c)' = Past(c)
  BY <1>1 DEF LastCommit, Past
<1>3. item[i] \in Rows /\ Open(i) /\ Exists(i) /\ Unheld
  BY DEF Settles, IInv, Shape, Rowed
<1>4. [item[i] EXCEPT !.open = FALSE, !.settled = TRUE] \in Rows
  BY <1>3 DEF Rows
<1>5. /\ item' \in [Items -> Rows] /\ \A k \in Items \ {i} : item'[k] = item[k]
      /\ item'[i].status = item[i].status /\ item'[i].source = item[i].source
      /\ item'[i].cand = item[i].cand /\ item'[i].joined = item[i].joined
      /\ item'[i].calls = item[i].calls
      /\ ~item'[i].open
  BY <1>3, <1>4 DEF Settles, Row, IInv, Shape
<1>6. Shape'
  BY <1>1, <1>2, <1>5 DEF IInv, Shape
<1>7. \A k \in Items : Rowed(k)'
  BY <1>1, <1>2, <1>3, <1>5 DEF IInv, Rowed, Exists, Active, Open, Live
<1>8. \A k \in Items : Based(k)'
  BY <1>1, <1>2, <1>5 DEF IInv, Based, Needs, Open, Live, On
<1>9. \A k \in Items : Framed(k)'
  <2>1. SUFFICES ASSUME NEW k \in Items PROVE Framed(k)'
    OBVIOUS
  <2>2. Framed(k) /\ Rowed(k)
    BY DEF IInv
  <2>3. CASE k = i
    BY <1>1, <1>3, <2>2 DEF Framed, Working, Holds, Unheld
  <2>4. CASE k # i
    BY <1>1, <1>3, <2>2 DEF Framed, Working, Holds, Unheld
  <2> QED
    BY <2>3, <2>4
<1>10. \A k \in Items : Swept(k)'
  BY <1>1, <1>5 DEF IInv, Swept, Finished, Open, Holds
<1>11. \A k \in Items : Told(k)'
  BY <1>1, <1>5 DEF IInv, Told, Finished, Open
<1>12. Kin'
  <2>1. SUFFICES ASSUME NEW k \in Items, Above[k] # NoItem, Exists(k)' PROVE Carried(k, Above[k])'
    BY DEF Kin
  <2>2. PICK p \in Items : p = Above[k] /\ p # k /\ Above[p] = NoItem
    BY <2>1, WorkspacesAssumption
  <2>3. /\ (Exists(k) => Carried(k, p)) /\ Rowed(k) /\ Rowed(p) /\ Framed(k) /\ Framed(p)
        /\ item[k].source \in 0..LastCommit /\ LastCommit \in Nat
    BY <2>1, <2>2, RowTyped DEF IInv, Kin
  <2>4. Carried(k, p)'
    BY <1>1, <1>2, <1>5, <2>1, <2>3 DEF Carried, Exists, Active, Open, Live, On
  <2> QED
    BY <2>2, <2>4
<1>13. Admitting'
  BY <1>1, <1>3 DEF Admitting, Holds, Unheld
<1>14. Ancestry' /\ Whole'
  BY <1>1, <1>2 DEF IInv, Ancestry, Whole, Reached
<1> QED
  BY <1>6, <1>7, <1>8, <1>9, <1>10, <1>11, <1>12, <1>13, <1>14 DEF IInv

\* The youngest first: what is cancelled has no unfinished work below it.
LEMMA CancelItemStep ==
  ASSUME IInv, NEW i \in Items, CancelItem(i)
  PROVE  IInv'
<1>1. UNCHANGED <<commits, refs, head, known, dirs, rows, sweep, holder>>
  BY DEF CancelItem, Archive, Places, Static
<1>2. LastCommit' = LastCommit /\ \A c : Past(c)' = Past(c)
  BY <1>1 DEF LastCommit, Past
<1>3. /\ item[i] \in Rows /\ Holds("cancel") /\ Active(i) /\ \A k \in Items : frame[k] = "idle"
      /\ \A k \in Items : Above[k] = i /\ Exists(k) => ~Active(k)
  BY DEF CancelItem, IInv, Shape, Active, Below, Finished
<1>4. [item[i] EXCEPT !.status = "CANCELLED"] \in Rows
  BY <1>3 DEF Rows
<1>5. /\ item' \in [Items -> Rows] /\ \A k \in Items \ {i} : item'[k] = item[k]
      /\ item'[i].source = item[i].source /\ item'[i].cand = item[i].cand
      /\ item'[i].joined = item[i].joined /\ item'[i].calls = item[i].calls
      /\ item'[i].open = item[i].open
      /\ item'[i].status = "CANCELLED"
  BY <1>3, <1>4 DEF CancelItem, Row, IInv, Shape
<1>6. /\ frame' \in [Items -> Working \cup {"idle", "free", "remove"}]
      /\ frame'[i] = "free" /\ \A k \in Items \ {i} : frame'[k] = frame[k]
  BY DEF CancelItem, Goes, IInv, Shape
<1>7. Shape'
  BY <1>1, <1>2, <1>5, <1>6 DEF IInv, Shape
<1>8. \A k \in Items : Rowed(k)'
  BY <1>1, <1>2, <1>3, <1>5 DEF IInv, Rowed, Exists, Active, Open, Live
<1>9. \A k \in Items : Based(k)'
  BY <1>1, <1>2, <1>5 DEF IInv, Based, Needs, Open, Live, On
<1>10. \A k \in Items : Framed(k)'
  BY <1>1, <1>3, <1>5, <1>6 DEF Framed, Working, Holds, Finished
<1>11. \A k \in Items : Swept(k)'
  BY <1>1, <1>5 DEF IInv, Swept, Finished, Open, Holds
<1>12. \A k \in Items : Told(k)'
  BY <1>1, <1>5 DEF IInv, Told, Finished, Open
<1>13. Kin'
  <2>1. SUFFICES ASSUME NEW k \in Items, Above[k] # NoItem, Exists(k)' PROVE Carried(k, Above[k])'
    BY DEF Kin
  <2>2. PICK p \in Items : p = Above[k] /\ p # k /\ Above[p] = NoItem
    BY <2>1, WorkspacesAssumption
  <2>3. /\ (Exists(k) => Carried(k, p)) /\ Rowed(k) /\ Rowed(p) /\ Framed(k) /\ Framed(p)
        /\ item[k].source \in 0..LastCommit /\ LastCommit \in Nat
    BY <2>1, <2>2, RowTyped DEF IInv, Kin
  <2>4. Carried(k, p)'
    BY <1>1, <1>2, <1>3, <1>5, <2>1, <2>2, <2>3 DEF Carried, Exists, Active, Open, Live, On
  <2> QED
    BY <2>2, <2>4
<1>14. Admitting'
  BY <1>1, <1>3 DEF Admitting, Holds
<1>15. Ancestry' /\ Whole'
  BY <1>1, <1>2 DEF IInv, Ancestry, Whole, Reached
<1> QED
  BY <1>7, <1>8, <1>9, <1>10, <1>11, <1>12, <1>13, <1>14, <1>15 DEF IInv

\* The rows of a cancelled item are released.
LEMMA CancelFreesStep ==
  ASSUME IInv, NEW i \in Items, CancelFrees(i)
  PROVE  IInv'
<1>1. UNCHANGED <<item, commits, refs, head, known, dirs, sweep, holder>>
  BY DEF CancelFrees, Archive, Static
<1>2. LastCommit' = LastCommit /\ \A c : Past(c)' = Past(c)
  BY <1>1 DEF LastCommit, Past
<1>3. Finished(i) /\ Holds("cancel")
  BY DEF CancelFrees, IInv, Framed
<1>4. /\ rows' \in [Resources -> {"none", "LIVE", "RELEASED", "DELETING", "DELETED"}]
      /\ \A r \in Resources : rows'[r] = rows[r] \/ (rows[r] # "none" /\ r[2] = i /\ rows'[r] = "RELEASED")
  BY DEF CancelFrees, Released, IInv, Shape
<1>5. /\ \A k \in Items \ {i} : rows'[Tree(k)] = rows[Tree(k)] /\ \A n \in 1..MaxCalls : rows'[Scratch(k, n)] = rows[Scratch(k, n)]
      /\ \A n \in 1..MaxCalls : rows'[Scratch(i, n)] # "none" => rows[Scratch(i, n)] # "none"
  BY <1>4, ResourceNames
<1>6. /\ frame' \in [Items -> Working \cup {"idle", "free", "remove"}]
      /\ frame'[i] = "idle" /\ \A k \in Items \ {i} : frame'[k] = frame[k]
  BY DEF CancelFrees, Goes, IInv, Shape
<1>7. Shape'
  BY <1>1, <1>2, <1>4, <1>6 DEF IInv, Shape
<1>8. \A k \in Items : Framed(k)'
  BY <1>1, <1>6 DEF IInv, Framed, Working, Holds, Active, Open, Live, Below, Finished
<1>9. \A k \in Items : Told(k)'
  <2>1. SUFFICES ASSUME NEW k \in Items PROVE Told(k)'
    OBVIOUS
  <2>2. Told(k) /\ Rowed(k) /\ Framed(k)
    BY DEF IInv
  <2>3. item[k].calls \in 0..MaxCalls /\ item[k].source \in 0..LastCommit /\ item[k].cand \in 0..LastCommit /\ LastCommit \in Nat
      /\ head[k] \in 0..LastCommit
    BY RowTyped
  <2>4. CASE k = i
    BY <1>1, <1>3, <1>5, <2>2, <2>3 DEF Told, Finished, Open, Rowed
  <2>5. CASE k # i
    BY <1>1, <1>3, <1>5, <2>2, <2>3 DEF Told, Finished, Open, Rowed
  <2> QED
    BY <2>4, <2>5
<1>10. \A k \in Items : Rowed(k)' /\ Based(k)' /\ Swept(k)'
  BY <1>1, <1>2 DEF IInv, Rowed, Exists, Active, Open, Live, Based, Needs, On, Swept, Finished,
     Holds
<1>11. Ancestry' /\ Whole' /\ Kin' /\ Admitting'
  BY <1>1, <1>2 DEF IInv, Ancestry, Whole, Reached, Live, Kin, Carried, Exists, Active, Open, On,
     Admitting, Holds
<1> QED
  BY <1>7, <1>8, <1>9, <1>10, <1>11 DEF IInv

\* The rows of a completed item are released.
LEMMA FreesStep ==
  ASSUME IInv, NEW i \in Items, Frees(i)
  PROVE  IInv'
<1>1. UNCHANGED <<item, commits, refs, head, known, dirs, sweep, holder>>
  BY DEF Frees, Archive, Static
<1>2. LastCommit' = LastCommit /\ \A c : Past(c)' = Past(c)
  BY <1>1 DEF LastCommit, Past
<1>3. item[i].status = "COMPLETED" /\ Holds("work")
  BY DEF Frees, Runs, Stands, IInv, Framed
<1>4. /\ rows' \in [Resources -> {"none", "LIVE", "RELEASED", "DELETING", "DELETED"}]
      /\ \A r \in Resources : rows'[r] = rows[r] \/ (rows[r] # "none" /\ r[2] = i /\ rows'[r] = "RELEASED")
  BY DEF Frees, Released, IInv, Shape
<1>5. /\ \A k \in Items \ {i} : rows'[Tree(k)] = rows[Tree(k)] /\ \A n \in 1..MaxCalls : rows'[Scratch(k, n)] = rows[Scratch(k, n)]
      /\ \A n \in 1..MaxCalls : rows'[Scratch(i, n)] # "none" => rows[Scratch(i, n)] # "none"
  BY <1>4, ResourceNames
<1>6. /\ frame' \in [Items -> Working \cup {"idle", "free", "remove"}]
      /\ frame'[i] = "remove" /\ \A k \in Items \ {i} : frame'[k] = frame[k]
  BY DEF Frees, Goes, IInv, Shape
<1>7. Shape'
  BY <1>1, <1>2, <1>4, <1>6 DEF IInv, Shape
<1>8. \A k \in Items : Framed(k)'
  BY <1>1, <1>3, <1>6 DEF IInv, Framed, Working, Holds, Active, Open, Live, Below, Finished
<1>9. \A k \in Items : Told(k)'
  <2>1. SUFFICES ASSUME NEW k \in Items PROVE Told(k)'
    OBVIOUS
  <2>2. Told(k) /\ Rowed(k) /\ Framed(k)
    BY DEF IInv
  <2>3. item[k].calls \in 0..MaxCalls /\ item[k].source \in 0..LastCommit /\ item[k].cand \in 0..LastCommit /\ LastCommit \in Nat
      /\ head[k] \in 0..LastCommit
    BY RowTyped
  <2>4. CASE k = i
    BY <1>1, <1>3, <1>5, <2>2, <2>3 DEF Told, Finished, Open, Rowed
  <2>5. CASE k # i
    BY <1>1, <1>3, <1>5, <2>2, <2>3 DEF Told, Finished, Open, Rowed
  <2> QED
    BY <2>4, <2>5
<1>10. \A k \in Items : Rowed(k)' /\ Based(k)' /\ Swept(k)'
  BY <1>1, <1>2 DEF IInv, Rowed, Exists, Active, Open, Live, Based, Needs, On, Swept, Finished,
     Holds
<1>11. Ancestry' /\ Whole' /\ Kin' /\ Admitting'
  BY <1>1, <1>2 DEF IInv, Ancestry, Whole, Reached, Live, Kin, Carried, Exists, Active, Open, On,
     Admitting, Holds
<1> QED
  BY <1>7, <1>8, <1>9, <1>10, <1>11 DEF IInv

\* A worktree is added at a commit that is there with all its past.
LEMMA AddTreeStep ==
  ASSUME IInv, NEW i \in Items, AddTree(i)
  PROVE  IInv'
<1>1. UNCHANGED <<item, commits, refs, known, rows, sweep, holder>>
  BY DEF AddTree, Archive, Static
<1>2. LastCommit' = LastCommit /\ \A c : Past(c)' = Past(c)
  BY <1>1 DEF LastCommit, Past
<1>3. Holds("work") /\ Active(i) /\ ~Live(i) /\ item[i].cand = 0 /\ head' = [head EXCEPT ![i] = item[i].source] /\ Present(item[i].source)
  BY DEF AddTree, Runs, Stands, Start, IInv, Rowed, Active, Live
<1>4. /\ dirs' = dirs \cup {Tree(i)} /\ Tree(i) \in Resources /\ Live(i)'
      /\ \A k \in Items \ {i} : Live(k)' <=> Live(k)
  BY ResourceNames DEF AddTree, Live
<1>5. head' \in [Items -> 0..LastCommit] /\ head'[i] = item[i].source /\ \A k \in Items \ {i} : head'[k] = head[k]
  BY <1>3, RowTyped DEF IInv, Shape
<1>6. item[i].source = 0 \/ item[i].source \in Past(item[i].source)
  BY RowTyped, PastShape DEF IInv
<1>7. /\ frame' \in [Items -> Working \cup {"idle", "free", "remove"}]
      /\ frame'[i] = "record" /\ \A k \in Items \ {i} : frame'[k] = frame[k]
  BY DEF AddTree, Goes, IInv, Shape, Working
<1>8. Shape'
  BY <1>1, <1>2, <1>4, <1>5, <1>7 DEF IInv, Shape
<1>9. \A k \in Items : Rowed(k)'
  BY <1>1, <1>2, <1>3, <1>4 DEF IInv, Rowed, Exists, Active, Open
<1>10. \A k \in Items : Based(k)'
  BY <1>1, <1>2, <1>3, <1>4, <1>5, <1>6 DEF IInv, Based, Needs, Open, On
<1>11. \A k \in Items : Framed(k)'
  BY <1>1, <1>3, <1>4, <1>7 DEF IInv, Framed, Holds, Active, Open, Below, Finished
<1>12. \A k \in Items : Told(k)'
  BY <1>1, <1>4 DEF IInv, Told, Finished, Open
<1>13. \A k \in Items : Swept(k)'
  BY <1>1, <1>2 DEF IInv, Swept, Finished, Open, Holds
<1>14. Kin'
  <2>1. SUFFICES ASSUME NEW k \in Items, Above[k] # NoItem, Exists(k)' PROVE Carried(k, Above[k])'
    BY DEF Kin
  <2>2. PICK p \in Items : p = Above[k] /\ p # k /\ Above[p] = NoItem
    BY <2>1, WorkspacesAssumption
  <2>3. /\ (Exists(k) => Carried(k, p)) /\ Rowed(k) /\ Rowed(p) /\ Framed(k) /\ Framed(p)
        /\ item[k].source \in 0..LastCommit /\ LastCommit \in Nat
    BY <2>1, <2>2, RowTyped DEF IInv, Kin
  <2>4. Carried(k, p)'
    BY <1>1, <1>2, <1>3, <1>4, <2>1, <2>3 DEF Carried, Exists, Active, Open, On
  <2> QED
    BY <2>2, <2>4
<1>15. Whole'
  <2>1. Reached' \subseteq Reached \cup {item[i].source}
    BY <1>1, <1>4, <1>5 DEF Reached, Live
  <2>2. \A c \in Reached \cup {item[i].source} : Past(c) \subseteq commits.kept
    BY <1>3 DEF IInv, Whole, Present
  <2> QED
    BY <1>1, <1>2, <2>1, <2>2 DEF Whole
<1>16. Ancestry' /\ Admitting'
  BY <1>1, <1>2 DEF IInv, Ancestry, Admitting, Holds, Exists
<1> QED
  BY <1>8, <1>9, <1>10, <1>11, <1>12, <1>13, <1>14, <1>15, <1>16 DEF IInv

\* A worktree is recorded after it exists.
LEMMA RecordTreeStep ==
  ASSUME IInv, NEW i \in Items, RecordTree(i)
  PROVE  IInv'
<1>1. UNCHANGED <<item, commits, refs, head, dirs, rows, sweep, holder>>
  BY DEF RecordTree, Archive, Static
<1>2. LastCommit' = LastCommit /\ \A c : Past(c)' = Past(c)
  BY <1>1 DEF LastCommit, Past
<1>3. Holds("work") /\ Active(i) /\ Live(i) /\ known' = known \cup {i}
  BY DEF RecordTree, Runs, Stands, IInv, Framed, Working
<1>4. /\ frame' \in [Items -> Working \cup {"idle", "free", "remove"}]
      /\ frame'[i] = "register" /\ \A k \in Items \ {i} : frame'[k] = frame[k]
  BY DEF RecordTree, Goes, IInv, Shape, Working
<1>5. Shape'
  BY <1>1, <1>2, <1>3, <1>4 DEF IInv, Shape
<1>6. \A k \in Items : Rowed(k)'
  BY <1>1, <1>2, <1>3, <1>4 DEF IInv, Rowed, Exists, Active, Open, Live
<1>7. \A k \in Items : Framed(k)'
  BY <1>1, <1>2, <1>3, <1>4 DEF IInv, Framed, Holds, Active, Open, Live, Below, Finished
<1>8. \A k \in Items : Based(k)' /\ Swept(k)' /\ Told(k)'
  BY <1>1, <1>2 DEF IInv, Based, Needs, Open, Live, On, Swept, Finished, Holds, Told
<1>9. Ancestry' /\ Whole' /\ Kin' /\ Admitting'
  BY <1>1, <1>2 DEF IInv, Ancestry, Whole, Reached, Live, Kin, Carried, Exists, Active, Open, On,
     Admitting, Holds
<1> QED
  BY <1>5, <1>6, <1>7, <1>8, <1>9 DEF IInv

\* A worktree is registered while its item is at work.
LEMMA RegisterTreeStep ==
  ASSUME IInv, NEW i \in Items, RegisterTree(i)
  PROVE  IInv'
<1>1. UNCHANGED <<item, commits, refs, head, known, dirs, sweep, holder>>
  BY DEF RegisterTree, Archive, Static
<1>2. LastCommit' = LastCommit /\ \A c : Past(c)' = Past(c)
  BY <1>1 DEF LastCommit, Past
<1>3. /\ rows' \in [Resources -> {"none", "LIVE", "RELEASED", "DELETING", "DELETED"}]
      /\ \A r \in Resources : rows'[r] = rows[r] \/ (r = Tree(i) /\ rows'[r] = "LIVE")
  BY DEF RegisterTree, IInv, Shape
<1>4. /\ frame' \in [Items -> Working \cup {"idle", "free", "remove"}]
      /\ frame'[i] = "idle" /\ \A k \in Items \ {i} : frame'[k] = frame[k]
  BY DEF RegisterTree, Goes, IInv, Shape
<1>5. Shape'
  BY <1>1, <1>2, <1>3, <1>4 DEF IInv, Shape
<1>6. \A k \in Items : Framed(k)'
  BY <1>1, <1>4 DEF IInv, Framed, Working, Holds, Active, Open, Live, Below, Finished
<1>7. \A k \in Items : Told(k)'
  <2>1. SUFFICES ASSUME NEW k \in Items PROVE Told(k)'
    OBVIOUS
  <2>2. Told(k) /\ Rowed(k) /\ Framed(k)
    BY DEF IInv
  <2>3. item[k].calls \in 0..MaxCalls /\ item[k].source \in 0..LastCommit /\ item[k].cand \in 0..LastCommit /\ LastCommit \in Nat
      /\ head[k] \in 0..LastCommit
    BY RowTyped
  <2>4. CASE k = i
    BY <1>1, <1>3, <2>2, <2>3, ResourceNames DEF Told, Finished, Open, Rowed
  <2>5. CASE k # i
    BY <1>1, <1>3, <2>2, <2>3, ResourceNames DEF Told, Finished, Open, Rowed
  <2> QED
    BY <2>4, <2>5
<1>8. \A k \in Items : Rowed(k)' /\ Based(k)' /\ Swept(k)'
  BY <1>1, <1>2 DEF IInv, Rowed, Exists, Active, Open, Live, Based, Needs, On, Swept, Finished,
     Holds
<1>9. Ancestry' /\ Whole' /\ Kin' /\ Admitting'
  BY <1>1, <1>2 DEF IInv, Ancestry, Whole, Reached, Live, Kin, Carried, Exists, Active, Open, On,
     Admitting, Holds
<1> QED
  BY <1>5, <1>6, <1>7, <1>8, <1>9 DEF IInv

\* An operation is opened in an item with a worktree and nothing left to join.
LEMMA ReserveStep ==
  ASSUME IInv, NEW i \in Items, Reserve(i)
  PROVE  IInv'
<1>1. UNCHANGED <<commits, refs, head, known, dirs, rows, sweep, holder>>
  BY DEF Reserve, Archive, Places, Static
<1>2. LastCommit' = LastCommit /\ \A c : Past(c)' = Past(c)
  BY <1>1 DEF LastCommit, Past
<1>3. /\ item[i] \in Rows /\ Holds("work") /\ frame[i] = "idle" /\ Active(i) /\ Live(i) /\ ~Open(i) /\ item[i].calls < MaxCalls
      /\ \A k \in Items : Above[k] = i /\ Exists(k) => item[k].joined
  BY DEF Reserve, Ready, Runs, Stands, Waits, Below, Active, Live, Exists, IInv, Shape
<1>4. item[i].calls + 1 \in 1..MaxCalls /\ item[i].calls + 1 \in 0..MaxCalls /\ item[i].calls \in Nat
  BY <1>3, RowTyped, WorkspacesAssumption
<1>5. [item[i] EXCEPT !.open = TRUE, !.calls = @ + 1] \in Rows
  BY <1>3, <1>4 DEF Rows
<1>6. /\ item' \in [Items -> Rows] /\ \A k \in Items \ {i} : item'[k] = item[k]
      /\ item'[i].status = item[i].status /\ item'[i].source = item[i].source
      /\ item'[i].cand = item[i].cand /\ item'[i].joined = item[i].joined
      /\ item'[i].open /\ item'[i].calls = item[i].calls + 1
  BY <1>3, <1>5 DEF Reserve, Row, IInv, Shape
<1>7. /\ frame' \in [Items -> Working \cup {"idle", "free", "remove"}]
      /\ frame'[i] = "scratch" /\ \A k \in Items \ {i} : frame'[k] = frame[k]
  BY DEF Reserve, Goes, IInv, Shape, Working
<1>8. Shape'
  BY <1>1, <1>2, <1>6, <1>7 DEF IInv, Shape
<1>9. \A k \in Items : Rowed(k)'
  BY <1>1, <1>2, <1>3, <1>4, <1>6 DEF IInv, Rowed, Exists, Active, Open, Live
<1>10. \A k \in Items : Based(k)'
  BY <1>1, <1>2, <1>3, <1>6 DEF IInv, Based, Needs, Active, Open, Live, On
<1>11. \A k \in Items : Framed(k)'
  BY <1>1, <1>3, <1>6, <1>7 DEF IInv, Framed, Holds, Active, Open, Live, Below, Finished
<1>12. \A k \in Items : Swept(k)'
  BY <1>1, <1>3, <1>4, <1>6 DEF IInv, Swept, Finished, Open, Holds, Active
<1>13. \A k \in Items : Told(k)'
  BY <1>1, <1>4, <1>6 DEF IInv, Told, Finished, Open
<1>14. Kin'
  <2>1. SUFFICES ASSUME NEW k \in Items, Above[k] # NoItem, Exists(k)' PROVE Carried(k, Above[k])'
    BY DEF Kin
  <2>2. PICK p \in Items : p = Above[k] /\ p # k /\ Above[p] = NoItem
    BY <2>1, WorkspacesAssumption
  <2>3. /\ (Exists(k) => Carried(k, p)) /\ Rowed(k) /\ Rowed(p) /\ Framed(k) /\ Framed(p)
        /\ item[k].source \in 0..LastCommit /\ LastCommit \in Nat
    BY <2>1, <2>2, RowTyped DEF IInv, Kin
  <2>4. Carried(k, p)'
    BY <1>1, <1>2, <1>3, <1>6, <2>1, <2>2, <2>3 DEF Carried, Exists, Active, Open, Live, On
  <2> QED
    BY <2>2, <2>4
<1>15. Admitting'
  BY <1>1, <1>3 DEF Admitting, Holds
<1>16. Ancestry' /\ Whole'
  BY <1>1, <1>2 DEF IInv, Ancestry, Whole, Reached
<1> QED
  BY <1>8, <1>9, <1>10, <1>11, <1>12, <1>13, <1>14, <1>15, <1>16 DEF IInv

\* A scratch directory is made for the operation that is open.
LEMMA MakeScratchStep ==
  ASSUME IInv, NEW i \in Items, MakeScratch(i)
  PROVE  IInv'
<1>1. UNCHANGED <<item, commits, refs, head, known, rows, sweep, holder>>
  BY DEF MakeScratch, Archive, Static
<1>2. LastCommit' = LastCommit /\ \A c : Past(c)' = Past(c)
  BY <1>1 DEF LastCommit, Past
<1>3. Holds("work") /\ frame[i] = "scratch" /\ Active(i) /\ Live(i) /\ Open(i) /\ item[i].calls \in 1..MaxCalls
  BY RowTyped, WorkspacesAssumption DEF MakeScratch, Runs, Stands, IInv, Framed, Rowed, Working
<1>4. /\ dirs' = dirs \cup {Scratch(i, item[i].calls)} /\ Scratch(i, item[i].calls) \in Resources
      /\ \A k \in Items : Live(k)' <=> Live(k)
  BY <1>3, ResourceNames, WorkspacesAssumption DEF MakeScratch, Live
<1>5. /\ frame' \in [Items -> Working \cup {"idle", "free", "remove"}]
      /\ frame'[i] = "lease" /\ \A k \in Items \ {i} : frame'[k] = frame[k]
  BY DEF MakeScratch, Goes, IInv, Shape, Working
<1>6. Shape'
  BY <1>1, <1>2, <1>4, <1>5 DEF IInv, Shape
<1>7. \A k \in Items : Rowed(k)'
  BY <1>1, <1>2, <1>4 DEF IInv, Rowed, Exists, Active, Open
<1>8. \A k \in Items : Based(k)'
  BY <1>1, <1>2, <1>4 DEF IInv, Based, Needs, Open, On
<1>9. \A k \in Items : Framed(k)'
  BY <1>1, <1>3, <1>4, <1>5 DEF IInv, Framed, Holds, Active, Open, Below, Finished
<1>10. \A k \in Items : Told(k)'
  BY <1>1, <1>4 DEF IInv, Told, Finished, Open
<1>11. \A k \in Items : Swept(k)'
  BY <1>1, <1>2 DEF IInv, Swept, Finished, Open, Holds
<1>12. Kin'
  <2>1. SUFFICES ASSUME NEW k \in Items, Above[k] # NoItem, Exists(k)' PROVE Carried(k, Above[k])'
    BY DEF Kin
  <2>2. PICK p \in Items : p = Above[k] /\ p # k /\ Above[p] = NoItem
    BY <2>1, WorkspacesAssumption
  <2>3. /\ (Exists(k) => Carried(k, p)) /\ Rowed(k) /\ Rowed(p) /\ Framed(k) /\ Framed(p)
        /\ item[k].source \in 0..LastCommit /\ LastCommit \in Nat
    BY <2>1, <2>2, RowTyped DEF IInv, Kin
  <2>4. Carried(k, p)'
    BY <1>1, <1>2, <1>4, <2>1, <2>3 DEF Carried, Exists, Active, Open, On
  <2> QED
    BY <2>2, <2>4
<1>13. Whole'
  <2>1. Reached' \subseteq Reached
    BY <1>1, <1>3, <1>4, <1>5 DEF Reached, Live
  <2> QED
    BY <1>1, <1>2, <2>1 DEF IInv, Whole
<1>14. Ancestry' /\ Admitting'
  BY <1>1, <1>2 DEF IInv, Ancestry, Admitting, Holds, Exists
<1> QED
  BY <1>6, <1>7, <1>8, <1>9, <1>10, <1>11, <1>12, <1>13, <1>14 DEF IInv

\* A scratch directory is registered after it exists.
LEMMA RegisterScratchStep ==
  ASSUME IInv, NEW i \in Items, RegisterScratch(i)
  PROVE  IInv'
<1>1. UNCHANGED <<item, commits, refs, head, known, dirs, sweep, holder>>
  BY DEF RegisterScratch, Archive, Static
<1>2. LastCommit' = LastCommit /\ \A c : Past(c)' = Past(c)
  BY <1>1 DEF LastCommit, Past
<1>3. /\ Holds("work") /\ frame[i] = "lease" /\ Active(i) /\ Live(i) /\ Open(i) /\ item[i].calls \in 1..MaxCalls
      /\ Scratch(i, item[i].calls) \in dirs
  BY RowTyped, WorkspacesAssumption DEF RegisterScratch, Runs, Stands, IInv, Framed, Rowed, Working
<1>4. /\ rows' \in [Resources -> {"none", "LIVE", "RELEASED", "DELETING", "DELETED"}]
      /\ \A r \in Resources : rows'[r] = rows[r] \/ (r = Scratch(i, item[i].calls) /\ rows'[r] = "LIVE")
  BY DEF RegisterScratch, IInv, Shape
<1>5. /\ frame' \in [Items -> Working \cup {"idle", "free", "remove"}]
      /\ frame'[i] = "call" /\ \A k \in Items \ {i} : frame'[k] = frame[k]
  BY DEF RegisterScratch, Goes, IInv, Shape, Working
<1>6. Shape'
  BY <1>1, <1>2, <1>4, <1>5 DEF IInv, Shape
<1>7. \A k \in Items : Framed(k)'
  BY <1>1, <1>3, <1>5 DEF IInv, Framed, Holds, Active, Open, Live, Below, Finished
<1>8. \A k \in Items : Told(k)'
  <2>1. SUFFICES ASSUME NEW k \in Items PROVE Told(k)'
    OBVIOUS
  <2>2. Told(k) /\ Rowed(k) /\ Framed(k)
    BY DEF IInv
  <2>3. item[k].calls \in 0..MaxCalls /\ item[k].source \in 0..LastCommit /\ item[k].cand \in 0..LastCommit /\ LastCommit \in Nat
      /\ head[k] \in 0..LastCommit
    BY RowTyped
  <2>4. CASE k = i
    BY <1>1, <1>3, <1>4, <2>2, <2>3, ResourceNames DEF Told, Finished, Open, Rowed
  <2>5. CASE k # i
    BY <1>1, <1>3, <1>4, <2>2, <2>3, ResourceNames DEF Told, Finished, Open, Rowed
  <2> QED
    BY <2>4, <2>5
<1>9. \A k \in Items : Rowed(k)' /\ Based(k)' /\ Swept(k)'
  BY <1>1, <1>2 DEF IInv, Rowed, Exists, Active, Open, Live, Based, Needs, On, Swept, Finished,
     Holds
<1>10. Ancestry' /\ Whole' /\ Kin' /\ Admitting'
  BY <1>1, <1>2 DEF IInv, Ancestry, Whole, Reached, Live, Kin, Carried, Exists, Active, Open, On,
     Admitting, Holds
<1> QED
  BY <1>6, <1>7, <1>8, <1>9, <1>10 DEF IInv

\* A call settles its operation or leaves it open.
LEMMA CallEndsStep ==
  ASSUME IInv, NEW i \in Items, CallEnds(i)
  PROVE  IInv'
<1>1. UNCHANGED <<commits, refs, head, known, dirs, rows, sweep, holder>>
  BY DEF CallEnds, Archive, Places, Static
<1>2. LastCommit' = LastCommit /\ \A c : Past(c)' = Past(c)
  BY <1>1 DEF LastCommit, Past
<1>3. item \in [Items -> Rows] /\ item[i] \in Rows /\ Holds("work") /\ Active(i) /\ Live(i)
  BY DEF CallEnds, Runs, Stands, IInv, Shape, Framed
<1>4. [item[i] EXCEPT !.open = FALSE, !.settled = TRUE] \in Rows
  BY <1>3 DEF Rows
<1>5. item' = item \/ item' = [item EXCEPT ![i] = [item[i] EXCEPT !.open = FALSE, !.settled = TRUE]]
  BY DEF CallEnds, Row
<1>6. item' \in [Items -> Rows] /\ \A k \in Items \ {i} : item'[k] = item[k]
  BY <1>3, <1>4, <1>5
<1>7. /\ item'[i].status = item[i].status /\ item'[i].source = item[i].source
      /\ item'[i].cand = item[i].cand /\ item'[i].joined = item[i].joined
      /\ item'[i].calls = item[i].calls
      /\ (item'[i].open => item[i].open)
  <2>1. item'[i] = item[i] \/ item'[i] = [item[i] EXCEPT !.open = FALSE, !.settled = TRUE]
    BY <1>3, <1>5
  <2> QED
    BY <1>3, <2>1 DEF Rows
<1>8. /\ frame' \in [Items -> Working \cup {"idle", "free", "remove"}]
      /\ frame'[i] = "idle" /\ \A k \in Items \ {i} : frame'[k] = frame[k]
  BY DEF CallEnds, Goes, IInv, Shape
<1>9. Shape'
  BY <1>1, <1>2, <1>6, <1>8 DEF IInv, Shape
<1>10. \A k \in Items : Rowed(k)'
  BY <1>1, <1>2, <1>3, <1>5, <1>7 DEF IInv, Rowed, Exists, Active, Open, Live
<1>11. \A k \in Items : Based(k)'
  BY <1>1, <1>2, <1>3, <1>5, <1>7 DEF IInv, Based, Needs, Open, Live, On
<1>12. \A k \in Items : Framed(k)'
  BY <1>1, <1>3, <1>5, <1>8 DEF IInv, Framed, Working, Holds, Active, Open, Live, Below, Finished
<1>13. \A k \in Items : Swept(k)'
  BY <1>1, <1>3, <1>5, <1>7 DEF IInv, Swept, Finished, Open, Holds
<1>14. \A k \in Items : Told(k)'
  BY <1>1, <1>3, <1>5, <1>7 DEF IInv, Told, Finished, Open
<1>15. Kin'
  <2>1. SUFFICES ASSUME NEW k \in Items, Above[k] # NoItem, Exists(k)' PROVE Carried(k, Above[k])'
    BY DEF Kin
  <2>2. PICK p \in Items : p = Above[k] /\ p # k /\ Above[p] = NoItem
    BY <2>1, WorkspacesAssumption
  <2>3. /\ (Exists(k) => Carried(k, p)) /\ Rowed(k) /\ Rowed(p) /\ Framed(k) /\ Framed(p)
        /\ item[k].source \in 0..LastCommit /\ LastCommit \in Nat
    BY <2>1, <2>2, RowTyped DEF IInv, Kin
  <2>4. Carried(k, p)'
    BY <1>1, <1>2, <1>3, <1>5, <1>7, <2>1, <2>3 DEF Carried, Exists, Active, Open, Live, On
  <2> QED
    BY <2>2, <2>4
<1>16. Admitting'
  BY <1>1, <1>3 DEF Admitting, Holds
<1>17. Ancestry' /\ Whole'
  BY <1>1, <1>2 DEF IInv, Ancestry, Whole, Reached
<1> QED
  BY <1>9, <1>10, <1>11, <1>12, <1>13, <1>14, <1>15, <1>16, <1>17 DEF IInv

\* The reference of an item moves to the commit of its worktree.
LEMMA PointRefStep ==
  ASSUME IInv, NEW i \in Items, PointRef(i)
  PROVE  IInv'
<1>1. UNCHANGED <<item, commits, head, known, dirs, rows, sweep, holder>>
  BY DEF PointRef, Places, Static
<1>2. LastCommit' = LastCommit /\ \A c : Past(c)' = Past(c)
  BY <1>1 DEF LastCommit, Past
<1>3. Holds("work") /\ frame[i] = "ref" /\ Active(i) /\ Live(i)
  BY DEF PointRef, Runs, Stands, IInv, Framed, Working
<1>4. /\ refs' \in [snapshots : SUBSET (1..LastCommit), candidate : [Items -> 0..LastCommit]]
      /\ refs'.snapshots = refs.snapshots /\ refs'.candidate[i] = head[i]
      /\ \A k \in Items \ {i} : refs'.candidate[k] = refs.candidate[k]
  BY RowTyped DEF PointRef, IInv, Shape
<1>5. /\ frame' \in [Items -> Working \cup {"idle", "free", "remove"}]
      /\ frame'[i] = "save" /\ \A k \in Items \ {i} : frame'[k] = frame[k]
  BY DEF PointRef, Goes, IInv, Shape, Working
<1>6. Shape'
  BY <1>1, <1>2, <1>4, <1>5 DEF IInv, Shape
<1>7. \A k \in Items : Rowed(k)'
  BY <1>1, <1>2, <1>4 DEF IInv, Rowed, Exists, Active, Open, Live
<1>8. \A k \in Items : Framed(k)'
  BY <1>1, <1>3, <1>4, <1>5 DEF IInv, Framed, Holds, Active, Open, Live, Below, Finished
<1>9. \A k \in Items : Based(k)' /\ Swept(k)' /\ Told(k)'
  BY <1>1, <1>2 DEF IInv, Based, Needs, Open, Live, On, Swept, Finished, Holds, Told
<1>10. Kin'
  <2>1. SUFFICES ASSUME NEW k \in Items, Above[k] # NoItem, Exists(k)' PROVE Carried(k, Above[k])'
    BY DEF Kin
  <2>2. PICK p \in Items : p = Above[k] /\ p # k /\ Above[p] = NoItem
    BY <2>1, WorkspacesAssumption
  <2>3. /\ (Exists(k) => Carried(k, p)) /\ Rowed(k) /\ Rowed(p) /\ Framed(k) /\ Framed(p)
        /\ item[k].source \in 0..LastCommit /\ LastCommit \in Nat
    BY <2>1, <2>2, RowTyped DEF IInv, Kin
  <2>4. Carried(k, p)'
    BY <1>1, <1>2, <1>3, <1>4, <2>1, <2>3 DEF Carried, Exists, Active, Open, Live, On
  <2> QED
    BY <2>2, <2>4
<1>11. Whole'
  <2>1. Reached' \subseteq Reached \cup {head[i]}
    BY <1>1, <1>3, <1>4, <1>5 DEF Reached, Live
  <2>2. \A c \in Reached \cup {head[i]} : Past(c) \subseteq commits.kept
    BY <1>3, <1>4, <1>5 DEF IInv, Whole, Reached, Live
  <2> QED
    BY <1>1, <1>2, <2>1, <2>2 DEF Whole
<1>12. Admitting'
  BY <1>1, <1>3 DEF Admitting, Holds
<1>13. Ancestry'
  BY <1>1, <1>2 DEF IInv, Ancestry
<1> QED
  BY <1>6, <1>7, <1>8, <1>9, <1>10, <1>11, <1>12, <1>13 DEF IInv

\* The row takes the commit the reference points to, and the children are joined.
LEMMA SaveCandidateStep ==
  ASSUME IInv, NEW i \in Items, SaveCandidate(i)
  PROVE  IInv'
<1>1. UNCHANGED <<commits, refs, head, known, dirs, rows, sweep, holder>>
  BY DEF SaveCandidate, Archive, Places, Static
<1>2. LastCommit' = LastCommit /\ \A c : Past(c)' = Past(c)
  BY <1>1 DEF LastCommit, Past
<1>3. /\ Holds("work") /\ frame[i] = "save" /\ Active(i) /\ Live(i) /\ ~Open(i) /\ refs.candidate[i] = head[i]
      /\ \A k \in Items : Above[k] = i /\ Exists(k) => item[k].status = "COMPLETED"
  BY DEF SaveCandidate, Runs, Stands, IInv, Framed, Below, Exists, Working
<1>4. On(head[i], i)
  BY RowTyped, PastShape DEF IInv, On
<1>5. \A k \in Items : item[k] \in Rows /\ refs.candidate[i] \in 0..MaxObjects /\ ((item[k].joined \/ k \in Below(i)) \in BOOLEAN)
  BY RowTyped, WorkspacesAssumption DEF IInv, Shape
<1>6. item' = [k \in Items |-> IF k = i THEN [item[i] EXCEPT !.cand = refs.candidate[i]]
                                   ELSE [item[k] EXCEPT !.joined = @ \/ k \in Below(i)]]
  BY DEF SaveCandidate
<1>7. \A k \in Items : [item[i] EXCEPT !.cand = refs.candidate[i]] \in Rows /\ [item[k] EXCEPT !.joined = @ \/ k \in Below(i)] \in Rows
  BY <1>5 DEF Rows
<1>8. /\ item' \in [Items -> Rows] /\ item'[i].status = item[i].status
      /\ item'[i].source = item[i].source /\ item'[i].joined = item[i].joined
      /\ item'[i].calls = item[i].calls /\ item'[i].open = item[i].open
      /\ item'[i].cand = head[i]
  BY <1>3, <1>5, <1>6, <1>7 DEF Rows
<1>9. \A k \in Items \ {i} : /\ item'[k].status = item[k].status
      /\ item'[k].source = item[k].source /\ item'[k].cand = item[k].cand
      /\ item'[k].calls = item[k].calls /\ item'[k].open = item[k].open
                            /\ (item'[k].joined <=> item[k].joined \/ (Above[k] = i /\ Exists(k)))
  BY <1>5, <1>6, <1>7 DEF Rows, Below, Exists
<1>10. \A k \in Items : ~Exists(k) => item'[k] = item[k]
  <2>1. SUFFICES ASSUME NEW k \in Items, ~Exists(k) PROVE item'[k] = item[k]
    OBVIOUS
  <2>2. k # i /\ k \notin Below(i) /\ item[k].joined = FALSE
    BY <1>3, <2>1 DEF IInv, Rowed, Exists, Below
  <2>3. [item[k] EXCEPT !.joined = @ \/ k \in Below(i)] = item[k]
    BY <1>5, <2>2 DEF Rows
  <2> QED
    BY <1>6, <2>2, <2>3
<1>11. /\ frame' \in [Items -> Working \cup {"idle", "free", "remove"}]
      /\ frame'[i] = "idle" /\ \A k \in Items \ {i} : frame'[k] = frame[k]
  BY DEF SaveCandidate, Goes, IInv, Shape
<1>12. Shape'
  BY <1>1, <1>2, <1>6, <1>7, <1>11 DEF IInv, Shape
<1>13. \A k \in Items : Rowed(k)'
  <2>1. SUFFICES ASSUME NEW k \in Items PROVE Rowed(k)'
    OBVIOUS
  <2>2. Rowed(k) /\ Framed(k)
    BY DEF IInv
  <2>3. item[k].calls \in 0..MaxCalls /\ item[k].source \in 0..LastCommit /\ item[k].cand \in 0..LastCommit /\ LastCommit \in Nat
      /\ head[k] \in 0..LastCommit
    BY RowTyped
  <2>4. CASE k = i
    BY <1>1, <1>2, <1>3, <1>8, <1>9, <1>10, <2>2, <2>3 DEF Rowed, Exists, Active, Open, Live
  <2>5. CASE k # i
    BY <1>1, <1>2, <1>3, <1>8, <1>9, <1>10, <2>2, <2>3 DEF Rowed, Exists, Active, Open, Live
  <2> QED
    BY <2>4, <2>5
<1>14. \A k \in Items : Based(k)'
  BY <1>1, <1>2, <1>3, <1>4, <1>6 DEF IInv, Based, Needs, Open, Live, On
<1>15. \A k \in Items : Framed(k)'
  BY <1>1, <1>6, <1>11 DEF IInv, Framed, Working, Holds, Active, Open, Live, Below, Finished
<1>16. \A k \in Items : Swept(k)'
  BY <1>1, <1>6 DEF IInv, Swept, Finished, Open, Holds
<1>17. \A k \in Items : Told(k)'
  BY <1>1, <1>6 DEF IInv, Told, Finished, Open
<1>18. Kin'
  <2>1. SUFFICES ASSUME NEW k \in Items, Above[k] # NoItem, Exists(k)' PROVE Carried(k, Above[k])'
    BY DEF Kin
  <2>2. PICK p \in Items : p = Above[k] /\ p # k /\ Above[p] = NoItem
    BY <2>1, WorkspacesAssumption
  <2>3. /\ (Exists(k) => Carried(k, p)) /\ Rowed(k) /\ Rowed(p) /\ Framed(k) /\ Framed(p)
        /\ item[k].source \in 0..LastCommit /\ LastCommit \in Nat
    BY <2>1, <2>2, RowTyped DEF IInv, Kin
  <2>4. Carried(k, p)'
    BY <1>1, <1>2, <1>3, <1>8, <1>9, <2>1, <2>3 DEF Carried, Exists, Active, Open, Live, On
  <2> QED
    BY <2>2, <2>4
<1>19. Admitting'
  BY <1>1, <1>3 DEF Admitting, Holds
<1>20. Ancestry' /\ Whole'
  BY <1>1, <1>2 DEF IInv, Ancestry, Whole, Reached
<1> QED
  BY <1>12, <1>13, <1>14, <1>15, <1>16, <1>17, <1>18, <1>19, <1>20 DEF IInv

\* An item is completed with the commit the reference points to.
LEMMA CompleteItemStep ==
  ASSUME IInv, NEW i \in Items, CompleteItem(i)
  PROVE  IInv'
<1>1. UNCHANGED <<commits, refs, head, known, dirs, rows, sweep, holder>>
  BY DEF CompleteItem, Archive, Places, Static
<1>2. LastCommit' = LastCommit /\ \A c : Past(c)' = Past(c)
  BY <1>1 DEF LastCommit, Past
<1>3. /\ Holds("work") /\ frame[i] = "save" /\ Active(i) /\ Live(i) /\ ~Open(i) /\ refs.candidate[i] = head[i]
      /\ \A k \in Items : Above[k] = i /\ Exists(k) => item[k].status = "COMPLETED"
  BY DEF CompleteItem, Runs, Stands, IInv, Framed, Below, Exists, Working
<1>4. item[i] \in Rows /\ refs.candidate[i] \in 0..MaxObjects
  BY RowTyped, WorkspacesAssumption DEF IInv, Shape
<1>5. [item[i] EXCEPT !.status = "COMPLETED", !.cand = refs.candidate[i]] \in Rows
  BY <1>4 DEF Rows
<1>6. /\ item' \in [Items -> Rows] /\ \A k \in Items \ {i} : item'[k] = item[k]
      /\ item'[i].source = item[i].source /\ item'[i].joined = item[i].joined
      /\ item'[i].calls = item[i].calls /\ item'[i].open = item[i].open
      /\ item'[i].status = "COMPLETED" /\ item'[i].cand = head[i]
  BY <1>3, <1>4, <1>5 DEF CompleteItem, Row, IInv, Shape
<1>7. /\ frame' \in [Items -> Working \cup {"idle", "free", "remove"}]
      /\ frame'[i] = "free" /\ \A k \in Items \ {i} : frame'[k] = frame[k]
  BY DEF CompleteItem, Goes, IInv, Shape
<1>8. Shape'
  BY <1>1, <1>2, <1>6, <1>7 DEF IInv, Shape
<1>9. \A k \in Items : Rowed(k)'
  <2>1. SUFFICES ASSUME NEW k \in Items PROVE Rowed(k)'
    OBVIOUS
  <2>2. Rowed(k) /\ Framed(k)
    BY DEF IInv
  <2>3. item[k].calls \in 0..MaxCalls /\ item[k].source \in 0..LastCommit /\ item[k].cand \in 0..LastCommit /\ LastCommit \in Nat
      /\ head[k] \in 0..LastCommit
    BY RowTyped
  <2>4. CASE k = i
    BY <1>1, <1>2, <1>3, <1>6, <2>2, <2>3 DEF Rowed, Exists, Active, Open, Live
  <2>5. CASE k # i
    BY <1>1, <1>2, <1>3, <1>6, <2>2, <2>3 DEF Rowed, Exists, Active, Open, Live
  <2> QED
    BY <2>4, <2>5
<1>10. \A k \in Items : Based(k)'
  BY <1>1, <1>2, <1>3, <1>6 DEF IInv, Based, Needs, Open, Live, On
<1>11. \A k \in Items : Framed(k)'
  BY <1>1, <1>3, <1>6, <1>7 DEF IInv, Framed, Working, Holds, Active, Open, Live, Below, Finished
<1>12. \A k \in Items : Swept(k)'
  BY <1>1, <1>6 DEF IInv, Swept, Finished, Open, Holds
<1>13. \A k \in Items : Told(k)'
  BY <1>1, <1>6 DEF IInv, Told, Finished, Open
<1>14. Kin'
  <2>1. SUFFICES ASSUME NEW k \in Items, Above[k] # NoItem, Exists(k)' PROVE Carried(k, Above[k])'
    BY DEF Kin
  <2>2. PICK p \in Items : p = Above[k] /\ p # k /\ Above[p] = NoItem
    BY <2>1, WorkspacesAssumption
  <2>3. /\ (Exists(k) => Carried(k, p)) /\ Rowed(k) /\ Rowed(p) /\ Framed(k) /\ Framed(p)
        /\ item[k].source \in 0..LastCommit /\ LastCommit \in Nat
    BY <2>1, <2>2, RowTyped DEF IInv, Kin
  <2>4. Carried(k, p)'
    BY <1>1, <1>2, <1>3, <1>6, <2>1, <2>2, <2>3 DEF Carried, Exists, Active, Open, Live, On
  <2> QED
    BY <2>2, <2>4
<1>15. Admitting'
  BY <1>1, <1>3 DEF Admitting, Holds
<1>16. Ancestry' /\ Whole'
  BY <1>1, <1>2 DEF IInv, Ancestry, Whole, Reached
<1> QED
  BY <1>8, <1>9, <1>10, <1>11, <1>12, <1>13, <1>14, <1>15, <1>16 DEF IInv

\* A completed item removes its own worktree.
LEMMA RemoveTreeStep ==
  ASSUME IInv, NEW i \in Items, RemoveTree(i)
  PROVE  IInv'
<1>1. UNCHANGED <<item, commits, refs, head, rows, sweep, holder>>
  BY DEF RemoveTree, Archive, Static
<1>2. LastCommit' = LastCommit /\ \A c : Past(c)' = Past(c)
  BY <1>1 DEF LastCommit, Past
<1>3. Holds("work") /\ frame[i] = "remove" /\ item[i].status = "COMPLETED"
  BY DEF RemoveTree, Runs, Stands, IInv, Framed
<1>4. dirs' \subseteq dirs /\ (\A r \in dirs : r \in dirs' \/ r = Tree(i)) /\ known' \subseteq known
  BY DEF RemoveTree
<1>5. (\A k \in Items \ {i} : Live(k)' <=> Live(k)) /\ (Live(i)' => Live(i))
  BY <1>4, ResourceNames DEF Live
<1>6. \A k \in Items : \A n \in 1..MaxCalls : Scratch(k, n) \in dirs => Scratch(k, n) \in dirs'
  BY <1>4, ResourceNames
<1>7. /\ frame' \in [Items -> Working \cup {"idle", "free", "remove"}]
      /\ frame'[i] = "idle" /\ \A k \in Items \ {i} : frame'[k] = frame[k]
  BY DEF RemoveTree, Goes, IInv, Shape
<1>8. Shape'
  BY <1>1, <1>2, <1>4, <1>7 DEF IInv, Shape
<1>9. \A k \in Items : Rowed(k)'
  BY <1>1, <1>2, <1>3, <1>4, <1>5 DEF IInv, Rowed, Exists, Active, Open
<1>10. \A k \in Items : Based(k)'
  BY <1>1, <1>2, <1>4 DEF IInv, Based, Needs, Open, Live, On
<1>11. \A k \in Items : Framed(k)'
  <2>1. SUFFICES ASSUME NEW k \in Items PROVE Framed(k)'
    OBVIOUS
  <2>2. Framed(k) /\ Rowed(k)
    BY DEF IInv
  <2>3. item[k].calls \in 0..MaxCalls /\ item[k].source \in 0..LastCommit /\ item[k].cand \in 0..LastCommit /\ LastCommit \in Nat
      /\ head[k] \in 0..LastCommit
    BY RowTyped
  <2>4. CASE k = i
    BY <1>1, <1>5, <1>6, <1>7, <2>2, <2>3 DEF Framed, Working, Holds, Active, Open, Below,
       Finished, Rowed
  <2>5. CASE k # i
    BY <1>1, <1>5, <1>6, <1>7, <2>2, <2>3 DEF Framed, Working, Holds, Active, Open, Below,
       Finished, Rowed
  <2> QED
    BY <2>4, <2>5
<1>12. \A k \in Items : Told(k)'
  <2>1. SUFFICES ASSUME NEW k \in Items PROVE Told(k)'
    OBVIOUS
  <2>2. Told(k) /\ Rowed(k) /\ Framed(k)
    BY DEF IInv
  <2>3. item[k].calls \in 0..MaxCalls /\ item[k].source \in 0..LastCommit /\ item[k].cand \in 0..LastCommit /\ LastCommit \in Nat
      /\ head[k] \in 0..LastCommit
    BY RowTyped
  <2>4. CASE k = i
    BY <1>1, <1>6, <2>2, <2>3 DEF Told, Finished, Open, Rowed
  <2>5. CASE k # i
    BY <1>1, <1>6, <2>2, <2>3 DEF Told, Finished, Open, Rowed
  <2> QED
    BY <2>4, <2>5
<1>13. \A k \in Items : Swept(k)'
  BY <1>1, <1>2 DEF IInv, Swept, Finished, Open, Holds
<1>14. Kin'
  <2>1. SUFFICES ASSUME NEW k \in Items, Above[k] # NoItem, Exists(k)' PROVE Carried(k, Above[k])'
    BY DEF Kin
  <2>2. PICK p \in Items : p = Above[k] /\ p # k /\ Above[p] = NoItem
    BY <2>1, WorkspacesAssumption
  <2>3. /\ (Exists(k) => Carried(k, p)) /\ Rowed(k) /\ Rowed(p) /\ Framed(k) /\ Framed(p)
        /\ item[k].source \in 0..LastCommit /\ LastCommit \in Nat
    BY <2>1, <2>2, RowTyped DEF IInv, Kin
  <2>4. Carried(k, p)'
    BY <1>1, <1>2, <1>3, <1>5, <2>1, <2>3 DEF Carried, Exists, Active, Open, On
  <2> QED
    BY <2>2, <2>4
<1>15. Whole'
  <2>1. Reached' \subseteq Reached
    BY <1>1, <1>4 DEF Reached, Live
  <2> QED
    BY <1>1, <1>2, <2>1 DEF IInv, Whole
<1>16. Ancestry' /\ Admitting'
  BY <1>1, <1>2 DEF IInv, Ancestry, Admitting, Holds, Exists
<1> QED
  BY <1>8, <1>9, <1>10, <1>11, <1>12, <1>13, <1>14, <1>15, <1>16 DEF IInv

\* A collection removes what it has chosen.
LEMMA RemoveRowStep ==
  ASSUME IInv, NEW i \in Items, RemoveRow(i)
  PROVE  IInv'
<1>1. UNCHANGED <<item, commits, refs, head, known, frame, holder>>
  BY DEF RemoveRow, Archive, Places, Static
<1>2. LastCommit' = LastCommit /\ \A c : Past(c)' = Past(c)
  BY <1>1 DEF LastCommit, Past
<1>3. /\ sweep[i] # NoRow /\ sweep' \in [Items -> Resources \cup {NoRow}]
      /\ sweep'[i] = NoRow /\ \A k \in Items \ {i} : sweep'[k] = sweep[k]
  BY DEF RemoveRow, IInv, Shape
<1>4. /\ \A k \in Items : sweep[i] = Tree(k) => Finished(k) /\ ~Open(k)
      /\ \A k \in Items : \A n \in 1..MaxCalls : sweep[i] = Scratch(k, n) => n <= item[k].calls /\ (Open(k) => n # item[k].calls)
  BY <1>3 DEF IInv, Swept
<1>5. /\ rows' \in [Resources -> {"none", "LIVE", "RELEASED", "DELETING", "DELETED"}]
      /\ \A r \in Resources : rows'[r] = rows[r] \/ (r = sweep[i] /\ rows'[r] = "DELETED")
  <2>1. rows' = rows \/ rows' = [rows EXCEPT ![sweep[i]] = "DELETED"]
    BY DEF RemoveRow
  <2> QED
    BY <2>1 DEF IInv, Shape
<1>6. dirs' \subseteq dirs /\ \A r \in dirs : r \in dirs' \/ r = sweep[i]
  BY DEF RemoveRow
<1>7. \A k \in Items : Open(k) => item[k].calls \in 1..MaxCalls /\ Scratch(k, item[k].calls) # sweep[i]
  BY <1>4, RowTyped, WorkspacesAssumption DEF IInv, Rowed
<1>8. Shape'
  BY <1>1, <1>2, <1>3, <1>5, <1>6 DEF IInv, Shape
<1>9. \A k \in Items : Rowed(k)'
  BY <1>1, <1>2, <1>4, <1>6 DEF IInv, Rowed, Exists, Active, Open, Live, Finished
<1>10. \A k \in Items : Based(k)'
  BY <1>1, <1>2, <1>6 DEF IInv, Based, Needs, Open, Live, On
<1>11. \A k \in Items : Framed(k)'
  BY <1>1, <1>4, <1>6, <1>7 DEF IInv, Framed, Holds, Active, Open, Live, Below, Finished
<1>12. \A k \in Items : Swept(k)'
  BY <1>1, <1>3 DEF IInv, Swept, Finished, Open, Holds
<1>13. \A k \in Items : Told(k)'
  <2>1. SUFFICES ASSUME NEW k \in Items PROVE Told(k)'
    OBVIOUS
  <2>2. Told(k) /\ Rowed(k) /\ Framed(k)
    BY DEF IInv
  <2>3. CASE k = i
    BY <1>1, <1>4, <1>5, <1>6, <1>7, <2>2, ResourceNames DEF Told, Finished, Open
  <2>4. CASE k # i
    BY <1>1, <1>4, <1>5, <1>6, <1>7, <2>2, ResourceNames DEF Told, Finished, Open
  <2> QED
    BY <2>3, <2>4
<1>14. Kin'
  <2>1. SUFFICES ASSUME NEW k \in Items, Above[k] # NoItem, Exists(k)' PROVE Carried(k, Above[k])'
    BY DEF Kin
  <2>2. PICK p \in Items : p = Above[k] /\ p # k /\ Above[p] = NoItem
    BY <2>1, WorkspacesAssumption
  <2>3. /\ (Exists(k) => Carried(k, p)) /\ Rowed(k) /\ Rowed(p) /\ Framed(k) /\ Framed(p)
        /\ item[k].source \in 0..LastCommit /\ LastCommit \in Nat
    BY <2>1, <2>2, RowTyped DEF IInv, Kin
  <2>4. Carried(k, p)'
    BY <1>1, <1>2, <1>4, <1>6, <2>1, <2>3 DEF Carried, Exists, Active, Open, Live, On, Finished
  <2> QED
    BY <2>2, <2>4
<1>15. Whole'
  <2>1. Reached' \subseteq Reached
    BY <1>1, <1>6 DEF Reached, Live
  <2> QED
    BY <1>1, <1>2, <2>1 DEF IInv, Whole
<1>16. Ancestry' /\ Admitting'
  BY <1>1, <1>2 DEF IInv, Ancestry, Admitting, Holds, Exists
<1> QED
  BY <1>8, <1>9, <1>10, <1>11, <1>12, <1>13, <1>14, <1>15, <1>16 DEF IInv

\* A collection chooses what is released, or left behind by a settled operation.
LEMMA MarkRowStep ==
  ASSUME IInv, NEW i \in Items, NEW r \in Resources, MarkRow(i, r)
  PROVE  IInv'
<1>1. UNCHANGED <<item, commits, refs, head, known, dirs, frame, holder>> /\ r \in Selected /\ ~Leased(r)
  BY DEF MarkRow, Archive
<1>2. LastCommit' = LastCommit /\ \A c : Past(c)' = Past(c)
  BY <1>1 DEF LastCommit, Past
<1>3. Holds("work") \/ Holds("cancel")
  BY DEF MarkRow, Sweeps, Runs, Stands
<1>4. rows[r] # "none" /\ \A k \in Items : r = Tree(k) => rows[r] \in {"RELEASED", "DELETING"}
  BY <1>1, ResourceNames DEF Selected
<1>5. \A k \in Items : r = Tree(k) => Finished(k) /\ ~Open(k)
  BY <1>1, <1>4, ResourceNames DEF Leased, IInv, Told
<1>6. \A k \in Items : \A n \in 1..MaxCalls : r = Scratch(k, n) => n <= item[k].calls /\ (Open(k) => n # item[k].calls)
  BY <1>1, <1>4, ResourceNames DEF Leased, IInv, Told
<1>7. /\ sweep' \in [Items -> Resources \cup {NoRow}] /\ sweep'[i] = r /\ \A k \in Items \ {i} : sweep'[k] = sweep[k]
      /\ rows' \in [Resources -> {"none", "LIVE", "RELEASED", "DELETING", "DELETED"}]
      /\ \A x \in Resources : rows'[x] = rows[x] \/ (x = r /\ rows'[x] = "DELETING")
  BY DEF MarkRow, IInv, Shape
<1>8. Shape' /\ Ancestry'
  BY <1>1, <1>2, <1>7 DEF IInv, Shape, Ancestry
<1>9. Whole' /\ Kin' /\ Admitting'
  BY <1>1, <1>2 DEF IInv, Whole, Reached, Kin, Carried, Exists, Active, Open, Live, On, Admitting,
     Holds
<1>10. \A k \in Items : Rowed(k)' /\ Based(k)' /\ Framed(k)'
  BY <1>1, <1>2 DEF IInv, Rowed, Based, Framed, Needs, Exists, Active, Open, Live, On, Finished,
     Holds, Below
<1>11. \A k \in Items : Swept(k)'
  BY <1>1, <1>3, <1>5, <1>6, <1>7 DEF IInv, Swept, Finished, Open, Holds
<1>12. \A k \in Items : Told(k)'
  <2>1. SUFFICES ASSUME NEW k \in Items PROVE Told(k)'
    OBVIOUS
  <2>2. Told(k) /\ (Open(k) => item[k].calls \in 1..MaxCalls)
    BY RowTyped, WorkspacesAssumption DEF IInv, Rowed
  <2> QED
    BY <1>1, <1>4, <1>7, <2>2, ResourceNames DEF Told, Finished, Open
<1> QED
  BY <1>8, <1>9, <1>10, <1>11, <1>12 DEF IInv

\* A family with unfinished work is kept.
LEMMA KeptLive ==
  ASSUME IInv, NEW i \in Items, Active(i)
  PROVE  i \in LiveItems /\ \A k \in Items : Above[k] = i => k \in LiveItems
BY WorkspacesAssumption DEF LiveItems, Root, Active

\* The references that unfinished work needs are kept.
LEMMA DropRefsStep ==
  ASSUME IInv, DropRefs
  PROVE  IInv'
<1>1. UNCHANGED <<item, commits, head, known, dirs, rows, frame, sweep>> /\ Holds("refs") /\ holder' = [name |-> "gc", root |-> NoItem]
  BY DEF DropRefs, Places
<1>2. LastCommit' = LastCommit /\ \A c : Past(c)' = Past(c)
  BY <1>1 DEF LastCommit, Past
<1>3. /\ refs' \in [snapshots : SUBSET (1..LastCommit), candidate : [Items -> 0..LastCommit]]
      /\ refs'.snapshots = refs.snapshots \cap Keep
      /\ \A i \in Items : refs'.candidate[i] = IF refs.candidate[i] \in Keep THEN refs.candidate[i] ELSE 0
  <2>1. refs' = [snapshots |-> refs.snapshots \cap Keep,
                 candidate |-> [i \in Items |-> IF refs.candidate[i] \in Keep THEN refs.candidate[i] ELSE 0]]
    BY DEF DropRefs
  <2>2. refs.snapshots \cap Keep \subseteq 1..LastCommit
    BY DEF IInv, Shape
  <2>3. [i \in Items |-> IF refs.candidate[i] \in Keep THEN refs.candidate[i] ELSE 0] \in [Items -> 0..LastCommit]
    BY RowTyped
  <2> QED
    BY <2>1, <2>2, <2>3
<1>4. \A i \in Items : Active(i) => item[i].source \in Keep /\ \A k \in Items : Above[k] = i => item[k].cand \in Keep
  BY KeptLive DEF Keep
<1>5. \A i \in Items : frame[i] = "idle" /\ sweep[i] = NoRow
  BY <1>1, Quieted DEF Holds
<1>6. Shape' /\ Ancestry'
  BY <1>1, <1>2, <1>3 DEF IInv, Shape, Ancestry, Holders
<1>7. \A i \in Items : Rowed(i)'
  BY <1>1, <1>2, <1>3, <1>4 DEF IInv, Rowed, Exists, Active, Open, Live
<1>8. \A i \in Items : Based(i)' /\ Told(i)'
  BY <1>1, <1>2 DEF IInv, Based, Told, Needs, Open, Live, On, Finished
<1>9. \A i \in Items : Framed(i)' /\ Swept(i)'
  BY <1>1, <1>5 DEF Framed, Swept, Working
<1>10. Kin'
  <2>1. SUFFICES ASSUME NEW k \in Items, Above[k] # NoItem, Exists(k)' PROVE Carried(k, Above[k])'
    BY DEF Kin
  <2>2. Above[k] \in Items /\ Carried(k, Above[k])
    BY <1>1, <2>1, WorkspacesAssumption DEF IInv, Kin, Exists
  <2> QED
    BY <1>1, <1>2, <1>3, <1>4, <2>2 DEF Carried, Exists, Active, Open, Live, On
<1>11. Whole'
  <2>1. Reached' \subseteq Reached \cup {0} /\ Past(0) = {}
    BY <1>1, <1>3 DEF Reached, Past
  <2> QED
    BY <1>1, <1>2, <2>1 DEF IInv, Whole
<1>12. Admitting'
  BY <1>1 DEF Admitting, Holds
<1> QED
  BY <1>6, <1>7, <1>8, <1>9, <1>10, <1>11, <1>12 DEF IInv

\* The objects that a reference or a worktree reaches are kept.
LEMMA GcStep ==
  ASSUME IInv, Gc
  PROVE  IInv'
<1>1. UNCHANGED <<item, refs, head, known, dirs, rows, frame, sweep>> /\ Holds("gc") /\ holder' = [name |-> "none", root |-> NoItem]
  BY DEF Gc, Places
<1>2. /\ commits' \in [past : Seq(SUBSET Nat), kept : SUBSET Nat] /\ commits'.past = commits.past
      /\ commits'.kept = commits.kept \cap UNION {Past(c) : c \in Reached}
  <2>1. commits' = [commits EXCEPT !.kept = @ \cap UNION {Past(c) : c \in Reached}]
    BY DEF Gc
  <2>2. commits.kept \cap UNION {Past(c) : c \in Reached} \in SUBSET Nat
    BY DEF IInv, Shape
  <2> QED
    BY <2>1, <2>2 DEF IInv, Shape
<1>3. LastCommit' = LastCommit /\ \A c : Past(c)' = Past(c)
  BY <1>2 DEF LastCommit, Past
<1>4. \A i \in Items : frame[i] = "idle" /\ sweep[i] = NoRow
  BY <1>1, Quieted DEF Holds
<1>5. Shape' /\ Ancestry'
  BY <1>1, <1>2, <1>3 DEF IInv, Shape, Ancestry, Holders
<1>6. \A i \in Items : Rowed(i)' /\ Based(i)' /\ Told(i)'
  BY <1>1, <1>3 DEF IInv, Rowed, Based, Told, Needs, Exists, Active, Open, Live, On, Finished
<1>7. \A i \in Items : Framed(i)' /\ Swept(i)'
  BY <1>1, <1>4 DEF Framed, Swept, Working
<1>8. Kin'
  BY <1>1, <1>3 DEF IInv, Kin, Carried, Exists, Active, Open, Live, On
<1>9. Whole'
  <2>1. Reached' = Reached
    BY <1>1 DEF Reached
  <2> QED
    BY <1>2, <1>3, <2>1 DEF IInv, Whole
<1>10. Admitting'
  BY <1>1 DEF Admitting, Holds
<1> QED
  BY <1>5, <1>6, <1>7, <1>8, <1>9, <1>10 DEF IInv

-----------------------------------------------------------------------------
\* Every step keeps the invariant; where everybody rests nothing changes.
LEMMA ResourceStep ==
  ASSUME IInv, ResourceNext \/ UNCHANGED resourceVars
  PROVE  IInv'
<1>1. CASE Rests \/ UNCHANGED resourceVars
  BY <1>1, StutterStep DEF Rests
<1>2. CASE AdmitRoot \/ Ends \/ DropRefs \/ Gc \/ Leave \/ Dies
  BY <1>2, AdmitRootStep, LockSteps, DropRefsStep, GcStep
<1>3. ASSUME NEW i \in Items, Snapshot(i) \/ ResumeRoot(i) \/ Settles(i) \/ CancelRoot(i) \/ CancelItem(i) \/ CancelFrees(i)
      PROVE  IInv'
  BY <1>3, SnapshotStep, LockSteps, SettlesStep, CancelItemStep, CancelFreesStep
<1>4. ASSUME NEW i \in Items,
             \/ AddTree(i) \/ RecordTree(i) \/ RegisterTree(i) \/ Reserve(i) \/ MakeScratch(i) \/ RegisterScratch(i)
             \/ CallEnds(i)
      PROVE  IInv'
  BY <1>4, AddTreeStep, RecordTreeStep, RegisterTreeStep, ReserveStep, MakeScratchStep,
     RegisterScratchStep, CallEndsStep
<1>5. ASSUME NEW i \in Items, Commit(i) \/ PointRef(i) \/ SaveCandidate(i) \/ Spawn(i) \/ Joins(i)
      PROVE  IInv'
  BY <1>5, CommitStep, PointRefStep, SaveCandidateStep, SpawnStep, JoinsStep
<1>6. ASSUME NEW i \in Items, CompleteItem(i) \/ Frees(i) \/ RemoveTree(i) \/ RemoveRow(i)
      PROVE  IInv'
  BY <1>6, CompleteItemStep, FreesStep, RemoveTreeStep, RemoveRowStep
<1>7. ASSUME NEW i \in Items, NEW r \in Resources, MarkRow(i, r)
      PROVE  IInv'
  BY <1>7, MarkRowStep
<1> QED
  BY <1>1, <1>2, <1>3, <1>4, <1>5, <1>6, <1>7 DEF ResourceNext

\* What of cleanup.py, workspace.py and the artifacts table holds between any two steps.
THEOREM ResourceInvariant == ResourceSpec => []IInv
<1>1. ResourceInit => IInv
  BY ResourceInitHolds
<1>2. IInv /\ [ResourceNext]_resourceVars => IInv'
  BY ResourceStep
<1> QED
  BY <1>1, <1>2, PTL DEF ResourceSpec

\* Items, commits, references, directories and the artifacts table keep their shape.
THEOREM ResourceTypeCorrect == ResourceSpec => []ResourceTypeOK
<1>1. IInv => ResourceTypeOK
  <2>1. SUFFICES ASSUME IInv PROVE ResourceTypeOK
    OBVIOUS
  <2>2. Shape
    BY <2>1 DEF IInv
  <2> QED
    BY <2>2 DEF Shape, Rows, ResourceTypeOK
<1> QED
  BY <1>1, ResourceInvariant, PTL

\* collect and collect_git (control/cleanup.py), beside the threads that make worktrees,
\* commits and scratch directories, remove no source, candidate, worktree or scratch
\* directory that unfinished work or an open operation still needs, whichever command
\* died where: for every family of items, every number of commits, operations,
\* removals and deaths.
THEOREM NeededIsNotCollected == ResourceSpec => []NothingNeededCollected
<1>1. IInv => NothingNeededCollected
  BY NeededPresent
<1> QED
  BY <1>1, ResourceInvariant, PTL
===============================================================================
