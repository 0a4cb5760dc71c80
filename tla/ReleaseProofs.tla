----------------------------- MODULE ReleaseProofs -----------------------------
\* What ReleaseQueue keeps for every set of trees and every number of commits, edits,
\* items and crashes: what attest accepts for a revision rests on a source that passed.
EXTENDS ReleaseQueue, SequenceTheorems, WellFoundedInduction, TLAPS

-----------------------------------------------------------------------------
\* The inductive invariant.

Names == {"none", "run", "verify", "enqueue", "worker", "resume"}
Places == {"start", "head", "files", "work", "create", "point", "ready", "drive", "check", "record"}
Checks == {"none", "open", "passed", "failed", "broken"}
Records == [key : 0..MaxCommits, full : BOOLEAN, head : 1..MaxCommits, tree : Trees, exact : BOOLEAN,
            phase : {"clarify", "verify"}, status : {"READY", "RUNNING", "BLOCKED", "COMPLETED"},
            op : Checks, verified : 0..MaxCommits]
Commands == [name : Names, at : Places, key : 0..MaxCommits, full : BOOLEAN, head : 0..MaxCommits,
             source : Trees, exact : BOOLEAN, todo : SUBSET (1..MaxProofs)]
Forced == [revision : 1..MaxCommits, tree : Trees, exact : BOOLEAN]

\* What a command holds while it is at a place: the revision it has read, room for the
\* item it is going to create, and the items it still has to drive, which exist.
Equipped(k, n, tip) ==
  /\ k.at \in {"files", "work", "create"} => k.head \in 1..tip
  /\ k.at = "work" => k.name = "run"
  /\ k.at = "create" \/ (k.at \in {"head", "files"} /\ k.name # "run") => n < MaxProofs
  /\ k.at \in {"point", "ready"} => n # 0
  /\ k.at \in {"drive", "check", "record"} => k.todo # {} /\ k.todo \subseteq 1..n
CommandEquipped == Equipped(command, Len(proofs), Tip)

\* A source captured over a clean tree is the tree of the revision read before it, in
\* the hands of the command and in an item.
Captured(head, exact, tree) == exact => tree = history[head]
CommandCaptured == command.at \in {"work", "create"} => Captured(command.head, command.exact, command.source)
ProofsCaptured == \A i \in DOMAIN proofs :
  proofs[i].head \in 1..Tip /\ Captured(proofs[i].head, proofs[i].exact, proofs[i].tree)

\* An item whose full checks passed holds a sound source, and only such an item is
\* completed, for the revision it was captured at.
CheckedRow(p) ==
  /\ p.op = "passed" /\ p.full => p.tree \in Sound
  /\ p.status = "COMPLETED" => p.op = "passed" /\ p.verified = p.head
ProofsChecked == \A i \in DOMAIN proofs : CheckedRow(proofs[i])
RecordPassed == command.at = "record" => Proof.op = "passed"
ForcedSound == \A f \in forced :
  f.revision \in 1..Tip /\ f.tree \in Sound /\ Captured(f.revision, f.exact, f.tree)

IInv ==
  /\ ReleaseTypeOK /\ CommandEquipped /\ CommandCaptured /\ ProofsCaptured
  /\ ProofsChecked /\ RecordPassed /\ ForcedSound

-----------------------------------------------------------------------------
\* Items and sequences of items.

\* The parts of the types the steps are proved with.
HistoryShape == history \in Seq(Trees) /\ Tip \in 1..MaxCommits
ProofsShape == proofs \in Seq(Records) /\ Len(proofs) <= MaxProofs

\* The type invariant is the shape of each variable.
LEMMA TypeParts ==
  ReleaseTypeOK <=> HistoryShape /\ ProofsShape /\ files \in Trees /\ forced \subseteq Forced /\ command \in Commands
BY DEF ReleaseTypeOK, HistoryShape, ProofsShape, Records, Checks, Forced, Commands, Names, Places

\* drive takes the oldest item of its list, and there is one.
LEMMA Oldest ==
  ASSUME NEW n \in Nat, command.todo # {}, command.todo \subseteq 1..n
  PROVE  Item \in command.todo
<1>1. command.todo \subseteq Nat
  OBVIOUS
<1>2. PICK x \in command.todo : \A y \in command.todo : ~(<<y, x>> \in OpToRel(<, Nat))
  <2>1. IsWellFoundedOn(OpToRel(<, Nat), Nat)
    BY NatLessThanWellFounded
  <2> HIDE DEF Item
  <2> QED
    BY <1>1, <2>1, WFMin
<1>3. \A y \in command.todo : x <= y
  <2>1. \A r \in Nat \X Nat : r[1] < r[2] => r \in OpToRel(<, Nat)
    BY Zenon DEF OpToRel
  <2>2. \A y \in Nat : y < x => <<y, x>> \in OpToRel(<, Nat)
    BY <1>1, <2>1
  <2> HIDE DEF Item
  <2>3. \A y \in command.todo : ~(y < x)
    BY <1>1, <1>2, <2>2, Zenon
  <2> QED
    BY <1>1, <2>3
<1> QED
  BY <1>3 DEF Item

\* What a program keeps of an item while it is driven: its source.
SameSource(p, r) == r.head = p.head /\ r.exact = p.exact /\ r.tree = p.tree

\* One item is written: the list keeps its length, and the others are what they were.
LEMMA RowStored ==
  ASSUME ProofsShape, NEW i \in DOMAIN proofs, NEW change \in Records, Store(i, change)
  PROVE  /\ ProofsShape' /\ Len(proofs') = Len(proofs) /\ DOMAIN proofs' = DOMAIN proofs
         /\ \A j \in DOMAIN proofs : proofs'[j] = IF j = i THEN change ELSE proofs[j]
<1>1. proofs \in Seq(Records) /\ DOMAIN proofs = 1..Len(proofs) /\ i \in 1..Len(proofs)
  BY LenProperties DEF ProofsShape
<1>2. proofs' = [proofs EXCEPT ![i] = change]
  BY DEF Store
<1>3. /\ proofs' \in Seq(Records) /\ Len(proofs') = Len(proofs)
      /\ \A j \in 1..Len(proofs) : proofs'[j] = IF j = i THEN change ELSE proofs[j]
  BY <1>1, <1>2, ExceptSeq
<1>4. DOMAIN proofs' = 1..Len(proofs')
  BY <1>3, LenProperties
<1> QED
  BY <1>1, <1>3, <1>4 DEF ProofsShape

\* An item keeps its source and stays checked: so does the list.
LEMMA RowKept ==
  ASSUME HistoryShape, ProofsShape, ProofsCaptured, ProofsChecked,
         NEW i \in DOMAIN proofs, NEW change \in Records, Store(i, change),
         SameSource(proofs[i], change), CheckedRow(change), UNCHANGED history
  PROVE  /\ ProofsShape' /\ ProofsCaptured' /\ ProofsChecked'
         /\ Len(proofs') = Len(proofs) /\ proofs'[i] = change
<1>1. /\ ProofsShape' /\ Len(proofs') = Len(proofs) /\ DOMAIN proofs' = DOMAIN proofs
      /\ \A j \in DOMAIN proofs : proofs'[j] = IF j = i THEN change ELSE proofs[j]
  BY RowStored
<1>2. ProofsCaptured'
  <2> SUFFICES ASSUME NEW j \in DOMAIN proofs'
               PROVE  proofs'[j].head \in 1..Tip /\ Captured(proofs'[j].head, proofs'[j].exact, proofs'[j].tree)
    BY DEF ProofsCaptured, Captured, Tip
  <2>1. SameSource(proofs[j], proofs'[j])
    BY <1>1 DEF SameSource
  <2> QED
    BY <1>1, <2>1 DEF SameSource, ProofsCaptured, Captured
<1>3. ProofsChecked'
  BY <1>1 DEF ProofsChecked, CheckedRow
<1> QED
  BY <1>1, <1>2, <1>3

\* orphan_calls makes interrupted checks repeatable, and changes nothing else.
LEMMA RowsRepeated ==
  ASSUME ProofsShape
  PROVE  /\ Repeatable \in Seq(Records) /\ Len(Repeatable) = Len(proofs) /\ DOMAIN Repeatable = DOMAIN proofs
         /\ \A i \in DOMAIN proofs : Repeatable[i] = [proofs[i] EXCEPT !.op = IF @ = "open" THEN "none" ELSE @]
<1>1. proofs \in Seq(Records) /\ DOMAIN proofs = 1..Len(proofs) /\ Len(proofs) \in Nat
      /\ \A i \in DOMAIN proofs : proofs[i] \in Records
  BY LenProperties, ElementOfSeq DEF ProofsShape
<1>2. \A i \in DOMAIN proofs : [proofs[i] EXCEPT !.op = IF @ = "open" THEN "none" ELSE @] \in Records
  BY <1>1, ZenonT(60) DEF Records, Checks
<1>3. Repeatable \in [1..Len(proofs) -> Records]
  BY <1>1, <1>2 DEF Repeatable
<1>4. Repeatable \in Seq(Records)
  BY <1>1, <1>3, SeqDef
<1>5. DOMAIN Repeatable = 1..Len(Repeatable) /\ Len(Repeatable) \in Nat
  BY <1>4, LenProperties
<1>6. DOMAIN Repeatable = DOMAIN proofs
  BY DEF Repeatable
<1>7. \A m, n \in Nat : 1..m = 1..n => ~(n < m)
  <2> SUFFICES ASSUME NEW m \in Nat, NEW n \in Nat, 1..m = 1..n, n < m PROVE FALSE
    OBVIOUS
  <2>1. m \in 1..m /\ m \notin 1..n
    OBVIOUS
  <2> QED
    BY <2>1
<1>8. \A m, n \in Nat : 1..m = 1..n => m = n
  BY <1>7
<1>9. Len(Repeatable) = Len(proofs)
  BY <1>1, <1>5, <1>6, <1>8, Zenon
<1> QED
  BY <1>4, <1>6, <1>9 DEF Repeatable

\* So an item stays captured and checked.
LEMMA RepeatedKept ==
  ASSUME ProofsShape, ProofsChecked, NEW i \in DOMAIN proofs
  PROVE  /\ SameSource(proofs[i], Repeatable[i]) /\ CheckedRow(Repeatable[i]) /\ Repeatable[i] \in Records
         /\ Repeatable[i].status = proofs[i].status /\ Repeatable[i].full = proofs[i].full
         /\ Repeatable[i].op = IF proofs[i].op = "open" THEN "none" ELSE proofs[i].op
<1>1. proofs[i] \in Records
  BY ElementOfSeq, LenProperties DEF ProofsShape
<1>2. Repeatable[i] = [proofs[i] EXCEPT !.op = IF @ = "open" THEN "none" ELSE @]
  BY RowsRepeated
<1>3. CheckedRow(proofs[i])
  BY DEF ProofsChecked
<1> QED
  BY <1>1, <1>2, <1>3 DEF Records, Checks, SameSource, CheckedRow

\* A commit keeps the trees of the revisions before it.
LEMMA Committed ==
  ASSUME HistoryShape, NEW tree \in Trees, Tip < MaxCommits, history' = Append(history, tree)
  PROVE  /\ HistoryShape' /\ Tip' = Tip + 1 /\ history'[Tip + 1] = tree
         /\ \A r \in 1..Tip : r \in 1..Tip' /\ history'[r] = history[r]
BY AppendProperties, LenProperties, ReleaseAssumption DEF HistoryShape, Tip

\* So whatever was captured or passed before stays so.
LEMMA CommitKeeps ==
  ASSUME IInv, NEW tree \in Trees, Tip < MaxCommits, history' = Append(history, tree), UNCHANGED proofs
  PROVE  ProofsCaptured' /\ ProofsChecked' /\ (UNCHANGED forced => ForcedSound')
<1>1. /\ Tip' = Tip + 1 /\ Tip \in Nat
      /\ \A r \in 1..Tip : r \in 1..Tip' /\ history'[r] = history[r]
  <2>1. HistoryShape
    BY TypeParts DEF IInv
  <2>2. Tip \in Nat
    BY <2>1 DEF HistoryShape
  <2> QED
    BY <2>1, <2>2, Committed
<1>2. ProofsCaptured'
  BY <1>1 DEF IInv, ProofsCaptured, Captured
<1>3. ProofsChecked'
  BY DEF IInv, ProofsChecked, CheckedRow
<1>4. UNCHANGED forced => ForcedSound'
  BY <1>1 DEF IInv, ForcedSound, Captured
<1> QED
  BY <1>2, <1>3, <1>4

-----------------------------------------------------------------------------
\* The command.

\* No command is one.
LEMMA Idle == NoCommand \in Commands
BY ReleaseAssumption DEF NoCommand, Commands, Names, Places

\* A command that ends leaves nothing behind.
LEMMA CommandDone ==
  ASSUME Done PROVE command' \in Commands /\ CommandEquipped' /\ CommandCaptured' /\ RecordPassed'
<1> QED
  BY Idle DEF Done, NoCommand, CommandEquipped, Equipped, CommandCaptured, RecordPassed

\* drive goes on with the rest of its list, or ends.
LEMMA DriveNext ==
  ASSUME command \in Commands, NEW n \in Nat, command.todo # {}, command.todo \subseteq 1..n, Len(proofs') = n, Next1
  PROVE  command' \in Commands /\ CommandEquipped' /\ CommandCaptured' /\ RecordPassed'
<1>1. Item \in command.todo
  BY Oldest
<1>2. CASE command.todo = {Item}
  BY <1>2, CommandDone DEF Next1
<1>3. CASE command.todo # {Item}
  <2>1. command' = [command EXCEPT !.at = "drive", !.todo = @ \ {Item}]
    BY <1>3 DEF Next1
  <2>2. command' \in Commands /\ command'.at = "drive" /\ command'.todo = command.todo \ {Item}
    BY <2>1 DEF Commands, Places
  <2>3. command'.todo # {} /\ command'.todo \subseteq 1..n
    BY <1>1, <1>3, <2>2
  <2> QED
    BY <2>2, <2>3 DEF CommandEquipped, Equipped, CommandCaptured, RecordPassed
<1> QED
  BY <1>2, <1>3

-----------------------------------------------------------------------------
\* The steps, one after the other. First the type invariant and what it says of the
\* variables a step leaves alone.

LEMMA Init0 == ReleaseInit => IInv
<1> SUFFICES ASSUME ReleaseInit PROVE IInv
  OBVIOUS
<1>1. history \in Seq(Trees) /\ Len(history) = 1
  BY ReleaseAssumption DEF ReleaseInit
<1>2. HistoryShape
  BY <1>1, ReleaseAssumption DEF HistoryShape, Tip
<1>3. proofs \in Seq(Records) /\ Len(proofs) = 0 /\ DOMAIN proofs = {}
  BY EmptySeq DEF ReleaseInit
<1>4. ProofsShape
  BY <1>3, ReleaseAssumption DEF ProofsShape
<1>5. command \in Commands
  BY ReleaseAssumption DEF ReleaseInit, NoCommand, Commands, Names, Places
<1>6. ReleaseTypeOK
  BY <1>2, <1>4, <1>5, TypeParts, ReleaseAssumption DEF ReleaseInit
<1> QED
  BY <1>3, <1>6 DEF ReleaseInit, NoCommand, IInv, CommandEquipped, Equipped, CommandCaptured, ProofsCaptured,
    ProofsChecked, RecordPassed, ForcedSound

\* A step that leaves the repository, the items and forced deliveries alone only has to
\* show what the command holds.
LEMMA OnlyCommand ==
  ASSUME IInv, UNCHANGED <<history, files, proofs, forced>>,
         command' \in Commands, CommandEquipped', CommandCaptured', RecordPassed'
  PROVE  IInv'
<1>1. HistoryShape' /\ ProofsShape' /\ (files \in Trees)' /\ (forced \subseteq Forced)'
  BY TypeParts DEF IInv, HistoryShape, ProofsShape, Tip
<1>2. ReleaseTypeOK'
  BY <1>1, TypeParts DEF ReleaseTypeOK, HistoryShape, ProofsShape, Records, Checks, Forced, Commands, Names, Places
<1> QED
  BY <1>2 DEF IInv, ProofsCaptured, Captured, ProofsChecked, CheckedRow, ForcedSound, Tip

\* The same, for a step that writes items.
LEMMA CommandAndProofs ==
  ASSUME IInv, UNCHANGED <<history, files, forced>>, ProofsShape', ProofsCaptured', ProofsChecked',
         command' \in Commands, CommandEquipped', CommandCaptured', RecordPassed'
  PROVE  IInv'
<1>1. HistoryShape' /\ (files \in Trees)' /\ (forced \subseteq Forced)'
  BY TypeParts DEF IInv, HistoryShape, Tip
<1>2. ReleaseTypeOK'
  BY <1>1, TypeParts DEF ReleaseTypeOK, HistoryShape, ProofsShape, Records, Checks, Forced, Commands, Names, Places
<1> QED
  BY <1>2 DEF IInv, ForcedSound, Captured, Tip

\* EditFiles: the files are not what was captured before.
LEMMA EditStep == ASSUME IInv, EditFiles PROVE IInv'
<1>1. UNCHANGED <<history, proofs, forced, command>> /\ files' \in Trees
  BY DEF EditFiles
<1>2. ReleaseTypeOK'
  BY <1>1 DEF IInv, ReleaseTypeOK, Tip
<1> QED
  BY <1>1, <1>2 DEF IInv, CommandEquipped, CommandCaptured, Captured, ProofsCaptured, ProofsChecked, RecordPassed, Proof,
    Item, ForcedSound, Tip

\* CommitFiles: what a command has read is still there.
LEMMA CommitStep == ASSUME IInv, CommitFiles PROVE IInv'
<1>1. UNCHANGED <<files, proofs, forced, command>> /\ Tip < MaxCommits /\ history' = Append(history, files)
      /\ files \in Trees /\ HistoryShape /\ command \in Commands
  BY TypeParts DEF CommitFiles, IInv
<1>2. /\ HistoryShape' /\ Tip' = Tip + 1 /\ Tip \in Nat
      /\ \A r \in 1..Tip : r \in 1..Tip' /\ history'[r] = history[r]
  <2>1. Tip \in Nat
    BY <1>1 DEF HistoryShape
  <2> QED
    BY <1>1, <2>1, Committed
<1>3. ProofsCaptured' /\ ProofsChecked' /\ ForcedSound'
  BY <1>1, CommitKeeps
<1>4. CommandEquipped'
  BY <1>1, <1>2 DEF IInv, CommandEquipped, Equipped
<1>5. CommandCaptured'
  BY <1>1, <1>2 DEF IInv, CommandEquipped, Equipped, CommandCaptured, Captured
<1>6. RecordPassed'
  BY <1>1 DEF IInv, RecordPassed, Proof, Item
<1>7. ReleaseTypeOK'
  <2>1. ProofsShape' /\ (forced \subseteq Forced)' /\ (files \in Trees)' /\ (command \in Commands)'
    BY <1>1, TypeParts DEF IInv, ProofsShape
  <2> QED
    BY <1>2, <2>1 DEF ReleaseTypeOK, HistoryShape, ProofsShape, Records, Checks, Forced, Commands, Names, Places
<1> QED
  BY <1>3, <1>4, <1>5, <1>6, <1>7 DEF IInv

\* snapshot.
LEMMA ReadHeadStep == ASSUME IInv, ReadHead PROVE IInv'
<1>1. UNCHANGED <<history, files, proofs, forced>> /\ command.at = "head"
      /\ command' = [command EXCEPT !.at = "files", !.head = Tip] /\ command \in Commands
      /\ Tip \in 0..MaxCommits /\ Tip \in 1..Tip
  BY TypeParts, ReleaseAssumption DEF ReadHead, Repository, Doing, IInv, HistoryShape
<1>2. command' \in Commands /\ command'.at = "files" /\ command'.head = Tip /\ command'.name = command.name
  BY <1>1 DEF Commands, Places
<1>3. CommandEquipped'
  BY <1>1, <1>2 DEF IInv, CommandEquipped, Equipped, Tip
<1>4. CommandCaptured' /\ RecordPassed'
  BY <1>2 DEF CommandCaptured, RecordPassed
<1> QED
  BY <1>1, <1>2, <1>3, <1>4, OnlyCommand
LEMMA CopyFilesStep == ASSUME IInv, CopyFiles PROVE IInv'
<1> DEFINE exact == files = history[command.head]
<1>1. UNCHANGED <<history, files, proofs, forced>> /\ command.at = "files" /\ command \in Commands /\ files \in Trees
      /\ command' = [command EXCEPT !.at = IF command.name = "run" THEN "work" ELSE "create",
                                    !.source = files, !.exact = exact]
  BY TypeParts DEF CopyFiles, Repository, Doing, IInv
<1>2. exact \in BOOLEAN
  OBVIOUS
<1> HIDE DEF exact
<1>3. command' \in Commands /\ command'.at \in {"work", "create"} /\ command'.head = command.head
      /\ command'.name = command.name /\ (command'.at = "work" <=> command.name = "run")
      /\ command'.source = files /\ command'.exact = exact
  BY <1>1, <1>2 DEF Commands, Places
<1>4. CommandEquipped'
  BY <1>1, <1>3 DEF IInv, CommandEquipped, Equipped, Tip
<1>5. CommandCaptured'
  <2>1. command'.exact => files = history[command.head]
    BY <1>3 DEF exact
  <2> QED
    BY <1>1, <1>3, <2>1 DEF CommandCaptured, Captured
<1>6. RecordPassed'
  BY <1>3 DEF RecordPassed
<1> QED
  BY <1>1, <1>3, <1>4, <1>5, <1>6, OnlyCommand

\* run and verify start.
LEMMA RunStartsStep == ASSUME IInv, RunStarts PROVE IInv'
<1>1. UNCHANGED <<history, files, forced>> /\ proofs' = Repeatable
  BY DEF RunStarts, Repository
<1>2. PICK full \in BOOLEAN : command' = [NoCommand EXCEPT !.name = "run", !.at = "head", !.full = full]
  BY DEF RunStarts
<1>3. command' \in Commands /\ command'.at = "head" /\ command'.name = "run"
  BY <1>2, Idle DEF Commands, Names, Places
<1>4. CommandEquipped' /\ CommandCaptured' /\ RecordPassed'
  BY <1>3 DEF CommandEquipped, Equipped, CommandCaptured, RecordPassed
<1>5. ProofsShape /\ ProofsChecked
  BY TypeParts DEF IInv
<1>6. ProofsShape' /\ DOMAIN proofs' = DOMAIN proofs
  BY <1>1, <1>5, RowsRepeated DEF ProofsShape
<1>7. ProofsCaptured' /\ ProofsChecked'
  <2> SUFFICES ASSUME NEW i \in DOMAIN proofs'
               PROVE  /\ proofs'[i].head \in 1..Tip /\ Captured(proofs'[i].head, proofs'[i].exact, proofs'[i].tree)
                      /\ CheckedRow(proofs'[i])
    BY <1>1 DEF ProofsCaptured, ProofsChecked, Captured, Tip
  <2>1. SameSource(proofs[i], proofs'[i]) /\ CheckedRow(proofs'[i])
    BY <1>1, <1>5, <1>6, RepeatedKept
  <2> QED
    BY <1>6, <2>1 DEF SameSource, IInv, ProofsCaptured, Captured
<1> QED
  BY <1>1, <1>3, <1>4, <1>6, <1>7, CommandAndProofs
LEMMA VerifyStartsStep == ASSUME IInv, VerifyStarts PROVE IInv'
<1>1. UNCHANGED <<history, files, proofs, forced>> /\ Len(proofs) < MaxProofs
  BY DEF VerifyStarts, Repository
<1>2. PICK full \in BOOLEAN : command' = [NoCommand EXCEPT !.name = "verify", !.at = "head", !.full = full]
  BY DEF VerifyStarts
<1>3. command' \in Commands /\ command'.at = "head" /\ command'.name = "verify"
  BY <1>2, Idle DEF Commands, Names, Places
<1>4. CommandEquipped' /\ CommandCaptured' /\ RecordPassed'
  BY <1>1, <1>3 DEF CommandEquipped, Equipped, CommandCaptured, RecordPassed
<1> QED
  BY <1>1, <1>3, <1>4, OnlyCommand

-----------------------------------------------------------------------------
\* The delivery of a candidate.

\* Completed over a later revision or the same one: the forced delivery of a captured
\* tree is sound, and an item for the revision is asked for only while there is room.
LEMMA CompletesKeeps ==
  ASSUME IInv, NEW revision \in 1..MaxCommits, NEW tree \in Trees, NEW exact \in BOOLEAN,
         Completes(revision, tree, exact), ForcedSound => ForcedSound' \/ ~UNCHANGED forced,
         UNCHANGED proofs, revision \in 1..Tip', exact => tree = history'[revision],
         \A r \in 1..Tip : r \in 1..Tip' /\ history'[r] = history[r]
  PROVE  /\ forced' \subseteq Forced /\ ForcedSound'
         /\ command' \in Commands /\ CommandEquipped' /\ CommandCaptured' /\ RecordPassed'
<1>0. forced \subseteq Forced /\ command \in Commands /\ Len(proofs) \in Nat /\ Len(proofs) <= MaxProofs
  BY TypeParts, LenProperties DEF IInv, ProofsShape
<1>1. CASE command.full
  <2>1. tree \in Sound /\ forced' = forced \cup {[revision |-> revision, tree |-> tree, exact |-> exact]} /\ Done
    BY <1>1 DEF Completes
  <2>2. [revision |-> revision, tree |-> tree, exact |-> exact] \in Forced
    BY DEF Forced
  <2>3. ForcedSound'
    <3> SUFFICES ASSUME NEW f \in forced'
                 PROVE  /\ f.revision \in 1..Tip' /\ f.tree \in Sound
                        /\ f.exact => f.tree = history'[f.revision]
      BY DEF ForcedSound, Captured
    <3>1. CASE f \in forced
      BY <3>1 DEF IInv, ForcedSound, Captured
    <3>2. CASE f = [revision |-> revision, tree |-> tree, exact |-> exact]
      BY <2>1, <3>2
    <3> QED
      BY <2>1, <3>1, <3>2
  <2> QED
    BY <1>0, <2>1, <2>2, <2>3, CommandDone
<1>2. CASE ~command.full
  <2>1. forced' \subseteq Forced /\ ForcedSound'
    BY <1>0, <1>2 DEF Completes, IInv, ForcedSound, Captured
  <2>2. CASE Done
    BY <2>1, <2>2, CommandDone
  <2>3. CASE /\ Len(proofs) # MaxProofs
             /\ command' = [NoCommand EXCEPT !.name = "enqueue", !.at = "head", !.key = revision, !.full = TRUE]
    <3>1. command' \in Commands /\ command'.at = "head" /\ command'.name = "enqueue"
      <4>1. revision \in 0..MaxCommits
        BY ReleaseAssumption
      <4> QED
        BY <2>3, <4>1, Idle DEF Commands, Names, Places
    <3>2. CommandEquipped' /\ CommandCaptured' /\ RecordPassed'
      BY <1>0, <2>3, <3>1, ReleaseAssumption DEF CommandEquipped, Equipped, CommandCaptured, RecordPassed
    <3> QED
      BY <2>1, <3>1, <3>2
  <2> QED
    BY <1>2, <2>2, <2>3 DEF Completes
<1> QED
  BY <1>1, <1>2

LEMMA RunDeliversStep == ASSUME IInv, RunDelivers PROVE IInv'
<1>1. command.at = "work" /\ Tip = command.head /\ Tip < MaxCommits /\ UNCHANGED proofs
  BY DEF RunDelivers, Doing
<1>2. PICK tree \in Trees, checked \in Trees :
        /\ command.exact => checked = tree
        /\ history' = Append(history, tree)
        /\ files' \in IF files = history[Tip] THEN {tree} ELSE Trees
        /\ Completes(Tip + 1, checked, command.exact)
  BY DEF RunDelivers
<1>3. HistoryShape /\ command \in Commands
  BY TypeParts DEF IInv
<1>4. Tip \in Nat /\ Tip + 1 \in 1..MaxCommits /\ command.exact \in BOOLEAN
  BY <1>1, <1>3, ReleaseAssumption DEF HistoryShape, Commands
<1>5. /\ HistoryShape' /\ Tip' = Tip + 1 /\ history'[Tip + 1] = tree
      /\ \A r \in 1..Tip : r \in 1..Tip' /\ history'[r] = history[r]
  BY <1>1, <1>2, <1>3, Committed
<1>6. ProofsCaptured' /\ ProofsChecked' /\ (UNCHANGED forced => ForcedSound')
  BY <1>1, <1>2, CommitKeeps
<1>7. Tip + 1 \in 1..Tip'
  BY <1>4, <1>5
<1>8. /\ forced' \subseteq Forced /\ ForcedSound'
      /\ command' \in Commands /\ CommandEquipped' /\ CommandCaptured' /\ RecordPassed'
  <2>1. command.exact => checked = history'[Tip + 1]
    BY <1>2, <1>5
  <2> QED
    BY <1>1, <1>2, <1>4, <1>5, <1>6, <1>7, <2>1, CompletesKeeps
<1>9. ReleaseTypeOK'
  <2>1. ProofsShape' /\ (files \in Trees)'
    BY <1>1, <1>2, TypeParts DEF IInv, ProofsShape
  <2> QED
    BY <1>5, <1>8, <2>1 DEF ReleaseTypeOK, HistoryShape, ProofsShape, Records, Checks, Forced, Commands, Names, Places
<1> QED
  BY <1>6, <1>8, <1>9 DEF IInv

LEMMA RunDeliversNothingStep == ASSUME IInv, RunDeliversNothing PROVE IInv'
<1> DEFINE exact == command.exact /\ Tip = command.head
<1>1. command.at = "work" /\ UNCHANGED <<history, files, proofs>> /\ Completes(Tip, command.source, exact)
  BY DEF RunDeliversNothing, Doing, Repository
<1>2. HistoryShape /\ ProofsShape /\ files \in Trees /\ command \in Commands
  BY TypeParts DEF IInv
<1>3. Tip \in 1..MaxCommits /\ Tip' = Tip /\ Tip \in 1..Tip /\ exact \in BOOLEAN /\ command.source \in Trees
  BY <1>1, <1>2 DEF HistoryShape, Commands, Tip
<1>4. exact => command.source = history[Tip]
  BY <1>1 DEF IInv, CommandCaptured, Captured
<1> HIDE DEF exact
<1>5. ForcedSound => ForcedSound' \/ ~UNCHANGED forced
  BY <1>1, <1>3 DEF ForcedSound, Captured
<1>6. /\ forced' \subseteq Forced /\ ForcedSound'
      /\ command' \in Commands /\ CommandEquipped' /\ CommandCaptured' /\ RecordPassed'
  BY <1>1, <1>3, <1>4, <1>5, CompletesKeeps
<1>7. ReleaseTypeOK'
  <2>1. HistoryShape' /\ ProofsShape' /\ (files \in Trees)'
    BY <1>1, <1>2 DEF HistoryShape, ProofsShape, Tip
  <2> QED
    BY <1>6, <2>1 DEF ReleaseTypeOK, HistoryShape, ProofsShape, Records, Checks, Forced, Commands, Names, Places
<1>8. ProofsCaptured' /\ ProofsChecked'
  BY <1>1, <1>3 DEF IInv, ProofsCaptured, Captured, ProofsChecked, CheckedRow
<1> QED
  BY <1>6, <1>7, <1>8 DEF IInv

LEMMA StopStep == ASSUME IInv, RunStops \/ CommandDies PROVE IInv'
BY CommandDone, OnlyCommand DEF RunStops, CommandDies, Repository

-----------------------------------------------------------------------------
\* An item is created and made ready.

LEMMA CreateStep == ASSUME IInv, CreateProof PROVE IInv'
<1> DEFINE row == [key |-> command.key, full |-> command.full, head |-> command.head, tree |-> command.source,
                   exact |-> command.exact, phase |-> "clarify", status |-> "READY", op |-> "none", verified |-> 0]
<1>1. command.at = "create" /\ command' = [command EXCEPT !.at = "point"] /\ proofs' = Append(proofs, row)
      /\ UNCHANGED <<history, files, forced>>
  BY DEF CreateProof, Doing, To, Repository
<1>2. HistoryShape /\ ProofsShape /\ command \in Commands /\ Tip \in Nat
  BY TypeParts DEF IInv, HistoryShape
<1>3. command.head \in 1..Tip /\ (command.exact => command.source = history[command.head]) /\ Len(proofs) < MaxProofs
  BY <1>1 DEF IInv, CommandEquipped, Equipped, CommandCaptured, Captured
<1>4. row \in Records
  <2>1. command.head \in 1..MaxCommits
    BY <1>2, <1>3, ReleaseAssumption DEF HistoryShape
  <2> QED
    BY <1>2, <2>1, ReleaseAssumption DEF Records, Checks, Commands
<1>5. row.head = command.head /\ row.exact = command.exact /\ row.tree = command.source /\ CheckedRow(row)
  BY DEF CheckedRow
<1> HIDE DEF row
<1>6. proofs \in Seq(Records) /\ Len(proofs) \in Nat /\ DOMAIN proofs = 1..Len(proofs)
  BY <1>2, LenProperties DEF ProofsShape
<1>7. /\ proofs' \in Seq(Records) /\ Len(proofs') = Len(proofs) + 1
      /\ \A i \in DOMAIN proofs : proofs'[i] = proofs[i]
      /\ proofs'[Len(proofs) + 1] = row
  BY <1>1, <1>4, <1>6, AppendProperties
<1>8. DOMAIN proofs' = DOMAIN proofs \cup {Len(proofs) + 1}
  <2>1. DOMAIN proofs' = 1..(Len(proofs) + 1)
    BY <1>7, LenProperties
  <2> QED
    BY <1>6, <2>1
<1>9. ProofsShape'
  BY <1>3, <1>6, <1>7, ReleaseAssumption DEF ProofsShape
<1>10. ProofsCaptured'
  <2> SUFFICES ASSUME NEW i \in DOMAIN proofs'
               PROVE  proofs'[i].head \in 1..Tip /\ Captured(proofs'[i].head, proofs'[i].exact, proofs'[i].tree)
    BY <1>1 DEF ProofsCaptured, Captured, Tip
  <2>1. CASE i \in DOMAIN proofs
    BY <1>7, <2>1 DEF IInv, ProofsCaptured
  <2>2. CASE i = Len(proofs) + 1
    BY <1>3, <1>5, <1>7, <2>2 DEF Captured
  <2> QED
    BY <1>8, <2>1, <2>2
<1>11. ProofsChecked'
  BY <1>5, <1>7, <1>8 DEF IInv, ProofsChecked, CheckedRow
<1>12. command' \in Commands /\ command'.at = "point"
  BY <1>1, <1>2 DEF Commands, Places
<1>13. CommandEquipped' /\ CommandCaptured' /\ RecordPassed'
  BY <1>6, <1>7, <1>12 DEF CommandEquipped, Equipped, CommandCaptured, RecordPassed
<1> QED
  BY <1>1, <1>9, <1>10, <1>11, <1>12, <1>13, CommandAndProofs

\* PointProof and ReadyProof write the newest item, which is there.
LEMMA NewestThere ==
  ASSUME IInv, command.at \in {"point", "ready"}
  PROVE  /\ Newest \in DOMAIN proofs /\ proofs[Newest] \in Records /\ CheckedRow(proofs[Newest])
         /\ Newest \in 1..MaxProofs /\ Newest = Len(proofs)
<1>1. ProofsShape /\ Len(proofs) # 0
  BY TypeParts DEF IInv, CommandEquipped, Equipped
<1>2. Newest \in 1..Len(proofs) /\ DOMAIN proofs = 1..Len(proofs) /\ Len(proofs) \in Nat /\ Newest = Len(proofs)
  BY <1>1, LenProperties DEF ProofsShape, Newest
<1>3. proofs[Newest] \in Records
  BY <1>1, <1>2, ElementOfSeq DEF ProofsShape
<1> QED
  BY <1>1, <1>2, <1>3, ReleaseAssumption DEF ProofsShape, IInv, ProofsChecked

LEMMA PointStep == ASSUME IInv, PointProof PROVE IInv'
<1> DEFINE row == [proofs[Newest] EXCEPT !.phase = "verify", !.status = "RUNNING"]
<1>1. command.at = "point" /\ command' = [command EXCEPT !.at = "ready"] /\ Store(Newest, row)
      /\ UNCHANGED <<history, files, forced>>
  BY DEF PointProof, Doing, To, Repository
<1>2. Newest \in DOMAIN proofs /\ proofs[Newest] \in Records /\ CheckedRow(proofs[Newest]) /\ Newest = Len(proofs)
  BY <1>1, NewestThere
<1>3. row \in Records /\ SameSource(proofs[Newest], row) /\ CheckedRow(row)
  BY <1>2 DEF Records, SameSource, CheckedRow
<1> HIDE DEF row
<1>4. HistoryShape /\ ProofsShape /\ ProofsCaptured /\ ProofsChecked /\ command \in Commands
  BY TypeParts DEF IInv
<1>5. ProofsShape' /\ ProofsCaptured' /\ ProofsChecked' /\ Len(proofs') = Len(proofs)
  BY <1>1, <1>2, <1>3, <1>4, RowKept
<1>6. command' \in Commands /\ command'.at = "ready"
  BY <1>1, <1>4 DEF Commands, Places
<1>7. CommandEquipped' /\ CommandCaptured' /\ RecordPassed'
  BY <1>1, <1>5, <1>6 DEF IInv, CommandEquipped, Equipped, CommandCaptured, RecordPassed
<1> QED
  BY <1>1, <1>5, <1>6, <1>7, CommandAndProofs

LEMMA ReadyStep == ASSUME IInv, ReadyProof PROVE IInv'
<1> DEFINE row == [proofs[Newest] EXCEPT !.status = "READY"]
<1>1. command.at = "ready" /\ Store(Newest, row) /\ UNCHANGED <<history, files, forced>>
      /\ (Done \/ command' = [command EXCEPT !.at = "drive", !.todo = {Newest}])
  BY DEF ReadyProof, Doing, Repository
<1>2. /\ Newest \in DOMAIN proofs /\ proofs[Newest] \in Records /\ CheckedRow(proofs[Newest])
      /\ Newest \in 1..MaxProofs /\ Newest = Len(proofs)
  BY <1>1, NewestThere
<1>3. row \in Records /\ SameSource(proofs[Newest], row) /\ CheckedRow(row)
  BY <1>2 DEF Records, SameSource, CheckedRow
<1> HIDE DEF row
<1>4. HistoryShape /\ ProofsShape /\ ProofsCaptured /\ ProofsChecked /\ command \in Commands
  BY TypeParts DEF IInv
<1>5. ProofsShape' /\ ProofsCaptured' /\ ProofsChecked' /\ Len(proofs') = Len(proofs)
  BY <1>1, <1>2, <1>3, <1>4, RowKept
<1>6. command' \in Commands /\ CommandEquipped' /\ CommandCaptured' /\ RecordPassed'
  <2>1. CASE Done
    BY <2>1, CommandDone
  <2>2. CASE command' = [command EXCEPT !.at = "drive", !.todo = {Newest}]
    <3>1. command' \in Commands /\ command'.at = "drive" /\ command'.todo = {Newest}
      BY <1>2, <1>4, <2>2 DEF Commands, Places
    <3>2. {Newest} \subseteq 1..Len(proofs')
      BY <1>2, <1>4, <1>5, LenProperties DEF ProofsShape
    <3> QED
      BY <3>1, <3>2 DEF CommandEquipped, Equipped, CommandCaptured, RecordPassed
  <2> QED
    BY <1>1, <2>1, <2>2
<1> QED
  BY <1>1, <1>5, <1>6, CommandAndProofs

-----------------------------------------------------------------------------
\* The worker and resume.

LEMMA WorkerStep == ASSUME IInv, WorkerStarts PROVE IInv'
<1>1. UNCHANGED <<history, files, proofs, forced>> /\ Pending # {}
      /\ command' = [NoCommand EXCEPT !.name = "worker", !.at = "drive", !.todo = Pending]
  BY DEF WorkerStarts, Repository
<1>2. Pending \subseteq 1..Len(proofs) /\ Pending \subseteq 1..MaxProofs
  <2>1. ProofsShape
    BY TypeParts DEF IInv
  <2>2. DOMAIN proofs = 1..Len(proofs) /\ Len(proofs) \in Nat /\ Len(proofs) <= MaxProofs
    BY <2>1, LenProperties DEF ProofsShape
  <2> QED
    BY <2>2, ReleaseAssumption DEF Pending
<1>3. command' \in Commands /\ command'.at = "drive" /\ command'.todo = Pending
  BY <1>1, <1>2, Idle DEF Commands, Names, Places
<1>4. CommandEquipped' /\ CommandCaptured' /\ RecordPassed'
  BY <1>1, <1>2, <1>3 DEF CommandEquipped, Equipped, CommandCaptured, RecordPassed
<1> QED
  BY <1>1, <1>3, <1>4, OnlyCommand

LEMMA ResumeStep == ASSUME IInv, NEW i \in DOMAIN proofs, ResumeProof(i) PROVE IInv'
<1> DEFINE row == [proofs[i] EXCEPT !.status = "READY", !.op = IF @ = "broken" THEN "none" ELSE @]
<1>1. /\ proofs[i].status = "BLOCKED" /\ proofs[i].op \in {"failed", "broken"}
      /\ proofs' = [Repeatable EXCEPT ![i] = row] /\ UNCHANGED <<history, files, forced>>
      /\ command' = [NoCommand EXCEPT !.name = "resume", !.at = "drive", !.todo = {i}]
  BY DEF ResumeProof, Repository
<1>2. HistoryShape /\ ProofsShape /\ ProofsCaptured /\ ProofsChecked
  BY TypeParts DEF IInv
<1>3. proofs \in Seq(Records) /\ Len(proofs) \in Nat /\ DOMAIN proofs = 1..Len(proofs) /\ Len(proofs) <= MaxProofs
  BY <1>2, LenProperties DEF ProofsShape
<1>4. \A j \in DOMAIN proofs : SameSource(proofs[j], Repeatable[j]) /\ CheckedRow(Repeatable[j]) /\ Repeatable[j] \in Records
  BY <1>2, RepeatedKept
<1>5. proofs[i] \in Records /\ CheckedRow(proofs[i])
  BY <1>2, <1>3, ElementOfSeq DEF ProofsChecked
<1>6. row \in Records /\ SameSource(proofs[i], row) /\ CheckedRow(row)
  BY <1>1, <1>5 DEF Records, Checks, SameSource, CheckedRow
<1> HIDE DEF row
<1>7. Repeatable \in Seq(Records) /\ Len(Repeatable) = Len(proofs)
  BY <1>2, RowsRepeated
<1>8. /\ proofs' \in Seq(Records) /\ Len(proofs') = Len(proofs)
      /\ \A j \in 1..Len(proofs) : proofs'[j] = IF j = i THEN row ELSE Repeatable[j]
  BY <1>1, <1>3, <1>6, <1>7, ExceptSeq
<1>9. DOMAIN proofs' = DOMAIN proofs
  BY <1>3, <1>8, LenProperties
<1>10. ProofsShape'
  BY <1>3, <1>8 DEF ProofsShape
<1>11. ProofsCaptured' /\ ProofsChecked'
  <2> SUFFICES ASSUME NEW j \in DOMAIN proofs'
               PROVE  /\ proofs'[j].head \in 1..Tip /\ Captured(proofs'[j].head, proofs'[j].exact, proofs'[j].tree)
                      /\ CheckedRow(proofs'[j])
    BY <1>1 DEF ProofsCaptured, ProofsChecked, Captured, Tip
  <2>1. SameSource(proofs[j], proofs'[j]) /\ CheckedRow(proofs'[j])
    BY <1>3, <1>4, <1>6, <1>8, <1>9
  <2> QED
    BY <1>2, <1>9, <2>1 DEF SameSource, ProofsCaptured, Captured
<1>12. i \in 1..MaxProofs /\ {i} \subseteq 1..Len(proofs')
  BY <1>3, <1>8, ReleaseAssumption
<1>13. command' \in Commands /\ command'.at = "drive" /\ command'.todo = {i}
  BY <1>1, <1>12, Idle DEF Commands, Names, Places
<1>14. CommandEquipped' /\ CommandCaptured' /\ RecordPassed'
  BY <1>12, <1>13 DEF CommandEquipped, Equipped, CommandCaptured, RecordPassed
<1> QED
  BY <1>1, <1>10, <1>11, <1>13, <1>14, CommandAndProofs

-----------------------------------------------------------------------------
\* drive.

\* The item that is driven is there.
LEMMA ItemThere ==
  ASSUME IInv, command.at \in {"drive", "check", "record"}
  PROVE  /\ Item \in DOMAIN proofs /\ Proof \in Records /\ CheckedRow(Proof) /\ Proof = proofs[Item]
         /\ Len(proofs) \in Nat /\ command.todo # {} /\ command.todo \subseteq 1..Len(proofs)
<1>1. ProofsShape /\ command.todo # {} /\ command.todo \subseteq 1..Len(proofs)
  BY TypeParts DEF IInv, CommandEquipped, Equipped
<1>2. Len(proofs) \in Nat /\ DOMAIN proofs = 1..Len(proofs)
  BY <1>1, LenProperties DEF ProofsShape
<1>3. Item \in command.todo
  BY <1>1, <1>2, Oldest
<1> HIDE DEF Item
<1>4. Item \in 1..Len(proofs)
  BY <1>1, <1>3
<1>5. proofs[Item] \in Records
  BY <1>1, <1>4, ElementOfSeq DEF ProofsShape
<1> QED
  BY <1>1, <1>2, <1>4, <1>5 DEF Proof, IInv, ProofsChecked

\* An item whose check passed is completed for its own revision.
LEMMA ProvenStep ==
  ASSUME IInv, command.at \in {"drive", "record"}, Proof.op = "passed", Proven, UNCHANGED <<history, files, forced>>
  PROVE  IInv'
<1> HIDE DEF Item
<1> DEFINE row == [Proof EXCEPT !.status = "COMPLETED", !.verified = VerifiedRevision]
<1>1. Store(Item, row) /\ Next1
  BY DEF Proven
<1>2. /\ Item \in DOMAIN proofs /\ Proof \in Records /\ CheckedRow(Proof) /\ Proof = proofs[Item]
      /\ Len(proofs) \in Nat /\ command.todo # {} /\ command.todo \subseteq 1..Len(proofs)
  BY ItemThere
<1>3. HistoryShape /\ ProofsShape /\ ProofsCaptured /\ ProofsChecked /\ command \in Commands
  BY TypeParts DEF IInv
<1>4. row \in Records /\ SameSource(Proof, row) /\ CheckedRow(row)
  <2>1. Proof.head \in 0..MaxCommits
    BY <1>2, ReleaseAssumption DEF Records
  <2> QED
    BY <1>2, <2>1 DEF Records, SameSource, CheckedRow, VerifiedRevision
<1> HIDE DEF row
<1>5. ProofsShape' /\ ProofsCaptured' /\ ProofsChecked' /\ Len(proofs') = Len(proofs)
  BY <1>1, <1>2, <1>3, <1>4, RowKept
<1>6. command' \in Commands /\ CommandEquipped' /\ CommandCaptured' /\ RecordPassed'
  BY <1>1, <1>2, <1>3, <1>5, DriveNext
<1> QED
  BY <1>3, <1>5, <1>6, CommandAndProofs

\* An item whose check failed, or is unknown, blocks.
LEMMA FailsStep ==
  ASSUME IInv, command.at \in {"drive", "check"}, NEW op \in Checks, Fails(op), UNCHANGED <<history, files, forced>>,
         op = "passed" => Proof.op = "passed"
  PROVE  IInv'
<1> HIDE DEF Item
<1> DEFINE row == [Proof EXCEPT !.status = "BLOCKED", !.op = op]
<1>1. Store(Item, row) /\ Done
  BY DEF Fails
<1>2. Item \in DOMAIN proofs /\ Proof \in Records /\ CheckedRow(Proof) /\ Proof = proofs[Item]
  BY ItemThere
<1>3. HistoryShape /\ ProofsShape /\ ProofsCaptured /\ ProofsChecked
  BY TypeParts DEF IInv
<1>4. row \in Records /\ SameSource(Proof, row) /\ CheckedRow(row)
  BY <1>2 DEF Records, SameSource, CheckedRow
<1> HIDE DEF row
<1>5. ProofsShape' /\ ProofsCaptured' /\ ProofsChecked'
  BY <1>1, <1>2, <1>3, <1>4, RowKept
<1> QED
  BY <1>1, <1>5, CommandDone, CommandAndProofs

\* The check of an item is opened, or has passed: the command stays at the item.
LEMMA ItemStep ==
  ASSUME IInv, NEW place \in {"check", "record"}, NEW row \in Records, Store(Item, row), To(place),
         command.at \in {"drive", "check"}, SameSource(Proof, row), CheckedRow(row),
         place = "record" => row.op = "passed", UNCHANGED <<history, files, forced>>
  PROVE  IInv'
<1>2. /\ Item \in DOMAIN proofs /\ Proof = proofs[Item]
      /\ Len(proofs) \in Nat /\ command.todo # {} /\ command.todo \subseteq 1..Len(proofs)
  BY ItemThere
<1>3. HistoryShape /\ ProofsShape /\ ProofsCaptured /\ ProofsChecked /\ command \in Commands
  BY TypeParts DEF IInv
<1>4. command' \in Commands /\ command'.at = place /\ command'.todo = command.todo
  BY <1>3 DEF To, Commands, Places
<1>5. Item' = Item
  BY <1>4 DEF Item
<1> HIDE DEF Item
<1>6. ProofsShape' /\ ProofsCaptured' /\ ProofsChecked' /\ Len(proofs') = Len(proofs) /\ proofs'[Item] = row
  BY <1>2, <1>3, RowKept
<1>7. RecordPassed'
  BY <1>4, <1>5, <1>6 DEF RecordPassed, Proof
<1>8. CommandEquipped' /\ CommandCaptured'
  BY <1>2, <1>4, <1>6 DEF CommandEquipped, Equipped, CommandCaptured
<1> QED
  BY <1>4, <1>6, <1>7, <1>8, CommandAndProofs

LEMMA DriveStep == ASSUME IInv, DriveProof PROVE IInv'
<1> HIDE DEF Item
<1>1. command.at = "drive" /\ UNCHANGED <<history, files, forced>>
  BY DEF DriveProof, Doing, Repository
<1>2. Proof \in Records /\ CheckedRow(Proof)
  BY <1>1, ItemThere
<1>3. CASE Proof.phase = "clarify" /\ \E op \in {"none", "broken"} : Fails(op)
  <2>1. PICK op \in {"none", "broken"} : Fails(op)
    BY <1>3
  <2> QED
    BY <1>1, <2>1, FailsStep DEF Checks
<1>4. CASE Proof.op = "passed" /\ Proven
  BY <1>1, <1>4, ProvenStep
<1>5. CASE Proof.op = "none" /\ Store(Item, [Proof EXCEPT !.status = "RUNNING", !.op = "open"]) /\ To("check")
  <2> DEFINE row == [Proof EXCEPT !.status = "RUNNING", !.op = "open"]
  <2>1. row \in Records /\ SameSource(Proof, row) /\ CheckedRow(row)
    BY <1>2 DEF Records, Checks, SameSource, CheckedRow
  <2>2. Store(Item, row) /\ To("check")
    BY <1>5
  <2> HIDE DEF row
  <2> QED
    BY <1>1, <2>1, <2>2, ItemStep
<1>6. CASE Fails(Proof.op)
  <2>1. Proof.op \in Checks
    BY <1>2 DEF Records
  <2> QED
    BY <1>1, <1>6, <2>1, FailsStep
<1>7. \/ Proof.phase = "clarify" /\ \E op \in {"none", "broken"} : Fails(op)
      \/ Proof.op = "passed" /\ Proven
      \/ Proof.op = "none" /\ Store(Item, [Proof EXCEPT !.status = "RUNNING", !.op = "open"]) /\ To("check")
      \/ Fails(Proof.op)
  BY <1>2, Zenon DEF DriveProof, Records
<1> QED
  BY <1>3, <1>4, <1>5, <1>6, <1>7

LEMMA CheckStep == ASSUME IInv, CheckEnds PROVE IInv'
<1> HIDE DEF Item
<1>1. command.at = "check" /\ UNCHANGED <<history, files, forced>>
  BY DEF CheckEnds, Doing, Repository
<1>2. Proof \in Records /\ CheckedRow(Proof)
  BY <1>1, ItemThere
<1>3. CASE (Proof.full => Proof.tree \in Sound) /\ Store(Item, [Proof EXCEPT !.op = "passed"]) /\ To("record")
  <2> DEFINE row == [Proof EXCEPT !.op = "passed"]
  <2>1. row \in Records /\ SameSource(Proof, row) /\ CheckedRow(row) /\ row.op = "passed"
    BY <1>2, <1>3 DEF Records, Checks, SameSource, CheckedRow
  <2>2. Store(Item, row) /\ To("record")
    BY <1>3
  <2> HIDE DEF row
  <2> QED
    BY <1>1, <2>1, <2>2, ItemStep
<1>4. CASE \E op \in {"failed", "broken"} : Fails(op)
  <2>1. PICK op \in {"failed", "broken"} : Fails(op)
    BY <1>4
  <2> QED
    BY <1>1, <2>1, FailsStep DEF Checks
<1> QED
  BY <1>3, <1>4 DEF CheckEnds

LEMMA RecordStep == ASSUME IInv, RecordProof PROVE IInv'
<1> HIDE DEF Item
<1>1. command.at = "record" /\ Proven /\ UNCHANGED <<history, files, forced>>
  BY DEF RecordProof, Doing, Repository
<1>2. Proof.op = "passed"
  BY <1>1 DEF IInv, RecordPassed
<1> QED
  BY <1>1, <1>2, ProvenStep

-----------------------------------------------------------------------------
\* The theorems.

\* Every step of the release checks keeps the inductive invariant.
LEMMA Step == IInv /\ [ReleaseNext]_releaseVars => IInv'
<1> SUFFICES ASSUME IInv, [ReleaseNext]_releaseVars PROVE IInv'
  OBVIOUS
<1>1. CASE UNCHANGED releaseVars
  <2>1. UNCHANGED <<history, files, proofs, forced, command>>
    BY <1>1 DEF releaseVars
  <2> QED
    BY <2>1 DEF IInv, ReleaseTypeOK, CommandEquipped, CommandCaptured, Captured, ProofsCaptured, ProofsChecked,
      RecordPassed, Proof, Item, ForcedSound, Tip
<1>2. CASE EditFiles \/ CommitFiles \/ ReadHead \/ CopyFiles
  BY <1>2, EditStep, CommitStep, ReadHeadStep, CopyFilesStep
<1>3. CASE RunStarts \/ VerifyStarts \/ RunDelivers \/ RunDeliversNothing \/ RunStops \/ CommandDies
  BY <1>3, RunStartsStep, VerifyStartsStep, RunDeliversStep, RunDeliversNothingStep, StopStep
<1>4. CASE CreateProof \/ PointProof \/ ReadyProof \/ WorkerStarts
  BY <1>4, CreateStep, PointStep, ReadyStep, WorkerStep
<1>5. CASE \E i \in DOMAIN proofs : ResumeProof(i)
  BY <1>5, ResumeStep
<1>6. CASE DriveProof \/ CheckEnds \/ RecordProof
  BY <1>6, DriveStep, CheckStep, RecordStep
<1> QED
  BY <1>1, <1>2, <1>3, <1>4, <1>5, <1>6, Zenon DEF ReleaseNext

\* The inductive invariant of the release checks: sources captured over a clean tree are
\* the tree of their revision, and only checked items are completed.
THEOREM ReleaseInvariant == ReleaseSpec => []IInv
BY Init0, Step, PTL DEF ReleaseSpec

\* The repository, the items and the command keep their shape, whatever is interrupted:
\* an item always names a revision there is, and there are never more than MaxProofs.
THEOREM ReleaseTypeCorrect == ReleaseSpec => []ReleaseTypeOK
<1>1. IInv => ReleaseTypeOK
  BY DEF IInv
<1> QED
  BY <1>1, ReleaseInvariant, PTL

\* release.attest: whatever it accepts rests on a source that passed the full checks,
\* which is the tree of the revision if it was captured over a clean tree; of a source
\* captured over a dirty tree the theorem says only that this source has passed.
THEOREM AttestsOnlySound == ReleaseSpec => []AttestedSound
<1>1. IInv => AttestedSound
  <2> SUFFICES ASSUME IInv, NEW r \in 1..Tip, NEW a \in Accepted(r)
               PROVE  a.tree \in Sound /\ (a.exact => a.tree = history[r])
    BY DEF AttestedSound
  <2>1. CASE a \in forced /\ a.revision = r
    BY <2>1 DEF IInv, ForcedSound, Captured
  <2>2. CASE \E i \in DOMAIN proofs :
               a = proofs[i] /\ a.status = "COMPLETED" /\ a.full /\ a.verified = r
    <3>1. PICK i \in DOMAIN proofs :
            a = proofs[i] /\ a.status = "COMPLETED" /\ a.full /\ a.verified = r
      BY <2>2
    <3>2. a.tree \in Sound /\ a.head = r
      BY <3>1 DEF IInv, ProofsChecked, CheckedRow
    <3>3. a.exact => a.tree = history[r]
      BY <3>1, <3>2 DEF IInv, ProofsCaptured, Captured
    <3> QED
      BY <3>2, <3>3
  <2> QED
    BY <2>1, <2>2 DEF Accepted
<1> QED
  BY <1>1, ReleaseInvariant, PTL
===============================================================================
