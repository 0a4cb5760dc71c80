----------------------------- MODULE ReleaseQueue -----------------------------
\* Release checks (control/release.py): a delivered revision, or the source of a verify
\* command, is captured into a work item that only verifies; the command or a
\* background worker drives it, and attest answers for a revision by what is completed.
\* The user edits and commits at every moment.
EXTENDS Naturals, Sequences, FiniteSets
CONSTANTS
  Trees,       \* contents of the product files
  Sound,       \* those that pass the full checks
  First,       \* the content of the first commit
  MaxCommits,  \* bound: commits
  MaxEdits,    \* bound: edits of the user
  MaxProofs,   \* bound: release items
  MaxCrashes   \* bound: crashes

ASSUME ReleaseAssumption ==
  /\ Sound \subseteq Trees /\ First \in Trees
  /\ MaxCommits \in Nat \ {0} /\ MaxEdits \in Nat /\ MaxProofs \in Nat /\ MaxCrashes \in Nat

VARIABLES
  history,  \* the trees of the commits
  files,    \* the working tree
  proofs,   \* the release items, oldest first
  forced,   \* completed deliveries of runs with --full-verify
  command,  \* the command that holds the project lock
  edits, crashes
releaseVars == <<history, files, proofs, forced, command, edits, crashes>>

NoCommand == [name |-> "none", at |-> "start", key |-> 0, full |-> FALSE, head |-> 0, source |-> First,
              exact |-> FALSE, todo |-> {}]
ReleaseInit ==
  /\ history = <<First>> /\ files = First /\ proofs = <<>> /\ forced = {}
  /\ command = NoCommand /\ edits = 0 /\ crashes = 0

Tip == Len(history)
Repository == <<history, files, edits>>
Free == command.name = "none"
Doing(place) == command.at = place
To(place) == command' = [command EXCEPT !.at = place]
Done == command' = NoCommand

-----------------------------------------------------------------------------
\* The user. He may leave the tree dirty.
EditFiles ==
  /\ edits < MaxEdits /\ edits' = edits + 1
  /\ files' \in Trees \ {files} /\ UNCHANGED <<history, proofs, forced, command, crashes>>
CommitFiles ==
  /\ files # history[Tip] /\ Tip < MaxCommits /\ history' = Append(history, files)
  /\ UNCHANGED <<files, proofs, forced, command, edits, crashes>>

-----------------------------------------------------------------------------
\* snapshot: the head is read first, the files are copied afterwards. exact is no part
\* of the program: what was copied is the tree of that head.
ReadHead ==
  /\ Doing("head") /\ command' = [command EXCEPT !.at = "files", !.head = Tip]
  /\ UNCHANGED <<Repository, proofs, forced, crashes>>
CopyFiles ==
  /\ Doing("files")
  /\ command' = [command EXCEPT !.at = IF command.name = "run" THEN "work" ELSE "create",
                                !.source = files, !.exact = files = history[command.head]]
  /\ UNCHANGED <<Repository, proofs, forced, crashes>>

\* Commands that execute work begin with orphan_calls: an interrupted check may be repeated.
Repeatable == [i \in DOMAIN proofs |-> [proofs[i] EXCEPT !.op = IF @ = "open" THEN "none" ELSE @]]

RunStarts ==
  /\ Free /\ proofs' = Repeatable
  /\ \E full \in BOOLEAN : command' = [NoCommand EXCEPT !.name = "run", !.at = "head", !.full = full]
  /\ UNCHANGED <<Repository, forced, crashes>>
VerifyStarts ==
  /\ Free /\ Len(proofs) < MaxProofs
  /\ \E full \in BOOLEAN : command' = [NoCommand EXCEPT !.name = "verify", !.at = "head", !.full = full]
  /\ UNCHANGED <<Repository, proofs, forced, crashes>>

\* Completed: with deferred verification the item of the delivered revision is enqueued,
\* unless there is one. With --full-verify the candidate itself has passed.
Completes(revision, tree, exact) ==
  IF command.full
  THEN /\ tree \in Sound /\ forced' = forced \cup {[revision |-> revision, tree |-> tree, exact |-> exact]} /\ Done
  ELSE /\ UNCHANGED forced
       /\ IF Len(proofs) = MaxProofs \/ \E i \in DOMAIN proofs : proofs[i].key = revision THEN Done
          ELSE command' = [NoCommand EXCEPT !.name = "enqueue", !.at = "head", !.key = revision, !.full = TRUE]

\* The delivery of a candidate. One without changes reports the head of that moment.
RunDelivers ==
  /\ Doing("work") /\ Tip = command.head /\ Tip < MaxCommits
  /\ \E tree \in Trees \ {history[Tip]}, checked \in Trees :
       /\ command.exact => checked = tree
       /\ history' = Append(history, tree)
       /\ files' \in IF files = history[Tip] THEN {tree} ELSE Trees
       /\ Completes(Tip + 1, checked, command.exact)
  /\ UNCHANGED <<proofs, edits, crashes>>
RunDeliversNothing ==
  /\ Doing("work") /\ Completes(Tip, command.source, command.exact /\ Tip = command.head)
  /\ UNCHANGED <<Repository, proofs, crashes>>
\* A conflict, or any other reason to stop.
RunStops == Doing("work") /\ Done /\ UNCHANGED <<Repository, proofs, forced, crashes>>

-----------------------------------------------------------------------------
\* An item is created, and made ready to verify, in three transactions.
CreateProof ==
  /\ Doing("create") /\ To("point")
  /\ proofs' = Append(proofs, [key |-> command.key, full |-> command.full, head |-> command.head, tree |-> command.source,
                               exact |-> command.exact, phase |-> "clarify", status |-> "READY", op |-> "none", verified |-> 0])
  /\ UNCHANGED <<Repository, forced, crashes>>
Store(i, change) == proofs' = [proofs EXCEPT ![i] = change]
Newest == Len(proofs)
PointProof ==
  /\ Doing("point") /\ To("ready")
  /\ Store(Newest, [proofs[Newest] EXCEPT !.phase = "verify", !.status = "RUNNING"])
  /\ UNCHANGED <<Repository, forced, crashes>>
ReadyProof ==
  /\ Doing("ready") /\ Store(Newest, [proofs[Newest] EXCEPT !.status = "READY"])
  /\ IF command.name = "enqueue" THEN Done
     ELSE command' = [command EXCEPT !.at = "drive", !.todo = {Newest}]
  /\ UNCHANGED <<Repository, forced, crashes>>

\* The worker lists what is pending once. It does not mark interrupted checks.
Pending == {i \in DOMAIN proofs : proofs[i].status \in {"READY", "RUNNING"}}
WorkerStarts ==
  /\ Free
  /\ Pending # {} /\ command' = [NoCommand EXCEPT !.name = "worker", !.at = "drive", !.todo = Pending]
  /\ UNCHANGED <<Repository, proofs, forced, crashes>>

\* resume of a blocked item consumes a failure of the environment; another one is kept.
ResumeProof(i) ==
  /\ Free /\ proofs[i].status = "BLOCKED" /\ proofs[i].op \in {"failed", "broken"}
  /\ proofs' = [Repeatable EXCEPT ![i] = [proofs[i] EXCEPT !.status = "READY", !.op = IF @ = "broken" THEN "none" ELSE @]]
  /\ command' = [NoCommand EXCEPT !.name = "resume", !.at = "drive", !.todo = {i}]
  /\ UNCHANGED <<Repository, forced, crashes>>

-----------------------------------------------------------------------------
\* drive: one item after the other, the oldest first, up to the first that blocks.
Item == CHOOSE i \in command.todo : \A j \in command.todo : i <= j
Proof == proofs[Item]
Next1 == IF command.todo = {Item} THEN Done ELSE command' = [command EXCEPT !.at = "drive", !.todo = @ \ {Item}]

VerifiedNow == Tip
VerifiedRevision == Proof.head
Proven == Store(Item, [Proof EXCEPT !.status = "COMPLETED", !.verified = VerifiedRevision]) /\ Next1
Fails(op) == Store(Item, [Proof EXCEPT !.status = "BLOCKED", !.op = op]) /\ Done

DriveProof ==
  /\ Doing("drive")
  /\ CASE Proof.phase = "clarify" -> \E op \in {"none", "broken"} : Fails(op)   \* a provider is called
       [] Proof.phase = "verify" /\ Proof.op = "passed" -> Proven
       [] Proof.phase = "verify" /\ Proof.op = "none" ->
            Store(Item, [Proof EXCEPT !.status = "RUNNING", !.op = "open"]) /\ To("check")
       [] OTHER -> Fails(Proof.op)                                              \* retained, or unknown
  /\ UNCHANGED <<Repository, forced, crashes>>

\* The checks run on the captured source, the full ones or those it affects.
CheckEnds ==
  /\ Doing("check")
  /\ \/ /\ Proof.full => Proof.tree \in Sound
        /\ Store(Item, [Proof EXCEPT !.op = "passed"]) /\ To("record")
     \/ \E op \in {"failed", "broken"} : Fails(op)
  /\ UNCHANGED <<Repository, forced, crashes>>
RecordProof == Doing("record") /\ Proven /\ UNCHANGED <<Repository, forced, crashes>>

CommandDies ==
  /\ ~Free /\ crashes < MaxCrashes /\ crashes' = crashes + 1 /\ Done
  /\ UNCHANGED <<Repository, proofs, forced>>

ReleaseNext ==
  \/ EditFiles \/ CommitFiles \/ ReadHead \/ CopyFiles
  \/ RunStarts \/ VerifyStarts \/ RunDelivers \/ RunDeliversNothing \/ RunStops
  \/ CreateProof \/ PointProof \/ ReadyProof \/ WorkerStarts \/ (\E i \in DOMAIN proofs : ResumeProof(i))
  \/ DriveProof \/ CheckEnds \/ RecordProof \/ CommandDies
ReleaseSpec == ReleaseInit /\ [][ReleaseNext]_releaseVars

-----------------------------------------------------------------------------
ReleaseTypeOK ==
  /\ history \in Seq(Trees) /\ Tip \in 1..MaxCommits /\ files \in Trees
  /\ forced \subseteq [revision : 1..MaxCommits, tree : Trees, exact : BOOLEAN]
  /\ command \in [name : {"none", "run", "verify", "enqueue", "worker", "resume"},
                  at : {"start", "head", "files", "work", "create", "point", "ready", "drive", "check", "record"},
                  key : 0..MaxCommits, full : BOOLEAN, head : 0..MaxCommits, source : Trees, exact : BOOLEAN,
                  todo : SUBSET (1..MaxProofs)]
  /\ Len(proofs) <= MaxProofs
  /\ proofs \in Seq([key : 0..MaxCommits, full : BOOLEAN, head : 1..MaxCommits, tree : Trees, exact : BOOLEAN,
                     phase : {"clarify", "verify"}, status : {"READY", "RUNNING", "BLOCKED", "COMPLETED"},
                     op : {"none", "open", "passed", "failed", "broken"}, verified : 0..MaxCommits])

\* attest: what it accepts for a revision is a completed item of a full check, or a
\* delivery with --full-verify.
Accepted(revision) ==
  {proofs[i] : i \in {j \in DOMAIN proofs :
     proofs[j].status = "COMPLETED" /\ proofs[j].full /\ proofs[j].verified = revision}}
  \cup {f \in forced : f.revision = revision}

\* Whatever attest accepts rests on a source that has passed the full checks, and that
\* source is the tree of the revision it is accepted for if it was captured over a clean
\* tree: though the user commits while the checks run and commands die in between. A
\* source captured over a dirty tree is accepted for a revision it is not the tree of;
\* the program does not remember which is which.
AttestedSound ==
  \A r \in 1..Tip : \A a \in Accepted(r) :
    a.tree \in Sound /\ (a.exact => a.tree = history[r])
===============================================================================
