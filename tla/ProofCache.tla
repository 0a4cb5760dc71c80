------------------------------- MODULE ProofCache ------------------------------
\* The certificates of passed verifications and their replay: the cache itself
\* (gate_result_cache.py), the ledger that runs a check on the live tree under a lock
\* per proof (verification_ledger.py), and the executor of a plan, which runs on a
\* snapshot (gate_execution.py), over one command and a user who edits the tree.
\* A certificate is of a tree and a context; one whose trace of inputs is complete may
\* be replayed on another tree on which the command would read the same.
EXTENDS Naturals, FiniteSets
CONSTANTS
  Askers,     \* processes that want the command verified
  Executors,  \* those that verify a snapshot; the others use the ledger
  Context,    \* the context of each asker
  Shared,     \* the context of certificates that any asker may replay
  Trees,      \* contents of the project
  Reads,      \* what the command observes on a tree
  Good,       \* the observations on which it passes
  NoTree,
  MaxEdits,   \* bound: edits of the user
  MaxAsks     \* bound: verifications

ASSUME ProofCacheAssumption ==
  /\ Executors \subseteq Askers /\ NoTree \notin Trees
  /\ MaxEdits \in Nat /\ MaxAsks \in Nat

VARIABLES
  tree,    \* the project as it is
  edits, asks,
  certs,   \* the certificates
  revoked, \* revoked.json exists
  ask,     \* the verifications under way
  passed,  \* what has really passed: on this tree, or with the network's help
  slipped  \* a check read a tree that was changed back before the ledger compared

cacheVars == <<tree, edits, asks, certs, revoked, ask, passed, slipped>>

NoAsk == [at |-> "off", src |-> NoTree, scope |-> "auto", audit |-> "no", got |-> NoTree,
          result |-> "none", trace |-> "none", seen |-> NoTree]
Cert(src, context, a) == [src |-> src, context |-> context, reads |-> Reads[a.got], trace |-> a.trace]

CacheInit ==
  /\ tree \in Trees /\ edits = 0 /\ asks = 0 /\ certs = {} /\ revoked = FALSE
  /\ ask = [p \in Askers |-> NoAsk] /\ passed = {} /\ slipped = FALSE

At(p, place) == ask[p].at = place
Becomes(p, change) == ask' = [ask EXCEPT ![p] = change]
World == UNCHANGED <<tree, edits>>

Edit ==
  /\ edits < MaxEdits /\ edits' = edits + 1
  /\ tree' \in Trees \ {tree}
  /\ UNCHANGED <<asks, certs, revoked, ask, passed, slipped>>

-----------------------------------------------------------------------------
\* single_flight: one process at a time works on a proof.
InFlight(p) == ask[p].at \in {"looking", "running", "recording"}
FlightFree(p) == \A q \in Askers \ {p} : ~(InFlight(q) /\ ask[q].src = ask[p].src)

\* The identity of the source is taken before the lock; the ledger keeps to its own
\* candidate once a proof was revoked.
Request(p) ==
  /\ asks < MaxAsks /\ asks' = asks + 1
  /\ ask[p].at \in {"off", "served", "done"}
  /\ ask' = [ask EXCEPT ![p] = [NoAsk EXCEPT !.at = "queued", !.src = tree,
               !.scope = IF revoked /\ p \notin Executors THEN "candidate" ELSE "auto"]]
  /\ World /\ UNCHANGED <<certs, revoked, passed, slipped>>

EnterFlight(p) ==
  /\ At(p, "queued") /\ FlightFree(p) /\ Becomes(p, [ask[p] EXCEPT !.at = "looking"])
  /\ World /\ UNCHANGED <<asks, certs, revoked, passed, slipped>>

\* The inputs of a certificate are compared with the project as it is now, also when
\* the plan verifies an older snapshot of it.
SameInputs(cert) == cert.reads = Reads[tree]
OwnKey(p) == {cert \in certs : cert.src = ask[p].src /\ cert.context = Context[p]}
OwnHits(p) == {cert \in OwnKey(p) : cert.trace # "none" => SameInputs(cert)}
TracedAny(cert) == cert.trace # "none"
Traced(cert) == cert.trace = "complete"
SharedHits(p) == {cert \in certs : ask[p].scope = "auto" /\ (p \in Executors => OwnKey(p) = {})
                                 /\ cert.context = Shared /\ Traced(cert) /\ SameInputs(cert)}

\* An artifact that was edited, or an error of the database, is a miss. A hit may be
\* audited: it then runs all the same.
Look(p) ==
  /\ At(p, "looking")
  /\ LET hits == OwnHits(p) \cup SharedHits(p)
         served == [ask[p] EXCEPT !.at = "served", !.seen = tree,
                      !.result = IF OwnHits(p) # {} THEN "candidate" ELSE "observed"]
     IN  \/ Becomes(p, [ask[p] EXCEPT !.at = "running"])
         \/ hits # {} /\ Becomes(p, served)
         \/ hits # {} /\ Becomes(p, [ask[p] EXCEPT !.at = "running", !.audit = "yes"])
  /\ World /\ UNCHANGED <<asks, certs, revoked, passed, slipped>>

\* What the command reads is the snapshot or, with the ledger, the tree at that time.
\* With the network it may pass on anything; it may fail by accident.
Run(p) ==
  At(p, "running") /\ LET got == IF p \in Executors THEN ask[p].src ELSE tree IN
  \E result \in {"ok", "failed"}, trace \in {"none", "complete", "network"} :
    /\ result = "ok" => Reads[got] \in Good \/ trace = "network"
    /\ Becomes(p, [ask[p] EXCEPT !.at = "recording", !.got = got, !.result = result, !.trace = trace])
    /\ passed' = IF result = "ok" THEN passed \cup {got} ELSE passed
    /\ World /\ UNCHANGED <<asks, certs, revoked, slipped>>

UnchangedAssumed(p) == TRUE
Unchanged(p) == p \in Executors \/ tree = ask[p].src
Valid(p) == ask[p].result = "ok" /\ Unchanged(p)

Finish(p) ==
  /\ At(p, "recording")
  /\ Becomes(p, [ask[p] EXCEPT !.at = "done", !.result = IF Valid(p) THEN "ok" ELSE "failed"])
  /\ IF ask[p].audit = "yes" /\ ~Valid(p)
     THEN certs' = {} /\ revoked' = TRUE /\ UNCHANGED slipped
     ELSE IF Valid(p)
     THEN /\ certs' = certs \cup {Cert(ask[p].src, context, ask[p]) : context \in
                         IF p \in Executors \/ ask[p].trace = "none" THEN {Context[p]} ELSE {Context[p], Shared}}
          /\ slipped' = (slipped \/ (ask[p].got # ask[p].src /\ tree = ask[p].src)) /\ UNCHANGED revoked
     ELSE UNCHANGED <<certs, revoked, slipped>>
  /\ World /\ UNCHANGED <<asks, passed>>

\* A process dies, and its lock with it; rows are dropped by age and number.
Die(p) ==
  /\ InFlight(p) /\ ask' = [ask EXCEPT ![p] = NoAsk]
  /\ World /\ UNCHANGED <<asks, certs, revoked, passed, slipped>>
Prune ==
  /\ \E cert \in certs : certs' = certs \ {cert}
  /\ World /\ UNCHANGED <<asks, revoked, ask, passed, slipped>>

CacheNext ==
  \/ Edit \/ Prune
  \/ \E p \in Askers : Request(p) \/ EnterFlight(p) \/ Look(p) \/ Run(p) \/ Finish(p) \/ Die(p)
CacheSpec == CacheInit /\ [][CacheNext]_cacheVars

-----------------------------------------------------------------------------
CertType == [src : Trees, context : {Context[p] : p \in Askers} \cup {Shared},
             reads : {Reads[t] : t \in Trees}, trace : {"none", "complete", "network"}]
CacheTypeOK ==
  /\ tree \in Trees /\ edits \in 0..MaxEdits /\ asks \in 0..MaxAsks
  /\ certs \subseteq CertType /\ revoked \in BOOLEAN /\ slipped \in BOOLEAN /\ passed \subseteq Trees
  /\ \A p \in Askers : ask[p].src \in Trees \cup {NoTree} /\ (InFlight(p) => ask[p].src # NoTree)

\* What is replayed as passed has passed. A certificate of the same tree: the command
\* did pass on that tree. One of another tree: it would pass on the tree as it was at
\* the lookup. An edit that is undone before the ledger compares the tree is outside
\* of what it can see.
ReplaySound ==
  ~slipped => \A p \in Askers : ask[p].at = "served" =>
    IF ask[p].result = "candidate" THEN ask[p].src \in passed ELSE Reads[ask[p].seen] \in Good
===============================================================================
