------------------------------ MODULE MCRunLock -------------------------------
\* Instances of the run lock of a project and of the supervisor that hands it on. The
\* two modules are of different processes and share no state here: a behaviour is one
\* of the lock or one of the supervisor.
EXTENDS RunLock, Supervisor, TLC

VARIABLE part
every == <<vars, watchVars, part>>

\* What a behaviour is not about has ended.
NoRuns ==
  /\ flock = None /\ owner = None /\ control = NoFile /\ pc = [r \in Runs |-> "done"]
  /\ records = [r \in Runs |-> {}] /\ watched = {} /\ life = [g \in Groups |-> "none"]
  /\ by = [g \in Groups |-> None] /\ stop = [s \in Stops |-> Unread] /\ raced = FALSE
EitherInit ==
  /\ WatchInit
  /\ (part = "lock" /\ Init) \/ (part = "watch" /\ NoRuns)
EitherNext ==
  /\ UNCHANGED part
  /\ \/ part = "lock" /\ Next /\ UNCHANGED watchVars
     \/ part = "watch" /\ WatchNext /\ UNCHANGED vars
EitherSpec ==
  /\ EitherInit /\ [][EitherNext]_every
  /\ \A r \in Runs : WF_vars(Run(r))
  /\ WatchFairness
TypesOK == TypeOK /\ WatchTypeOK
===============================================================================
