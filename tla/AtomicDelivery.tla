---------------------------- MODULE AtomicDelivery ----------------------------
\* What delivery promises the owner of a repository, seen from outside: a piece
\* of work is admitted on the branch as it is, its one commit is put directly on
\* that very commit or never, and it is reported as delivered only once it is
\* there. The user commits whenever he likes; nothing is ever taken away.
EXTENDS Naturals, Sequences, SequencesExt
CONSTANTS Works, User

VARIABLES
  authors,   \* the history of the branch: who made each commit
  admitted,  \* the length of the history a work was admitted on, 0 before
  reported   \* the works reported as delivered

vars == <<authors, admitted, reported>>

Init == authors = <<User>> /\ admitted = [w \in Works |-> 0] /\ reported = {}

Admit(w) ==
  /\ admitted[w] = 0
  /\ admitted' = [admitted EXCEPT ![w] = Len(authors)]
  /\ UNCHANGED <<authors, reported>>

Land(w) ==
  /\ admitted[w] = Len(authors)
  /\ authors' = Append(authors, w)
  /\ UNCHANGED <<admitted, reported>>

UserCommits ==
  /\ authors' = Append(authors, User)
  /\ UNCHANGED <<admitted, reported>>

Report(w) ==
  /\ w \in ToSet(authors)
  /\ reported' = reported \cup {w}
  /\ UNCHANGED <<authors, admitted>>

Next == UserCommits \/ \E w \in Works : Admit(w) \/ Land(w) \/ Report(w)

Spec == Init /\ [][Next]_vars
===============================================================================
