-------------------------- MODULE OperationLedger --------------------------
(***************************************************************************)
(* What the operations table of the business store promises, whoever       *)
(* writes it: an external operation is registered under a stable identity  *)
(* (work, kind, ordinal) before it is dispatched, its outcome is decided   *)
(* once, and a later attempt of the same kind starts only when every       *)
(* earlier one was decided and consumed.  It is the abstract               *)
(* specification that ControlStore implements.                             *)
(***************************************************************************)
EXTENDS Naturals

CONSTANTS
  Works,      \* identities of work items
  Kinds,      \* kinds of operation ("model:plan", "verify", "deliver", ...)
  MaxOrdinal  \* bound: attempts of one kind by one work item are 0..MaxOrdinal

ASSUME LedgerAssumption == MaxOrdinal \in Nat

VARIABLE ops  \* the operations table

OpIds      == Works \X Kinds \X (0..MaxOrdinal)
Unresolved == {"DISPATCHED", "UNKNOWN"}
Settled    == {"CONFIRMED", "FAILED"}
Op         == [state : {"ABSENT"} \cup Unresolved \cup Settled,
               consumed : BOOLEAN]

(* Mutant: an operation is registered in a state no reader knows.          *)
DispatchedUnnamed == [state |-> "RESERVED", consumed |-> FALSE]

Absent     == [state |-> "ABSENT", consumed |-> FALSE]
Dispatched == [state |-> "DISPATCHED", consumed |-> FALSE]

Present(o) == ops[o].state # "ABSENT"

(* Every earlier attempt of o's kind by o's work item has been consumed.   *)
Exhausted(o) == \A m \in 0..MaxOrdinal :
                  m < o[3] => ops[<<o[1], o[2], m>>].consumed

LedgerTypeOK == ops \in [OpIds -> Op]

LedgerInit == ops = [o \in OpIds |-> Absent]

(* The lawful steps of a row already in the table.                         *)
Decides(before, after) ==
  \/ /\ before.state \in Unresolved
     /\ after.state = "UNKNOWN"
     /\ ~ after.consumed
  \/ /\ before.state \in Unresolved
     /\ after.state \in Settled
  \/ /\ before.state \in Settled
     /\ after = [before EXCEPT !.consumed = TRUE]

Lawful(o) ==
  \/ ops'[o] = ops[o]
  \/ /\ ~ Present(o)
     /\ Exhausted(o)
     /\ ops'[o] = Dispatched
  \/ Decides(ops[o], ops'[o])

LedgerNext == /\ ops' \in [OpIds -> Op]
              /\ \A o \in OpIds : Lawful(o)

LedgerSpec == LedgerInit /\ [][LedgerNext]_ops

-----------------------------------------------------------------------------
(* A result reaches the controller only after it was decided (store.py     *)
(* _consume), and at most one attempt of a kind is open at any time, the   *)
(* last one: a retry never overlaps the attempt it replaces (reserve's     *)
(* stable identity and effect's choice of ordinal).                        *)
OneOpenAttempt ==
  \A o \in OpIds :
    /\ ops[o].consumed => ops[o].state \in Settled
    /\ Present(o) => Exhausted(o)
=============================================================================
