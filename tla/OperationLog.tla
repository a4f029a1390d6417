---------------------------- MODULE OperationLog ----------------------------
(***************************************************************************)
(* What the operation log of a workbook promises, whatever the operations  *)
(* are: it only grows, each operation makes exactly one new version, and   *)
(* what an actor sends under one idempotency key is applied at most once,  *)
(* however often it is delivered.  CellOperations implements it.           *)
(***************************************************************************)
EXTENDS Naturals, Sequences

VARIABLES
    ops,        \* the operations in version order: [actor, key, content]
    version     \* workbooks.version

Init == ops = <<>> /\ version = 1

\* One operation is appended, under a key its actor has not used yet.
Next ==
    /\ ops' # <<>>
    /\ ops = SubSeq(ops', 1, Len(ops') - 1)
    /\ \A i \in 1..Len(ops') - 1 :
          \/ ops'[i].actor # ops'[Len(ops')].actor
          \/ ops'[i].key # ops'[Len(ops')].key
    /\ version' = version + 1

Spec == Init /\ [][Next]_<<ops, version>>

=============================================================================
