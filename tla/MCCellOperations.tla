-------------------------- MODULE MCCellOperations --------------------------
(***************************************************************************)
(* CellOperations on a sheet of three rows, with two users, one of whom    *)
(* has two tabs open.                                                      *)
(***************************************************************************)
EXTENDS CellOperations, TLC

CONSTANTS ann1, ann2, bob, Ann, Bob

MCActorOf == [c \in Clients |-> IF c = bob THEN Bob ELSE Ann]

\* The two tabs of one user are interchangeable.
Tabs == Permutations({ann1, ann2})

InsertFirst == [action |-> "insert", index |-> 1, count |-> 1, destination |-> 0]
DeleteFirst == [action |-> "delete", index |-> 1, count |-> 1, destination |-> 0]
MoveDown    == [action |-> "move", index |-> 1, count |-> 1, destination |-> 3]

MCChanges == {InsertFirst, DeleteFirst, MoveDown}

SomeChanges == {InsertFirst}

SingleRows == {{1}, {2}}

FirstRow == {{1}}

=============================================================================
