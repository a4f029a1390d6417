------------------------------ MODULE MCOutbox ------------------------------
(***************************************************************************)
(* Outbox with two edits of one sheet and two flushes that overlap.        *)
(***************************************************************************)
EXTENDS Outbox

CONSTANT sheet

MCSheetOf == [i \in 1..MaxOps |-> sheet]

=============================================================================
