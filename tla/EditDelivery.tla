---------------------------- MODULE EditDelivery ----------------------------
(***************************************************************************)
(* What a user may expect of the edits made in a browser, whatever queues  *)
(* and requests carry them: the server receives what was composed, each    *)
(* edit at most once, and the edits of a sheet in the order they were      *)
(* composed, passing over those only that were rejected or given up with   *)
(* the user's knowledge.  Outbox implements it.                            *)
(***************************************************************************)
EXTENDS Integers, Sequences

CONSTANT SheetOf    \* the sheet of an edit

VARIABLES
    composed,   \* the number of edits; they are known by their place
    delivered,  \* what the server has received, in its order
    dropped     \* rejected or given up

Init == composed = 0 /\ delivered = <<>> /\ dropped = {}

IsDelivered(i) == \E k \in DOMAIN delivered : delivered[k] = i

Compose == composed' = composed + 1 /\ UNCHANGED <<delivered, dropped>>

Deliver(i) ==
    /\ ~IsDelivered(i)
    /\ \A h \in 1..i - 1 : SheetOf[h] = SheetOf[i] => IsDelivered(h) \/ h \in dropped
    /\ delivered' = Append(delivered, i)
    /\ UNCHANGED <<composed, dropped>>

\* The answer to a rejection may be the second one: the edit was delivered before.
Drop(i) == dropped' = dropped \cup {i} /\ UNCHANGED <<composed, delivered>>

Next == Compose \/ \E i \in 1..composed : Deliver(i) \/ Drop(i)

Spec == Init /\ [][Next]_<<composed, delivered, dropped>>

=============================================================================
