------------------------------ MODULE ItemWorkflow ------------------------------
(* What the item store promises its callers about one item's workflow state,   *)
(* whatever the statements and clients behind it: an item is created in some   *)
(* state, moves freely while it is open, and once done it is only reopened to  *)
(* the inbox (validateItemTransition, internal/store/store_06.go).  An item    *)
(* mirrored from an external source may in addition be overruled by it.        *)
EXTENDS Naturals

CONSTANTS Ids,      \* row ids of the items table
          None      \* "no value"

VARIABLES status,   \* status[i]: the workflow state of item i, or None if there is no item i
          linked    \* the items that mirror an external source

States == {"inbox", "waiting", "someday", "done"}

TypeOK == /\ status \in [Ids -> States \cup {None}]
          /\ linked \in SUBSET Ids

Init == status = [i \in Ids |-> None] /\ linked = {}

\* The transitions validateItemTransition accepts.
Allowed(current, next) == current = "done" => next \in {"done", "inbox"}

\* Creation, deletion, an allowed transition, or the source overruling.
ItemStep(i) == \/ status[i] = None
               \/ status'[i] = None
               \/ Allowed(status[i], status'[i])
               \/ i \in linked

Next == /\ status' \in [Ids -> States \cup {None}]
        /\ linked' \in SUBSET Ids
        /\ \A i \in Ids : ItemStep(i)

Spec == Init /\ [][Next]_<<status, linked>>
=============================================================================
