----------------------------- MODULE ItemLifecycle -----------------------------
(* The items table of the SQLite store and the operations on an item's         *)
(* workflow state, actor, deferral times and source link                       *)
(* (internal/store/store_06.go .. store_09.go).                                 *)
(*                                                                             *)
(* Several processes share the database file (the HTTP daemon, one stdio       *)
(* server per agent, the command line), and almost every operation is two SQL  *)
(* statements: a SELECT that validates the request and an UPDATE .. WHERE id.  *)
(* Each statement is atomic, the pair is not.  A call is therefore two steps:  *)
(* the named action reads and validates and leaves in call[c] the statement    *)
(* still to run; ExecUpdate, ExecDelete, ExecInsert run it.  A request that    *)
(* fails validation changes nothing and is not a step.                         *)
EXTENDS Naturals

CONSTANTS
    Clients,        \* the processes that have the database open
    MaxItems,       \* bound: row ids are 1 .. MaxItems
    Actors,         \* ids an actor row can have
    Sources,        \* (source, source_ref) pairs
    CreateSources,  \* the sources callers pass to CreateItem directly
    MaxTime,        \* bound: the clock runs from 0 to MaxTime
    Updates,        \* the ItemUpdate requests callers make
    None,           \* SQL NULL
    Keep            \* a column an UPDATE does not mention

Ids     == 1 .. MaxItems
Times   == 1 .. MaxTime
States  == {"inbox", "waiting", "someday", "done"}

Rows == [state : States, actor : Actors \cup {None},
         visibleAfter : Times \cup {None}, followUp : Times \cup {None},
         source : Sources \cup {None}]

\* What the SET clause of an UPDATE assigns; Keep leaves the column alone.
Assignments == [state : States \cup {Keep}, actor : Actors \cup {None, Keep},
                visibleAfter : Times \cup {None, Keep},
                followUp : Times \cup {None, Keep},
                source : Sources \cup {None, Keep}]

ASSUME ConstantsAssumption ==
    /\ MaxItems \in Nat \ {0}
    /\ MaxTime \in Nat
    /\ CreateSources \subseteq Sources
    /\ Updates \subseteq Assignments
    /\ None # Keep
    /\ None \notin Rows
    /\ \A v \in {None, Keep} : v \notin States \cup Actors \cup Sources \cup Nat

VARIABLES
    row,     \* row[i]: the row with id i, or None
    actors,  \* the ids in the actors table
    now,     \* the clock ResurfaceDueItems is given
    call     \* call[c]: the statement client c has still to run, or None

vars == <<row, actors, now, call>>

KeepAll == [state |-> Keep, actor |-> Keep, visibleAfter |-> Keep,
            followUp |-> Keep, source |-> Keep]

Ops == {"triage_done", "later", "delegate", "triage_delete", "someday", "assign",
        "unassign", "complete", "return", "set_state", "update", "set_source", "upsert"}

Calls == [op : Ops,
          stmt : {"update", "delete", "insert", "check_source", "write_source"},
          item : Ids \cup {None},
          saw : States \cup {None},       \* the state the validating SELECT returned
          by : Actors \cup {None},        \* the actor a caller of "complete" claims to be
          set : Assignments]

TypeOK == /\ row \in [Ids -> Rows \cup {None}]
          /\ actors \in SUBSET Actors
          /\ now \in 0 .. MaxTime
          /\ call \in [Clients -> Calls \cup {None}]

Init == /\ row = [i \in Ids |-> None]
        /\ actors = Actors
        /\ now = 0
        /\ call = [c \in Clients |-> None]

Live == {i \in Ids : row[i] # None}

Value(assigned, old) == IF assigned = Keep THEN old ELSE assigned

\* The row an UPDATE with SET clause a leaves.
Assign(r, a) == [state        |-> Value(a.state, r.state),
                 actor        |-> Value(a.actor, r.actor),
                 visibleAfter |-> Value(a.visibleAfter, r.visibleAfter),
                 followUp     |-> Value(a.followUp, r.followUp),
                 source       |-> Value(a.source, r.source)]

\* The foreign key actor_id REFERENCES actors(id), enforced when a row is written.
ActorKeyHolds(a) == a \in actors \cup {None, Keep}

\* validateItemTransition
ValidTransition(current, next) == current = "done" => next \in {"done", "inbox"}

\* Leaving for the inbox drops both deferral times.
ToInbox == [KeepAll EXCEPT !.state = "inbox", !.visibleAfter = None, !.followUp = None]

-----------------------------------------------------------------------------
(* The validating SELECT of a call on item i.                                  *)

Read(c, op, stmt, i, set) ==
    /\ call[c] = None
    /\ i \in Live
    /\ call' = [call EXCEPT ![c] = [op |-> op, stmt |-> stmt, item |-> i,
                                    saw |-> row[i].state, by |-> None, set |-> set]]
    /\ UNCHANGED <<row, actors, now>>

\* triageableItem
Open(i) == i \in Live /\ row[i].state # "done"

TriageItemDone(c, i) ==
    Open(i) /\ Read(c, "triage_done", "update", i, [KeepAll EXCEPT !.state = "done"])

TriageItemLater(c, i, t) ==
    Open(i) /\ Read(c, "later", "update", i,
                    [KeepAll EXCEPT !.state = "waiting", !.visibleAfter = t])

TriageItemDelegate(c, i, a) ==
    /\ Open(i)
    /\ a \in actors
    /\ Read(c, "delegate", "update", i,
            [KeepAll EXCEPT !.state = "waiting", !.actor = a, !.visibleAfter = None])

TriageItemDelete(c, i) == Open(i) /\ Read(c, "triage_delete", "delete", i, KeepAll)

\* Faulty variant: no triageableItem check.
TriageItemSomedayUnchecked(c, i) == Read(c, "someday", "update", i, [ToInbox EXCEPT !.state = "someday"])

TriageItemSomeday(c, i) ==
    Open(i) /\ Read(c, "someday", "update", i, [ToInbox EXCEPT !.state = "someday"])

\* Faulty variant: no "cannot assign item in done state".
AssignItemUnchecked(c, i, a) ==
    a \in actors /\ Read(c, "assign", "update", i, [KeepAll EXCEPT !.state = "waiting", !.actor = a])

AssignItem(c, i, a) ==
    /\ a \in actors
    /\ Open(i)
    /\ Read(c, "assign", "update", i, [KeepAll EXCEPT !.state = "waiting", !.actor = a])

UnassignItem(c, i) ==
    /\ Open(i)
    /\ row[i].actor # None
    /\ Read(c, "unassign", "update", i, [ToInbox EXCEPT !.actor = None])

CompleteItemByActor(c, i, a) ==
    /\ call[c] = None
    /\ Open(i)
    /\ row[i].actor = a
    /\ call' = [call EXCEPT ![c] = [op |-> "complete", stmt |-> "update", item |-> i,
                                    saw |-> row[i].state, by |-> a,
                                    set |-> [KeepAll EXCEPT !.state = "done"]]]
    /\ UNCHANGED <<row, actors, now>>

ReturnItemToInbox(c, i) == Open(i) /\ Read(c, "return", "update", i, ToInbox)

UpdateItemState(c, i, s) ==
    /\ i \in Live
    /\ ValidTransition(row[i].state, s)
    /\ Read(c, "set_state", "update", i,
            IF s = "inbox" THEN ToInbox ELSE [KeepAll EXCEPT !.state = s])

\* UpdateItem: a reopened item loses the times the request does not set itself.
Reopened(i, u) ==
    LET reopen == u.state = "inbox" /\ row[i].state # "inbox"
        Time(t) == IF reopen /\ t = Keep THEN None ELSE t
    IN  [u EXCEPT !.visibleAfter = Time(@), !.followUp = Time(@)]

UpdateItem(c, i, u) ==
    /\ i \in Live
    /\ u.state # Keep => ValidTransition(row[i].state, u.state)
    /\ Read(c, "update", IF u.source \in Sources THEN "check_source" ELSE "update",
            i, Reopened(i, u))

UpdateItemSource(c, i, s) ==
    /\ call[c] = None
    /\ call' = [call EXCEPT ![c] = [op |-> "set_source", stmt |-> "check_source", item |-> i,
                                    saw |-> None, by |-> None,
                                    set |-> [KeepAll EXCEPT !.source = s]]]
    /\ UNCHANGED <<row, actors, now>>

\* UpsertItemFromSource of a source no item has; of a known one it changes only the
\* title and the workspace.
UpsertItemFromSource(c, s) ==
    /\ call[c] = None
    /\ \A i \in Live : row[i].source # s
    /\ call' = [call EXCEPT ![c] = [op |-> "upsert", stmt |-> "insert", item |-> None,
                                    saw |-> None, by |-> None,
                                    set |-> [KeepAll EXCEPT !.source = s]]]
    /\ UNCHANGED <<row, actors, now>>

-----------------------------------------------------------------------------
(* The statement a call runs after its SELECT.                                 *)

Pending(c, stmt) == call[c] # None /\ call[c].stmt = stmt

Return(c) == call' = [call EXCEPT ![c] = None]

\* Faulty variant: foreign keys are not enforced when a row is written.
ExecUpdateNoKey(c) ==
    LET i == call[c].item
    IN  /\ Pending(c, "update")
        /\ row' = IF i \in Live THEN [row EXCEPT ![i] = Assign(@, call[c].set)] ELSE row
        /\ Return(c)
        /\ UNCHANGED <<actors, now>>

\* UPDATE items SET .. WHERE id = ?; no row, no effect (sql.ErrNoRows).
ExecUpdate(c) ==
    LET i == call[c].item
    IN  /\ Pending(c, "update")
        /\ ActorKeyHolds(call[c].set.actor)
        /\ row' = IF i \in Live THEN [row EXCEPT ![i] = Assign(@, call[c].set)] ELSE row
        /\ Return(c)
        /\ UNCHANGED <<actors, now>>

ExecDelete(c) ==
    /\ Pending(c, "delete")
    /\ row' = [row EXCEPT ![call[c].item] = None]
    /\ Return(c)
    /\ UNCHANGED <<actors, now>>

\* INTEGER PRIMARY KEY without AUTOINCREMENT: one above the largest id in the
\* table, so that the id of a deleted last row is given out again.
NextId(i) == i \in Ids \ Live /\ (\A j \in Live : j < i) /\ (i = 1 \/ i - 1 \in Live)

Insert(r) == \E i \in Ids : NextId(i) /\ row' = [row EXCEPT ![i] = r]

ExecInsert(c) ==
    /\ Pending(c, "insert")
    /\ Insert([state |-> "inbox", actor |-> None, visibleAfter |-> None,
               followUp |-> None, source |-> call[c].set.source])
    /\ Return(c)
    /\ UNCHANGED <<actors, now>>

\* Faulty variant: finished items are left out of the lookup.
LinkedElsewhereOpen(s, i) == \E j \in Live : j # i /\ row[j].source = s /\ row[j].state # "done"

\* GetItemBySource inside UpdateItemSource: a table scan, so the lowest id.
LinkedElsewhere(s, i) ==
    \E j \in Live : j # i /\ row[j].source = s
                    /\ \A k \in Live : row[k].source = s => j <= k

CheckSource(c) ==
    LET p == call[c]
    IN  /\ Pending(c, "check_source")
        /\ call' = [call EXCEPT ![c] = IF LinkedElsewhere(p.set.source, p.item)
                                       THEN None
                                       ELSE [p EXCEPT !.stmt = "write_source"]]
        /\ UNCHANGED <<row, actors, now>>

\* UpdateItemSource's UPDATE; inside UpdateItem the other columns follow.
WriteSource(c) ==
    LET p == call[c]
        more == p.op = "update" /\ p.item \in Live
    IN  /\ Pending(c, "write_source")
        /\ row' = IF p.item \in Live THEN [row EXCEPT ![p.item].source = p.set.source] ELSE row
        /\ call' = [call EXCEPT ![c] = IF more THEN [p EXCEPT !.stmt = "update",
                                                              !.set.source = Keep]
                                       ELSE None]
        /\ UNCHANGED <<actors, now>>

\* Any statement can fail (SQLITE_BUSY, a foreign key, a dying process); what
\* the call wrote before stays.
Fail(c) == call[c] # None /\ Return(c) /\ UNCHANGED <<row, actors, now>>

-----------------------------------------------------------------------------
(* Operations of one statement.                                                *)

CreateItem(c, r) ==
    /\ call[c] = None
    /\ r.source \in CreateSources \cup {None}
    /\ ActorKeyHolds(r.actor)
    /\ Insert(r)
    /\ UNCHANGED <<actors, now, call>>

\* UPDATE items SET .. for every row that satisfies the WHERE clause.
UpdateWhere(c, S, set) ==
    /\ call[c] = None
    /\ S # {}
    /\ row' = [i \in Ids |-> IF i \in S THEN Assign(row[i], set) ELSE row[i]]
    /\ UNCHANGED <<actors, now, call>>

SyncItemStateBySource(c, s, st) ==
    UpdateWhere(c, {i \in Live : row[i].source = s},
                IF st = "inbox" THEN ToInbox ELSE [KeepAll EXCEPT !.state = st])

CompleteItemBySource(c, s) ==
    UpdateWhere(c, {i \in Live : row[i].source = s /\ row[i].state # "done"},
                [KeepAll EXCEPT !.state = "done"])

UpdateItemTimes(c, i, va, fu) ==
    UpdateWhere(c, {i} \cap Live, [KeepAll EXCEPT !.visibleAfter = va, !.followUp = fu])

Due(t) == t # None /\ t <= now

ResurfaceDueItems(c) ==
    UpdateWhere(c, {i \in Live : /\ row[i].state = "waiting"
                                 /\ Due(row[i].visibleAfter) \/ Due(row[i].followUp)},
                [KeepAll EXCEPT !.state = "inbox"])

DeleteItem(c, i) ==
    /\ call[c] = None
    /\ i \in Live
    /\ row' = [row EXCEPT ![i] = None]
    /\ UNCHANGED <<actors, now, call>>

\* ON DELETE SET NULL on items.actor_id.
DeleteActor(c, a) ==
    /\ call[c] = None
    /\ a \in actors
    /\ actors' = actors \ {a}
    /\ row' = [i \in Ids |-> IF i \in Live /\ row[i].actor = a
                             THEN [row[i] EXCEPT !.actor = None] ELSE row[i]]
    /\ UNCHANGED <<now, call>>

Tick == now < MaxTime /\ now' = now + 1 /\ UNCHANGED <<row, actors, call>>

-----------------------------------------------------------------------------
Triage(c, i) == \/ TriageItemDone(c, i)
                \/ \E t \in Times : TriageItemLater(c, i, t)
                \/ \E a \in Actors : TriageItemDelegate(c, i, a)
                \/ TriageItemDelete(c, i)
                \/ TriageItemSomeday(c, i)

Edit(c, i) == \/ \E a \in Actors : AssignItem(c, i, a) \/ CompleteItemByActor(c, i, a)
              \/ UnassignItem(c, i)
              \/ ReturnItemToInbox(c, i)
              \/ \E s \in States : UpdateItemState(c, i, s)
              \/ \E u \in Updates : UpdateItem(c, i, u)
              \/ \E s \in Sources : UpdateItemSource(c, i, s)

Exec(c) == ExecUpdate(c) \/ ExecDelete(c) \/ ExecInsert(c) \/ CheckSource(c)
           \/ WriteSource(c) \/ Fail(c)

OneStatement(c) ==
    \/ \E r \in Rows : CreateItem(c, r)
    \/ \E s \in Sources : UpsertItemFromSource(c, s) \/ CompleteItemBySource(c, s)
    \/ \E s \in Sources, st \in States : SyncItemStateBySource(c, s, st)
    \/ \E i \in Ids, va, fu \in Times \cup {None} : UpdateItemTimes(c, i, va, fu)
    \/ ResurfaceDueItems(c)
    \/ \E i \in Ids : DeleteItem(c, i)
    \/ \E a \in Actors : DeleteActor(c, a)

Next == \/ \E c \in Clients : \/ \E i \in Ids : Triage(c, i) \/ Edit(c, i)
                              \/ Exec(c)
                              \/ OneStatement(c)
        \/ Tick

Spec == Init /\ [][Next]_vars

-----------------------------------------------------------------------------
(* Properties.  The contract of the operations holds when one client at a time *)
(* uses the store; what is left of it with several clients is stated apart.    *)

\* Every actor an item names exists: deleting an actor (DeleteActor) and assigning
\* one that is being deleted leave no dangling actor_id.
ActorsReferenced == \A i \in Live : row[i].actor \in actors \cup {None}

\* The refinement mapping to ItemWorkflow.
Status == [i \in Ids |-> IF row[i] = None THEN None ELSE row[i].state]
Linked == {i \in Live : row[i].source # None}
Workflow == INSTANCE ItemWorkflow WITH status <- Status, linked <- Linked

\* One client: whatever sequence of calls it makes, a finished item is only ever
\* reopened to the inbox, unless its external source says otherwise
\* (validateItemTransition, triageableItem and their siblings).
ImplementsWorkflow == Workflow!Spec

\* Any number of clients: a finished item is moved to waiting or someday only by a
\* call whose SELECT ran before the item was finished, never by a call that began
\* after it.
FinishedSteps ==
    \A i \in Live :
       (row[i].state = "done" /\ row'[i] # None) =>
          \/ row'[i].state \in {"done", "inbox"}
          \/ row[i].source # None
          \/ \E c \in Clients : /\ Pending(c, "update")
                                /\ call[c].item = i
                                /\ call[c].saw # "done"
OnlyStaleCallsReopen == [][FinishedSteps]_vars

\* Any number of clients: the statement of a call whose item was deleted meanwhile
\* brings no row back; rows come from INSERT alone (UPDATE .. WHERE id, not an upsert).
RevivingSteps ==
    \A i \in Ids : (row[i] = None /\ row'[i] # None) =>
                      \A c \in Clients : call'[c] # call[c] => Pending(c, "insert")
StaleUpdateRevivesNothing == [][RevivingSteps]_vars

\* One client that creates sourced items through UpsertItemFromSource: two items never
\* mirror the same source (UpdateItemSource refuses a source another item has).
SourcesUnique ==
    \A i, j \in Live : (row[i].source = row[j].source /\ row[i].source # None) => i = j

=============================================================================
