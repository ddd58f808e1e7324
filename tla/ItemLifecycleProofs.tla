-------------------------- MODULE ItemLifecycleProofs --------------------------
(* Theorems about ItemLifecycle, for any number of clients, items, actors,     *)
(* sources and requests.                                                       *)
EXTENDS ItemLifecycle, TLAPS

\* What TypeOK leaves out about a pending call: a statement that stores a source has
\* one, and a call that saw its item done can only leave it done or reopen it.
SourceCarried(p) == p.stmt \in {"insert", "check_source", "write_source"} => p.set.source \in Sources
DoneRespected(p) == p.saw = "done" => p.set.state \in {"done", "inbox", Keep}
CallInv == \A c \in Clients : call[c] # None => SourceCarried(call[c]) /\ DoneRespected(call[c])

\* Running a SET clause on a row leaves a row.
LEMMA AssignType ==
  ASSUME NEW r \in Rows, NEW a \in Assignments
  PROVE  Assign(r, a) \in Rows
  BY ConstantsAssumption DEF Rows, Assignments, Assign, Value, States, Times

\* The SET clauses of the operations are assignments.
LEMMA SetClauseType ==
  ASSUME NEW s \in States \cup {Keep}, NEW a \in Actors \cup {None, Keep},
         NEW va \in Times \cup {None, Keep}, NEW fu \in Times \cup {None, Keep},
         NEW src \in Sources \cup {None, Keep}
  PROVE  /\ KeepAll \in Assignments
         /\ [KeepAll EXCEPT !.state = s] \in Assignments
         /\ [KeepAll EXCEPT !.state = s, !.visibleAfter = va] \in Assignments
         /\ [KeepAll EXCEPT !.state = s, !.actor = a] \in Assignments
         /\ [KeepAll EXCEPT !.state = s, !.actor = a, !.visibleAfter = va] \in Assignments
         /\ [KeepAll EXCEPT !.visibleAfter = va, !.followUp = fu] \in Assignments
         /\ [KeepAll EXCEPT !.source = src] \in Assignments
         /\ ToInbox \in Assignments
         /\ [ToInbox EXCEPT !.state = s] \in Assignments
         /\ [ToInbox EXCEPT !.actor = a] \in Assignments
  <1>1. KeepAll \in Assignments /\ ToInbox \in Assignments
    BY DEF KeepAll, ToInbox, Assignments, States
  <1>2. \A r \in Assignments :
          /\ [r EXCEPT !.state = s] \in Assignments
          /\ [r EXCEPT !.actor = a] \in Assignments
          /\ [r EXCEPT !.visibleAfter = va] \in Assignments
          /\ [r EXCEPT !.followUp = fu] \in Assignments
          /\ [r EXCEPT !.source = src] \in Assignments
    BY DEF Assignments
  <1> QED
    BY <1>1, <1>2

\* A validating SELECT leaves a well-formed pending call.
LEMMA ReadType ==
  ASSUME TypeOK, NEW c \in Clients, NEW op \in Ops, NEW i \in Ids, NEW set \in Assignments,
         NEW stmt \in {"update", "delete", "check_source"},
         Read(c, op, stmt, i, set)
  PROVE  TypeOK'
  <1>1. row[i] \in Rows
    BY DEF Read, Live, TypeOK
  <1>2. [op |-> op, stmt |-> stmt, item |-> i, saw |-> row[i].state, by |-> None,
         set |-> set] \in Calls
    BY <1>1 DEF Calls, Rows
  <1> QED
    BY <1>2 DEF Read, TypeOK

\* Writing one row with a well-formed value keeps the table well-formed.
LEMMA InsertType ==
  ASSUME row \in [Ids -> Rows \cup {None}], NEW r \in Rows, Insert(r)
  PROVE  row' \in [Ids -> Rows \cup {None}]
  BY DEF Insert

LEMMA UpdateWhereType ==
  ASSUME TypeOK, NEW c \in Clients, NEW S \in SUBSET Ids, S \subseteq Live,
         NEW set \in Assignments, UpdateWhere(c, S, set)
  PROVE  TypeOK'
  <1>1. \A i \in S : Assign(row[i], set) \in Rows
    BY AssignType DEF TypeOK, Live
  <1> QED
    BY <1>1 DEF UpdateWhere, TypeOK

\* The calls that read and validate.
LEMMA TriageType ==
  ASSUME TypeOK, NEW c \in Clients, NEW i \in Ids, Triage(c, i)
  PROVE  TypeOK'
  <1>1. CASE TriageItemDone(c, i)
    BY <1>1, ReadType, SetClauseType DEF TriageItemDone, Ops, States
  <1>2. CASE \E t \in Times : TriageItemLater(c, i, t)
    BY <1>2, ReadType, SetClauseType DEF TriageItemLater, Ops, States
  <1>3. CASE \E a \in Actors : TriageItemDelegate(c, i, a)
    BY <1>3, ReadType, SetClauseType DEF TriageItemDelegate, Ops, States
  <1>4. CASE TriageItemDelete(c, i)
    BY <1>4, ReadType, SetClauseType DEF TriageItemDelete, Ops
  <1>5. CASE TriageItemSomeday(c, i)
    BY <1>5, ReadType, SetClauseType DEF TriageItemSomeday, Ops, States
  <1> QED
    BY <1>1, <1>2, <1>3, <1>4, <1>5 DEF Triage

LEMMA EditType ==
  ASSUME TypeOK, NEW c \in Clients, NEW i \in Ids, Edit(c, i)
  PROVE  TypeOK'
  <1>1. CASE \E a \in Actors : AssignItem(c, i, a)
    BY <1>1, ReadType, SetClauseType DEF AssignItem, Ops, States
  <1>2. CASE \E a \in Actors : CompleteItemByActor(c, i, a)
    <2>1. row[i] \in Rows
      BY <1>2 DEF CompleteItemByActor, Open, Live, TypeOK
    <2>2. [KeepAll EXCEPT !.state = "done"] \in Assignments
      BY SetClauseType DEF States
    <2> QED
      BY <1>2, <2>1, <2>2 DEF CompleteItemByActor, TypeOK, Calls, Ops, Rows
  <1>3. CASE UnassignItem(c, i)
    BY <1>3, ReadType, SetClauseType DEF UnassignItem, Ops
  <1>4. CASE ReturnItemToInbox(c, i)
    BY <1>4, ReadType, SetClauseType DEF ReturnItemToInbox, Ops
  <1>5. CASE \E s \in States : UpdateItemState(c, i, s)
    BY <1>5, ReadType, SetClauseType DEF UpdateItemState, Ops
  <1>6. CASE \E u \in Updates : UpdateItem(c, i, u)
    <2>1. PICK u \in Updates : UpdateItem(c, i, u)
      BY <1>6
    <2>2. Reopened(i, u) \in Assignments
      BY ConstantsAssumption DEF Reopened, Assignments
    <2> QED
      BY <2>1, <2>2, ReadType DEF UpdateItem, Ops
  <1>7. CASE \E s \in Sources : UpdateItemSource(c, i, s)
    <2>1. PICK s \in Sources : UpdateItemSource(c, i, s)
      BY <1>7
    <2>2. [KeepAll EXCEPT !.source = s] \in Assignments
      BY SetClauseType
    <2> QED
      BY <2>1, <2>2 DEF UpdateItemSource, TypeOK, Calls, Ops
  <1> QED
    BY <1>1, <1>2, <1>3, <1>4, <1>5, <1>6, <1>7 DEF Edit

\* The statements a call runs after its SELECT.
LEMMA ExecType ==
  ASSUME TypeOK, CallInv, NEW c \in Clients, Exec(c)
  PROVE  TypeOK'
  <1> DEFINE p == call[c]
  <1>0. p \in Calls /\ SourceCarried(p)
    BY DEF Exec, ExecUpdate, ExecDelete, ExecInsert, CheckSource, WriteSource, Fail,
           Pending, TypeOK, CallInv
  <1>1. CASE ExecUpdate(c)
    <2>1. \A i \in Live : Assign(row[i], p.set) \in Rows
      BY <1>0, AssignType DEF TypeOK, Live, Calls
    <2> QED
      BY <1>1, <2>1 DEF ExecUpdate, Return, TypeOK
  <1>2. CASE ExecDelete(c)
    BY <1>2 DEF ExecDelete, Return, TypeOK
  <1>3. CASE ExecInsert(c)
    <2> DEFINE r == [state |-> "inbox", actor |-> None, visibleAfter |-> None,
                     followUp |-> None, source |-> p.set.source]
    <2>1. p.set.source \in Sources
      BY <1>0, <1>3 DEF ExecInsert, Pending, SourceCarried
    <2>2. r \in Rows
      BY <2>1 DEF Rows, States
    <2>3. row' \in [Ids -> Rows \cup {None}]
      BY <1>3, <2>2, InsertType DEF ExecInsert, TypeOK
    <2> QED
      BY <1>3, <2>3 DEF ExecInsert, Return, TypeOK
  <1>4. CASE CheckSource(c)
    <2>1. [p EXCEPT !.stmt = "write_source"] \in Calls
      BY <1>0 DEF Calls
    <2> QED
      BY <1>4, <2>1 DEF CheckSource, TypeOK
  <1>5. CASE WriteSource(c)
    <2>1. p.set.source \in Sources
      BY <1>0, <1>5 DEF WriteSource, Pending, SourceCarried
    <2>2. [p.set EXCEPT !.source = Keep] \in Assignments
      BY <1>0 DEF Calls, Assignments
    <2>3. [p EXCEPT !.stmt = "update", !.set.source = Keep] \in Calls
      BY <1>0, <2>2 DEF Calls
    <2>4. \A i \in Live : [row[i] EXCEPT !.source = p.set.source] \in Rows
      BY <2>1 DEF TypeOK, Live, Rows
    <2>5. row' \in [Ids -> Rows \cup {None}]
      BY <1>5, <2>4 DEF WriteSource, TypeOK
    <2> QED
      BY <1>5, <2>3, <2>5 DEF WriteSource, TypeOK
  <1>6. CASE Fail(c)
    BY <1>6 DEF Fail, Return, TypeOK
  <1> QED
    BY <1>1, <1>2, <1>3, <1>4, <1>5, <1>6 DEF Exec

\* The operations of one statement.
LEMMA OneStatementType ==
  ASSUME TypeOK, NEW c \in Clients, OneStatement(c)
  PROVE  TypeOK'
  <1>1. CASE \E r \in Rows : CreateItem(c, r)
    <2>1. PICK r \in Rows : CreateItem(c, r)
      BY <1>1
    <2>2. row' \in [Ids -> Rows \cup {None}]
      BY <2>1, InsertType DEF CreateItem, TypeOK
    <2> QED
      BY <2>1, <2>2 DEF CreateItem, TypeOK
  <1>2. CASE \E s \in Sources : UpsertItemFromSource(c, s)
    <2>1. PICK s \in Sources : UpsertItemFromSource(c, s)
      BY <1>2
    <2>2. [KeepAll EXCEPT !.source = s] \in Assignments
      BY SetClauseType
    <2> QED
      BY <2>1, <2>2 DEF UpsertItemFromSource, TypeOK, Calls, Ops
  <1>3. CASE \E s \in Sources : CompleteItemBySource(c, s)
    BY <1>3, UpdateWhereType, SetClauseType DEF CompleteItemBySource, Live, States
  <1>4. CASE \E s \in Sources, st \in States : SyncItemStateBySource(c, s, st)
    <2>1. PICK s \in Sources, st \in States : SyncItemStateBySource(c, s, st)
      BY <1>4
    <2> DEFINE set == IF st = "inbox" THEN ToInbox ELSE [KeepAll EXCEPT !.state = st]
    <2>2. set \in Assignments
      BY SetClauseType
    <2> QED
      BY <2>1, <2>2, UpdateWhereType DEF SyncItemStateBySource, Live
  <1>5. CASE \E i \in Ids, va, fu \in Times \cup {None} : UpdateItemTimes(c, i, va, fu)
    <2>1. PICK i \in Ids, va \in Times \cup {None}, fu \in Times \cup {None} :
             UpdateItemTimes(c, i, va, fu)
      BY <1>5
    <2>2. [KeepAll EXCEPT !.visibleAfter = va, !.followUp = fu] \in Assignments
      BY SetClauseType
    <2>3. {i} \cap Live \subseteq Live /\ {i} \cap Live \in SUBSET Ids
      BY DEF Live
    <2> QED
      BY <2>1, <2>2, <2>3, UpdateWhereType DEF UpdateItemTimes
  <1>6. CASE ResurfaceDueItems(c)
    BY <1>6, UpdateWhereType, SetClauseType DEF ResurfaceDueItems, Live, States
  <1>7. CASE \E i \in Ids : DeleteItem(c, i)
    BY <1>7 DEF DeleteItem, TypeOK
  <1>8. CASE \E a \in Actors : DeleteActor(c, a)
    <2>1. PICK a \in Actors : DeleteActor(c, a)
      BY <1>8
    <2>2. \A i \in Live : [row[i] EXCEPT !.actor = None] \in Rows
      BY DEF TypeOK, Live, Rows
    <2> QED
      BY <2>1, <2>2 DEF DeleteActor, TypeOK
  <1> QED
    BY <1>1, <1>2, <1>3, <1>4, <1>5, <1>6, <1>7, <1>8 DEF OneStatement

\* A step leaves every pending call with the source and the state it must carry.
LEMMA ReadCallInv ==
  ASSUME TypeOK, CallInv, NEW c \in Clients, NEW op, NEW stmt, NEW i \in Ids, NEW set,
         Read(c, op, stmt, i, set),
         stmt = "check_source" => set.source \in Sources,
         stmt \in {"update", "delete", "check_source"},
         row[i].state = "done" => set.state \in {"done", "inbox", Keep}
  PROVE  CallInv'
  BY DEF Read, CallInv, TypeOK, SourceCarried, DoneRespected

LEMMA TriageCallInv ==
  ASSUME TypeOK, CallInv, NEW c \in Clients, NEW i \in Ids, Triage(c, i)
  PROVE  CallInv'
  BY ReadCallInv DEF Triage, TriageItemDone, TriageItemLater, TriageItemDelegate,
     TriageItemDelete, TriageItemSomeday, Open

LEMMA EditCallInv ==
  ASSUME TypeOK, CallInv, NEW c \in Clients, NEW i \in Ids, Edit(c, i)
  PROVE  CallInv'
  <1>1. CASE \E a \in Actors : AssignItem(c, i, a)
    BY <1>1, ReadCallInv DEF AssignItem, Open
  <1>2. CASE \E a \in Actors : CompleteItemByActor(c, i, a)
    BY <1>2 DEF CompleteItemByActor, Open, CallInv, TypeOK, SourceCarried, DoneRespected
  <1>3. CASE UnassignItem(c, i)
    BY <1>3, ReadCallInv DEF UnassignItem, Open
  <1>4. CASE ReturnItemToInbox(c, i)
    BY <1>4, ReadCallInv DEF ReturnItemToInbox, Open
  <1>5. CASE \E s \in States : UpdateItemState(c, i, s)
    BY <1>5, ReadCallInv DEF UpdateItemState, ValidTransition, ToInbox, KeepAll
  <1>6. CASE \E u \in Updates : UpdateItem(c, i, u)
    <2>1. PICK u \in Updates : UpdateItem(c, i, u)
      BY <1>6
    <2>2. Reopened(i, u).state = u.state /\ Reopened(i, u).source = u.source
      BY ConstantsAssumption DEF Reopened, Assignments
    <2> QED
      BY <2>1, <2>2, ReadCallInv DEF UpdateItem, ValidTransition
  <1>7. CASE \E s \in Sources : UpdateItemSource(c, i, s)
    BY <1>7, ConstantsAssumption DEF UpdateItemSource, CallInv, TypeOK, SourceCarried,
       DoneRespected, KeepAll
  <1> QED
    BY <1>1, <1>2, <1>3, <1>4, <1>5, <1>6, <1>7 DEF Edit

LEMMA ExecCallInv ==
  ASSUME TypeOK, CallInv, NEW c \in Clients, Exec(c)
  PROVE  CallInv'
  <1>1. CASE ExecUpdate(c) \/ ExecDelete(c) \/ ExecInsert(c) \/ Fail(c)
    BY <1>1 DEF ExecUpdate, ExecDelete, ExecInsert, Fail, Return, CallInv, TypeOK
  <1>2. CASE CheckSource(c)
    BY <1>2 DEF CheckSource, Pending, CallInv, TypeOK, Calls, SourceCarried, DoneRespected
  <1>3. CASE WriteSource(c)
    BY <1>3 DEF WriteSource, Pending, CallInv, TypeOK, Calls, Assignments, SourceCarried,
       DoneRespected
  <1> QED
    BY <1>1, <1>2, <1>3 DEF Exec

LEMMA OneStatementCallInv ==
  ASSUME TypeOK, CallInv, NEW c \in Clients, OneStatement(c)
  PROVE  CallInv'
  <1>1. CASE \E s \in Sources : UpsertItemFromSource(c, s)
    BY <1>1, ConstantsAssumption DEF UpsertItemFromSource, CallInv, TypeOK, SourceCarried,
       DoneRespected, KeepAll
  <1>2. CASE call' = call
    BY <1>2 DEF CallInv, SourceCarried, DoneRespected
  <1> QED
    BY <1>1, <1>2 DEF OneStatement, CreateItem, UpdateWhere, CompleteItemBySource,
       SyncItemStateBySource, UpdateItemTimes, ResurfaceDueItems, DeleteItem, DeleteActor

\* Items, actors, the clock and pending calls keep their types, and a pending call never
\* carries a state its own read forbids.
IInv == TypeOK /\ CallInv

THEOREM IInvariant == Spec => []IInv
  <1>1. Init => IInv
    BY ConstantsAssumption DEF Init, IInv, TypeOK, CallInv
  <1>2. IInv /\ [Next]_vars => IInv'
    <2> SUFFICES ASSUME IInv, [Next]_vars PROVE IInv'
      OBVIOUS
    <2>1. ASSUME NEW c \in Clients, NEW i \in Ids, Triage(c, i) PROVE IInv'
      BY <2>1, TriageType, TriageCallInv DEF IInv
    <2>2. ASSUME NEW c \in Clients, NEW i \in Ids, Edit(c, i) PROVE IInv'
      BY <2>2, EditType, EditCallInv DEF IInv
    <2>3. ASSUME NEW c \in Clients, Exec(c) PROVE IInv'
      BY <2>3, ExecType, ExecCallInv DEF IInv
    <2>4. ASSUME NEW c \in Clients, OneStatement(c) PROVE IInv'
      BY <2>4, OneStatementType, OneStatementCallInv DEF IInv
    <2>5. CASE Tick
      BY <2>5, ConstantsAssumption DEF Tick, IInv, TypeOK, CallInv, SourceCarried, DoneRespected
    <2>6. CASE UNCHANGED vars
      BY <2>6 DEF vars, IInv, TypeOK, CallInv, SourceCarried, DoneRespected
    <2> QED
      BY <2>1, <2>2, <2>3, <2>4, <2>5, <2>6 DEF Next
  <1> QED
    BY <1>1, <1>2, PTL DEF Spec

\* The variables keep their types for any number of clients and items.
THEOREM TypeCorrect == Spec => []TypeOK
  BY IInvariant, PTL DEF IInv

-----------------------------------------------------------------------------
\* The source of an item is never the NULL of an unlinked one.
LEMMA ValuesDistinct == None \notin Sources /\ None \notin Actors /\ Keep \notin States
  BY ConstantsAssumption

\* Every actor an item names exists, for any number of clients: DeleteActor clears the
\* column, and an UPDATE whose actor was deleted since its SELECT is refused.
THEOREM ActorsAlwaysReferenced == Spec => []ActorsReferenced
  <1>1. Init => ActorsReferenced
    BY DEF Init, ActorsReferenced, Live
  <1>2. IInv /\ IInv' /\ ActorsReferenced /\ [Next]_vars => ActorsReferenced'
    <2> SUFFICES ASSUME IInv, IInv', ActorsReferenced, [Next]_vars PROVE ActorsReferenced'
      OBVIOUS
    <2> USE DEF ActorsReferenced, Live
    <2>1. CASE UNCHANGED <<row, actors>>
      BY <2>1
    <2>2. ASSUME NEW c \in Clients, ExecUpdate(c) PROVE ActorsReferenced'
      BY <2>2 DEF ExecUpdate, ActorKeyHolds, Assign, Value, IInv, TypeOK
    <2>3. ASSUME NEW c \in Clients, ExecDelete(c) PROVE ActorsReferenced'
      BY <2>3 DEF ExecDelete, IInv, TypeOK
    <2>4. ASSUME NEW c \in Clients, ExecInsert(c) PROVE ActorsReferenced'
      BY <2>4 DEF ExecInsert, Insert, IInv, TypeOK
    <2>5. ASSUME NEW c \in Clients, WriteSource(c) PROVE ActorsReferenced'
      <3>1. \A i \in Live : row'[i].actor = row[i].actor
        BY <2>5 DEF WriteSource, IInv, TypeOK, Rows
      <3>2. actors' = actors /\ \A i \in Ids \ Live : row'[i] = row[i]
        BY <2>5 DEF WriteSource, IInv, TypeOK
      <3> QED
        BY <3>1, <3>2
    <2>6. ASSUME NEW c \in Clients, NEW r \in Rows, CreateItem(c, r) PROVE ActorsReferenced'
      BY <2>6, ConstantsAssumption DEF CreateItem, Insert, ActorKeyHolds, IInv, TypeOK, Rows
    <2>7. ASSUME NEW c \in Clients, NEW S \in SUBSET Live, NEW set,
                 UpdateWhere(c, S, set), set.actor = Keep
          PROVE  ActorsReferenced'
      BY <2>7 DEF UpdateWhere, Assign, Value, IInv, TypeOK
    <2>8. ASSUME NEW c \in Clients, NEW i \in Ids, DeleteItem(c, i) PROVE ActorsReferenced'
      BY <2>8 DEF DeleteItem, IInv, TypeOK
    <2>9. ASSUME NEW c \in Clients, NEW a \in Actors, DeleteActor(c, a) PROVE ActorsReferenced'
      <3>1. \A i \in Live : row'[i].actor \in actors' \cup {None}
        BY <2>9 DEF DeleteActor, IInv, TypeOK, Rows
      <3>2. \A i \in Ids \ Live : row'[i] = None
        BY <2>9 DEF DeleteActor
      <3> QED
        BY <3>1, <3>2
    <2>10. ASSUME NEW c \in Clients, OneStatement(c) PROVE ActorsReferenced'
      <3>1. CASE \E s \in Sources : CompleteItemBySource(c, s)
        BY <3>1, <2>7 DEF CompleteItemBySource, KeepAll
      <3>2. CASE \E s \in Sources, st \in States : SyncItemStateBySource(c, s, st)
        <4>1. ToInbox.actor = Keep /\ \A st : [KeepAll EXCEPT !.state = st].actor = Keep
          BY DEF ToInbox, KeepAll
        <4> QED
          BY <3>2, <4>1, <2>7 DEF SyncItemStateBySource
      <3>3. CASE \E i \in Ids, va, fu \in Times \cup {None} : UpdateItemTimes(c, i, va, fu)
        <4>1. \A va, fu : [KeepAll EXCEPT !.visibleAfter = va, !.followUp = fu].actor = Keep
          BY DEF KeepAll
        <4>2. \A i : {i} \cap Live \in SUBSET Live
          OBVIOUS
        <4> QED
          BY <3>3, <4>1, <4>2, <2>7 DEF UpdateItemTimes
      <3>4. CASE ResurfaceDueItems(c)
        BY <3>4, <2>7 DEF ResurfaceDueItems, KeepAll
      <3>5. CASE \E s \in Sources : UpsertItemFromSource(c, s)
        BY <3>5, <2>1 DEF UpsertItemFromSource
      <3> QED
        BY <2>10, <2>6, <2>8, <2>9, <3>1, <3>2, <3>3, <3>4, <3>5 DEF OneStatement
    <2>11. ASSUME NEW c \in Clients, NEW i \in Ids, Triage(c, i) \/ Edit(c, i)
           PROVE  UNCHANGED <<row, actors>>
      BY <2>11 DEF Triage, Edit, TriageItemDone, TriageItemLater, TriageItemDelegate,
         TriageItemDelete, TriageItemSomeday, AssignItem, CompleteItemByActor, UnassignItem,
         ReturnItemToInbox, UpdateItemState, UpdateItem, UpdateItemSource, Read
    <2>12. ASSUME NEW c \in Clients, CheckSource(c) \/ Fail(c) PROVE UNCHANGED <<row, actors>>
      BY <2>12 DEF CheckSource, Fail
    <2>13. CASE Tick
      BY <2>13, <2>1 DEF Tick
    <2>14. CASE UNCHANGED vars
      BY <2>14, <2>1 DEF vars
    <2> QED
      BY <2>1, <2>2, <2>3, <2>4, <2>5, <2>10, <2>11, <2>12, <2>13, <2>14 DEF Next, Exec
  <1> QED
    BY <1>1, <1>2, IInvariant, PTL DEF Spec

-----------------------------------------------------------------------------
\* Which steps write the table, and how: the case split both action properties use.
LEMMA RowSteps ==
  ASSUME IInv, [Next]_vars
  PROVE  \/ row' = row
         \/ \E c \in Clients : ExecUpdate(c) \/ ExecDelete(c) \/ ExecInsert(c) \/ WriteSource(c)
         \/ \E c \in Clients : OneStatement(c)
  <1>1. ASSUME NEW c \in Clients, NEW i \in Ids, Triage(c, i) PROVE row' = row
    BY <1>1 DEF Triage, TriageItemDone, TriageItemLater, TriageItemDelegate,
       TriageItemDelete, TriageItemSomeday, Read
  <1>2. ASSUME NEW c \in Clients, NEW i \in Ids, Edit(c, i) PROVE row' = row
    BY <1>2 DEF Edit, AssignItem, CompleteItemByActor, UnassignItem, ReturnItemToInbox,
       UpdateItemState, UpdateItem, UpdateItemSource, Read
  <1>3. CASE Tick \/ UNCHANGED vars \/ \E c \in Clients : CheckSource(c) \/ Fail(c)
    BY <1>3 DEF Tick, vars, CheckSource, Fail
  <1> QED
    BY <1>1, <1>2, <1>3 DEF Next, Exec

\* A one-statement operation moves a finished, unlinked item nowhere but the inbox.
LEMMA OneStatementKeepsDone ==
  ASSUME IInv, NEW c \in Clients, OneStatement(c),
         NEW i \in Live, row[i].state = "done", row[i].source = None, row'[i] # None
  PROVE  row'[i].state \in {"done", "inbox"}
  <1> USE DEF IInv, TypeOK, Live
  <1>1. CASE \E r \in Rows : CreateItem(c, r)
    BY <1>1 DEF CreateItem, Insert, NextId
  <1>2. CASE \E s \in Sources : UpsertItemFromSource(c, s)
    BY <1>2 DEF UpsertItemFromSource
  <1>3. CASE \E s \in Sources : CompleteItemBySource(c, s)
    BY <1>3, ValuesDistinct DEF CompleteItemBySource, UpdateWhere
  <1>4. CASE \E s \in Sources, st \in States : SyncItemStateBySource(c, s, st)
    BY <1>4, ValuesDistinct DEF SyncItemStateBySource, UpdateWhere
  <1>5. CASE \E j \in Ids, va, fu \in Times \cup {None} : UpdateItemTimes(c, j, va, fu)
    BY <1>5 DEF UpdateItemTimes, UpdateWhere, Assign, Value, KeepAll
  <1>6. CASE ResurfaceDueItems(c)
    BY <1>6 DEF ResurfaceDueItems, UpdateWhere
  <1>7. CASE \E j \in Ids : DeleteItem(c, j)
    BY <1>7 DEF DeleteItem
  <1>8. CASE \E a \in Actors : DeleteActor(c, a)
    BY <1>8 DEF DeleteActor, Rows
  <1> QED
    BY <1>1, <1>2, <1>3, <1>4, <1>5, <1>6, <1>7, <1>8 DEF OneStatement

\* However many clients interleave, only a call that read the item before it was finished
\* can move it back to waiting or someday.
THEOREM StaleCallsOnly == Spec => OnlyStaleCallsReopen
  <1>1. IInv /\ [Next]_vars => [FinishedSteps]_vars
    <2> SUFFICES ASSUME IInv, [Next]_vars, NEW i \in Live,
                        row[i].state = "done", row'[i] # None, row[i].source = None,
                        \A c \in Clients : Pending(c, "update") /\ call[c].item = i
                                           => call[c].saw = "done"
                 PROVE  row'[i].state \in {"done", "inbox"}
      BY DEF FinishedSteps
    <2> USE DEF Live
    <2>1. CASE row' = row
      BY <2>1
    <2>2. ASSUME NEW c \in Clients, ExecUpdate(c) PROVE row'[i].state \in {"done", "inbox"}
      <3>1. CASE call[c].item # i
        BY <3>1, <2>2 DEF ExecUpdate, IInv, TypeOK
      <3>2. CASE call[c].item = i
        <4>1. call[c].set.state \in {"done", "inbox", Keep}
          BY <3>2, <2>2 DEF ExecUpdate, Pending, IInv, CallInv, DoneRespected
        <4>2. row'[i] = Assign(row[i], call[c].set)
          BY <3>2, <2>2 DEF ExecUpdate, IInv, TypeOK
        <4> QED
          BY <4>1, <4>2 DEF Assign, Value
      <3> QED
        BY <3>1, <3>2
    <2>3. ASSUME NEW c \in Clients, ExecDelete(c) PROVE row'[i].state \in {"done", "inbox"}
      BY <2>3 DEF ExecDelete, IInv, TypeOK
    <2>4. ASSUME NEW c \in Clients, ExecInsert(c) PROVE row'[i].state \in {"done", "inbox"}
      BY <2>4 DEF ExecInsert, Insert, NextId, IInv, TypeOK
    <2>5. ASSUME NEW c \in Clients, WriteSource(c) PROVE row'[i].state \in {"done", "inbox"}
      <3>1. row'[i].state = row[i].state
        BY <2>5 DEF WriteSource, IInv, TypeOK, Rows
      <3> QED
        BY <3>1
    <2>6. ASSUME NEW c \in Clients, OneStatement(c) PROVE row'[i].state \in {"done", "inbox"}
      BY <2>6, OneStatementKeepsDone
    <2> QED
      BY <2>1, <2>2, <2>3, <2>4, <2>5, <2>6, RowSteps
  <1> QED
    BY <1>1, IInvariant, PTL DEF Spec, OnlyStaleCallsReopen

\* No statement of a call whose item was deleted meanwhile brings the row back.
THEOREM NothingRevived == Spec => StaleUpdateRevivesNothing
  <1>1. IInv /\ [Next]_vars => [RevivingSteps]_vars
    <2> SUFFICES ASSUME IInv, [Next]_vars, NEW i \in Ids, row[i] = None, row'[i] # None,
                        NEW d \in Clients, call'[d] # call[d]
                 PROVE  Pending(d, "insert")
      BY DEF RevivingSteps
    <2> USE DEF IInv, TypeOK, Live
    <2>1. CASE row' = row
      BY <2>1
    <2>2. ASSUME NEW c \in Clients, ExecUpdate(c) PROVE FALSE
      BY <2>2 DEF ExecUpdate
    <2>3. ASSUME NEW c \in Clients, ExecDelete(c) PROVE FALSE
      BY <2>3 DEF ExecDelete
    <2>4. ASSUME NEW c \in Clients, ExecInsert(c) PROVE Pending(d, "insert")
      BY <2>4 DEF ExecInsert, Return
    <2>5. ASSUME NEW c \in Clients, WriteSource(c) PROVE FALSE
      BY <2>5 DEF WriteSource
    <2>6. ASSUME NEW c \in Clients, OneStatement(c) PROVE FALSE
      BY <2>6 DEF OneStatement, CreateItem, UpsertItemFromSource, CompleteItemBySource,
         SyncItemStateBySource, UpdateItemTimes, ResurfaceDueItems, UpdateWhere, DeleteItem,
         DeleteActor
    <2> QED
      BY <2>1, <2>2, <2>3, <2>4, <2>5, <2>6, RowSteps
  <1> QED
    BY <1>1, IInvariant, PTL DEF Spec, StaleUpdateRevivesNothing

-----------------------------------------------------------------------------
(* One client: what a pending call saw is still so when its statement runs.    *)

SawCurrent(p) == IF p.saw = None THEN p.op # "update" /\ p.stmt # "update"
                 ELSE p.item \in Live /\ row[p.item].state = p.saw
NothingStale == \A c \in Clients : call[c] # None => SawCurrent(call[c])

SingleClient == \A c, d \in Clients : c = d

\* A validating SELECT sees the current state.
LEMMA ReadSawCurrent ==
  ASSUME IInv, NothingStale, NEW c \in Clients, NEW op, NEW stmt, NEW i \in Ids, NEW set,
         Read(c, op, stmt, i, set)
  PROVE  NothingStale'
  <1>1. row[i].state # None
    BY ConstantsAssumption DEF Read, IInv, TypeOK, Live, Rows
  <1> QED
    BY <1>1 DEF Read, IInv, TypeOK, NothingStale, SawCurrent, Live

\* The only client takes no step that writes the table while its call is pending, other
\* than the call's own, so that the state the SELECT returned stays the item's state.
THEOREM SingleClientNeverStale == ASSUME SingleClient PROVE Spec => []NothingStale
  <1>1. Init => NothingStale
    BY DEF Init, NothingStale
  <1>2. IInv /\ NothingStale /\ [Next]_vars => NothingStale'
    <2> SUFFICES ASSUME IInv, NothingStale, [Next]_vars PROVE NothingStale'
      OBVIOUS
    <2>1. ASSUME NEW c \in Clients, NEW i \in Ids, Triage(c, i) PROVE NothingStale'
      BY <2>1, ReadSawCurrent DEF Triage, TriageItemDone, TriageItemLater,
         TriageItemDelegate, TriageItemDelete, TriageItemSomeday
    <2>2. ASSUME NEW c \in Clients, NEW i \in Ids, Edit(c, i) PROVE NothingStale'
      <3>1. CASE \E a \in Actors : CompleteItemByActor(c, i, a)
        <4>1. row[i].state # None
          BY <3>1, ConstantsAssumption DEF CompleteItemByActor, Open, IInv, TypeOK, Live, Rows
        <4> QED
          BY <3>1, <4>1 DEF CompleteItemByActor, Open, IInv, TypeOK, NothingStale, SawCurrent, Live
      <3>2. CASE \E s \in Sources : UpdateItemSource(c, i, s)
        BY <3>2 DEF UpdateItemSource, IInv, TypeOK, NothingStale, SawCurrent, Live
      <3> QED
        BY <2>2, <3>1, <3>2, ReadSawCurrent DEF Edit, AssignItem, UnassignItem,
           ReturnItemToInbox, UpdateItemState, UpdateItem
    <2>3. ASSUME NEW c \in Clients, Exec(c) PROVE NothingStale'
      <3>1. CASE ExecUpdate(c) \/ ExecDelete(c) \/ ExecInsert(c) \/ Fail(c)
        BY <3>1 DEF SingleClient, ExecUpdate, ExecDelete, ExecInsert, Fail, Return, IInv, TypeOK,
           NothingStale
      <3>2. CASE CheckSource(c)
        BY <3>2 DEF CheckSource, Pending, IInv, TypeOK, Calls, NothingStale, SawCurrent, Live
      <3>3. CASE WriteSource(c)
        <4> DEFINE p == call[c]
        <4>1. p # None /\ p \in Calls /\ SawCurrent(p)
          BY <3>3 DEF WriteSource, Pending, IInv, TypeOK, NothingStale
        <4>2. CASE call'[c] = None
          BY <4>2 DEF SingleClient, NothingStale
        <4>3. CASE call'[c] # None
          <5>1. /\ p.op = "update" /\ p.item \in Live
                /\ call'[c].saw = p.saw /\ call'[c].item = p.item
            BY <3>3, <4>1, <4>3 DEF WriteSource, IInv, TypeOK, Calls
          <5>2. p.saw # None /\ row[p.item].state = p.saw
            BY <4>1, <5>1 DEF SawCurrent
          <5>3. row'[p.item] = [row[p.item] EXCEPT !.source = p.set.source]
                /\ row[p.item] \in Rows
            BY <3>3, <5>1 DEF WriteSource, IInv, TypeOK, Live
          <5>4. row'[p.item].state = p.saw
            BY <5>2, <5>3 DEF Rows
          <5>5. row'[p.item] # None
            <6>1. row' \in [Ids -> Rows \cup {None}] /\ p.set.source \in Sources
              BY <3>3, <4>1, ExecType DEF Exec, IInv, TypeOK, WriteSource, Pending, CallInv,
                 SourceCarried
            <6>2. row'[p.item] \in Rows
              BY <5>3, <6>1 DEF Rows
            <6> QED
              BY <6>2, ConstantsAssumption
          <5> QED
            BY <5>1, <5>2, <5>4, <5>5 DEF SingleClient, NothingStale, SawCurrent, Live
        <4> QED
          BY <4>2, <4>3
      <3> QED
        BY <2>3, <3>1, <3>2, <3>3 DEF Exec
    <2>4. ASSUME NEW c \in Clients, OneStatement(c) PROVE NothingStale'
      <3>1. CASE \E s \in Sources : UpsertItemFromSource(c, s)
        BY <3>1 DEF UpsertItemFromSource, SingleClient, IInv, TypeOK, NothingStale, SawCurrent, Live
      <3>2. CASE call[c] = None /\ call' = call
        BY <3>2 DEF SingleClient, NothingStale
      <3> QED
        BY <2>4, <3>1, <3>2 DEF OneStatement, CreateItem, UpdateWhere, CompleteItemBySource,
           SyncItemStateBySource, UpdateItemTimes, ResurfaceDueItems, DeleteItem, DeleteActor
    <2>5. CASE Tick \/ UNCHANGED vars
      BY <2>5 DEF Tick, vars, NothingStale, SawCurrent, Live
    <2> QED
      BY <2>1, <2>2, <2>3, <2>4, <2>5 DEF Next
  <1> QED
    BY <1>1, <1>2, IInvariant, PTL DEF Spec

\* One client: the store implements ItemWorkflow.  A finished item is only reopened to the
\* inbox, whatever the client calls, unless the item mirrors a source.
THEOREM SingleClientWorkflow == ASSUME SingleClient PROVE Spec => ImplementsWorkflow
  <1>1. Init => Workflow!Init
    BY DEF Init, Workflow!Init, Status, Linked, Live
  <1>2. IInv /\ IInv' /\ NothingStale /\ [FinishedSteps]_vars
          => [Workflow!Next]_<<Status, Linked>>
    <2> SUFFICES ASSUME IInv, IInv', NothingStale, FinishedSteps
                 PROVE  Workflow!Next
      BY DEF vars, Status, Linked, Live
    <2>1. Status' \in [Ids -> Workflow!States \cup {None}] /\ Linked' \in SUBSET Ids
      BY DEF IInv, TypeOK, Status, Linked, Live, Rows, States, Workflow!States
    <2>2. ASSUME NEW i \in Ids, Status[i] # None, Status'[i] # None, i \notin Linked
          PROVE  Workflow!Allowed(Status[i], Status'[i])
      <3>1. /\ i \in Live /\ row'[i] # None /\ row[i].source = None
            /\ Status[i] = row[i].state /\ Status'[i] = row'[i].state
        BY <2>2 DEF Status, Linked, Live
      <3>2. \A c \in Clients : Pending(c, "update") /\ call[c].item = i
                               => call[c].saw = row[i].state
        BY DEF NothingStale, SawCurrent, Pending
      <3> QED
        BY <3>1, <3>2 DEF FinishedSteps, Workflow!Allowed
    <2> QED
      BY <2>1, <2>2 DEF Workflow!Next, Workflow!ItemStep
  <1>3. Spec => [][FinishedSteps]_vars
    BY StaleCallsOnly DEF OnlyStaleCallsReopen
  <1> QED
    BY <1>1, <1>2, <1>3, IInvariant, SingleClientNeverStale, PTL
       DEF Spec, ImplementsWorkflow, Workflow!Spec

-----------------------------------------------------------------------------
(* One client that creates sourced items through UpsertItemFromSource: what    *)
(* its SELECT found out about a source is still so when it writes it.          *)

\* An UPDATE brings no source; one that is to be inserted or written has no other item.
SourceStillFree(p) ==
    /\ p.stmt = "update" => p.set.source \notin Sources
    /\ p.stmt = "insert" => \A j \in Live : row[j].source # p.set.source
    /\ p.stmt = "write_source" => \A j \in Live : j # p.item => row[j].source # p.set.source

SourcesStillFree == \A c \in Clients : call[c] # None => SourceStillFree(call[c])

SourceInv == SourcesUnique /\ SourcesStillFree

\* A step that gives no item a source that it did not have.
LEMMA NoNewSource ==
  ASSUME SourcesUnique,
         \A i \in Live' : row'[i].source = None \/ (i \in Live /\ row'[i].source = row[i].source)
  PROVE  SourcesUnique'
  BY DEF SourcesUnique

\* A step that gives one item a source that no other has.
LEMMA OneNewSource ==
  ASSUME SourcesUnique, NEW i \in Ids, NEW s, \A j \in Live : j # i => row[j].source # s,
         \A j \in Live' : IF j = i THEN row'[j].source = s
                          ELSE j \in Live /\ row'[j].source = row[j].source
  PROVE  SourcesUnique'
  BY DEF SourcesUnique

LEMMA ReadStillFree ==
  ASSUME IInv, SourceInv, NEW c \in Clients, NEW op, NEW stmt, NEW i \in Ids, NEW set,
         Read(c, op, stmt, i, set), stmt \in {"update", "delete", "check_source"},
         stmt = "update" => set.source \notin Sources
  PROVE  SourceInv'
  BY DEF Read, IInv, TypeOK, SourceInv, SourcesUnique, SourcesStillFree, SourceStillFree, Live

LEMMA TriageStillFree ==
  ASSUME IInv, SourceInv, NEW c \in Clients, NEW i \in Ids, Triage(c, i)
  PROVE  SourceInv'
  BY ReadStillFree, ConstantsAssumption
     DEF Triage, TriageItemDone, TriageItemLater, TriageItemDelegate, TriageItemDelete,
         TriageItemSomeday, KeepAll, ToInbox

LEMMA EditStillFree ==
  ASSUME IInv, SourceInv, NEW c \in Clients, NEW i \in Ids, Edit(c, i)
  PROVE  SourceInv'
  <1> USE ConstantsAssumption
  <1>1. CASE \E a \in Actors : AssignItem(c, i, a)
    BY <1>1, ReadStillFree DEF AssignItem, KeepAll
  <1>2. CASE \E a \in Actors : CompleteItemByActor(c, i, a)
    BY <1>2 DEF CompleteItemByActor, KeepAll, IInv, TypeOK, SourceInv, SourcesUnique,
       SourcesStillFree, SourceStillFree, Live
  <1>3. CASE UnassignItem(c, i) \/ ReturnItemToInbox(c, i)
    BY <1>3, ReadStillFree DEF UnassignItem, ReturnItemToInbox, KeepAll, ToInbox
  <1>4. CASE \E s \in States : UpdateItemState(c, i, s)
    BY <1>4, ReadStillFree DEF UpdateItemState, KeepAll, ToInbox
  <1>5. CASE \E u \in Updates : UpdateItem(c, i, u)
    <2>1. PICK u \in Updates : UpdateItem(c, i, u)
      BY <1>5
    <2>2. u \in Assignments /\ Reopened(i, u).source = u.source
      BY DEF Reopened, Assignments
    <2> QED
      BY <2>1, <2>2, ReadStillFree DEF UpdateItem
  <1>6. CASE \E s \in Sources : UpdateItemSource(c, i, s)
    BY <1>6 DEF UpdateItemSource, IInv, TypeOK, SourceInv, SourcesUnique, SourcesStillFree,
       SourceStillFree, Live
  <1> QED
    BY <1>1, <1>2, <1>3, <1>4, <1>5, <1>6 DEF Edit

\* The lookup of GetItemBySource misses no other item: the sources are unique before it.
LEMMA LookupFindsAll ==
  ASSUME IInv, SourcesUnique, NEW s \in Sources, NEW i, ~LinkedElsewhere(s, i)
  PROVE  \A j \in Live : j # i => row[j].source # s
  <1>1. SUFFICES ASSUME NEW j \in Live, j # i, row[j].source = s
                 PROVE  LinkedElsewhere(s, i)
    OBVIOUS
  <1>2. s # None
    BY ConstantsAssumption
  <1>3. \A k \in Live : row[k].source = s => j = k
    BY <1>1, <1>2 DEF SourcesUnique
  <1>4. j \in Nat
    BY ConstantsAssumption DEF Live, Ids
  <1> QED
    BY <1>1, <1>3, <1>4 DEF LinkedElsewhere

LEMMA ExecStillFree ==
  ASSUME SingleClient, IInv, IInv', SourceInv, NEW c \in Clients, Exec(c)
  PROVE  SourceInv'
  <1> DEFINE p == call[c]
  <1>p. /\ p \in Calls /\ p # None /\ SourceCarried(p) /\ SourceStillFree(p)
    BY DEF Exec, ExecUpdate, ExecDelete, ExecInsert, CheckSource, WriteSource, Fail, Pending, IInv,
       TypeOK, CallInv, SourceInv, SourcesStillFree
  <1>r. call'[c] = None => SourcesStillFree'
    BY DEF SingleClient, SourcesStillFree
  <1>1. CASE ExecUpdate(c)
    <2>1. p.set \in Assignments /\ p.set.source \in {None, Keep}
      BY <1>1, <1>p DEF ExecUpdate, Pending, SourceStillFree, Calls, Assignments
    <2>2. \A i \in Live' : /\ i \in Live
                           /\ row'[i].source = None \/ row'[i].source = row[i].source
      BY <1>1, <2>1 DEF ExecUpdate, IInv, TypeOK, Live, Assign, Value
    <2>3. call'[c] = None
      BY <1>1 DEF ExecUpdate, Return, IInv, TypeOK
    <2> QED
      BY <2>2, <2>3, <1>r, NoNewSource DEF SourceInv
  <1>2. CASE ExecDelete(c)
    <2>1. \A i \in Live' : i \in Live /\ row'[i].source = row[i].source
      BY <1>2 DEF ExecDelete, IInv, TypeOK, Live
    <2>2. call'[c] = None
      BY <1>2 DEF ExecDelete, Return, IInv, TypeOK
    <2> QED
      BY <2>1, <2>2, <1>r, NoNewSource DEF SourceInv
  <1>3. CASE ExecInsert(c)
    <2>1. PICK i \in Ids \ Live : row' = [row EXCEPT ![i] = [state |-> "inbox", actor |-> None,
                                 visibleAfter |-> None, followUp |-> None, source |-> p.set.source]]
      BY <1>3 DEF ExecInsert, Insert, NextId
    <2>2. \A j \in Live : j # i => row[j].source # p.set.source
      BY <1>3, <1>p DEF ExecInsert, Pending, SourceStillFree
    <2>3. \A j \in Live' : IF j = i THEN row'[j].source = p.set.source
                           ELSE j \in Live /\ row'[j].source = row[j].source
      BY <2>1 DEF IInv, TypeOK, Live
    <2>4. call'[c] = None
      BY <1>3 DEF ExecInsert, Return, IInv, TypeOK
    <2> QED
      BY <2>2, <2>3, <2>4, <1>r, OneNewSource DEF SourceInv
  <1>4. CASE CheckSource(c)
    <2>1. SourcesUnique' /\ row' = row
      BY <1>4 DEF CheckSource, SourceInv, SourcesUnique, Live
    <2>2. CASE LinkedElsewhere(p.set.source, p.item)
      BY <2>1, <2>2, <1>4, <1>r DEF CheckSource, IInv, TypeOK, SourceInv
    <2>3. CASE ~LinkedElsewhere(p.set.source, p.item)
      <3>1. p.set.source \in Sources
        BY <1>4, <1>p DEF CheckSource, Pending, SourceCarried
      <3>2. \A j \in Live : j # p.item => row[j].source # p.set.source
        BY <2>3, <3>1, LookupFindsAll DEF SourceInv
      <3>3. call'[c] = [p EXCEPT !.stmt = "write_source"]
        BY <1>4, <2>3 DEF CheckSource, IInv, TypeOK
      <3>4. SourceStillFree(call[c])'
        BY <3>2, <3>3, <2>1, <1>p DEF SourceStillFree, Calls, Live
      <3> QED
        BY <2>1, <3>4 DEF SingleClient, SourceInv, SourcesStillFree
    <2> QED
      BY <2>2, <2>3
  <1>5. CASE WriteSource(c)
    <2>1. CASE p.item \in Live
      <3>1. \A j \in Live : j # p.item => row[j].source # p.set.source
        BY <1>5, <1>p DEF WriteSource, Pending, SourceStillFree
      <3>2. row' = [row EXCEPT ![p.item].source = p.set.source]
        BY <1>5, <2>1 DEF WriteSource
      <3>3. row[p.item] \in Rows /\ p.item \in Ids
        BY <2>1 DEF Live, IInv, TypeOK
      <3>4. \A j \in Live' : IF j = p.item THEN row'[j].source = p.set.source
                             ELSE j \in Live /\ row'[j].source = row[j].source
        BY <3>2, <3>3 DEF IInv, TypeOK, Live, Rows
      <3>5. SourcesUnique'
        BY <3>1, <3>3, <3>4, OneNewSource DEF SourceInv
      <3>6. CASE p.op = "update"
        <4>1. call'[c] = [p EXCEPT !.stmt = "update", !.set.source = Keep]
          BY <1>5, <2>1, <3>6 DEF WriteSource, IInv, TypeOK
        <4>2. call'[c].stmt = "update" /\ call'[c].set.source = Keep
          BY <4>1, <1>p DEF Calls, Assignments
        <4>3. SourceStillFree(call[c])'
          BY <4>2, ConstantsAssumption DEF SourceStillFree
        <4> QED
          BY <3>5, <4>3 DEF SingleClient, SourceInv, SourcesStillFree
      <3>7. CASE p.op # "update"
        BY <3>5, <3>7, <1>5, <1>r DEF WriteSource, IInv, TypeOK, SourceInv
      <3> QED
        BY <3>6, <3>7
    <2>2. CASE p.item \notin Live
      BY <2>2, <1>5, <1>r DEF WriteSource, IInv, TypeOK, SourceInv, SourcesUnique, Live
    <2> QED
      BY <2>1, <2>2
  <1>6. CASE Fail(c)
    BY <1>6, <1>r DEF Fail, Return, IInv, TypeOK, SourceInv, SourcesUnique, Live
  <1> QED
    BY <1>1, <1>2, <1>3, <1>4, <1>5, <1>6 DEF Exec

LEMMA OneStatementStillFree ==
  ASSUME SingleClient, CreateSources = {}, IInv, SourceInv, NEW c \in Clients, OneStatement(c)
  PROVE  SourceInv'
  <1>1. CASE \E s \in Sources : UpsertItemFromSource(c, s)
    <2>1. PICK s \in Sources : UpsertItemFromSource(c, s)
      BY <1>1
    <2>2. \A j \in Live : row[j].source # s
      BY <2>1 DEF UpsertItemFromSource
    <2>3. call'[c].stmt = "insert" /\ call'[c].set.source = s /\ row' = row
      BY <2>1 DEF UpsertItemFromSource, KeepAll, IInv, TypeOK
    <2>4. SourceStillFree(call[c])'
      BY <2>2, <2>3 DEF SourceStillFree, Live
    <2> QED
      BY <2>3, <2>4 DEF SingleClient, SourceInv, SourcesStillFree, SourcesUnique, Live
  <1>2. SUFFICES ASSUME ~\E s \in Sources : UpsertItemFromSource(c, s)
                 PROVE  SourcesUnique'
    <2>1. CASE ~\E s \in Sources : UpsertItemFromSource(c, s)
      <3>1. call'[c] = None
        BY <2>1 DEF OneStatement, CreateItem, UpdateWhere, CompleteItemBySource,
           SyncItemStateBySource, UpdateItemTimes, ResurfaceDueItems, DeleteItem, DeleteActor
      <3> QED
        BY <2>1, <3>1, <1>2 DEF SingleClient, SourceInv, SourcesStillFree
    <2> QED
      BY <1>1, <2>1
  <1>w. ASSUME NEW S \in SUBSET Live, NEW set, UpdateWhere(c, S, set), set.source = Keep
        PROVE  SourcesUnique'
    <2>1. \A i \in Live' : i \in Live /\ row'[i].source = row[i].source
      BY <1>w DEF UpdateWhere, Assign, Value, Live, IInv, TypeOK
    <2> QED
      BY <2>1, NoNewSource DEF SourceInv
  <1>3. CASE \E r \in Rows : CreateItem(c, r)
    <2>1. PICK r \in Rows, i \in Ids : row' = [row EXCEPT ![i] = r] /\ r.source = None
      BY <1>3 DEF CreateItem, Insert
    <2>2. \A j \in Live' : row'[j].source = None \/ (j \in Live /\ row'[j].source = row[j].source)
      BY <2>1 DEF Live, IInv, TypeOK
    <2> QED
      BY <2>2, NoNewSource DEF SourceInv
  <1>4. CASE \E s \in Sources : CompleteItemBySource(c, s)
    BY <1>4, <1>w DEF CompleteItemBySource, KeepAll
  <1>5. CASE \E s \in Sources, st \in States : SyncItemStateBySource(c, s, st)
    <2>1. PICK s \in Sources, st \in States : SyncItemStateBySource(c, s, st)
      BY <1>5
    <2> DEFINE set == IF st = "inbox" THEN ToInbox ELSE [KeepAll EXCEPT !.state = st]
    <2>2. set.source = Keep
      BY DEF ToInbox, KeepAll
    <2>3. UpdateWhere(c, {i \in Live : row[i].source = s}, set)
      BY <2>1 DEF SyncItemStateBySource
    <2> HIDE DEF set
    <2> QED
      BY <2>2, <2>3, <1>w
  <1>6. CASE \E i \in Ids, va, fu \in Times \cup {None} : UpdateItemTimes(c, i, va, fu)
    <2>1. \A va, fu : [KeepAll EXCEPT !.visibleAfter = va, !.followUp = fu].source = Keep
      BY DEF KeepAll
    <2>2. \A i : {i} \cap Live \in SUBSET Live
      OBVIOUS
    <2> QED
      BY <1>6, <2>1, <2>2, <1>w DEF UpdateItemTimes
  <1>7. CASE ResurfaceDueItems(c)
    BY <1>7, <1>w DEF ResurfaceDueItems, KeepAll
  <1>8. CASE \E i \in Ids : DeleteItem(c, i)
    <2>1. \A j \in Live' : j \in Live /\ row'[j].source = row[j].source
      BY <1>8 DEF DeleteItem, Live, IInv, TypeOK
    <2> QED
      BY <2>1, NoNewSource DEF SourceInv
  <1>9. CASE \E a \in Actors : DeleteActor(c, a)
    <2>1. \A j \in Live' : j \in Live /\ row'[j].source = row[j].source
      BY <1>9 DEF DeleteActor, Live, IInv, TypeOK, Rows
    <2> QED
      BY <2>1, NoNewSource DEF SourceInv
  <1> QED
    BY <1>2, <1>3, <1>4, <1>5, <1>6, <1>7, <1>8, <1>9 DEF OneStatement

\* Whatever sequence of calls the only client makes, and whichever of their statements fail,
\* two items never mirror the same source (internal/store/store_09.go, UpdateItemSource and
\* UpsertItemFromSource), as long as no caller of CreateItem passes a source itself.
THEOREM SingleClientSourcesUnique ==
    ASSUME SingleClient, CreateSources = {}
    PROVE  Spec => []SourcesUnique
  <1>1. Init => SourceInv
    BY DEF Init, SourceInv, SourcesUnique, SourcesStillFree, Live
  <1>2. IInv /\ IInv' /\ SourceInv /\ [Next]_vars => SourceInv'
    <2> SUFFICES ASSUME IInv, IInv', SourceInv, [Next]_vars PROVE SourceInv'
      OBVIOUS
    <2>1. CASE Tick \/ UNCHANGED vars
      BY <2>1 DEF Tick, vars, SourceInv, SourcesUnique, SourcesStillFree, SourceStillFree, Live
    <2> QED
      BY <2>1, TriageStillFree, EditStillFree, ExecStillFree, OneStatementStillFree DEF Next
  <1>3. SourceInv => SourcesUnique
    BY DEF SourceInv
  <1> QED
    BY <1>1, <1>2, <1>3, IInvariant, PTL DEF Spec

=============================================================================
