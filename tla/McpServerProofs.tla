---------------------------- MODULE McpServerProofs ----------------------------
(* Proofs about the two parts of an MCP server.  MailBindings, for any number  *)
(* of messages, passes and actions, with any number of messages each: each of  *)
(* the four properties has an inductive invariant of its own, Matched, Tells,  *)
(* Covered and Ordered, on top of MailBase, which holds under all settings.    *)
(* HandoffRegistry, for any number of clients, handoffs and consumes: the      *)
(* number of a consume is either in a reply under way or in served, never in   *)
(* two of them (OneRecipient).                                                 *)
EXTENDS McpServer, FiniteSetTheorems, TLAPS

---------------------------------------------------------------------------
(* Bindings of messages.                                                       *)

\* An id that a message has or had: with the versions of the messages.
Past(r, mailbox) == r \in RemoteIds /\ r[2] <= mailbox[r[1]].version
Gone(r, mailbox) == r \in RemoteIds /\ r[2] < mailbox[r[1]].version

\* A pass has a message of its list in hand, and stores an item that it has.
PassSound(p, mailbox) ==
    /\ p.todo \subseteq p.listed /\ \A r \in p.listed : Past(r, mailbox)
    /\ p.step \in {"resolved", "stored"} => p.at \in p.todo
    /\ p.step = "stored" => p.item # None
    /\ p.step = "clean" => p.todo = {}

Apart(ids) == \A j, k \in DOMAIN ids : ids[j][1] = ids[k][1] => j = k

\* A resolution leaves an id or gives the next one of a message of the action.
Resolves(act) ==
    /\ DOMAIN act.new = DOMAIN act.ids
    /\ \A k \in DOMAIN act.ids : act.new[k] = act.ids[k] \/
          \E j \in DOMAIN act.ids : act.new[k] = NewId(act.ids[j])
    /\ \A j, k \in DOMAIN act.ids : act.new[j] = act.new[k] => j = k

\* One action has its mailbox for itself.
Alone(st) == ~ (st.owner \/ Cardinality(st.actors) > 1)
WholeIn(st) == st.batch <= 1 \/ Alone(st)
Exact(act) == /\ DOMAIN act.new = DOMAIN act.ids
              /\ \A k \in DOMAIN act.ids : act.new[k] = NewId(act.ids[k])

\* The messages of an action are different ones; after the call their ids are gone.
ActSound(act, mailbox, st) ==
    /\ act.ids # <<>> /\ Apart(act.ids) /\ \A k \in DOMAIN act.ids : Past(act.ids[k], mailbox)
    /\ st.batch <= 1 => DOMAIN act.ids = {1}
    /\ Alone(st) /\ act.step = "logged" =>
          \A k \in DOMAIN act.ids : act.ids[k] = <<act.ids[k][1], mailbox[act.ids[k][1]].version>>
    /\ act.step = "moved" => Resolves(act) /\ \A k \in DOMAIN act.ids : Gone(act.ids[k], mailbox)
    /\ act.step = "moved" /\ WholeIn(st) => Exact(act)

MailBase == /\ TypeOK
            /\ \A s \in Syncers : syncer[s] # None => PassSound(syncer[s], remote)
            /\ \A a \in Actors : action[a] # None => ActSound(action[a], remote, setting)
            /\ \A a \in Actors : action[a] # None => a \in setting.actors
            /\ \A s \in Syncers : syncer[s] # None => s \in setting.syncers

\* A finite set has an element with the largest number.
LEMMA LargestExists ==
    ASSUME NEW B, IsFiniteSet(B), B # {}, NEW f, \A x \in B : f[x] \in Nat
    PROVE  \E x \in B : \A y \in B : f[y] <= f[x]
<1> DEFINE Above(x) == {y \in B : f[y] > f[x]}
           T == {Above(x) : x \in B}
<1>1. \A x \in B : Above(x) \in SUBSET B /\ IsFiniteSet(Above(x))
  BY FS_Subset
<1>2. T \subseteq FiniteSubsetsOf(B) /\ T # {}
  BY <1>1, Zenon DEF FiniteSubsetsOf
<1>3. PICK t \in T : \A u \in T : <<u, t>> \notin StrictSubsetOrdering(B)
  <2>1. IsWellFoundedOn(StrictSubsetOrdering(B), FiniteSubsetsOf(B))
    BY FS_StrictSubsetOrderingWellFounded
  <2> QED
    BY <1>2, <2>1, WFMin
<1>4. PICK x \in B : t = Above(x)
  BY Zenon
<1>5. ASSUME NEW y \in B, f[y] > f[x]
      PROVE  FALSE
  <2>1. Above(y) \subseteq Above(x) /\ y \in Above(x) /\ y \notin Above(y)
    BY <1>5
  <2>2. Above(y) \in T /\ <<Above(y), Above(x)>> \notin StrictSubsetOrdering(B)
    BY <1>3, <1>4, Zenon
  <2>3. Above(y) \in SUBSET B /\ Above(x) \in SUBSET B
    BY <1>1
  <2> HIDE DEF Above
  <2> QED
    BY <2>1, <2>2, <2>3 DEF StrictSubsetOrdering
<1>6. \A y \in B : f[y] <= f[x]
  BY <1>5
<1> QED
  BY <1>6

\* A key that is not used.
LEMMA KeyIsNew ==
    ASSUME NEW B, IsFiniteSet(B), NEW f, \A x \in B : f[x] \in Nat,
           NEW keys, keys = {f[x] : x \in B}
    PROVE  NextKey(keys) \in Nat \ {0} /\ NextKey(keys) \notin keys
<1>1. CASE B = {}
  BY <1>1 DEF NextKey
<1>2. CASE B # {}
  <2>1. PICK x \in B : \A y \in B : f[y] <= f[x]
    BY <1>2, LargestExists
  <2>2. f[x] \in keys /\ \A k \in keys : f[x] >= k
    BY <2>1
  <2>3. Max(keys) \in keys /\ \A k \in keys : Max(keys) >= k
    BY <2>2, Zenon DEF Max
  <2>4. keys \subseteq Nat /\ keys # {}
    BY <1>2
  <2>5. PICK m \in Nat : m = Max(keys) /\ \A k \in keys : m >= k
    BY <2>3, <2>4
  <2>6. NextKey(keys) = 1 + m
    BY <2>4, <2>5 DEF NextKey
  <2>7. \A k \in keys : k \in Nat /\ k # 1 + m
    BY <2>4, <2>5
  <2> QED
    BY <2>6, <2>7
<1> QED
  BY <1>1, <1>2

\* Items and bindings, with their keys.
Tables == /\ items \in [ItemIds -> ItemRecords \cup {None}]
          /\ bindings \in [RemoteIds -> BindingRecords \cup {None}]
          /\ \A r \in Bound : bindings[r].item \in Items \cup {None}
          /\ \A q, r \in Bound : bindings[q].row = bindings[r].row => q = r

Mailbox == [Messages -> [folder : Folders, version : 0 .. MaxVersion]]

LEMMA Typed ==
    TypeOK <=> /\ setting \in Settings /\ remote \in Mailbox /\ Tables
               /\ syncer \in [Syncers -> PassRecords \cup {None}]
               /\ action \in [Actors -> ActionRecords \cup {None}]
               /\ logs \in [Actors -> [RemoteIds -> Statuses \cup {None}]]
               /\ moved \in [Actors -> SUBSET RemoteIds]
  BY Zenon DEF TypeOK, Tables, Mailbox

\* A pass goes on, and may write to the tables.
LEMMA PassStep ==
    ASSUME MailSane, MailBase, NEW s \in Syncers, s \in setting.syncers, NEW q,
           q = None \/ (q \in PassRecords /\ PassSound(q, remote)),
           syncer' = [syncer EXCEPT ![s] = q], Tables',
           UNCHANGED <<setting, remote, action, logs, moved>>
    PROVE  MailBase'
<1>1. syncer \in [Syncers -> PassRecords \cup {None}]
  BY Typed DEF MailBase
<1>2. syncer' \in [Syncers -> PassRecords \cup {None}] /\ syncer'[s] = q
      /\ \A t \in Syncers : t # s => syncer'[t] = syncer[t]
  BY <1>1
<1>3. TypeOK'
  BY <1>2, Typed DEF MailBase, TypeOK, Tables, Items, Bound
<1>4. \A t \in Syncers : syncer'[t] # None => PassSound(syncer'[t], remote)
  BY <1>2 DEF MailBase
<1>5. \A t \in Syncers : syncer'[t] # None => PassSound(syncer'[t], remote')
  BY <1>4
<1>6. \A t \in Syncers : syncer'[t] # None => t \in setting'.syncers
  BY <1>2 DEF MailBase
<1>7. \A a \in Actors : action'[a] # None => a \in setting'.actors
  BY DEF MailBase
<1>8. \A a \in Actors : action'[a] # None => ActSound(action'[a], remote', setting')
  BY DEF MailBase
<1> QED
  BY <1>3, <1>5, <1>6, <1>7, <1>8 DEF MailBase

\* Versions only go up.
Older(mb, nb) == \A m \in Messages : mb[m].version <= nb[m].version

LEMMA PassKept ==
    ASSUME NEW mb \in Mailbox, NEW nb \in Mailbox, Older(mb, nb), MaxVersion \in Nat,
           NEW p, PassSound(p, mb)
    PROVE  PassSound(p, nb)
<1>1. ASSUME NEW r, Past(r, mb) PROVE Past(r, nb)
  <2>1. r[1] \in Messages /\ r[2] \in Int
    BY <1>1 DEF Past, RemoteIds
  <2>2. mb[r[1]].version \in Int /\ nb[r[1]].version \in Int
    BY <2>1 DEF Mailbox
  <2> QED
    BY <1>1, <2>1, <2>2 DEF Past, Older
<1> QED
  BY <1>1 DEF PassSound

LEMMA ActKept ==
    ASSUME NEW mb \in Mailbox, NEW nb \in Mailbox, Older(mb, nb), MaxVersion \in Nat,
           NEW act, NEW st, ActSound(act, mb, st), ~ Alone(st) \/ mb = nb
    PROVE  ActSound(act, nb, st)
<1>1. ASSUME NEW r, r \in RemoteIds
      PROVE  (Past(r, mb) => Past(r, nb)) /\ (Gone(r, mb) => Gone(r, nb))
  <2>1. r[1] \in Messages /\ r[2] \in Int
    BY <1>1 DEF RemoteIds
  <2>2. mb[r[1]].version \in Int /\ nb[r[1]].version \in Int
    BY <2>1 DEF Mailbox
  <2> QED
    BY <1>1, <2>1, <2>2 DEF Past, Gone, Older
<1>2. \A r : (Past(r, mb) => Past(r, nb)) /\ (Gone(r, mb) => Gone(r, nb))
  BY <1>1 DEF Past, Gone
<1> QED
  BY <1>2 DEF ActSound

\* An action goes on, and may move messages and write to the tables.
LEMMA ActStep ==
    ASSUME MailSane, MailBase, NEW a \in Actors, a \in setting.actors, NEW q,
           q = None \/ (q \in ActionRecords /\ ActSound(q, remote', setting)),
           action' = [action EXCEPT ![a] = q], Tables',
           remote' \in Mailbox, Older(remote, remote'),
           logs' \in [Actors -> [RemoteIds -> Statuses \cup {None}]],
           moved' \in [Actors -> SUBSET RemoteIds],
           UNCHANGED <<setting, syncer>>
    PROVE  MailBase'
<1>1. /\ action \in [Actors -> ActionRecords \cup {None}] /\ setting \in SettingRecords
      /\ remote \in Mailbox /\ MaxVersion \in Nat
  BY Typed DEF MailBase, MailSane
<1>2. action' \in [Actors -> ActionRecords \cup {None}] /\ action'[a] = q
      /\ \A b \in Actors : b # a => action'[b] = action[b]
  BY <1>1
<1>3. TypeOK'
  BY <1>2, Typed DEF MailBase, TypeOK, Tables, Items, Bound, Mailbox
<1>4. ASSUME NEW b \in Actors, action'[b] # None
      PROVE  ActSound(action'[b], remote', setting')
  <2>1. CASE b = a
    BY <1>2, <1>4, <2>1
  <2>2. CASE b # a
    <3>1. action[b] # None /\ action'[b] = action[b]
      BY <1>2, <1>4, <2>2
    <3>2. ActSound(action[b], remote, setting) /\ b \in setting.actors
      BY <3>1 DEF MailBase
    <3>3. ~ Alone(setting)
      <4>1. setting.actors \subseteq Actors
        BY <1>1 DEF SettingRecords
      <4>2. IsFiniteSet(setting.actors) /\ {a, b} \subseteq setting.actors
        BY <4>1, <3>2, FS_Subset DEF MailSane
      <4>3. Cardinality({a, b}) <= Cardinality(setting.actors) /\ Cardinality(setting.actors) \in Nat
        BY <4>2, FS_Subset, FS_CardinalityType
      <4>4. Cardinality({a, b}) = 2
        <5>1. IsFiniteSet({a}) /\ Cardinality({a}) = 1 /\ {a, b} = {a} \cup {b} /\ b \notin {a}
          BY <2>2, FS_Singleton
        <5>2. Cardinality({a} \cup {b}) = IF b \in {a} THEN Cardinality({a}) ELSE Cardinality({a}) + 1
          BY <5>1, FS_AddElement
        <5> QED
          BY <5>1, <5>2
      <4> QED
        BY <4>3, <4>4 DEF Alone
    <3>4. PICK nb : nb = remote'
      OBVIOUS
    <3>5. ActSound(action[b], nb, setting)
      BY <1>1, <3>2, <3>3, <3>4, ActKept
    <3> QED
      BY <3>1, <3>4, <3>5
  <2> QED
    BY <2>1, <2>2
<1>5. ASSUME NEW s \in Syncers, syncer'[s] # None
      PROVE  PassSound(syncer'[s], remote')
  <2>1. PassSound(syncer[s], remote)
    BY <1>5 DEF MailBase
  <2>2. PICK nb : nb = remote'
    OBVIOUS
  <2>3. PassSound(syncer[s], nb)
    BY <1>1, <2>1, <2>2, PassKept
  <2> QED
    BY <2>2, <2>3
<1>6. \A t \in Syncers : syncer'[t] # None => t \in setting'.syncers
  BY DEF MailBase
<1>7. \A b \in Actors : action'[b] # None => b \in setting'.actors
  BY <1>2 DEF MailBase
<1> QED
  BY <1>3, <1>4, <1>5, <1>6, <1>7 DEF MailBase

\* A step that leaves passes and actions as they are.
LEMMA OtherStep ==
    ASSUME MailSane, MailBase, Tables', remote' \in Mailbox, Older(remote, remote'),
           ~ Alone(setting) \/ remote' = remote, UNCHANGED <<setting, syncer, action, logs, moved>>
    PROVE  MailBase'
<1>1. remote \in Mailbox /\ MaxVersion \in Nat
  BY Typed DEF MailBase, MailSane
<1>2. TypeOK'
  BY Typed DEF MailBase, TypeOK, Tables, Items, Bound, Mailbox
<1>3. PICK nb : nb = remote'
  OBVIOUS
<1>4. ASSUME NEW s \in Syncers, syncer[s] # None
      PROVE  PassSound(syncer[s], nb)
  BY <1>1, <1>3, <1>4, PassKept DEF MailBase
<1>5. ASSUME NEW a \in Actors, action[a] # None
      PROVE  ActSound(action[a], nb, setting)
  BY <1>1, <1>3, <1>5, ActKept DEF MailBase
<1> QED
  BY <1>2, <1>3, <1>4, <1>5 DEF MailBase

LEMMA Ids ==
    ASSUME MailSane, MailBase, NEW folder
    PROVE  /\ In(folder) \subseteq RemoteIds
           /\ \A r \in In(folder) : Past(r, remote) /\ r = <<r[1], remote[r[1]].version>>
           /\ \A q, r \in In(folder) : q[1] = r[1] => q = r
<1>1. setting.messages \subseteq Messages /\ remote \in Mailbox
  BY Typed DEF MailSane, MailBase, SettingRecords
<1>2. ASSUME NEW m \in Messages
      PROVE  /\ Id(m) \in RemoteIds /\ Id(m)[1] = m /\ Id(m)[2] = remote[m].version
             /\ Past(Id(m), remote)
  <2>1. remote[m].version \in 0 .. MaxVersion /\ MaxVersion \in Nat
    BY <1>1 DEF Mailbox, MailSane
  <2> QED
    BY <2>1 DEF Id, RemoteIds, Past
<1> QED
  BY <1>1, <1>2 DEF In, Id

LEMMA PassFacts ==
    ASSUME MailSane, MailBase, NEW s \in Syncers, syncer[s] # None
    PROVE  syncer[s] \in PassRecords /\ PassSound(syncer[s], remote) /\ s \in setting.syncers
  BY DEF MailBase, TypeOK

LEMMA TablesHere == MailBase => Tables
  BY Typed DEF MailBase

\* Nothing is written.
LEMMA TablesKept == Tables /\ UNCHANGED <<items, bindings>> => Tables'
  BY DEF Tables, Items, Bound

\* The steps of a pass that only read.
LEMMA ReadBase ==
    ASSUME MailSane, MailBase, NEW s \in Syncers,
           \/ Sync(s) \/ (\E r \in RemoteIds : resolveItemTarget(s, r)) \/ SyncFails(s)
           \/ ListStaleBindings(s) \/ SyncEnds(s)
    PROVE  MailBase'
<1>1. Tables'
  BY TablesHere, TablesKept
     DEF Sync, resolveItemTarget, SyncFails, ListStaleBindings, SyncEnds
<1>2. CASE Sync(s)
  <2> DEFINE q == [step |-> "next", listed |-> In("inbox"), todo |-> In("inbox"),
                   at |-> None, item |-> None, doomed |-> {}]
  <2>1. q \in PassRecords /\ PassSound(q, remote)
    BY Ids DEF PassRecords, PassSound
  <2>2. syncer' = [syncer EXCEPT ![s] = q] /\ s \in setting.syncers
    BY <1>2 DEF Sync
  <2> HIDE DEF q
  <2> QED
    BY <1>1, <1>2, <2>1, <2>2, PassStep DEF Sync
<1>3. ASSUME NEW r \in RemoteIds, resolveItemTarget(s, r) PROVE MailBase'
  <2> DEFINE p == syncer[s]
             q == [p EXCEPT !.step = "resolved", !.at = r,
                            !.item = IF bindings[r] = None THEN None ELSE bindings[r].item]
  <2>1. p \in PassRecords /\ PassSound(p, remote) /\ s \in setting.syncers /\ r \in p.todo
        /\ p.step = "next"
    BY <1>3, PassFacts DEF resolveItemTarget, At
  <2>2. (IF bindings[r] = None THEN None ELSE bindings[r].item) \in ItemIds \cup {None}
    BY TablesHere DEF Tables, BindingRecords
  <2>3. q \in PassRecords /\ PassSound(q, remote)
    BY <2>1, <2>2 DEF PassRecords, PassSound
  <2>4. syncer' = [syncer EXCEPT ![s] = q]
    BY <1>3, <2>1, Typed DEF resolveItemTarget, MailBase, PassRecords
  <2> HIDE DEF q
  <2> QED
    BY <1>1, <1>3, <2>1, <2>3, <2>4, PassStep DEF resolveItemTarget
<1>4. CASE SyncFails(s)
  BY <1>1, <1>4, PassFacts, PassStep DEF SyncFails
<1>5. CASE ListStaleBindings(s)
  <2> DEFINE p == syncer[s]
             doomed == {bindings[r].row : r \in {q \in Bound : bindings[q].stale}}
             q == IF ~setting.cleanup THEN None ELSE [p EXCEPT !.step = "clean", !.doomed = doomed]
  <2>1. p \in PassRecords /\ PassSound(p, remote) /\ s \in setting.syncers /\ p.todo = {}
    BY <1>5, PassFacts DEF ListStaleBindings, At
  <2>2. doomed \subseteq Nat \ {0}
    BY TablesHere DEF Tables, BindingRecords, Bound
  <2>3. q = None \/ (q \in PassRecords /\ PassSound(q, remote))
    <3> HIDE DEF doomed
    <3> QED
      BY <2>1, <2>2 DEF PassRecords, PassSound
  <2>4. syncer' = [syncer EXCEPT ![s] = q]
    BY <1>5 DEF ListStaleBindings
  <2> HIDE DEF q
  <2> QED
    BY <1>1, <1>5, <2>1, <2>3, <2>4, PassStep DEF ListStaleBindings
<1>6. CASE SyncEnds(s)
  BY <1>1, <1>6, PassFacts, PassStep DEF SyncEnds, At
<1> QED
  BY <1>2, <1>3, <1>4, <1>5, <1>6

\* The keys of items and bindings that are written are new.
LEMMA NewItem ==
    ASSUME MailSane, NextKey(Items) <= MaxItems
    PROVE  NextKey(Items) \in ItemIds /\ NextKey(Items) \notin Items
<1> DEFINE f == [i \in Items |-> i]
<1>1. IsFiniteSet(Items)
  BY FS_Interval, FS_Subset DEF Items, ItemIds, MailSane
<1>2. \A i \in Items : f[i] \in Nat
  BY DEF Items, ItemIds, MailSane
<1>3. Items = {f[i] : i \in Items}
  OBVIOUS
<1> HIDE DEF f
<1>4. NextKey(Items) \in Nat \ {0} /\ NextKey(Items) \notin Items
  BY <1>1, <1>2, <1>3, KeyIsNew
<1> QED
  BY <1>4 DEF ItemIds, MailSane

Rows == {bindings[r].row : r \in Bound}

LEMMA NewRow ==
    ASSUME MailSane, Tables
    PROVE  NextKey(Rows) \in Nat \ {0} /\ NextKey(Rows) \notin Rows
<1> DEFINE f == [r \in Bound |-> bindings[r].row]
<1>1. IsFiniteSet(Bound)
  <2>1. IsFiniteSet(0 .. MaxVersion)
    BY FS_Interval DEF MailSane
  <2>2. IsFiniteSet(RemoteIds)
    BY <2>1, FS_Product DEF RemoteIds, MailSane
  <2> QED
    BY <2>2, FS_Subset DEF Bound
<1>2. \A r \in Bound : f[r] \in Nat
  BY DEF Tables, Bound, BindingRecords
<1>3. Rows = {f[r] : r \in Bound}
  BY DEF Rows
<1> HIDE DEF f
<1> QED
  BY <1>1, <1>2, <1>3, KeyIsNew

\* The steps of a pass that write to the items.
LEMMA ItemBase ==
    ASSUME MailSane, MailBase, NEW s \in Syncers, UpdateItem(s) \/ CreateItem(s)
    PROVE  MailBase'
<1> DEFINE p == syncer[s]
<1>1. Tables
  BY TablesHere
<1>2. p \in PassRecords /\ PassSound(p, remote) /\ s \in setting.syncers /\ p.step = "resolved"
      /\ p.at \in RemoteIds
  <2>1. syncer[s] # None /\ p.step = "resolved"
    BY DEF UpdateItem, CreateItem, At
  <2>2. p \in PassRecords /\ PassSound(p, remote) /\ s \in setting.syncers
    BY <2>1, PassFacts
  <2> QED
    BY <2>1, <2>2 DEF PassSound, PassRecords
<1>3. syncer \in [Syncers -> PassRecords \cup {None}] /\ bindings' = bindings
  BY Typed DEF MailBase, UpdateItem, CreateItem
<1>4. CASE UpdateItem(s)
  <2> DEFINE q == IF p.item \in Items THEN [p EXCEPT !.step = "stored"] ELSE None
  <2>1. q = None \/ (q \in PassRecords /\ PassSound(q, remote))
    BY <1>2, <1>4 DEF PassRecords, PassSound, UpdateItem
  <2>2. syncer' = [syncer EXCEPT ![s] = q]
    BY <1>2, <1>3, <1>4 DEF UpdateItem, PassRecords
  <2>3. items' \in [ItemIds -> ItemRecords \cup {None}] /\ Items' = Items
    <3>1. CASE items' = items
      BY <1>1, <3>1 DEF Tables, Items
    <3>2. CASE p.item \in Items /\ items' = [items EXCEPT ![p.item].state = "inbox"]
      <4>1. items[p.item] \in ItemRecords /\ p.item \in ItemIds
        BY <1>1, <3>2 DEF Tables, Items
      <4>2. [items[p.item] EXCEPT !.state = "inbox"] \in ItemRecords
        BY <4>1 DEF ItemRecords
      <4>3. items' = [items EXCEPT ![p.item] = [items[p.item] EXCEPT !.state = "inbox"]]
        BY <3>2
      <4> QED
        BY <1>1, <4>1, <4>2, <4>3 DEF Tables, Items, MailSane
    <3> QED
      BY <1>4, <3>1, <3>2 DEF UpdateItem
  <2>4. Tables'
    BY <1>1, <1>3, <2>3 DEF Tables, Bound
  <2> HIDE DEF q
  <2> QED
    BY <1>2, <1>4, <2>1, <2>2, <2>4, PassStep DEF UpdateItem
<1>5. CASE CreateItem(s)
  <2> DEFINE i == NextKey(Items)
             q == [p EXCEPT !.step = "stored", !.item = i]
             new == [about |-> p.at[1], state |-> "inbox"]
  <2>1. i \in ItemIds /\ i \notin Items /\ i # None
    BY <1>5, NewItem DEF CreateItem, ItemIds, MailSane
  <2>2. new \in ItemRecords /\ new # None
    BY <1>2 DEF ItemRecords, RemoteIds, MailSane
  <2>3. q \in PassRecords /\ PassSound(q, remote)
    <3> HIDE DEF i
    <3> QED
      BY <1>2, <2>1 DEF PassRecords, PassSound
  <2>4. syncer' = [syncer EXCEPT ![s] = q] /\ items' = [items EXCEPT ![i] = new]
    BY <1>2, <1>3, <1>5 DEF CreateItem, PassRecords
  <2>5. Tables'
    <3> HIDE DEF i, new
    <3>1. items' \in [ItemIds -> ItemRecords \cup {None}] /\ Items \subseteq Items'
      BY <1>1, <2>1, <2>2, <2>4 DEF Tables, Items
    <3> QED
      BY <1>1, <1>3, <3>1 DEF Tables, Bound
  <2> HIDE DEF q
  <2> QED
    BY <1>2, <1>5, <2>3, <2>4, <2>5, PassStep DEF CreateItem
<1> QED
  BY <1>4, <1>5

\* The steps of a pass that write to the bindings.
LEMMA BindBase ==
    ASSUME MailSane, MailBase, NEW s \in Syncers, UpsertExternalBinding(s)
    PROVE  MailBase'
<1> DEFINE p == syncer[s]
           r == p.at
           fresh == [row |-> NextKey(Rows), item |-> p.item, stale |-> FALSE]
           bound == IF bindings[r] = None THEN fresh
                    ELSE [bindings[r] EXCEPT !.item = p.item, !.stale = FALSE]
           q == IF p.item \in Items THEN [p EXCEPT !.step = "next", !.todo = @ \ {r}] ELSE None
<1>1. Tables /\ items' = items
  BY TablesHere DEF UpsertExternalBinding
<1>2. /\ p \in PassRecords /\ PassSound(p, remote) /\ s \in setting.syncers /\ p.step = "stored"
      /\ r \in RemoteIds
  <2>1. syncer[s] # None /\ p.step = "stored"
    BY DEF UpsertExternalBinding, At
  <2>2. p \in PassRecords /\ PassSound(p, remote) /\ s \in setting.syncers
    BY <2>1, PassFacts
  <2> QED
    BY <2>1, <2>2 DEF PassSound, PassRecords
<1>3. q = None \/ (q \in PassRecords /\ PassSound(q, remote))
  BY <1>2 DEF PassRecords, PassSound
<1>4. /\ syncer' = [syncer EXCEPT ![s] = q]
      /\ bindings' = IF p.item \in Items THEN [bindings EXCEPT ![r] = bound] ELSE bindings
  <2>1. syncer \in [Syncers -> PassRecords \cup {None}]
    BY Typed DEF MailBase
  <2> QED
    BY <1>2, <2>1 DEF UpsertExternalBinding, PassRecords, Rows
<1>5. Tables'
  <2>1. CASE p.item \notin Items
    BY <1>1, <1>4, <2>1, TablesKept
  <2>2. CASE p.item \in Items
    <3>1. /\ bound \in BindingRecords /\ bound.item = p.item
          /\ \A x \in Bound : x # r => bindings[x].row # bound.row
      <4>1. p.item \in ItemIds
        BY <2>2 DEF Items
      <4>2. CASE bindings[r] = None
        <5>1. fresh \in BindingRecords /\ fresh.item = p.item /\ fresh.row \notin Rows
          BY <1>1, <4>1, NewRow DEF BindingRecords
        <5> QED
          BY <4>2, <5>1 DEF Rows
      <4>3. CASE bindings[r] # None
        <5>1. bindings[r] \in BindingRecords /\ r \in Bound
          BY <1>1, <1>2, <4>3 DEF Tables, Bound
        <5>2. bound \in BindingRecords /\ bound.item = p.item /\ bound.row = bindings[r].row
          BY <4>1, <4>3, <5>1 DEF BindingRecords
        <5> QED
          BY <1>1, <5>1, <5>2 DEF Tables
      <4> QED
        BY <4>2, <4>3
    <3> HIDE DEF bound
    <3>2. bindings' = [bindings EXCEPT ![r] = bound] /\ bound # None
      BY <1>4, <2>2, <3>1 DEF MailSane
    <3>3. bindings'[r] = bound /\ \A x \in RemoteIds : x # r => bindings'[x] = bindings[x]
      BY <1>1, <1>2, <3>2 DEF Tables
    <3>4. Bound' = Bound \cup {r} /\ Items' = Items
      BY <1>1, <1>2, <3>2, <3>3 DEF Bound, Items
    <3>5. bindings' \in [RemoteIds -> BindingRecords \cup {None}]
      BY <1>1, <3>1, <3>2 DEF Tables
    <3>6. \A x \in Bound' : bindings'[x].item \in Items' \cup {None}
      BY <1>1, <2>2, <3>1, <3>3, <3>4 DEF Tables, Bound
    <3>7. \A x, y \in Bound' : bindings'[x].row = bindings'[y].row => x = y
      BY <1>1, <3>1, <3>3, <3>4 DEF Tables, Bound
    <3> QED
      BY <1>1, <3>5, <3>6, <3>7 DEF Tables
  <2> QED
    BY <2>1, <2>2
<1> HIDE DEF q
<1> QED
  BY <1>2, <1>3, <1>4, <1>5, PassStep DEF UpsertExternalBinding

\* Bindings that go leave the others as they are.
LEMMA Fewer ==
    ASSUME MailSane, Tables, NEW gone, items' = items,
           bindings' = [r \in RemoteIds |-> IF r \in gone THEN None ELSE bindings[r]]
    PROVE  Tables'
<1>1. bindings' \in [RemoteIds -> BindingRecords \cup {None}]
  BY DEF Tables
<1>2. Bound' \subseteq Bound /\ \A r \in Bound' : bindings'[r] = bindings[r]
  BY DEF Bound
<1>3. Items' = Items
  BY DEF Items
<1> QED
  BY <1>1, <1>2, <1>3 DEF Tables

LEMMA DeleteBase ==
    ASSUME MailSane, MailBase, NEW s \in Syncers, DeleteBinding(s)
    PROVE  MailBase'
<1> DEFINE p == syncer[s]
<1>1. p \in PassRecords /\ PassSound(p, remote) /\ s \in setting.syncers /\ p.step = "clean"
  BY PassFacts DEF DeleteBinding, At
<1>2. PICK row \in p.doomed :
         LET gone == {r \in Bound : bindings[r].row = row}
         IN  /\ bindings' = [r \in RemoteIds |-> IF r \in gone THEN None ELSE bindings[r]]
             /\ syncer' = IF gone = {} THEN [syncer EXCEPT ![s] = None]
                          ELSE [syncer EXCEPT ![s].doomed = @ \ {row}]
  BY DEF DeleteBinding
<1> DEFINE gone == {r \in Bound : bindings[r].row = row}
           q == IF gone = {} THEN None ELSE [p EXCEPT !.doomed = @ \ {row}]
<1>3. Tables'
  BY <1>2, TablesHere, Fewer DEF DeleteBinding
<1>4. q = None \/ (q \in PassRecords /\ PassSound(q, remote))
  <2> HIDE DEF gone
  <2> QED
    BY <1>1 DEF PassRecords, PassSound
<1>5. syncer' = [syncer EXCEPT ![s] = q]
  BY <1>2
<1> HIDE DEF q
<1> QED
  BY <1>1, <1>3, <1>4, <1>5, PassStep DEF DeleteBinding

---------------------------------------------------------------------------
(* The steps of an action.                                                     *)

LEMMA ActFacts ==
    ASSUME MailSane, MailBase, NEW a \in Actors, action[a] # None
    PROVE  /\ action[a] \in ActionRecords /\ ActSound(action[a], remote, setting)
           /\ a \in setting.actors
           /\ action[a].ids \in Seq(RemoteIds) /\ DOMAIN action[a].ids = 1 .. Len(action[a].ids)
           /\ Len(action[a].ids) \in Nat /\ 1 \in DOMAIN action[a].ids
<1>1. action[a] \in ActionRecords /\ ActSound(action[a], remote, setting) /\ a \in setting.actors
  BY DEF MailBase, TypeOK
<1>2. action[a].ids \in Seq(RemoteIds) /\ action[a].ids # <<>>
  BY <1>1 DEF ActionRecords, ActSound
<1> QED
  BY <1>1, <1>2

\* What an action is asked for.
LEMMA BatchIs ==
    ASSUME MailSane, MailBase, NEW kind \in Kinds, NEW ids \in Batches(kind)
    PROVE  /\ ids \in Seq(RemoteIds) /\ ids # <<>> /\ Apart(ids)
           /\ setting.batch <= 1 => DOMAIN ids = {1}
           /\ \A k \in DOMAIN ids : /\ Past(ids[k], remote)
                                    /\ ids[k] = <<ids[k][1], remote[ids[k][1]].version>>
<1> DEFINE C == Candidates(kind)
<1>1. /\ C \subseteq RemoteIds /\ \A r \in C : Past(r, remote) /\ r = <<r[1], remote[r[1]].version>>
      /\ \A q, r \in C : q[1] = r[1] => q = r
  <2>1. In("dumpster") \cup In("inbox") \cup In("archive") \subseteq RemoteIds
    BY Ids
  <2>2. \A r \in In("dumpster") \cup In("inbox") \cup In("archive") :
           Past(r, remote) /\ r = <<r[1], remote[r[1]].version>>
    BY Ids
  <2>3. C \subseteq In("dumpster") \cup In("inbox") \cup In("archive")
    BY DEF Candidates
  <2> QED
    BY <2>1, <2>2, <2>3
<1> HIDE DEF C
<1>2. ids \in BoundedSeq(C, setting.batch) /\ ids # <<>> /\ IsInjective(ids)
  BY DEF Batches, C
<1>3. setting.batch \in Nat
  BY Typed DEF MailBase, MailSane, SettingRecords
<1>4. PICK m \in 0 .. setting.batch : ids \in [1 .. m -> C]
  BY <1>2 DEF BoundedSeq, SeqOf
<1>5. DOMAIN ids = 1 .. m /\ m \in Nat /\ \A k \in 1 .. m : ids[k] \in C
  BY <1>3, <1>4
<1>6. ids \in Seq(RemoteIds)
  BY <1>1, <1>4, <1>5
<1>7. Apart(ids)
  BY <1>1, <1>2, <1>5 DEF Apart, IsInjective
<1>8. m # 0
  BY <1>2, <1>4, <1>6
<1> QED
  BY <1>1, <1>2, <1>3, <1>5, <1>6, <1>7, <1>8

LEMMA StartBase ==
    ASSUME MailSane, MailBase, NEW a \in Actors, mailAction(a)
    PROVE  MailBase'
<1>1. PICK kind \in setting.kinds : \E ids \in Batches(kind) :
          /\ action' = [action EXCEPT ![a] = [step |-> "logged", kind |-> kind, ids |-> ids,
                                             new |-> <<>>]]
          /\ logs' = [logs EXCEPT ![a] = [r \in RemoteIds |->
                                           IF r \in ToSet(ids) THEN "pending" ELSE None]]
          /\ moved' = [moved EXCEPT ![a] = {}]
  BY DEF mailAction
<1>2. PICK ids \in Batches(kind) :
          /\ action' = [action EXCEPT ![a] = [step |-> "logged", kind |-> kind, ids |-> ids,
                                             new |-> <<>>]]
          /\ logs' = [logs EXCEPT ![a] = [r \in RemoteIds |->
                                           IF r \in ToSet(ids) THEN "pending" ELSE None]]
          /\ moved' = [moved EXCEPT ![a] = {}]
  BY <1>1
<1>3. kind \in Kinds
  BY Typed DEF MailBase, MailSane, SettingRecords
<1> DEFINE q == [step |-> "logged", kind |-> kind, ids |-> ids, new |-> <<>>]
<1>4. q \in ActionRecords /\ ActSound(q, remote, setting)
  <2>1. <<>> \in Seq(RemoteIds)
    OBVIOUS
  <2>2. q \in ActionRecords
    BY <1>3, <2>1, BatchIs DEF ActionRecords
  <2> QED
    BY <1>3, <2>2, BatchIs DEF ActSound
<1>5. remote' = remote /\ remote \in Mailbox /\ Older(remote, remote)
  BY Typed DEF mailAction, MailBase, Older, Mailbox, MailSane
<1>6. /\ logs' \in [Actors -> [RemoteIds -> Statuses \cup {None}]]
      /\ moved' \in [Actors -> SUBSET RemoteIds]
  BY <1>2, Typed DEF MailBase, Statuses
<1>7. Tables'
  BY TablesHere, TablesKept DEF mailAction
<1> HIDE DEF q
<1>8. action' = [action EXCEPT ![a] = q]
  BY <1>2 DEF q
<1>9. remote' \in Mailbox /\ Older(remote, remote') /\ ActSound(q, remote', setting)
  BY <1>4, <1>5
<1>10. a \in setting.actors /\ UNCHANGED <<setting, syncer>>
  BY DEF mailAction
<1> QED
  BY <1>4, <1>6, <1>7, <1>8, <1>9, <1>10, ActStep

\* What the call resolves.
LEMMA Resolutions ==
    ASSUME NEW ids \in Seq(RemoteIds), Apart(ids), NEW hit
    PROVE  LET act == [ids |-> ids, new |-> actionResolutions(ids, hit)]
           IN  /\ Resolves(act) /\ act.new = [k \in DOMAIN ids |-> act.new[k]]
               /\ \A k \in DOMAIN ids : act.new[k] = ids[k] \/
                     \E j \in DOMAIN ids : ids[j] \in hit /\ act.new[k] = NewId(ids[j])
               /\ (\A k \in DOMAIN ids : ids[k] \in hit) => Exact(act)
<1> DEFINE Place(j) == Cardinality({i \in 1 .. j : ids[i] \in hit})
           Resolved(k) == {j \in DOMAIN ids : ids[j] \in hit /\ Place(j) = k}
           Index(k) == CHOOSE j \in Resolved(k) : TRUE
           new == actionResolutions(ids, hit)
           here(k) == IF Resolved(k) = {} THEN ids[k] ELSE NewId(ids[Index(k)])
<1>0. new = [k \in DOMAIN ids |-> here(k)]
  BY DEF actionResolutions
<1>1. /\ DOMAIN new = DOMAIN ids
      /\ \A k \in DOMAIN ids : new[k] = IF Resolved(k) = {} THEN ids[k] ELSE NewId(ids[Index(k)])
  BY DEF actionResolutions
<1>11. new = [k \in DOMAIN ids |-> new[k]]
  <2> HIDE DEF here, new
  <2> QED
    BY <1>0
<1>2. \A k : Resolved(k) # {} => /\ Index(k) \in DOMAIN ids /\ ids[Index(k)] \in hit
                                 /\ Place(Index(k)) = k
  <2> TAKE k
  <2>1. Resolved(k) # {} => Index(k) \in Resolved(k)
    OBVIOUS
  <2> QED
    BY <2>1
<1>3. \A k \in DOMAIN ids : ids[k] \in RemoteIds
  OBVIOUS
<1> HIDE DEF Resolved, Index, Place, new, here
<1>4. ASSUME NEW j \in DOMAIN ids, NEW k \in DOMAIN ids, new[j] = new[k]
      PROVE  j = k
  <2>1. CASE Resolved(j) = {} /\ Resolved(k) = {}
    BY <1>1, <1>4, <2>1 DEF Apart
  <2>2. CASE Resolved(j) # {} /\ Resolved(k) # {}
    <3>1. NewId(ids[Index(j)]) = NewId(ids[Index(k)])
      BY <1>1, <1>4, <2>2
    <3>2. ids[Index(j)][1] = ids[Index(k)][1]
      BY <3>1 DEF NewId
    <3>3. Index(j) = Index(k)
      BY <1>2, <2>2, <3>2 DEF Apart
    <3> QED
      BY <1>2, <2>2, <3>3
  <2>3. ASSUME NEW x \in DOMAIN ids, NEW y \in DOMAIN ids, NewId(ids[x]) = ids[y]
        PROVE  FALSE
    <3>1. ids[x] \in RemoteIds /\ ids[y] \in RemoteIds
      BY <1>3
    <3>2. ids[x][1] = ids[y][1] /\ ids[y][2] = ids[x][2] + 1
      BY <2>3 DEF NewId
    <3>3. ids[x] = ids[y]
      BY <3>2 DEF Apart
    <3>4. ids[x][2] \in Nat
      BY <3>1 DEF RemoteIds
    <3> QED
      BY <3>2, <3>3, <3>4
  <2> QED
    BY <1>1, <1>2, <1>4, <2>1, <2>2, <2>3
<1>5. ASSUME \A k \in DOMAIN ids : ids[k] \in hit, NEW k \in DOMAIN ids
      PROVE  new[k] = NewId(ids[k])
  <2>1. \A j \in DOMAIN ids : Place(j) = j
    <3> TAKE j \in DOMAIN ids
    <3>1. j \in Nat \ {0} /\ 1 .. j \subseteq DOMAIN ids
      OBVIOUS
    <3>2. {i \in 1 .. j : ids[i] \in hit} = 1 .. j
      BY <1>5, <3>1
    <3>3. Cardinality(1 .. j) = j
      BY <3>1, FS_Interval
    <3> QED
      BY <3>2, <3>3 DEF Place
  <2>2. k \in Resolved(k)
    BY <1>5, <2>1 DEF Resolved
  <2>3. Index(k) = k
    BY <1>2, <2>1, <2>2
  <2> QED
    BY <1>1, <2>2, <2>3
<1> DEFINE act == [ids |-> ids, new |-> new]
<1>6. act.ids = ids /\ act.new = new
  OBVIOUS
<1> HIDE DEF act
<1>7. Resolves(act)
  BY <1>1, <1>2, <1>4, <1>6 DEF Resolves
<1>8. (\A k \in DOMAIN ids : ids[k] \in hit) => Exact(act)
  BY <1>1, <1>5, <1>6 DEF Exact
<1>9. \A k \in DOMAIN ids : act.new[k] = ids[k] \/
         \E j \in DOMAIN ids : ids[j] \in hit /\ act.new[k] = NewId(ids[j])
  BY <1>1, <1>2, <1>6
<1>10. act.new = [k \in DOMAIN ids |-> act.new[k]]
  BY <1>6, <1>11
<1> QED
  BY <1>7, <1>8, <1>9, <1>10 DEF act, new

LEMMA CallBase ==
    ASSUME MailSane, MailBase, NEW a \in Actors, Call(a)
    PROVE  MailBase' /\ action'[a] # None
<1> DEFINE act == action[a]
           ids == act.ids
           hit == {r \in ToSet(ids) : Alive(r)}
<1>1. /\ act \in ActionRecords /\ ActSound(act, remote, setting) /\ a \in setting.actors
      /\ ids \in Seq(RemoteIds) /\ DOMAIN ids = 1 .. Len(ids) /\ 1 \in DOMAIN ids
      /\ act.step = "logged" /\ action[a] # None
  BY ActFacts DEF Call, Doing
<1>2. remote \in Mailbox /\ setting \in SettingRecords /\ MaxVersion \in Nat
      /\ moved \in [Actors -> SUBSET RemoteIds] /\ action \in [Actors -> ActionRecords \cup {None}]
      /\ logs \in [Actors -> [RemoteIds -> Statuses \cup {None}]]
  BY Typed DEF MailBase, MailSane
<1>3. /\ hit \subseteq RemoteIds /\ \A r \in hit : r[2] < setting.versions
      /\ \A r \in hit : r[1] \in Messages /\ r[2] = remote[r[1]].version
  <2>1. ToSet(ids) \subseteq RemoteIds
    BY <1>1 DEF ToSet
  <2> QED
    BY <2>1 DEF Call, Alive, Id, RemoteIds
<1>4. Tables' /\ UNCHANGED <<setting, syncer, logs>>
  BY TablesHere, TablesKept DEF Call
<1>5. PICK outcome \in setting.outcomes :
         IF outcome = "failed"
         THEN /\ action' = [action EXCEPT ![a].step = "failed"]
              /\ UNCHANGED <<remote, moved>>
         ELSE /\ action' = IF outcome = "unanswered" \/ ids[1] \notin hit
                           THEN [action EXCEPT ![a].step = "failed"]
                           ELSE [action EXCEPT ![a].step = "moved",
                                               ![a].new = actionResolutions(ids, hit)]
              /\ remote' = [m \in Messages |->
                               IF Id(m) \in hit THEN [folder |-> Target(action[a].kind),
                                                      version |-> remote[m].version + 1]
                               ELSE remote[m]]
              /\ moved' = [moved EXCEPT ![a] = hit]
  BY DEF Call
<1> HIDE DEF hit
<1> DEFINE failed == [act EXCEPT !.step = "failed"]
           done == [act EXCEPT !.step = "moved", !.new = actionResolutions(ids, hit)]
<1>6. /\ [action EXCEPT ![a].step = "failed"] = [action EXCEPT ![a] = failed]
      /\ [action EXCEPT ![a].step = "moved", ![a].new = actionResolutions(ids, hit)]
            = [action EXCEPT ![a] = done]
  BY <1>1, <1>2 DEF ActionRecords
<1>7. /\ remote' \in Mailbox /\ Older(remote, remote')
      /\ remote' = remote \/ \A r \in hit : remote'[r[1]].version = r[2] + 1
  <2>1. CASE remote' = remote
    BY <1>2, <2>1 DEF Older, Mailbox
  <2>2. CASE remote' = [m \in Messages |->
                               IF Id(m) \in hit THEN [folder |-> Target(action[a].kind),
                                                      version |-> remote[m].version + 1]
                               ELSE remote[m]]
    <3>1. \A m \in Messages : /\ remote[m] \in [folder : Folders, version : 0 .. MaxVersion]
                              /\ Id(m) \in hit => remote[m].version < setting.versions
      BY <1>2, <1>3 DEF Mailbox, Id
    <3>2. setting.versions \in 0 .. MaxVersion /\ Target(action[a].kind) \in Folders
      BY <1>2 DEF SettingRecords, Target, Folders
    <3>3. \A m \in Messages :
             /\ remote'[m] \in [folder : Folders, version : 0 .. MaxVersion]
             /\ remote[m].version <= remote'[m].version
      BY <1>2, <2>2, <3>1, <3>2
    <3>4. \A r \in hit : Id(r[1]) = r /\ r[1] \in Messages /\ remote[r[1]].version = r[2]
      <4> TAKE r \in hit
      <4>1. r \in RemoteIds /\ r[1] \in Messages /\ r[2] = remote[r[1]].version
        BY <1>3
      <4> QED
        BY <4>1 DEF Id, RemoteIds
    <3>5. \A r \in hit : remote'[r[1]].version = r[2] + 1
      BY <2>2, <3>4
    <3> QED
      BY <2>2, <3>3, <3>5 DEF Mailbox, Older
  <2> QED
    BY <1>5, <2>1, <2>2
<1>8. moved' \in [Actors -> SUBSET RemoteIds]
  BY <1>2, <1>3, <1>5
<1>9. PICK nb \in Mailbox : nb = remote'
  BY <1>7
<1>10. /\ Apart(ids) /\ \A k \in DOMAIN ids : Past(ids[k], nb)
       /\ setting.batch <= 1 => DOMAIN ids = {1}
  <2>1. Apart(ids) /\ \A k \in DOMAIN ids : Past(ids[k], remote)
    BY <1>1 DEF ActSound
  <2>2. ASSUME NEW r, Past(r, remote) PROVE Past(r, nb)
    <3>1. r[1] \in Messages /\ r[2] \in Int
      BY <2>2 DEF Past, RemoteIds
    <3>2. remote[r[1]].version \in Int /\ nb[r[1]].version \in Int
      BY <1>2, <1>9, <3>1 DEF Mailbox
    <3> QED
      BY <1>7, <1>9, <2>2, <3>1, <3>2 DEF Past, Older
  <2> QED
    BY <1>1, <2>1, <2>2 DEF ActSound
<1>11. failed \in ActionRecords /\ ActSound(failed, nb, setting)
  <2>1. failed \in ActionRecords
    BY <1>1 DEF ActionRecords
  <2>2. failed.ids = ids /\ failed.step = "failed"
    BY <1>1 DEF ActionRecords
  <2>3. ids # <<>>
    BY <1>1 DEF ActSound
  <2> HIDE DEF failed
  <2> QED
    BY <1>10, <2>1, <2>2, <2>3 DEF ActSound
<1>12. CASE action' = [action EXCEPT ![a] = failed]
  <2>1. ActSound(failed, remote', setting)
    BY <1>9, <1>11
  <2>2. logs' \in [Actors -> [RemoteIds -> Statuses \cup {None}]]
    BY <1>2, <1>4
  <2> HIDE DEF failed
  <2>3. MailBase'
    BY <1>1, <1>4, <1>7, <1>8, <1>11, <1>12, <2>1, <2>2, ActStep
  <2> QED
    BY <1>2, <1>11, <1>12, <2>3 DEF MailSane
<1>13. ASSUME action' = [action EXCEPT ![a] = done], ids[1] \in hit,
              \A r \in hit : nb[r[1]].version = r[2] + 1
       PROVE  MailBase' /\ action'[a] # None
  <2> DEFINE new == actionResolutions(ids, hit)
             pair == [ids |-> ids, new |-> new]
  <2>1. /\ Resolves(pair) /\ new = [k \in DOMAIN ids |-> new[k]]
        /\ (\A k \in DOMAIN ids : ids[k] \in hit) => Exact(pair)
        /\ \A k \in DOMAIN ids : new[k] = ids[k] \/
              \E j \in DOMAIN ids : ids[j] \in hit /\ new[k] = NewId(ids[j])
    BY <1>1, <1>10, Resolutions
  <2>2. DOMAIN new = 1 .. Len(ids) /\ new = [k \in 1 .. Len(ids) |-> new[k]]
    BY <1>1, <2>1
  <2> HIDE DEF new
  <2>3. \A k \in DOMAIN ids : new[k] \in RemoteIds
    <3>1. \A r \in hit : NewId(r) \in RemoteIds
      <4> TAKE r \in hit
      <4>1. r[2] \in Nat /\ r[2] + 1 <= setting.versions /\ setting.versions \in 0 .. MaxVersion
            /\ r[1] \in Messages
        BY <1>2, <1>3 DEF RemoteIds, SettingRecords
      <4>2. r[2] + 1 \in 0 .. MaxVersion
        BY <1>2, <4>1
      <4> QED
        BY <4>1, <4>2 DEF NewId, RemoteIds
    <3>2. \A k \in DOMAIN ids : ids[k] \in RemoteIds
      BY <1>1
    <3> QED
      BY <2>1, <3>1, <3>2
  <2>4. Len(ids) \in Nat
    BY <1>1
  <2>5. new \in Seq(RemoteIds)
    <3>1. new \in [1 .. Len(ids) -> RemoteIds]
      BY <1>1, <2>2, <2>3
    <3> QED
      BY <2>4, <3>1
  <2>6. done \in ActionRecords /\ done.ids = ids /\ done.new = new /\ done.step = "moved"
    BY <1>1, <2>5 DEF ActionRecords, new
  <2>7. \A k \in DOMAIN ids : Gone(ids[k], nb)
    <3> TAKE k \in DOMAIN ids
    <3>1. Past(ids[k], remote) /\ ids[k] \in RemoteIds
      BY <1>1 DEF ActSound
    <3>2. ids[k][1] \in Messages /\ ids[k][2] \in Int /\ ids[k] = <<ids[k][1], ids[k][2]>>
      BY <3>1 DEF RemoteIds
    <3>3. remote[ids[k][1]].version \in Int /\ nb[ids[k][1]].version \in Int
          /\ remote[ids[k][1]].version <= nb[ids[k][1]].version
      BY <1>2, <1>7, <1>9, <3>2 DEF Mailbox, Older
    <3>4. CASE ids[k] \in hit
      BY <1>13, <3>1, <3>2, <3>4 DEF Gone
    <3>5. CASE ids[k] \notin hit
      <4>1. ids[k] # Id(ids[k][1])
        BY <3>5 DEF hit, Alive, ToSet
      <4>2. ids[k][2] # remote[ids[k][1]].version
        BY <3>2, <4>1 DEF Id
      <4> QED
        BY <3>1, <3>2, <3>3, <4>2 DEF Gone, Past
    <3> QED
      BY <3>4, <3>5
  <2>8. WholeIn(setting) => \A k \in DOMAIN ids : ids[k] \in hit
    <3>1. CASE setting.batch <= 1
      BY <1>10, <1>13, <3>1
    <3>2. CASE Alone(setting)
      <4>1. \A k \in DOMAIN ids : ids[k] = <<ids[k][1], remote[ids[k][1]].version>>
        BY <1>1, <3>2 DEF ActSound
      <4> QED
        BY <4>1 DEF hit, Alive, Id, ToSet
    <3> QED
      BY <3>1, <3>2 DEF WholeIn
  <2>9. Resolves(done) /\ (WholeIn(setting) => Exact(done))
    <3> HIDE DEF done
    <3>1. pair.ids = done.ids /\ pair.new = done.new
      BY <2>6
    <3> HIDE DEF pair
    <3> QED
      BY <2>1, <2>8, <3>1 DEF Resolves, Exact
  <2>10. ids # <<>>
    BY <1>1 DEF ActSound
  <2> HIDE DEF done
  <2>11. ActSound(done, nb, setting)
    BY <1>10, <2>6, <2>7, <2>9, <2>10 DEF ActSound
  <2> QED
    <3>1. ActSound(done, remote', setting)
      BY <1>9, <2>11
    <3>2. logs' \in [Actors -> [RemoteIds -> Statuses \cup {None}]]
      BY <1>2, <1>4
    <3>3. MailBase'
      BY <1>1, <1>4, <1>7, <1>8, <1>13, <2>6, <3>1, <3>2, ActStep
    <3> QED
      BY <1>2, <1>13, <2>6, <3>3 DEF MailSane
<1>14. ASSUME action' # [action EXCEPT ![a] = failed]
       PROVE  /\ action' = [action EXCEPT ![a] = done] /\ ids[1] \in hit
              /\ \A r \in hit : nb[r[1]].version = r[2] + 1
  <2> HIDE DEF failed, done
  <2>1. action' = [action EXCEPT ![a] = done] /\ ids[1] \in hit /\ outcome # "failed"
    BY <1>5, <1>6, <1>14
  <2>2. remote' # remote
    <3>1. ids[1] \in hit /\ ids[1] \in RemoteIds
      BY <1>3, <2>1
    <3>2. ids[1][1] \in Messages /\ remote[ids[1][1]].version = ids[1][2] /\ Id(ids[1][1]) = ids[1]
      BY <1>3, <3>1 DEF Id, RemoteIds
    <3>3. remote'[ids[1][1]].version = ids[1][2] + 1
      BY <1>5, <2>1, <3>1, <3>2
    <3>4. ids[1][2] \in Nat
      BY <3>1 DEF RemoteIds
    <3> QED
      BY <3>2, <3>3, <3>4
  <2> QED
    BY <1>7, <1>9, <2>1, <2>2
<1> HIDE DEF failed, done
<1> QED
  BY <1>12, <1>13, <1>14

\* What a reconciliation makes of a binding.
LEMMA ReconciledIs ==
    ASSUME MailSane, Tables, NEW act \in ActionRecords, DOMAIN act.new = DOMAIN act.ids,
           NEW r \in RemoteIds
    PROVE  LET x == Reconciled(act)[r]
               to(k) == k \in Carried(act) /\ act.new[k] = r
               of(k) == k \in Carried(act) /\ act.ids[k] = r
           IN  \/ \E k \in DOMAIN act.ids :
                    /\ to(k) /\ (act.ids[k] = r \/ bindings[r] = None) /\ x \in BindingRecords
                    /\ x.row = bindings[act.ids[k]].row /\ x.item = bindings[act.ids[k]].item
                    /\ ~ x.stale
               \/ \E k \in DOMAIN act.ids :
                    /\ to(k) /\ act.ids[k] # r /\ bindings[r] # None /\ x \in BindingRecords
                    /\ x.row = bindings[r].row /\ ~ x.stale
                    /\ x.item = IF bindings[r].item = None THEN bindings[act.ids[k]].item
                                ELSE bindings[r].item
               \/ (\A k \in DOMAIN act.ids : ~ to(k)) /\ (\E k \in DOMAIN act.ids : of(k)) /\ x = None
               \/ (\A k \in DOMAIN act.ids : ~ to(k) /\ ~ of(k)) /\ x = bindings[r]
<1> DEFINE x == Reconciled(act)[r]
           C == Carried(act)
           to == {k \in C : act.new[k] = r}
           k0 == CHOOSE k \in to : TRUE
           old == act.ids[k0]
<1>1. C \subseteq DOMAIN act.ids /\ \A k \in C : bindings[act.ids[k]] # None
  BY DEF Carried
<1>2. \A k \in DOMAIN act.ids : act.ids[k] \in RemoteIds
  BY DEF ActionRecords
<1>3. bindings \in [RemoteIds -> BindingRecords \cup {None}]
  BY DEF Tables
<1>4. x = CASE to # {} /\ (old = r \/ bindings[r] = None) -> [bindings[old] EXCEPT !.stale = FALSE]
              [] to # {} /\ old # r /\ bindings[r] # None ->
                    [bindings[r] EXCEPT !.item = IF @ = None THEN bindings[old].item ELSE @,
                                        !.stale = FALSE]
              [] to = {} /\ (\E k \in C : act.ids[k] = r) -> None
              [] OTHER -> bindings[r]
  BY DEF Reconciled
<1>5. to # {} => k0 \in to
  OBVIOUS
<1>6. to # {} => k0 \in C /\ k0 \in DOMAIN act.ids /\ act.new[k0] = r /\ old \in RemoteIds
                 /\ bindings[old] \in BindingRecords
  BY <1>1, <1>2, <1>3, <1>5
<1>7. \A k \in DOMAIN act.ids : k \in to <=> (k \in Carried(act) /\ act.new[k] = r)
  OBVIOUS
<1> HIDE DEF x, to, k0
<1>8. CASE to # {} /\ (old = r \/ bindings[r] = None)
  <2>1. x = [bindings[old] EXCEPT !.stale = FALSE]
    BY <1>4, <1>8
  <2>2. x \in BindingRecords /\ x.row = bindings[old].row /\ x.item = bindings[old].item /\ ~ x.stale
    BY <1>6, <1>8, <2>1 DEF BindingRecords
  <2> QED
    BY <1>6, <1>8, <2>2 DEF x
<1>9. CASE to # {} /\ old # r /\ bindings[r] # None
  <2>1. x = [bindings[r] EXCEPT !.item = IF @ = None THEN bindings[old].item ELSE @,
                                 !.stale = FALSE]
    BY <1>4, <1>9
  <2>2. bindings[r] \in BindingRecords
    BY <1>3, <1>9
  <2>3. /\ x \in BindingRecords /\ x.row = bindings[r].row /\ ~ x.stale
        /\ x.item = IF bindings[r].item = None THEN bindings[old].item ELSE bindings[r].item
    BY <1>6, <1>9, <2>1, <2>2 DEF BindingRecords
  <2> QED
    BY <1>6, <1>9, <2>3 DEF x
<1>10. CASE to = {} /\ \E k \in C : act.ids[k] = r
  <2>1. x = None
    BY <1>4, <1>10
  <2> QED
    BY <1>1, <1>7, <1>10, <2>1 DEF x
<1>11. CASE to = {} /\ ~ \E k \in C : act.ids[k] = r
  <2>1. x = bindings[r]
    BY <1>4, <1>11
  <2> QED
    BY <1>1, <1>7, <1>11, <2>1 DEF x
<1> QED
  BY <1>8, <1>9, <1>10, <1>11

\* An old id is not the new one of another message.
LEMMA OldIsNotNew ==
    ASSUME NEW act \in ActionRecords, Resolves(act), Apart(act.ids),
           NEW j \in DOMAIN act.ids, NEW k \in DOMAIN act.ids, act.new[j] = act.ids[k]
    PROVE  j = k
<1>1. \A i \in DOMAIN act.ids : act.ids[i] \in RemoteIds /\ act.ids[i][2] \in Nat
  BY DEF ActionRecords, RemoteIds
<1>2. CASE act.new[j] = act.ids[j]
  BY <1>2 DEF Apart
<1>3. ASSUME NEW i \in DOMAIN act.ids, act.new[j] = NewId(act.ids[i])
      PROVE  FALSE
  <2>1. act.ids[k][1] = act.ids[i][1] /\ act.ids[k][2] = act.ids[i][2] + 1
    BY <1>3 DEF NewId
  <2>2. act.ids[k] = act.ids[i] /\ act.ids[i][2] \in Nat
    BY <1>1, <2>1 DEF Apart
  <2> QED
    BY <2>1, <2>2
<1> QED
  BY <1>2, <1>3 DEF Resolves

\* The tables after a reconciliation.
LEMMA ReconciledTables ==
    ASSUME MailSane, Tables, NEW act \in ActionRecords, Resolves(act), Apart(act.ids),
           bindings' = Reconciled(act), items' = FollowedUp(act)
    PROVE  Tables' /\ Items' = Items
<1>1. bindings \in [RemoteIds -> BindingRecords \cup {None}]
      /\ \A r \in Bound : bindings[r] \in BindingRecords
  BY DEF Tables, Bound
<1>2. /\ DOMAIN act.new = DOMAIN act.ids /\ Carried(act) \subseteq DOMAIN act.ids
      /\ \A k \in DOMAIN act.ids : act.ids[k] \in RemoteIds
      /\ \A k \in Carried(act) : act.ids[k] \in Bound
  BY DEF Resolves, ActionRecords, Carried, Bound
<1>3. items' \in [ItemIds -> ItemRecords \cup {None}] /\ Items' = Items
  <2> DEFINE hit(i) == \E k \in Carried(act) : bindings[act.ids[k]].item = i
             followed(i) == [items[i] EXCEPT !.state = ItemState(act.kind)]
  <2>1. ASSUME NEW i \in ItemIds, hit(i)
        PROVE  items[i] \in ItemRecords /\ followed(i) \in ItemRecords
    <3>1. i \in Items
      BY <1>2, <2>1 DEF Tables, MailSane, ItemIds
    <3>2. items[i] \in ItemRecords
      BY <3>1 DEF Tables, Items
    <3> QED
      BY <3>2 DEF ItemRecords, ItemState
  <2>2. \A i \in ItemIds : items'[i] = IF hit(i) THEN followed(i) ELSE items[i]
    BY DEF FollowedUp
  <2>3. items' = [i \in ItemIds |-> IF hit(i) THEN followed(i) ELSE items[i]]
    BY DEF FollowedUp
  <2>4. \A i \in ItemIds : items[i] \in ItemRecords \cup {None}
    BY DEF Tables
  <2> HIDE DEF hit, followed
  <2>5. items' \in [ItemIds -> ItemRecords \cup {None}]
    BY <2>1, <2>3, <2>4
  <2> QED
    BY <2>1, <2>2, <2>5 DEF Items, MailSane
<1> DEFINE moved_(r, k) == k \in Carried(act) /\ act.new[k] = r
                           /\ (act.ids[k] = r \/ bindings[r] = None)
           stays(r) == /\ r \in Bound
                       /\ \A k \in Carried(act) : act.new[k] # act.ids[k] => act.ids[k] # r
           src(r, q) == \/ \E k \in Carried(act) : moved_(r, k) /\ q = act.ids[k]
                        \/ stays(r) /\ q = r /\ \A k \in Carried(act) : ~ moved_(r, k)
<1>4. ASSUME NEW r \in RemoteIds, Reconciled(act)[r] # None
      PROVE  /\ Reconciled(act)[r] \in BindingRecords
             /\ Reconciled(act)[r].item \in Items \cup {None}
             /\ \E q \in Bound : src(r, q) /\ Reconciled(act)[r].row = bindings[q].row
  <2> DEFINE x == Reconciled(act)[r]
             to(k) == k \in Carried(act) /\ act.new[k] = r
             of(k) == k \in Carried(act) /\ act.ids[k] = r
  <2>1. \/ \E k \in DOMAIN act.ids :
              /\ to(k) /\ (act.ids[k] = r \/ bindings[r] = None) /\ x \in BindingRecords
              /\ x.row = bindings[act.ids[k]].row /\ x.item = bindings[act.ids[k]].item
              /\ ~ x.stale
        \/ \E k \in DOMAIN act.ids :
              /\ to(k) /\ act.ids[k] # r /\ bindings[r] # None /\ x \in BindingRecords
              /\ x.row = bindings[r].row /\ ~ x.stale
              /\ x.item = IF bindings[r].item = None THEN bindings[act.ids[k]].item
                          ELSE bindings[r].item
        \/ (\A k \in DOMAIN act.ids : ~ to(k)) /\ (\E k \in DOMAIN act.ids : of(k)) /\ x = None
        \/ (\A k \in DOMAIN act.ids : ~ to(k) /\ ~ of(k)) /\ x = bindings[r]
    BY <1>2, ReconciledIs
  <2> HIDE DEF x
  <2>2. ASSUME NEW k \in DOMAIN act.ids, to(k), act.ids[k] = r \/ bindings[r] = None,
               x \in BindingRecords, x.row = bindings[act.ids[k]].row,
               x.item = bindings[act.ids[k]].item
        PROVE  /\ x \in BindingRecords /\ x.item \in Items \cup {None}
               /\ \E q \in Bound : src(r, q) /\ x.row = bindings[q].row
    <3>1. act.ids[k] \in Bound /\ src(r, act.ids[k])
      BY <1>2, <2>2
    <3> QED
      BY <2>2, <3>1 DEF Tables
  <2>3. ASSUME NEW k \in DOMAIN act.ids, to(k), act.ids[k] # r, bindings[r] # None,
               x \in BindingRecords, x.row = bindings[r].row,
               x.item = IF bindings[r].item = None THEN bindings[act.ids[k]].item
                        ELSE bindings[r].item
        PROVE  /\ x \in BindingRecords /\ x.item \in Items \cup {None}
               /\ \E q \in Bound : src(r, q) /\ x.row = bindings[q].row
    <3>1. r \in Bound /\ act.ids[k] \in Bound
      BY <1>2, <2>3 DEF Bound
    <3>2. ASSUME NEW i \in Carried(act), act.ids[i] = r PROVE FALSE
      <4>1. i \in DOMAIN act.ids /\ act.new[k] = act.ids[i]
        BY <1>2, <2>3, <3>2
      <4>2. k = i
        BY <4>1, OldIsNotNew
      <4> QED
        BY <2>3, <3>2, <4>2
    <3>3. \A i \in Carried(act) : ~ moved_(r, i)
      BY <2>3, <3>2
    <3>4. src(r, r)
      BY <3>1, <3>2, <3>3
    <3>5. x.item \in Items \cup {None}
      BY <2>3, <3>1 DEF Tables
    <3> QED
      BY <2>3, <3>1, <3>4, <3>5
  <2>4. ASSUME \A k \in DOMAIN act.ids : ~ to(k) /\ ~ of(k), x = bindings[r]
        PROVE  /\ x \in BindingRecords /\ x.item \in Items \cup {None}
               /\ \E q \in Bound : src(r, q) /\ x.row = bindings[q].row
    <3>1. r \in Bound
      BY <1>4, <2>4 DEF Bound, x
    <3>2. src(r, r)
      BY <1>2, <2>4, <3>1
    <3> QED
      BY <1>1, <2>4, <3>1, <3>2 DEF Tables
  <2>5. x # None
    BY <1>4 DEF x
  <2>6. /\ x \in BindingRecords /\ x.item \in Items \cup {None}
        /\ \E q \in Bound : src(r, q) /\ x.row = bindings[q].row
    BY <2>1, <2>2, <2>3, <2>4, <2>5, Zenon
  <2> QED
    BY <2>6 DEF x
<1>5. ASSUME NEW r, NEW s, NEW q, src(r, q), src(s, q)
      PROVE  r = s
  <2>1. CASE \E k \in Carried(act) : moved_(r, k) /\ q = act.ids[k]
    <3>1. PICK k \in Carried(act) : moved_(r, k) /\ q = act.ids[k]
      BY <2>1
    <3>2. ASSUME NEW i \in Carried(act), moved_(s, i), q = act.ids[i]
          PROVE  r = s
      BY <1>2, <3>1, <3>2 DEF Apart
    <3>3. ASSUME stays(s), q = s, \A i \in Carried(act) : ~ moved_(s, i)
          PROVE  r = s
      <4>1. act.ids[k] = s /\ act.new[k] = r
        BY <3>1, <3>3
      <4>2. act.new[k] = act.ids[k]
        BY <3>1, <3>3, <4>1
      <4> QED
        BY <4>1, <4>2
    <3> QED
      BY <1>5, <3>2, <3>3
  <2>2. CASE stays(r) /\ q = r /\ \A k \in Carried(act) : ~ moved_(r, k)
    <3>1. ASSUME NEW i \in Carried(act), moved_(s, i), q = act.ids[i]
          PROVE  r = s
      <4>1. act.ids[i] = r /\ act.new[i] = s
        BY <2>2, <3>1
      <4>2. act.new[i] = act.ids[i]
        BY <2>2, <4>1
      <4> QED
        BY <4>1, <4>2
    <3> QED
      BY <1>5, <2>2, <3>1
  <2> QED
    BY <1>5, <2>1, <2>2
<1> HIDE DEF src
<1>6. bindings' \in [RemoteIds -> BindingRecords \cup {None}]
  <2>1. bindings' = [r \in RemoteIds |-> Reconciled(act)[r]]
    BY DEF Reconciled
  <2> QED
    BY <1>4, <2>1
<1>7. \A r \in Bound' : bindings'[r].item \in Items' \cup {None}
  BY <1>3, <1>4 DEF Bound
<1>8. ASSUME NEW r \in RemoteIds, NEW s \in RemoteIds, bindings'[r] # None, bindings'[s] # None,
             bindings'[r].row = bindings'[s].row
      PROVE  r = s
  <2>1. PICK q \in Bound : src(r, q) /\ bindings'[r].row = bindings[q].row
    BY <1>4, <1>8
  <2>2. PICK p \in Bound : src(s, p) /\ bindings'[s].row = bindings[p].row
    BY <1>4, <1>8
  <2>3. p = q
    BY <1>8, <2>1, <2>2 DEF Tables
  <2> QED
    BY <1>5, <2>1, <2>2, <2>3
<1> QED
  BY <1>3, <1>6, <1>7, <1>8 DEF Tables, Bound

LEMMA ApplyBase ==
    ASSUME MailSane, MailBase, NEW a \in Actors, ApplyExternalBindingReconcileUpdates(a)
    PROVE  MailBase' /\ Items' = Items
<1> DEFINE act == action[a]
<1>1. /\ act \in ActionRecords /\ ActSound(act, remote, setting) /\ a \in setting.actors
      /\ act.step = "moved"
  BY ActFacts DEF ApplyExternalBindingReconcileUpdates, Doing
<1>2. remote \in Mailbox /\ action \in [Actors -> ActionRecords \cup {None}]
      /\ logs \in [Actors -> [RemoteIds -> Statuses \cup {None}]]
      /\ moved \in [Actors -> SUBSET RemoteIds]
  BY Typed DEF MailBase
<1>3. UNCHANGED <<setting, remote, syncer, logs, moved>>
  BY DEF ApplyExternalBindingReconcileUpdates
<1>4. PICK step \in {"reconciled", "unreconciled"} : action' = [action EXCEPT ![a].step = step]
  BY DEF ApplyExternalBindingReconcileUpdates
<1>5. Tables' /\ Items' = Items
  <2>1. CASE bindings' = Reconciled(act) /\ items' = FollowedUp(act)
    <3>1. Resolves(act) /\ Apart(act.ids)
      BY <1>1 DEF ActSound
    <3> QED
      BY <1>1, <2>1, <3>1, TablesHere, ReconciledTables
  <2>2. CASE UNCHANGED <<bindings, items>>
    BY <2>2, TablesHere, TablesKept DEF Items
  <2> QED
    BY <2>1, <2>2 DEF ApplyExternalBindingReconcileUpdates
<1> DEFINE q == [act EXCEPT !.step = step]
<1>6. q \in ActionRecords /\ q.ids = act.ids /\ q.step = step
  BY <1>1 DEF ActionRecords
<1>7. action' = [action EXCEPT ![a] = q]
  BY <1>4
<1> HIDE DEF q
<1>8. ActSound(q, remote, setting)
  BY <1>1, <1>6 DEF ActSound
<1>9. remote' \in Mailbox /\ Older(remote, remote') /\ ActSound(q, remote', setting)
      /\ logs' \in [Actors -> [RemoteIds -> Statuses \cup {None}]]
      /\ moved' \in [Actors -> SUBSET RemoteIds]
  BY <1>2, <1>3, <1>8 DEF Older, Mailbox, MailSane
<1>10. MailBase'
  BY <1>1, <1>3, <1>5, <1>6, <1>7, <1>9, ActStep
<1> QED
  BY <1>5, <1>10

LEMMA LogBase ==
    ASSUME MailSane, MailBase, NEW a \in Actors, UpdateMailActionLogResult(a)
    PROVE  MailBase'
<1>1. a \in setting.actors /\ action[a].step \in {"failed", "reconciled", "unreconciled"}
  BY ActFacts DEF UpdateMailActionLogResult
<1>2. remote \in Mailbox /\ action \in [Actors -> ActionRecords \cup {None}]
      /\ logs \in [Actors -> [RemoteIds -> Statuses \cup {None}]]
      /\ moved \in [Actors -> SUBSET RemoteIds]
  BY Typed DEF MailBase
<1>3. Status(action[a].step) \in Statuses
  BY <1>1 DEF Status, Statuses
<1>4. logs' \in [Actors -> [RemoteIds -> Statuses \cup {None}]]
  BY <1>2, <1>3 DEF UpdateMailActionLogResult
<1>5. remote' \in Mailbox /\ Older(remote, remote') /\ moved' \in [Actors -> SUBSET RemoteIds]
  BY <1>2 DEF Older, Mailbox, MailSane, UpdateMailActionLogResult
<1>6. Tables'
  BY TablesHere, TablesKept DEF UpdateMailActionLogResult
<1> QED
  BY <1>1, <1>4, <1>5, <1>6, ActStep DEF UpdateMailActionLogResult

\* The steps of others.
LEMMA OwnerBase ==
    ASSUME MailSane, MailBase, NEW m \in setting.messages, NEW folder \in {"inbox", "archive"},
           OwnerMoves(m, folder)
    PROVE  MailBase'
<1>1. /\ remote \in Mailbox /\ MaxVersion \in Nat /\ m \in Messages
      /\ setting.versions \in 0 .. MaxVersion /\ ~ Alone(setting)
  BY Typed DEF MailBase, MailSane, SettingRecords, OwnerMoves, Alone
<1>2. remote[m].version \in 0 .. MaxVersion /\ remote[m].version + 1 \in 0 .. MaxVersion
  BY <1>1 DEF OwnerMoves, Mailbox
<1>3. remote' \in Mailbox /\ Older(remote, remote')
  <2>1. remote' = [remote EXCEPT ![m] = [folder |-> folder, version |-> remote[m].version + 1]]
    BY DEF OwnerMoves
  <2>2. [folder |-> folder, version |-> remote[m].version + 1]
           \in [folder : Folders, version : 0 .. MaxVersion]
    BY <1>2 DEF Folders
  <2> QED
    BY <1>1, <1>2, <2>1, <2>2 DEF Mailbox, Older
<1>4. Tables'
  BY TablesHere, TablesKept DEF OwnerMoves
<1> QED
  BY <1>1, <1>3, <1>4, OtherStep DEF OwnerMoves

LEMMA DeleteItemBase ==
    ASSUME MailSane, MailBase, NEW i \in ItemIds, DeleteItem(i)
    PROVE  MailBase' /\ Items' = Items \ {i}
<1>1. Tables /\ remote \in Mailbox
  BY TablesHere, Typed DEF MailBase
<1>2. items' = [items EXCEPT ![i] = None]
      /\ bindings' = [r \in RemoteIds |-> IF r \in Bound /\ bindings[r].item = i
                                          THEN [bindings[r] EXCEPT !.item = None] ELSE bindings[r]]
  BY DEF DeleteItem
<1>3. items' \in [ItemIds -> ItemRecords \cup {None}] /\ Items' = Items \ {i}
  BY <1>1, <1>2 DEF Tables, Items
<1>4. ASSUME NEW r \in Bound
      PROVE  /\ bindings'[r] \in BindingRecords /\ bindings'[r].row = bindings[r].row
             /\ bindings'[r].item = IF bindings[r].item = i THEN None ELSE bindings[r].item
  <2>1. bindings[r] \in BindingRecords /\ r \in RemoteIds
    BY <1>1 DEF Tables, Bound
  <2> QED
    BY <1>2, <2>1 DEF BindingRecords
<1>5. \A r \in RemoteIds : r \notin Bound => bindings'[r] = None
  BY <1>2 DEF Bound
<1>6. Bound' = Bound
  BY <1>4, <1>5 DEF Bound, MailSane
<1>7. bindings' \in [RemoteIds -> BindingRecords \cup {None}]
  BY <1>2, <1>4, <1>5
<1>8. Tables'
  BY <1>1, <1>3, <1>4, <1>6, <1>7 DEF Tables
<1>9. remote' \in Mailbox /\ Older(remote, remote')
  BY <1>1 DEF DeleteItem, Older, Mailbox, MailSane
<1> QED
  BY <1>3, <1>8, <1>9, OtherStep DEF DeleteItem

LEMMA AgeBase ==
    ASSUME MailSane, MailBase, NEW r \in RemoteIds, Age(r)
    PROVE  MailBase'
<1>1. Tables /\ remote \in Mailbox
  BY TablesHere, Typed DEF MailBase
<1>2. bindings' = [bindings EXCEPT ![r].stale = TRUE] /\ r \in Bound
  BY DEF Age
<1>3. bindings[r] \in BindingRecords
  BY <1>1, <1>2 DEF Tables, Bound
<1> DEFINE aged == [bindings[r] EXCEPT !.stale = TRUE]
<1>4. aged \in BindingRecords /\ aged.row = bindings[r].row /\ aged.item = bindings[r].item
  BY <1>3 DEF BindingRecords
<1>5. bindings' = [bindings EXCEPT ![r] = aged]
  BY <1>2
<1> HIDE DEF aged
<1>6. Bound' = Bound /\ \A q \in Bound : /\ bindings'[q].row = bindings[q].row
                                         /\ bindings'[q].item = bindings[q].item
  BY <1>1, <1>2, <1>4, <1>5 DEF Bound, Tables, MailSane
<1>7. bindings' \in [RemoteIds -> BindingRecords \cup {None}] /\ Items' = Items /\ items' = items
  BY <1>1, <1>4, <1>5 DEF Tables, Items, Age
<1>8. Tables'
  BY <1>1, <1>6, <1>7 DEF Tables
<1>9. remote' \in Mailbox /\ Older(remote, remote')
  BY <1>1 DEF Age, Older, Mailbox, MailSane
<1> QED
  BY <1>8, <1>9, OtherStep DEF Age

LEMMA RestartBase == MailBase /\ Restart => MailBase'
<1> SUFFICES ASSUME MailBase, Restart PROVE MailBase'
  OBVIOUS
<1>1. Tables'
  BY TablesHere, TablesKept DEF Restart
<1>2. TypeOK'
  BY <1>1, Typed DEF MailBase, Restart, TypeOK, Tables, Mailbox, Items, Bound
<1> QED
  BY <1>2 DEF MailBase, Restart

LEMMA StutterBase == MailBase /\ UNCHANGED vars => MailBase'
<1> SUFFICES ASSUME MailBase, UNCHANGED vars PROVE MailBase'
  OBVIOUS
<1>1. TypeOK'
  BY DEF MailBase, vars, TypeOK, Items, Bound
<1> QED
  BY <1>1 DEF MailBase, vars

LEMMA InitBase ==
    ASSUME MailSane, Init
    PROVE  MailBase
<1>1. remote \in Mailbox
  BY DEF Init, Mailbox, Folders, MailSane
<1>2. Tables
  BY DEF Init, Tables, Bound, MailSane
<1>3. TypeOK
  BY <1>1, <1>2, Typed DEF Init
<1> QED
  BY <1>3 DEF MailBase, Init

LEMMA NextBase ==
    ASSUME MailSane, MailBase, [Next]_vars
    PROVE  MailBase'
<1>1. ASSUME NEW s \in Syncers, Pass(s) PROVE MailBase'
  BY <1>1, ReadBase, ItemBase, BindBase, DeleteBase DEF Pass
<1>2. ASSUME NEW a \in Actors, Act(a) PROVE MailBase'
  BY <1>2, StartBase, CallBase, ApplyBase, LogBase DEF Act
<1> QED
  BY <1>1, <1>2, OwnerBase, DeleteItemBase, AgeBase, RestartBase, StutterBase DEF Next

\* Bindings name items that there are and have a key each, and actions and passes are in the
\* midst of what they say.
THEOREM MailTypes == Spec => []TypeOK
<1>0. MailSane
  BY MailAssumption
<1>1. Init => MailBase
  BY <1>0, InitBase
<1>2. MailBase /\ [Next]_vars => MailBase'
  BY <1>0, NextBase
<1>3. MailBase => TypeOK
  BY DEF MailBase
<1> QED
  BY <1>1, <1>2, <1>3, PTL DEF Spec

---------------------------------------------------------------------------
(* What the steps do.                                                          *)

OthersSame(s) == /\ \A t \in Syncers : t # s => syncer'[t] = syncer[t]
                 /\ UNCHANGED <<setting, remote, action, logs, moved>>

SameBatch(q, p) == q.listed = p.listed /\ q.todo = p.todo

LEMMA SyncDoes ==
    ASSUME MailSane, MailBase, NEW s \in Syncers, Sync(s)
    PROVE  /\ OthersSame(s) /\ UNCHANGED <<items, bindings>> /\ s \in setting.syncers
           /\ syncer[s] = None /\ syncer'[s] # None
           /\ syncer'[s].listed = In("inbox") /\ syncer'[s].todo = In("inbox")
           /\ syncer'[s].step = "next" /\ MayStart
<1> DEFINE q == [step |-> "next", listed |-> In("inbox"), todo |-> In("inbox"),
                 at |-> None, item |-> None, doomed |-> {}]
<1>1. syncer \in [Syncers -> PassRecords \cup {None}]
  BY Typed DEF MailBase
<1>2. q \in PassRecords
  BY Ids DEF PassRecords
<1>3. syncer' = [syncer EXCEPT ![s] = q] /\ q # None
  BY <1>2 DEF Sync, MailSane
<1> QED
  BY <1>1, <1>3 DEF Sync, OthersSame

LEMMA ResolveDoes ==
    ASSUME MailSane, MailBase, NEW s \in Syncers, NEW r \in RemoteIds, resolveItemTarget(s, r)
    PROVE  /\ OthersSame(s) /\ UNCHANGED <<items, bindings>>
           /\ syncer[s] # None /\ syncer[s].step = "next" /\ r \in syncer[s].todo
           /\ syncer'[s] # None /\ SameBatch(syncer'[s], syncer[s]) /\ syncer'[s].at = r
           /\ syncer'[s].step = "resolved"
           /\ syncer'[s].item = IF bindings[r] = None THEN None ELSE bindings[r].item
<1>1. syncer \in [Syncers -> PassRecords \cup {None}]
  BY Typed DEF MailBase
<1>2. syncer[s] # None /\ syncer[s].step = "next" /\ r \in syncer[s].todo /\ syncer[s] \in PassRecords
  BY <1>1 DEF resolveItemTarget, At
<1> DEFINE q == [syncer[s] EXCEPT !.step = "resolved", !.at = r,
                          !.item = IF bindings[r] = None THEN None ELSE bindings[r].item]
<1>3. syncer' = [syncer EXCEPT ![s] = q]
  BY <1>1, <1>2 DEF resolveItemTarget, PassRecords
<1>4. (IF bindings[r] = None THEN None ELSE bindings[r].item) \in ItemIds \cup {None}
  BY TablesHere DEF Tables, BindingRecords
<1>5. q \in PassRecords /\ q.step = "resolved" /\ q.at = r /\ q.listed = syncer[s].listed
      /\ q.todo = syncer[s].todo
      /\ q.item = IF bindings[r] = None THEN None ELSE bindings[r].item
  BY <1>2, <1>4 DEF PassRecords
<1> HIDE DEF q
<1>6. q # None
  BY <1>5 DEF MailSane
<1> QED
  BY <1>1, <1>2, <1>3, <1>5, <1>6 DEF resolveItemTarget, OthersSame, SameBatch

LEMMA UpdateDoes ==
    ASSUME MailSane, MailBase, NEW s \in Syncers, UpdateItem(s)
    PROVE  /\ OthersSame(s) /\ bindings' = bindings /\ Items' = Items
           /\ syncer[s] # None /\ syncer[s].step = "resolved" /\ syncer[s].item # None
           /\ \A i \in Items : /\ items'[i].about = items[i].about
                               /\ \/ items'[i].state = items[i].state
                                  \/ i = syncer[s].item /\ items'[i].state = "inbox"
           /\ \/ syncer[s].item \notin Items /\ syncer'[s] = None
              \/ /\ syncer[s].item \in Items /\ syncer'[s] # None /\ syncer'[s].step = "stored"
                 /\ SameBatch(syncer'[s], syncer[s]) /\ syncer'[s].item = syncer[s].item
                 /\ syncer'[s].at = syncer[s].at
<1> DEFINE p == syncer[s]
           q == IF p.item \in Items THEN [p EXCEPT !.step = "stored"] ELSE None
<1>1. syncer \in [Syncers -> PassRecords \cup {None}]
  BY Typed DEF MailBase
<1>2. p # None /\ p.step = "resolved" /\ p.item # None /\ p \in PassRecords
  BY <1>1 DEF UpdateItem, At
<1>3. syncer' = [syncer EXCEPT ![s] = q]
  BY <1>1, <1>2 DEF UpdateItem, PassRecords
<1>4. \/ p.item \notin Items /\ q = None
      \/ /\ p.item \in Items /\ q # None /\ q.step = "stored" /\ SameBatch(q, p)
         /\ q.item = p.item /\ q.at = p.at
  <2>1. CASE p.item \in Items
    <3>1. q \in PassRecords /\ q.step = "stored" /\ SameBatch(q, p) /\ q.item = p.item /\ q.at = p.at
      BY <1>2, <2>1 DEF PassRecords, SameBatch
    <3> QED
      BY <2>1, <3>1 DEF MailSane
  <2> QED
    BY <2>1
<1> HIDE DEF q
<1>5. syncer'[s] = q /\ OthersSame(s) /\ bindings' = bindings
  BY <1>1, <1>3 DEF UpdateItem, OthersSame
<1>6. \A i \in Items : items[i] \in ItemRecords /\ i \in ItemIds
  BY TablesHere DEF Tables, Items
<1>7. items \in [ItemIds -> ItemRecords \cup {None}]
  BY TablesHere DEF Tables
<1>8. /\ Items' = Items
      /\ \A i \in Items : /\ items'[i].about = items[i].about
                          /\ \/ items'[i].state = items[i].state
                             \/ i = p.item /\ items'[i].state = "inbox"
  <2>1. CASE items' = items
    BY <2>1 DEF Items
  <2>2. CASE p.item \in Items /\ items' = [items EXCEPT ![p.item].state = "inbox"]
    <3> DEFINE x == [items[p.item] EXCEPT !.state = "inbox"]
    <3>1. x \in ItemRecords /\ x.about = items[p.item].about /\ x.state = "inbox"
      BY <1>6, <2>2 DEF ItemRecords
    <3>2. items' = [items EXCEPT ![p.item] = x] /\ p.item \in ItemIds
      BY <1>6, <2>2
    <3> HIDE DEF x
    <3>3. items'[p.item] = x /\ \A i \in ItemIds : i # p.item => items'[i] = items[i]
      BY <1>7, <3>2
    <3>4. x # None
      BY <3>1 DEF MailSane
    <3>5. Items' = Items
      BY <2>2, <3>2, <3>3, <3>4 DEF Items
    <3> QED
      BY <1>6, <3>1, <3>3, <3>5
  <2> QED
    BY <2>1, <2>2 DEF UpdateItem
<1> QED
  BY <1>2, <1>4, <1>5, <1>8

LEMMA CreateDoes ==
    ASSUME MailSane, MailBase, NEW s \in Syncers, CreateItem(s)
    PROVE  /\ OthersSame(s) /\ bindings' = bindings
           /\ syncer[s] # None /\ syncer[s].step = "resolved" /\ syncer[s].item = None
           /\ \E i \in ItemIds \ Items :
                 /\ Items' = Items \cup {i} /\ \A j \in Items : items'[j] = items[j]
                 /\ items'[i].about = syncer[s].at[1] /\ items'[i].state = "inbox"
                 /\ syncer'[s].item = i
           /\ syncer'[s] # None /\ syncer'[s].step = "stored" /\ SameBatch(syncer'[s], syncer[s])
           /\ syncer'[s].at = syncer[s].at
<1> DEFINE p == syncer[s]
           i == NextKey(Items)
           q == [p EXCEPT !.step = "stored", !.item = i]
           new == [about |-> p.at[1], state |-> "inbox"]
<1>1. syncer \in [Syncers -> PassRecords \cup {None}]
  BY Typed DEF MailBase
<1>2. p # None /\ p.step = "resolved" /\ p.item = None /\ p \in PassRecords
  BY <1>1 DEF CreateItem, At
<1>3. i \in ItemIds /\ i \notin Items
  BY NewItem DEF CreateItem
<1>4. syncer' = [syncer EXCEPT ![s] = q] /\ items' = [items EXCEPT ![i] = new]
  BY <1>1, <1>2 DEF CreateItem, PassRecords
<1> HIDE DEF i
<1>5. q \in PassRecords /\ q.step = "stored" /\ q.item = i /\ q.at = p.at /\ SameBatch(q, p)
  BY <1>2, <1>3 DEF PassRecords, SameBatch
<1>6. q # None
  BY <1>5 DEF MailSane
<1>7. p.at \in RemoteIds
  <2>1. PassSound(p, remote)
    BY <1>2, PassFacts
  <2> QED
    BY <1>2, <2>1 DEF PassSound, PassRecords
<1>8. new \in ItemRecords /\ new # None /\ new.about = p.at[1] /\ new.state = "inbox"
  BY <1>7 DEF ItemRecords, RemoteIds, MailSane
<1> HIDE DEF q, new
<1>9. syncer'[s] = q /\ OthersSame(s) /\ bindings' = bindings
  BY <1>1, <1>4 DEF CreateItem, OthersSame
<1>10. items \in [ItemIds -> ItemRecords \cup {None}]
  BY TablesHere DEF Tables
<1>11. Items' = Items \cup {i} /\ items'[i] = new /\ \A j \in Items : items'[j] = items[j]
  BY <1>3, <1>4, <1>8, <1>10 DEF Items
<1> QED
  BY <1>2, <1>3, <1>5, <1>6, <1>8, <1>9, <1>11

LEMMA UpsertDoes ==
    ASSUME MailSane, MailBase, NEW s \in Syncers, UpsertExternalBinding(s)
    PROVE  /\ OthersSame(s) /\ items' = items /\ Items' = Items
           /\ syncer[s] # None /\ syncer[s].step = "stored" /\ syncer[s].at \in RemoteIds
           /\ \/ syncer[s].item \notin Items /\ syncer'[s] = None /\ bindings' = bindings
              \/ /\ syncer[s].item \in Items /\ syncer'[s] # None /\ syncer'[s].step = "next"
                 /\ syncer'[s].listed = syncer[s].listed
                 /\ syncer'[s].todo = syncer[s].todo \ {syncer[s].at}
                 /\ Bound' = Bound \cup {syncer[s].at}
                 /\ bindings'[syncer[s].at].item = syncer[s].item
                 /\ ~ bindings'[syncer[s].at].stale
                 /\ \A r \in RemoteIds : r # syncer[s].at => bindings'[r] = bindings[r]
<1> DEFINE p == syncer[s]
           r == p.at
           fresh == [row |-> NextKey(Rows), item |-> p.item, stale |-> FALSE]
           bound == IF bindings[r] = None THEN fresh
                    ELSE [bindings[r] EXCEPT !.item = p.item, !.stale = FALSE]
           q == IF p.item \in Items THEN [p EXCEPT !.step = "next", !.todo = @ \ {r}] ELSE None
<1>1. Tables /\ items' = items /\ syncer \in [Syncers -> PassRecords \cup {None}]
  BY TablesHere, Typed DEF UpsertExternalBinding, MailBase
<1>2. p # None /\ p \in PassRecords /\ p.step = "stored" /\ r \in RemoteIds
  <2>1. p # None /\ p.step = "stored"
    BY DEF UpsertExternalBinding, At
  <2>2. p \in PassRecords /\ PassSound(p, remote)
    BY <2>1, PassFacts
  <2> QED
    BY <2>1, <2>2 DEF PassSound, PassRecords
<1>3. /\ syncer' = [syncer EXCEPT ![s] = q]
      /\ bindings' = IF p.item \in Items THEN [bindings EXCEPT ![r] = bound] ELSE bindings
  BY <1>1, <1>2 DEF UpsertExternalBinding, PassRecords, Rows
<1>4. syncer'[s] = q /\ OthersSame(s) /\ Items' = Items
  BY <1>1, <1>3 DEF UpsertExternalBinding, OthersSame, Items
<1>5. CASE p.item \notin Items
  BY <1>1, <1>2, <1>3, <1>4, <1>5
<1>6. CASE p.item \in Items
  <2>1. q # None /\ q.step = "next" /\ q.listed = p.listed /\ q.todo = p.todo \ {r}
    <3>1. q \in PassRecords /\ q.step = "next" /\ q.listed = p.listed /\ q.todo = p.todo \ {r}
      BY <1>2, <1>6 DEF PassRecords
    <3> QED
      BY <3>1 DEF MailSane
  <2>2. p.item \in ItemIds
    BY <1>6 DEF Items
  <2>3. bound \in BindingRecords /\ bound.item = p.item /\ ~ bound.stale
    <3>1. CASE bindings[r] = None
      BY <1>1, <2>2, <3>1, NewRow DEF BindingRecords
    <3>2. CASE bindings[r] # None
      <4>1. bindings[r] \in BindingRecords
        BY <1>1, <1>2, <3>2 DEF Tables
      <4> QED
        BY <2>2, <3>2, <4>1 DEF BindingRecords
    <3> QED
      BY <3>1, <3>2
  <2>4. bindings' = [bindings EXCEPT ![r] = bound] /\ bound # None
    BY <1>3, <1>6, <2>3 DEF MailSane
  <2> HIDE DEF bound, q
  <2>5. bindings'[r] = bound /\ \A x \in RemoteIds : x # r => bindings'[x] = bindings[x]
    BY <1>1, <1>2, <2>4 DEF Tables
  <2>6. Bound' = Bound \cup {r}
    BY <1>1, <1>2, <2>4, <2>5 DEF Bound
  <2> QED
    BY <1>1, <1>2, <1>4, <1>6, <2>1, <2>3, <2>5, <2>6
<1> QED
  BY <1>5, <1>6

LEMMA ListDoes ==
    ASSUME MailSane, MailBase, NEW s \in Syncers, ListStaleBindings(s)
    PROVE  /\ OthersSame(s) /\ UNCHANGED <<items, bindings>>
           /\ syncer[s] # None /\ syncer[s].step = "next" /\ syncer[s].todo = {}
           /\ \/ syncer'[s] = None
              \/ /\ syncer'[s] # None /\ syncer'[s].step = "clean" /\ SameBatch(syncer'[s], syncer[s])
                 /\ syncer'[s].doomed = {bindings[r].row : r \in {q \in Bound : bindings[q].stale}}
                 /\ setting.cleanup
<1> DEFINE p == syncer[s]
           doomed == {bindings[r].row : r \in {q \in Bound : bindings[q].stale}}
           q == IF ~setting.cleanup THEN None ELSE [p EXCEPT !.step = "clean", !.doomed = doomed]
<1>1. syncer \in [Syncers -> PassRecords \cup {None}]
  BY Typed DEF MailBase
<1>2. p # None /\ p \in PassRecords /\ p.step = "next" /\ p.todo = {}
  BY <1>1 DEF ListStaleBindings, At
<1>3. doomed \subseteq Nat \ {0}
  BY TablesHere DEF Tables, BindingRecords, Bound
<1>4. syncer' = [syncer EXCEPT ![s] = q]
  BY DEF ListStaleBindings
<1>5. setting.cleanup => q \in PassRecords /\ q.step = "clean" /\ SameBatch(q, p) /\ q.doomed = doomed
  <2> HIDE DEF doomed
  <2> QED
    BY <1>2, <1>3 DEF PassRecords, SameBatch
<1>6. ~ setting.cleanup => q = None
  OBVIOUS
<1> HIDE DEF q
<1>7. syncer'[s] = q /\ OthersSame(s) /\ UNCHANGED <<items, bindings>>
  BY <1>1, <1>4 DEF ListStaleBindings, OthersSame
<1> QED
  BY <1>2, <1>5, <1>6, <1>7 DEF MailSane

LEMMA DeleteDoes ==
    ASSUME MailSane, MailBase, NEW s \in Syncers, DeleteBinding(s)
    PROVE  /\ OthersSame(s) /\ items' = items /\ Items' = Items
           /\ syncer[s] # None /\ syncer[s].step = "clean"
           /\ \A r \in RemoteIds : \/ bindings'[r] = bindings[r]
                                   \/ /\ bindings'[r] = None /\ bindings[r] # None
                                      /\ bindings[r].row \in syncer[s].doomed
           /\ \/ syncer'[s] = None
              \/ /\ syncer'[s] # None /\ syncer'[s].step = "clean"
                 /\ SameBatch(syncer'[s], syncer[s]) /\ syncer'[s].doomed \subseteq syncer[s].doomed
<1> DEFINE p == syncer[s]
<1>1. syncer \in [Syncers -> PassRecords \cup {None}]
  BY Typed DEF MailBase
<1>2. p # None /\ p \in PassRecords /\ p.step = "clean"
  BY <1>1 DEF DeleteBinding, At
<1>3. PICK row \in p.doomed :
         LET gone == {r \in Bound : bindings[r].row = row}
         IN  /\ bindings' = [r \in RemoteIds |-> IF r \in gone THEN None ELSE bindings[r]]
             /\ syncer' = IF gone = {} THEN [syncer EXCEPT ![s] = None]
                          ELSE [syncer EXCEPT ![s].doomed = @ \ {row}]
  BY DEF DeleteBinding
<1> DEFINE gone == {r \in Bound : bindings[r].row = row}
           q == IF gone = {} THEN None ELSE [p EXCEPT !.doomed = @ \ {row}]
<1>4. syncer' = [syncer EXCEPT ![s] = q]
  BY <1>3
<1>5. \A r \in RemoteIds : \/ bindings'[r] = bindings[r]
                           \/ /\ bindings'[r] = None /\ bindings[r] # None
                              /\ bindings[r].row \in p.doomed
  BY <1>3 DEF Bound
<1> HIDE DEF gone
<1>6. gone # {} => /\ q \in PassRecords /\ q.step = "clean" /\ SameBatch(q, p)
                   /\ q.doomed \subseteq p.doomed
  BY <1>2 DEF PassRecords, SameBatch
<1>7. gone = {} => q = None
  OBVIOUS
<1> HIDE DEF q
<1>8. syncer'[s] = q /\ OthersSame(s) /\ items' = items /\ Items' = Items
  BY <1>1, <1>4 DEF DeleteBinding, OthersSame, Items
<1> QED
  BY <1>2, <1>5, <1>6, <1>7, <1>8 DEF MailSane

LEMMA StopDoes ==
    ASSUME MailSane, MailBase, NEW s \in Syncers, SyncFails(s) \/ SyncEnds(s)
    PROVE  OthersSame(s) /\ UNCHANGED <<items, bindings>> /\ syncer'[s] = None
<1>1. syncer \in [Syncers -> PassRecords \cup {None}]
  BY Typed DEF MailBase
<1> QED
  BY <1>1 DEF SyncFails, SyncEnds, OthersSame

LEMMA AtMostOne ==
    ASSUME NEW S, IsFiniteSet(S), Cardinality(S) <= 1, NEW x \in S, NEW y \in S
    PROVE  x = y
<1> SUFFICES ASSUME x # y PROVE FALSE
  OBVIOUS
<1>1. IsFiniteSet({x}) /\ Cardinality({x}) = 1 /\ y \notin {x}
  BY FS_Singleton
<1>2. Cardinality({x} \cup {y}) = IF y \in {x} THEN Cardinality({x}) ELSE Cardinality({x}) + 1
  BY <1>1, FS_AddElement
<1>3. Cardinality({x} \cup {y}) = 2
  BY <1>1, <1>2
<1>4. Cardinality({x} \cup {y}) <= Cardinality(S) /\ Cardinality(S) \in Nat
  BY FS_Subset, FS_CardinalityType
<1> QED
  BY <1>3, <1>4

LEMMA TheOnlySyncer ==
    ASSUME MailSane, MailBase, OneSyncer, NEW s \in Syncers, NEW t \in Syncers,
           s \in setting.syncers, t \in setting.syncers
    PROVE  s = t
<1>1. setting.syncers \subseteq Syncers
  BY Typed DEF MailBase, MailSane, SettingRecords
<1>2. IsFiniteSet(setting.syncers)
  BY <1>1, FS_Subset DEF MailSane
<1> QED
  BY <1>2, AtMostOne DEF OneSyncer

\* A reconciliation keeps the items, and gives some of them a state.
LEMMA FollowedDoes ==
    ASSUME MailSane, Tables, NEW act \in ActionRecords, Resolves(act), items' = FollowedUp(act)
    PROVE  \A i \in Items :
              /\ items'[i].about = items[i].about
              /\ items'[i].state = IF \E k \in Carried(act) : bindings[act.ids[k]].item = i
                                   THEN ItemState(act.kind) ELSE items[i].state
<1> TAKE i \in Items
<1>1. items[i] \in ItemRecords /\ i \in ItemIds
  BY DEF Tables, Items
<1>2. items'[i] = IF \E k \in Carried(act) : bindings[act.ids[k]].item = i
                  THEN [items[i] EXCEPT !.state = ItemState(act.kind)] ELSE items[i]
  BY <1>1 DEF FollowedUp
<1> QED
  BY <1>1, <1>2 DEF ItemRecords

---------------------------------------------------------------------------
(* No binding is of another message.                                           *)

\* The item that a pass has in hand was made for the message it has in hand.
InHand == \A s \in Syncers :
    syncer[s] # None /\ syncer[s].step \in {"resolved", "stored"} /\ syncer[s].item # None =>
       /\ syncer[s].item \in Items => items[syncer[s].item].about = syncer[s].at[1]
       /\ ~ setting.deletes => syncer[s].item \in Items

Straight == \A r \in Bound : bindings[r].item # None => items[bindings[r].item].about = r[1]

Matched == Whole /\ (OneSyncer \/ ~ setting.deletes) => InHand /\ Straight

\* Items that stay keep their message; what is bound had it.
LEMMA MatchedKept ==
    ASSUME InHand, Straight, UNCHANGED <<setting, syncer>>, Items' \subseteq Items,
           ~ setting.deletes => Items' = Items,
           \A i \in Items' : items'[i].about = items[i].about,
           \A r \in Bound' : bindings'[r].item \in Items' \cup {None},
           \A r \in Bound' : bindings'[r].item # None =>
              \E q \in Bound : q[1] = r[1] /\ bindings[q].item = bindings'[r].item
    PROVE  InHand' /\ Straight'
<1>1. InHand'
  BY DEF InHand
<1>2. Straight'
  <2> SUFFICES ASSUME NEW r \in Bound', bindings'[r].item # None
               PROVE  items'[bindings'[r].item].about = r[1]
    BY DEF Straight
  <2>1. PICK q \in Bound : q[1] = r[1] /\ bindings[q].item = bindings'[r].item
    OBVIOUS
  <2>2. bindings'[r].item \in Items'
    OBVIOUS
  <2> QED
    BY <2>1, <2>2 DEF Straight
<1> QED
  BY <1>1, <1>2

LEMMA PassMatched ==
    ASSUME MailSane, MailBase, OneSyncer \/ ~ setting.deletes, InHand, Straight,
           NEW s \in Syncers, Pass(s)
    PROVE  InHand' /\ Straight'
<1>1. \A r \in Bound : bindings[r].item \in Items \cup {None} /\ r \in RemoteIds
  BY TablesHere DEF Tables, Bound
<1>2. CASE Sync(s)
  BY <1>2, SyncDoes DEF OthersSame, InHand, Straight, Items, Bound
<1>3. ASSUME NEW r \in RemoteIds, resolveItemTarget(s, r) PROVE InHand' /\ Straight'
  <2>1. Straight' /\ Items' = Items
    BY <1>3, ResolveDoes DEF Straight, Items, Bound
  <2>2. syncer'[s].item # None => /\ syncer'[s].item \in Items
                                  /\ items[syncer'[s].item].about = r[1]
    BY <1>1, <1>3, ResolveDoes DEF Straight, Bound
  <2> QED
    BY <1>3, <2>1, <2>2, ResolveDoes DEF InHand, OthersSame
<1>4. CASE UpdateItem(s)
  <2>1. Bound' = Bound
    BY <1>4, UpdateDoes DEF Bound
  <2>2. Straight'
    BY <1>1, <1>4, <2>1, UpdateDoes DEF Straight
  <2> QED
    BY <1>4, <2>2, UpdateDoes DEF InHand, OthersSame
<1>5. CASE CreateItem(s)
  <2>1. Bound' = Bound
    BY <1>5, CreateDoes DEF Bound
  <2>2. PICK i \in ItemIds \ Items :
                 /\ Items' = Items \cup {i} /\ \A j \in Items : items'[j] = items[j]
                 /\ items'[i].about = syncer[s].at[1] /\ items'[i].state = "inbox"
                 /\ syncer'[s].item = i
    BY <1>5, CreateDoes
  <2>3. Straight'
    BY <1>1, <1>5, <2>1, <2>2, CreateDoes DEF Straight
  <2>4. ASSUME NEW t \in Syncers, t # s, syncer[t] # None, syncer[t].item = i,
               syncer[t].step \in {"resolved", "stored"}
        PROVE  FALSE
    <3>1. syncer[s] # None /\ setting.syncers \subseteq Syncers
      BY <1>5, Typed, CreateDoes DEF MailBase, MailSane, SettingRecords
    <3>2. s \in setting.syncers /\ t \in setting.syncers
      BY <2>4, <3>1 DEF MailBase
    <3>3. ~ setting.deletes
      BY <2>4, <3>2, TheOnlySyncer
    <3>4. syncer[t].item # None
      BY <2>2, <2>4 DEF ItemIds, MailSane
    <3> QED
      BY <2>2, <2>4, <3>3, <3>4 DEF InHand
  <2>5. \A t \in Syncers : t # s => syncer'[t] = syncer[t]
    BY <1>5, CreateDoes DEF OthersSame
  <2>6. syncer'[s].at = syncer[s].at /\ setting' = setting
    BY <1>5, CreateDoes DEF OthersSame
  <2>7. InHand'
    <3> SUFFICES ASSUME NEW t \in Syncers, syncer'[t] # None,
                        syncer'[t].step \in {"resolved", "stored"}, syncer'[t].item # None
                 PROVE  /\ syncer'[t].item \in Items' =>
                              items'[syncer'[t].item].about = syncer'[t].at[1]
                        /\ ~ setting.deletes => syncer'[t].item \in Items'
      BY <2>6 DEF InHand
    <3>1. CASE t = s
      BY <2>2, <2>6, <3>1
    <3>2. CASE t # s
      <4>1. syncer'[t] = syncer[t] /\ syncer[t].item # i
        BY <2>4, <2>5, <3>2
      <4> QED
        BY <2>2, <4>1 DEF InHand
    <3> QED
      BY <3>1, <3>2
  <2> QED
    BY <2>3, <2>7
<1>6. CASE UpsertExternalBinding(s)
  <2>1. InHand'
    BY <1>6, UpsertDoes DEF InHand, OthersSame
  <2>2. CASE bindings' = bindings
    <3>1. items' = items /\ Bound' = Bound
      BY <1>6, <2>2, UpsertDoes DEF Bound
    <3>2. Straight'
      BY <2>2, <3>1 DEF Straight
    <3> QED
      BY <2>1, <3>2
  <2>3. CASE syncer[s].item \in Items /\ Bound' = Bound \cup {syncer[s].at}
    <3>1. items[syncer[s].item].about = syncer[s].at[1]
      <4>1. syncer[s].item # None
        BY <2>3 DEF Items, ItemIds, MailSane
      <4> QED
        BY <1>6, <2>3, <4>1, UpsertDoes DEF InHand
    <3>2. /\ items' = items /\ bindings'[syncer[s].at].item = syncer[s].item
          /\ \A r \in Bound : r # syncer[s].at => bindings'[r] = bindings[r]
      BY <1>1, <1>6, <2>3, UpsertDoes
    <3>3. Straight'
      BY <2>3, <3>1, <3>2 DEF Straight
    <3> QED
      BY <2>1, <3>3
  <2> QED
    BY <1>6, <2>1, <2>2, <2>3, UpsertDoes
<1>7. CASE ListStaleBindings(s)
  BY <1>7, ListDoes DEF OthersSame, InHand, Straight, Items, Bound
<1>8. CASE DeleteBinding(s)
  <2>1. Straight'
    BY <1>8, DeleteDoes DEF Straight, Bound
  <2> QED
    BY <1>8, <2>1, DeleteDoes DEF InHand, OthersSame
<1>9. CASE SyncFails(s) \/ SyncEnds(s)
  BY <1>9, StopDoes DEF OthersSame, InHand, Straight, Items, Bound
<1> QED
  BY <1>2, <1>3, <1>4, <1>5, <1>6, <1>7, <1>8, <1>9 DEF Pass

\* Under exact resolutions a binding stays with its message.
LEMMA ApplyMatched ==
    ASSUME MailSane, MailBase, Whole, InHand, Straight, NEW a \in Actors,
           ApplyExternalBindingReconcileUpdates(a)
    PROVE  InHand' /\ Straight'
<1> DEFINE act == action[a]
<1>1. /\ act \in ActionRecords /\ ActSound(act, remote, setting) /\ act.step = "moved"
  BY ActFacts DEF ApplyExternalBindingReconcileUpdates, Doing
<1>2. Resolves(act) /\ Exact(act) /\ Apart(act.ids)
  BY <1>1 DEF ActSound, WholeIn, Whole, Alone
<1>3. Tables /\ Tables' /\ Items' = Items /\ UNCHANGED <<setting, syncer>>
  <2>1. MailBase' /\ Items' = Items
    BY ApplyBase
  <2>2. Tables'
    BY <2>1 DEF MailBase, TypeOK, Tables
  <2> QED
    BY <2>1, <2>2, TablesHere DEF ApplyExternalBindingReconcileUpdates
<1>4. CASE UNCHANGED <<bindings, items>>
  BY <1>3, <1>4 DEF InHand, Straight, Bound
<1>5. CASE bindings' = Reconciled(act) /\ items' = FollowedUp(act)
  <2>1. \A i \in Items : items'[i].about = items[i].about
    BY <1>1, <1>2, <1>3, <1>5, FollowedDoes
  <2>2. ASSUME NEW r \in Bound', bindings'[r].item # None
        PROVE  \E q \in Bound : q[1] = r[1] /\ bindings[q].item = bindings'[r].item
    <3> DEFINE x == Reconciled(act)[r]
               to(k) == k \in Carried(act) /\ act.new[k] = r
               of(k) == k \in Carried(act) /\ act.ids[k] = r
    <3>1. r \in RemoteIds /\ x # None /\ bindings'[r] = x
      BY <1>5, <2>2 DEF Bound
    <3>2. DOMAIN act.new = DOMAIN act.ids
      BY <1>2 DEF Resolves
    <3>3. \/ \E k \in DOMAIN act.ids :
                /\ to(k) /\ (act.ids[k] = r \/ bindings[r] = None) /\ x \in BindingRecords
                /\ x.row = bindings[act.ids[k]].row /\ x.item = bindings[act.ids[k]].item
                /\ ~ x.stale
          \/ \E k \in DOMAIN act.ids :
                /\ to(k) /\ act.ids[k] # r /\ bindings[r] # None /\ x \in BindingRecords
                /\ x.row = bindings[r].row /\ ~ x.stale
                /\ x.item = IF bindings[r].item = None THEN bindings[act.ids[k]].item
                            ELSE bindings[r].item
          \/ (\A k \in DOMAIN act.ids : ~ to(k)) /\ (\E k \in DOMAIN act.ids : of(k)) /\ x = None
          \/ (\A k \in DOMAIN act.ids : ~ to(k) /\ ~ of(k)) /\ x = bindings[r]
      BY <1>1, <1>3, <3>1, <3>2, ReconciledIs
    <3> HIDE DEF x
    <3>4. \A k \in DOMAIN act.ids :
             to(k) => act.ids[k] \in Bound /\ act.ids[k][1] = r[1]
      BY <1>1, <1>2 DEF Carried, Bound, ActionRecords, Exact, NewId
    <3>5. bindings[r] # None => r \in Bound
      BY <3>1 DEF Bound
    <3> QED
      BY <2>2, <3>1, <3>3, <3>4, <3>5
  <2>3. \A r \in Bound' : bindings'[r].item \in Items' \cup {None}
    BY <1>3 DEF Tables
  <2> QED
    BY <1>3, <2>1, <2>2, <2>3, MatchedKept
<1> QED
  BY <1>4, <1>5 DEF ApplyExternalBindingReconcileUpdates

LEMMA DeleteItemMatched ==
    ASSUME MailSane, MailBase, InHand, Straight, NEW i \in ItemIds, DeleteItem(i)
    PROVE  InHand' /\ Straight'
<1>1. Tables' /\ Items' = Items \ {i}
  <2>1. MailBase' /\ Items' = Items \ {i}
    BY DeleteItemBase
  <2> QED
    BY <2>1 DEF MailBase, TypeOK, Tables
<1>2. items' = [items EXCEPT ![i] = None] /\ setting.deletes /\ UNCHANGED <<setting, syncer>>
      /\ bindings' = [r \in RemoteIds |-> IF r \in Bound /\ bindings[r].item = i
                                          THEN [bindings[r] EXCEPT !.item = None] ELSE bindings[r]]
  BY DEF DeleteItem
<1>3. \A j \in Items' : items'[j].about = items[j].about
  BY <1>1, <1>2, TablesHere DEF Tables
<1>4. ASSUME NEW r \in Bound', bindings'[r].item # None
      PROVE  \E q \in Bound : q[1] = r[1] /\ bindings[q].item = bindings'[r].item
  <2>1. r \in RemoteIds /\ bindings'[r] # None
    BY DEF Bound
  <2>2. r \in Bound
    BY <1>2, <2>1 DEF Bound
  <2>3. bindings[r] \in BindingRecords
    BY <2>1, <2>2, TablesHere DEF Tables, Bound
  <2>4. bindings'[r] = bindings[r]
    BY <1>2, <1>4, <2>1, <2>3 DEF BindingRecords
  <2> QED
    BY <2>2, <2>4
<1>5. \A r \in Bound' : bindings'[r].item \in Items' \cup {None}
  BY <1>1 DEF Tables
<1> QED
  BY <1>1, <1>2, <1>3, <1>4, <1>5, MatchedKept

LEMMA NextMatched ==
    ASSUME MailSane, MailBase, Matched, [Next]_vars
    PROVE  Matched'
<1> SUFFICES ASSUME Whole', OneSyncer' \/ ~ setting'.deletes
             PROVE  InHand' /\ Straight'
  BY DEF Matched
<1>1. setting' = setting
  BY DEF Next, Pass, Act, Sync, resolveItemTarget, UpdateItem, CreateItem, UpsertExternalBinding,
         SyncFails, ListStaleBindings, DeleteBinding, SyncEnds, mailAction, Call,
         ApplyExternalBindingReconcileUpdates, UpdateMailActionLogResult, OwnerMoves, DeleteItem,
         Age, Restart, vars
<1>2. Whole /\ (OneSyncer \/ ~ setting.deletes)
  BY <1>1 DEF Whole, OneSyncer
<1>3. InHand /\ Straight
  BY <1>2 DEF Matched
<1>4. ASSUME NEW s \in Syncers, Pass(s) PROVE InHand' /\ Straight'
  BY <1>2, <1>3, <1>4, PassMatched
<1>5. ASSUME UNCHANGED <<setting, items, bindings, syncer>> PROVE InHand' /\ Straight'
  BY <1>3, <1>5 DEF InHand, Straight, Items, Bound
<1>6. ASSUME NEW a \in Actors, Act(a) PROVE InHand' /\ Straight'
  BY <1>2, <1>3, <1>5, <1>6, ApplyMatched DEF Act, mailAction, Call, UpdateMailActionLogResult
<1>7. ASSUME NEW i \in ItemIds, DeleteItem(i) PROVE InHand' /\ Straight'
  BY <1>3, <1>7, DeleteItemMatched
<1>8. ASSUME NEW r \in RemoteIds, Age(r) PROVE InHand' /\ Straight'
  <2>1. bindings[r] \in BindingRecords /\ bindings \in [RemoteIds -> BindingRecords \cup {None}]
    BY <1>8, TablesHere DEF Age, Tables, Bound
  <2> DEFINE aged == [bindings[r] EXCEPT !.stale = TRUE]
  <2>2. aged \in BindingRecords /\ aged.item = bindings[r].item
    BY <2>1 DEF BindingRecords
  <2>3. bindings' = [bindings EXCEPT ![r] = aged] /\ r \in Bound
    BY <1>8 DEF Age
  <2> HIDE DEF aged
  <2>4. Bound' = Bound /\ \A q \in Bound : bindings'[q].item = bindings[q].item
    BY <2>1, <2>2, <2>3 DEF Bound, MailSane
  <2> QED
    BY <1>3, <1>8, <2>4 DEF Age, InHand, Straight, Items
<1>9. CASE Restart
  BY <1>3, <1>9 DEF Restart, InHand, Straight, Items, Bound
<1>10. \A m, folder : OwnerMoves(m, folder) => InHand' /\ Straight'
  BY <1>5 DEF OwnerMoves
<1> QED
  BY <1>4, <1>5, <1>6, <1>7, <1>8, <1>9, <1>10 DEF Next, vars

\* No binding points at an item of another message, for any number of messages, passes, actions
\* and items: where actions keep their messages, and no key of an item is used again under a pass.
THEOREM BindingsNeverCross == Spec => []NoCrossBinding
<1>0. MailSane
  BY MailAssumption
<1>1. Init => MailBase /\ Matched
  BY <1>0, InitBase DEF Init, Matched, InHand, Straight, Bound
<1>2. MailBase /\ Matched /\ [Next]_vars => MailBase' /\ Matched'
  BY <1>0, NextBase, NextMatched
<1>3. Matched => NoCrossBinding
  BY DEF Matched, NoCrossBinding, Straight
<1> QED
  BY <1>1, <1>2, <1>3, PTL DEF Spec

---------------------------------------------------------------------------
(* Logs tell what became of messages.                                          *)

ActorsSame(a) == \A b \in Actors : b # a => /\ action'[b] = action[b] /\ logs'[b] = logs[b]
                                            /\ moved'[b] = moved[b]

Alives(ids) == {r \in ToSet(ids) : Alive(r)}

LEMMA StartDoes ==
    ASSUME MailSane, MailBase, NEW a \in Actors, mailAction(a)
    PROVE  /\ ActorsSame(a) /\ UNCHANGED <<setting, remote, items, bindings, syncer>>
           /\ action[a] = None /\ action'[a] # None /\ action'[a].step = "logged"
           /\ action'[a].kind \in setting.kinds /\ moved'[a] = {} /\ MayStart
           /\ logs'[a] = [r \in RemoteIds |-> IF r \in ToSet(action'[a].ids) THEN "pending" ELSE None]
           /\ \A k \in DOMAIN action'[a].ids : Alive(action'[a].ids[k])
<1>0. PICK kind \in setting.kinds : \E ids \in Batches(kind) :
          /\ action' = [action EXCEPT ![a] = [step |-> "logged", kind |-> kind, ids |-> ids,
                                             new |-> <<>>]]
          /\ logs' = [logs EXCEPT ![a] = [r \in RemoteIds |->
                                           IF r \in ToSet(ids) THEN "pending" ELSE None]]
          /\ moved' = [moved EXCEPT ![a] = {}]
  BY DEF mailAction
<1>1. PICK ids \in Batches(kind) :
          /\ action' = [action EXCEPT ![a] = [step |-> "logged", kind |-> kind, ids |-> ids,
                                             new |-> <<>>]]
          /\ logs' = [logs EXCEPT ![a] = [r \in RemoteIds |->
                                           IF r \in ToSet(ids) THEN "pending" ELSE None]]
          /\ moved' = [moved EXCEPT ![a] = {}]
  BY <1>0
<1>2. kind \in Kinds
  BY Typed DEF MailBase, MailSane, SettingRecords
<1> DEFINE q == [step |-> "logged", kind |-> kind, ids |-> ids, new |-> <<>>]
<1>3. q \in ActionRecords /\ q.step = "logged" /\ q.ids = ids /\ q.kind = kind
  <2>1. <<>> \in Seq(RemoteIds)
    OBVIOUS
  <2> QED
    BY <1>2, <2>1, BatchIs DEF ActionRecords
<1>4. q # None
  BY <1>3 DEF MailSane
<1>5. action \in [Actors -> ActionRecords \cup {None}]
      /\ logs \in [Actors -> [RemoteIds -> Statuses \cup {None}]]
      /\ moved \in [Actors -> SUBSET RemoteIds]
  BY Typed DEF MailBase
<1>6. action' = [action EXCEPT ![a] = q]
  BY <1>1
<1> HIDE DEF q
<1>7. action'[a] = q /\ ActorsSame(a)
  BY <1>1, <1>5, <1>6 DEF ActorsSame
<1>8. \A k \in DOMAIN ids : Alive(ids[k])
  BY <1>2, BatchIs DEF Alive, Id
<1> QED
  BY <1>1, <1>3, <1>4, <1>5, <1>7, <1>8 DEF mailAction

LEMMA CallDoes ==
    ASSUME MailSane, MailBase, NEW a \in Actors, Call(a)
    PROVE  /\ ActorsSame(a) /\ UNCHANGED <<setting, items, bindings, syncer, logs>>
           /\ action[a] # None /\ action[a].step = "logged"
           /\ action'[a] # None /\ action'[a].ids = action[a].ids /\ action'[a].kind = action[a].kind
           /\ \/ action'[a].step = "failed" /\ UNCHANGED <<remote, moved>>
                 /\ setting.outcomes # {"ok"}
              \/ /\ action'[a].step = "failed" /\ moved'[a] = Alives(action[a].ids)
                 /\ "unanswered" \in setting.outcomes \/ action[a].ids[1] \notin Alives(action[a].ids)
              \/ /\ action'[a].step = "moved" /\ moved'[a] = Alives(action[a].ids)
                 /\ action[a].ids[1] \in Alives(action[a].ids)
                 /\ action'[a].new = actionResolutions(action[a].ids, Alives(action[a].ids))
                 /\ remote' = [m \in Messages |->
                       IF Id(m) \in Alives(action[a].ids)
                       THEN [folder |-> Target(action[a].kind), version |-> remote[m].version + 1]
                       ELSE remote[m]]
<1> DEFINE act == action[a]
           ids == act.ids
           hit == Alives(ids)
           failed == [act EXCEPT !.step = "failed"]
           new == actionResolutions(ids, hit)
           done == [act EXCEPT !.step = "moved", !.new = new]
           after == [m \in Messages |->
                        IF Id(m) \in hit THEN [folder |-> Target(act.kind),
                                               version |-> remote[m].version + 1]
                        ELSE remote[m]]
<1>1. act \in ActionRecords /\ act # None /\ act.step = "logged"
  BY ActFacts DEF Call, Doing
<1>2. moved \in [Actors -> SUBSET RemoteIds] /\ action \in [Actors -> ActionRecords \cup {None}]
  BY Typed DEF MailBase
<1>3. hit = {r \in ToSet(ids) : Alive(r)}
  BY DEF Alives
<1> HIDE DEF hit
<1>4. PICK outcome \in setting.outcomes :
         IF outcome = "failed"
         THEN /\ action' = [action EXCEPT ![a].step = "failed"]
              /\ UNCHANGED <<remote, moved>>
         ELSE /\ action' = IF outcome = "unanswered" \/ ids[1] \notin hit
                           THEN [action EXCEPT ![a].step = "failed"]
                           ELSE [action EXCEPT ![a].step = "moved", ![a].new = new]
              /\ remote' = after
              /\ moved' = [moved EXCEPT ![a] = hit]
  BY <1>3 DEF Call
<1> HIDE DEF new, after
<1>5. /\ [action EXCEPT ![a].step = "failed"] = [action EXCEPT ![a] = failed]
      /\ [action EXCEPT ![a].step = "moved", ![a].new = new] = [action EXCEPT ![a] = done]
  BY <1>1, <1>2 DEF ActionRecords
<1>6. failed.step = "failed" /\ failed.ids = ids /\ failed.kind = act.kind
      /\ done.step = "moved" /\ done.ids = ids /\ done.kind = act.kind /\ done.new = new
  BY <1>1 DEF ActionRecords
<1>7. \/ action' = [action EXCEPT ![a] = failed] /\ UNCHANGED <<remote, moved>>
         /\ setting.outcomes # {"ok"}
      \/ /\ action' = [action EXCEPT ![a] = failed] /\ moved' = [moved EXCEPT ![a] = hit]
         /\ "unanswered" \in setting.outcomes \/ ids[1] \notin hit
      \/ /\ action' = [action EXCEPT ![a] = done] /\ moved' = [moved EXCEPT ![a] = hit]
         /\ ids[1] \in hit /\ remote' = after
  BY <1>4, <1>5
<1> HIDE DEF failed, done
<1>10. ActorsSame(a)
  BY <1>2, <1>7 DEF ActorsSame, Call
<1>11. action'[a] # None
  BY CallBase
<1> QED
  BY <1>1, <1>2, <1>6, <1>7, <1>10, <1>11 DEF Call, hit, new, after

LEMMA ApplyDoes ==
    ASSUME MailSane, MailBase, NEW a \in Actors, ApplyExternalBindingReconcileUpdates(a)
    PROVE  /\ ActorsSame(a) /\ UNCHANGED <<setting, remote, syncer, logs, moved>>
           /\ action[a] # None /\ action[a].step = "moved"
           /\ action'[a] # None /\ action'[a].ids = action[a].ids /\ action'[a].kind = action[a].kind
           /\ \/ /\ action'[a].step = "reconciled"
                 /\ bindings' = Reconciled(action[a]) /\ items' = FollowedUp(action[a])
              \/ /\ action'[a].step = "unreconciled" /\ UNCHANGED <<bindings, items>>
                 /\ "failed" \in setting.outcomes
<1> DEFINE act == action[a]
           x == [act EXCEPT !.step = "reconciled"]
           y == [act EXCEPT !.step = "unreconciled"]
<1>1. act # None /\ act \in ActionRecords /\ act.step = "moved"
  BY ActFacts DEF ApplyExternalBindingReconcileUpdates, Doing
<1>2. action \in [Actors -> ActionRecords \cup {None}]
  BY Typed DEF MailBase
<1>3. /\ [action EXCEPT ![a].step = "reconciled"] = [action EXCEPT ![a] = x]
      /\ [action EXCEPT ![a].step = "unreconciled"] = [action EXCEPT ![a] = y]
  OBVIOUS
<1>4. /\ x \in ActionRecords /\ x.ids = act.ids /\ x.kind = act.kind /\ x.step = "reconciled"
      /\ y \in ActionRecords /\ y.ids = act.ids /\ y.kind = act.kind /\ y.step = "unreconciled"
  BY <1>1 DEF ActionRecords
<1>5. \/ /\ action' = [action EXCEPT ![a] = x]
         /\ bindings' = Reconciled(act) /\ items' = FollowedUp(act)
      \/ /\ action' = [action EXCEPT ![a] = y] /\ UNCHANGED <<bindings, items>>
         /\ "failed" \in setting.outcomes
  BY <1>3 DEF ApplyExternalBindingReconcileUpdates
<1> HIDE DEF x, y
<1>6. ActorsSame(a)
  BY <1>2, <1>5 DEF ApplyExternalBindingReconcileUpdates, ActorsSame
<1> QED
  BY <1>1, <1>2, <1>4, <1>5, <1>6 DEF ApplyExternalBindingReconcileUpdates, MailSane

\* What the logs of an action, with the messages that it moved, have to do with its step.
Telling(log, done, act) ==
    /\ \A r \in RemoteIds : /\ log[r] \in {"applied", "reconcile_failed"} => r \in done
                            /\ log[r] = "failed" => r \notin done
    /\ act # None =>
          /\ \A r \in RemoteIds : log[r] \in {None, "pending"}
          /\ act.step = "logged" => done = {}
          /\ act.step \in {"moved", "reconciled", "unreconciled"} => ToSet(act.ids) \subseteq done
          /\ act.step = "failed" => ToSet(act.ids) \cap done = {}

Pending(log, act) == \A r \in RemoteIds : log[r] = "pending" => act # None /\ r \in ToSet(act.ids)

Tells == /\ Whole /\ Answered => \A a \in Actors : Telling(logs[a], moved[a], action[a])
         /\ ~ setting.restarts => \A a \in Actors : Pending(logs[a], action[a])

\* What the call makes of a whole action.
LEMMA CallMoves ==
    ASSUME MailSane, MailBase, Whole, NEW a \in Actors, Call(a)
    PROVE  /\ action[a].ids[1] \notin Alives(action[a].ids) =>
                 ToSet(action[a].ids) \cap Alives(action[a].ids) = {}
           /\ action[a].ids[1] \in Alives(action[a].ids) =>
                 ToSet(action[a].ids) \subseteq Alives(action[a].ids)
<1> DEFINE act == action[a]
           ids == act.ids
<1>1. /\ act \in ActionRecords /\ ActSound(act, remote, setting) /\ act.step = "logged"
      /\ ids \in Seq(RemoteIds) /\ DOMAIN ids = 1 .. Len(ids) /\ 1 \in DOMAIN ids
  BY ActFacts DEF Call, Doing
<1>2. CASE setting.batch <= 1
  <2>1. ToSet(ids) = {ids[1]}
    BY <1>1, <1>2 DEF ActSound, ToSet
  <2> QED
    BY <2>1
<1>3. CASE Alone(setting)
  <2>1. \A k \in DOMAIN ids : ids[k] = <<ids[k][1], remote[ids[k][1]].version>>
    BY <1>1, <1>3 DEF ActSound
  <2>2. ToSet(ids) \subseteq Alives(ids) /\ ids[1] \in ToSet(ids)
    BY <1>1, <2>1 DEF Alives, Alive, Id, ToSet
  <2> QED
    BY <2>2
<1> QED
  BY <1>2, <1>3 DEF Whole, Alone

LEMMA ActTells ==
    ASSUME MailSane, MailBase, Tells, NEW a \in Actors, Act(a)
    PROVE  Tells'
<1> DEFINE log == logs'[a]
           done == moved'[a]
           act == action'[a]
<1>1. /\ logs \in [Actors -> [RemoteIds -> Statuses \cup {None}]]
      /\ moved \in [Actors -> SUBSET RemoteIds] /\ action \in [Actors -> ActionRecords \cup {None}]
  BY Typed DEF MailBase
<1>2. ActorsSame(a) /\ setting' = setting
  <2>1. CASE mailAction(a)
    BY <2>1, StartDoes
  <2>2. CASE Call(a)
    BY <2>2, CallDoes
  <2>3. CASE ApplyExternalBindingReconcileUpdates(a) \/ UpdateMailActionLogResult(a)
    BY <1>1, <2>3
       DEF ApplyExternalBindingReconcileUpdates, UpdateMailActionLogResult, ActorsSame
  <2> QED
    BY <2>1, <2>2, <2>3 DEF Act
<1>3. ASSUME Whole, Answered PROVE Telling(log, done, act)
  <2>1. Telling(logs[a], moved[a], action[a])
    BY <1>3 DEF Tells
  <2>2. CASE mailAction(a)
    <3>1. /\ act.step = "logged" /\ done = {}
          /\ \A r \in RemoteIds : log[r] \in {None, "pending"}
      BY <2>2, StartDoes
    <3> HIDE DEF log, done, act
    <3>2. None # "applied" /\ None # "reconcile_failed" /\ None # "failed"
      BY DEF MailSane, Statuses
    <3> QED
      BY <3>1, <3>2 DEF Telling
  <2>3. CASE Call(a)
    <3>1. /\ logs' = logs /\ action[a] # None /\ action[a].step = "logged"
          /\ act # None /\ act.ids = action[a].ids
          /\ \/ act.step = "failed" /\ done = moved[a]
             \/ act.step = "failed" /\ done = Alives(act.ids) /\ act.ids[1] \notin done
             \/ act.step = "moved" /\ done = Alives(act.ids) /\ act.ids[1] \in done
      BY <1>3, <2>3, CallDoes DEF Answered
    <3>2. moved[a] = {} /\ \A r \in RemoteIds : logs[a][r] \in {None, "pending"}
      BY <2>1, <3>1 DEF Telling
    <3>3. /\ act.step = "failed" => ToSet(act.ids) \cap done = {}
          /\ act.step = "moved" => ToSet(act.ids) \subseteq done
          /\ act.step \in {"failed", "moved"}
      BY <1>3, <2>3, <3>1, <3>2, CallMoves
    <3>4. None # "applied" /\ None # "reconcile_failed" /\ None # "failed"
      BY DEF MailSane, Statuses
    <3>5. \A r \in RemoteIds : log[r] \in {None, "pending"}
      BY <3>1, <3>2
    <3> HIDE DEF log, done, act
    <3> QED
      BY <3>1, <3>3, <3>4, <3>5 DEF Telling
  <2>4. CASE ApplyExternalBindingReconcileUpdates(a)
    <3>1. /\ logs' = logs /\ moved' = moved /\ action[a] # None /\ action[a].step = "moved"
      BY <2>4, ApplyDoes
    <3>2. act.ids = action[a].ids /\ act.step \in {"reconciled", "unreconciled"}
      BY <2>4, ApplyDoes
    <3> HIDE DEF act
    <3> QED
      BY <2>1, <3>1, <3>2 DEF Telling
  <2>5. CASE UpdateMailActionLogResult(a)
    <3>1. /\ action[a] # None /\ action[a].step \in {"failed", "reconciled", "unreconciled"}
          /\ done = moved[a] /\ act = None
          /\ log = [r \in RemoteIds |-> IF r \in ToSet(action[a].ids) THEN Status(action[a].step)
                                        ELSE logs[a][r]]
      BY <1>1, <2>5 DEF UpdateMailActionLogResult
    <3> HIDE DEF log, done, act
    <3>2. ASSUME NEW r \in RemoteIds
          PROVE  /\ log[r] \in {"applied", "reconcile_failed"} => r \in done
                 /\ log[r] = "failed" => r \notin done
      BY <2>1, <3>1 DEF Telling, Status
    <3> QED
      BY <3>1, <3>2 DEF Telling
  <2> QED
    BY <2>2, <2>3, <2>4, <2>5 DEF Act
<1>4. ASSUME ~ setting.restarts PROVE Pending(log, act)
  <2>1. Pending(logs[a], action[a])
    BY <1>4 DEF Tells
  <2>2. CASE mailAction(a)
    <3>1. act # None
          /\ log = [r \in RemoteIds |-> IF r \in ToSet(act.ids) THEN "pending" ELSE None]
      BY <2>2, StartDoes
    <3> HIDE DEF log, act
    <3>2. None # "pending"
      BY DEF MailSane, Statuses
    <3> QED
      BY <3>1, <3>2 DEF Pending
  <2>3. CASE Call(a)
    <3>1. log = logs[a] /\ act # None /\ act.ids = action[a].ids
      BY <2>3, CallDoes
    <3> QED
      BY <2>1, <3>1 DEF Pending
  <2>4. CASE ApplyExternalBindingReconcileUpdates(a)
    <3>1. log = logs[a] /\ act # None /\ act.ids = action[a].ids
      BY <2>4, ApplyDoes
    <3> QED
      BY <2>1, <3>1 DEF Pending
  <2>5. CASE UpdateMailActionLogResult(a)
    <3>1. /\ action[a].step \in {"failed", "reconciled", "unreconciled"}
          /\ log = [r \in RemoteIds |-> IF r \in ToSet(action[a].ids) THEN Status(action[a].step)
                                        ELSE logs[a][r]]
      BY <1>1, <2>5 DEF UpdateMailActionLogResult
    <3>2. Status(action[a].step) # "pending"
      BY <3>1 DEF Status
    <3> HIDE DEF log, act
    <3> QED
      BY <2>1, <3>1, <3>2 DEF Pending
  <2> QED
    BY <2>2, <2>3, <2>4, <2>5 DEF Act
<1> HIDE DEF log, done, act
<1>5. ASSUME Whole', Answered', NEW b \in Actors PROVE Telling(logs'[b], moved'[b], action'[b])
  <2>1. Whole /\ Answered
    BY <1>2, <1>5 DEF Whole, Answered
  <2>2. CASE b = a
    BY <1>3, <2>1, <2>2 DEF log, done, act
  <2>3. CASE b # a
    <3>1. logs'[b] = logs[b] /\ moved'[b] = moved[b] /\ action'[b] = action[b]
      BY <1>2, <2>3 DEF ActorsSame
    <3> QED
      BY <2>1, <3>1 DEF Tells
  <2> QED
    BY <2>2, <2>3
<1>6. ASSUME ~ setting'.restarts, NEW b \in Actors PROVE Pending(logs'[b], action'[b])
  <2>1. CASE b = a
    BY <1>2, <1>4, <1>6, <2>1 DEF log, act
  <2>2. CASE b # a
    <3>1. logs'[b] = logs[b] /\ action'[b] = action[b]
      BY <1>2, <2>2 DEF ActorsSame
    <3> QED
      BY <1>2, <1>6, <3>1 DEF Tells
  <2> QED
    BY <2>1, <2>2
<1> QED
  BY <1>5, <1>6 DEF Tells

LEMMA NextTells ==
    ASSUME MailSane, MailBase, Tells, [Next]_vars
    PROVE  Tells'
<1>1. ASSUME UNCHANGED <<setting, action, logs, moved>> PROVE Tells'
  BY <1>1 DEF Tells, Whole, Answered
<1>2. ASSUME NEW s \in Syncers, Pass(s) PROVE Tells'
  BY <1>1, <1>2 DEF Pass, Sync, resolveItemTarget, UpdateItem, CreateItem, UpsertExternalBinding,
                    SyncFails, ListStaleBindings, DeleteBinding, SyncEnds
<1>3. ASSUME NEW a \in Actors, Act(a) PROVE Tells'
  BY <1>3, ActTells
<1>4. ASSUME \/ \E m \in setting.messages, folder \in {"inbox", "archive"} : OwnerMoves(m, folder)
             \/ \E i \in ItemIds : DeleteItem(i)
             \/ \E r \in RemoteIds : Age(r)
      PROVE  Tells'
  BY <1>1, <1>4 DEF OwnerMoves, DeleteItem, Age
<1>5. CASE Restart
  <2>1. setting.restarts /\ UNCHANGED <<setting, logs, moved>>
        /\ \A a \in Actors : action'[a] = None
    BY <1>5 DEF Restart
  <2>2. ASSUME Whole', Answered', NEW a \in Actors PROVE Telling(logs'[a], moved'[a], action'[a])
    <3>1. Telling(logs[a], moved[a], action[a])
      BY <2>1, <2>2 DEF Tells, Whole, Answered
    <3> QED
      BY <2>1, <3>1 DEF Telling
  <2> QED
    BY <2>1, <2>2 DEF Tells
<1> QED
  BY <1>1, <1>2, <1>3, <1>4, <1>5 DEF Next, vars

\* Logs tell the truth, for any number of actions, with any number of messages each: "applied" and
\* "reconcile_failed" of messages that were moved, "failed" of others, "pending" of those under way.
THEOREM LogsTellTheTruth == Spec => []LogTells
<1>0. MailSane
  BY MailAssumption
<1>1. Init => MailBase /\ Tells
  <2>1. Init => /\ \A a \in Actors : action[a] = None /\ moved[a] = {}
                /\ \A a \in Actors : \A r \in RemoteIds : logs[a][r] = None
    BY DEF Init
  <2>2. None # "pending" /\ None # "applied" /\ None # "reconcile_failed" /\ None # "failed"
    BY <1>0 DEF MailSane, Statuses
  <2> QED
    BY <1>0, <2>1, <2>2, InitBase DEF Tells, Telling, Pending
<1>2. MailBase /\ Tells /\ [Next]_vars => MailBase' /\ Tells'
  BY <1>0, NextBase, NextTells
<1>3. Tells => LogTells
  BY DEF Tells, LogTells, Telling, Pending
<1> QED
  BY <1>1, <1>2, <1>3, PTL DEF Spec

---------------------------------------------------------------------------
(* A pass covers what it listed.                                               *)

\* What a pass has stored stays bound while the message has the id: it is not stale, and not one of
\* the bindings that the pass deletes.
Covers(p) ==
    \A r \in p.listed \ p.todo : Alive(r) =>
       /\ r \in Bound
       /\ setting.cleanup => IF p.step = "clean" THEN bindings[r].row \notin p.doomed
                             ELSE ~ bindings[r].stale

WithItems == \A r \in Bound : bindings[r].item # None

Covering == (OneSyncer \/ ~ setting.cleanup) /\ ~ setting.deletes

Covered == Covering =>
    /\ WithItems
    /\ \A s \in Syncers : syncer[s] # None =>
          Covers(syncer[s]) /\ (~ setting.cleanup => syncer[s].step # "clean")

\* A message that has an id had it before.
LEMMA StillAlive ==
    ASSUME MailSane, MailBase, [Next]_vars, NEW r, Past(r, remote), Alive(r)'
    PROVE  Alive(r)
<1> DEFINE m == r[1]
<1>1. r \in RemoteIds /\ m \in Messages /\ r[2] \in Nat /\ r[2] <= remote[m].version
      /\ r = <<m, r[2]>>
  BY DEF Past, RemoteIds
<1>2. remote[m].version \in Nat /\ remote \in Mailbox
  BY <1>1, Typed DEF MailBase, Mailbox, MailSane
<1>3. r[2] = remote'[m].version
  BY <1>1 DEF Alive, Id
<1>4. CASE remote'[m] = remote[m]
  BY <1>1, <1>3, <1>4 DEF Alive, Id
<1>5. CASE remote'[m].version = remote[m].version + 1
  BY <1>1, <1>2, <1>3, <1>5
<1>6. ASSUME NEW a \in Actors, Call(a) PROVE Alive(r)
  BY <1>1, <1>4, <1>5, <1>6 DEF Call
<1>7. ASSUME NEW n \in setting.messages, NEW folder \in {"inbox", "archive"}, OwnerMoves(n, folder)
      PROVE  Alive(r)
  BY <1>1, <1>2, <1>4, <1>5, <1>7 DEF OwnerMoves, Mailbox
<1>8. CASE remote' = remote
  BY <1>4, <1>8
<1> QED
  BY <1>6, <1>7, <1>8
     DEF Next, Pass, Act, Sync, resolveItemTarget, UpdateItem, CreateItem, UpsertExternalBinding,
         SyncFails, ListStaleBindings, DeleteBinding, SyncEnds, mailAction,
         ApplyExternalBindingReconcileUpdates, UpdateMailActionLogResult, DeleteItem, Age, Restart,
         vars

\* A reconciliation leaves the binding of an id that a message has, and gives none without an item.
LEMMA ApplyKeeps ==
    ASSUME MailSane, MailBase, NEW a \in Actors, ApplyExternalBindingReconcileUpdates(a)
    PROVE  /\ \A r \in Bound : Alive(r) =>
                 /\ r \in Bound' /\ bindings'[r].row = bindings[r].row
                 /\ bindings[r].stale \/ ~ bindings'[r].stale
           /\ WithItems => WithItems'
<1> DEFINE act == action[a]
<1>1. /\ act \in ActionRecords /\ act.step = "moved" /\ Resolves(act) /\ Apart(act.ids)
      /\ \A k \in DOMAIN act.ids : Gone(act.ids[k], remote)
  BY ActFacts DEF ApplyExternalBindingReconcileUpdates, Doing, ActSound
<1>2. Tables /\ remote \in Mailbox /\ MaxVersion \in Nat
  BY TablesHere, Typed DEF MailBase, MailSane
<1>3. CASE UNCHANGED bindings
  BY <1>3 DEF Bound, WithItems
<1>4. CASE bindings' = Reconciled(act)
  <2>1. DOMAIN act.new = DOMAIN act.ids
    BY <1>1 DEF Resolves
  <2>2. \A k \in Carried(act) : k \in DOMAIN act.ids /\ act.ids[k] \in Bound
    BY <1>1, <2>1 DEF Carried, Bound, ActionRecords
  <2>3. ASSUME NEW r \in RemoteIds
        PROVE  /\ r \in Bound /\ Alive(r) =>
                     /\ r \in Bound' /\ bindings'[r].row = bindings[r].row
                     /\ bindings[r].stale \/ ~ bindings'[r].stale
               /\ WithItems /\ bindings'[r] # None => bindings'[r].item # None
    <3> DEFINE x == Reconciled(act)[r]
               to(k) == k \in Carried(act) /\ act.new[k] = r
               of(k) == k \in Carried(act) /\ act.ids[k] = r
    <3>1. \/ \E k \in DOMAIN act.ids :
                /\ to(k) /\ (act.ids[k] = r \/ bindings[r] = None) /\ x \in BindingRecords
                /\ x.row = bindings[act.ids[k]].row /\ x.item = bindings[act.ids[k]].item
                /\ ~ x.stale
          \/ \E k \in DOMAIN act.ids :
                /\ to(k) /\ act.ids[k] # r /\ bindings[r] # None /\ x \in BindingRecords
                /\ x.row = bindings[r].row /\ ~ x.stale
                /\ x.item = IF bindings[r].item = None THEN bindings[act.ids[k]].item
                            ELSE bindings[r].item
          \/ (\A k \in DOMAIN act.ids : ~ to(k)) /\ (\E k \in DOMAIN act.ids : of(k)) /\ x = None
          \/ (\A k \in DOMAIN act.ids : ~ to(k) /\ ~ of(k)) /\ x = bindings[r]
      BY <1>1, <1>2, <2>1, ReconciledIs
    <3>2. bindings'[r] = x
      BY <1>4
    <3> HIDE DEF x
    <3>3. ASSUME Alive(r), NEW k \in DOMAIN act.ids PROVE act.ids[k] # r
      <4>1. r[1] \in Messages /\ remote[r[1]].version \in Nat
        BY <1>2 DEF RemoteIds, Mailbox
      <4>2. r[2] = remote[r[1]].version
        BY <3>3 DEF Alive, Id
      <4> QED
        BY <1>1, <4>1, <4>2 DEF Gone
    <3>4. None \notin BindingRecords
      BY DEF MailSane
    <3>5. ASSUME r \in Bound, Alive(r)
          PROVE  /\ x # None /\ x.row = bindings[r].row
                 /\ bindings[r].stale \/ ~ x.stale
      BY <3>1, <3>3, <3>4, <3>5 DEF Bound
    <3>6. ASSUME WithItems, x # None PROVE x.item # None
      <4>1. \A k \in DOMAIN act.ids : to(k) => bindings[act.ids[k]].item # None
        BY <2>2, <3>6 DEF WithItems
      <4>2. bindings[r] # None => bindings[r].item # None
        BY <3>6 DEF WithItems, Bound
      <4> QED
        BY <3>1, <3>6, <4>1, <4>2
    <3> QED
      BY <3>2, <3>5, <3>6 DEF Bound
  <2>4. \A r \in Bound : r \in RemoteIds
    BY DEF Bound
  <2>5. \A r \in Bound' : r \in RemoteIds /\ bindings'[r] # None
    BY DEF Bound
  <2> QED
    BY <2>3, <2>4, <2>5 DEF WithItems
<1> QED
  BY <1>3, <1>4, ApplyDoes

Keeps(r) == r \in Bound' /\ (setting.cleanup => /\ bindings'[r].row = bindings[r].row
                                                /\ bindings[r].stale \/ ~ bindings'[r].stale)

LEMMA CoversKept ==
    ASSUME MailSane, MailBase, [Next]_vars, setting' = setting,
           NEW p, PassSound(p, remote), Covers(p),
           NEW q, q.listed \ q.todo \subseteq p.listed \ p.todo,
           q.step = "clean" <=> p.step = "clean", q.step = "clean" => q.doomed \subseteq p.doomed,
           \A r \in p.listed \ p.todo : Alive(r) => Keeps(r)
    PROVE  Covers(q)'
<1> SUFFICES ASSUME NEW r \in q.listed \ q.todo, Alive(r)'
             PROVE  /\ r \in Bound'
                    /\ setting.cleanup => IF q.step = "clean" THEN bindings'[r].row \notin q.doomed
                                          ELSE ~ bindings'[r].stale
  BY DEF Covers
<1>1. r \in p.listed \ p.todo
  OBVIOUS
<1>2. Past(r, remote)
  BY <1>1 DEF PassSound
<1>3. Alive(r)
  BY <1>2, StillAlive
<1> QED
  BY <1>1, <1>3 DEF Covers, Keeps

LEMMA PassCovered ==
    ASSUME MailSane, MailBase, Covering, Covered, NEW s \in Syncers, Pass(s)
    PROVE  /\ WithItems' /\ setting' = setting
           /\ \A t \in Syncers : syncer'[t] # None =>
                 Covers(syncer[t])' /\ (~ setting.cleanup => syncer'[t].step # "clean")
<1>1. [Next]_vars
  BY DEF Next
<1>2. WithItems /\ \A t \in Syncers : syncer[t] # None =>
          /\ PassSound(syncer[t], remote) /\ Covers(syncer[t])
          /\ ~ setting.cleanup => syncer[t].step # "clean"
  BY PassFacts DEF Covered
<1>3. OthersSame(s)
  BY SyncDoes, ResolveDoes, UpdateDoes, CreateDoes, UpsertDoes, ListDoes, DeleteDoes, StopDoes
     DEF Pass
<1>4. /\ setting' = setting
      /\ setting.syncers \subseteq Syncers /\ (syncer[s] # None => s \in setting.syncers)
  BY <1>3, Typed DEF OthersSame, MailBase, MailSane, SettingRecords
<1>5. ASSUME NEW t \in Syncers, t # s, syncer[t] # None, syncer[s] # None
      PROVE  ~ setting.cleanup
  BY <1>4, <1>5, TheOnlySyncer DEF Covering, MailBase
\* What another pass has stored stays bound.
<1>6. ASSUME NEW t \in Syncers, t # s, syncer'[t] # None, syncer[s] = None => bindings' = bindings,
             setting.cleanup \/ Bound \subseteq Bound'
      PROVE  Covers(syncer[t])' /\ (~ setting.cleanup => syncer'[t].step # "clean")
  <2>1. syncer'[t] = syncer[t] /\ syncer[t] # None
    BY <1>3, <1>6 DEF OthersSame
  <2>2. \A r \in Bound : Keeps(r)
    <3>1. CASE bindings' = bindings
      BY <3>1 DEF Keeps, Bound
    <3>2. CASE bindings' # bindings
      BY <1>5, <1>6, <2>1, <3>2 DEF Keeps
    <3> QED
      BY <3>1, <3>2
  <2>3. PICK q : q = syncer[t]
    OBVIOUS
  <2>4. \A r \in q.listed \ q.todo : Alive(r) => Keeps(r)
    BY <1>2, <2>1, <2>2, <2>3 DEF Covers
  <2>5. Covers(q)'
    BY <1>1, <1>2, <1>4, <2>1, <2>3, <2>4, CoversKept
  <2>6. Covers(syncer[t])'
    BY <2>1, <2>3, <2>5 DEF Covers
  <2> QED
    BY <1>2, <2>1, <2>6
\* A pass that goes on with what it has stored.
<1>7. ASSUME syncer[s] # None, syncer'[s] # None, SameBatch(syncer'[s], syncer[s]),
             syncer[s].step # "clean", syncer'[s].step # "clean", bindings' = bindings
      PROVE  Covers(syncer[s])'
  <2>1. PICK q : q = syncer'[s]
    OBVIOUS
  <2>2. \A r \in syncer[s].listed \ syncer[s].todo : Alive(r) => Keeps(r)
    BY <1>2, <1>7 DEF Covers, Keeps, Bound
  <2>3. Covers(q)'
    BY <1>1, <1>2, <1>4, <1>7, <2>1, <2>2, CoversKept DEF SameBatch
  <2> QED
    BY <2>1, <2>3 DEF Covers
<1> DEFINE Rest == \A t \in Syncers : t # s /\ syncer'[t] # None =>
                      Covers(syncer[t])' /\ (~ setting.cleanup => syncer'[t].step # "clean")
           Mine == syncer'[s] # None =>
                      Covers(syncer[s])' /\ (~ setting.cleanup => syncer'[s].step # "clean")
<1>8. ASSUME bindings' = bindings PROVE WithItems' /\ Rest
  <2>1. Bound' = Bound
    BY <1>8 DEF Bound
  <2>2. WithItems'
    BY <1>2, <1>8, <2>1 DEF WithItems
  <2>3. Rest
    BY <1>6, <1>8, <2>1
  <2> QED
    BY <2>2, <2>3
<1> HIDE DEF Rest
<1>9. ASSUME Sync(s) PROVE WithItems' /\ Rest /\ Mine
  <2>1. /\ bindings' = bindings /\ syncer'[s].step = "next"
        /\ syncer'[s].listed = syncer'[s].todo
    BY <1>9, SyncDoes
  <2>2. Covers(syncer[s])'
    BY <2>1 DEF Covers
  <2> QED
    BY <1>8, <2>1, <2>2
<1>10. ASSUME NEW r \in RemoteIds, resolveItemTarget(s, r) PROVE WithItems' /\ Rest /\ Mine
  <2>1. /\ bindings' = bindings /\ syncer[s] # None /\ SameBatch(syncer'[s], syncer[s])
        /\ syncer[s].step # "clean" /\ syncer'[s].step # "clean"
    BY <1>10, ResolveDoes
  <2> QED
    BY <1>7, <1>8, <2>1
<1>11. ASSUME UpdateItem(s) PROVE WithItems' /\ Rest /\ Mine
  <2>1. /\ bindings' = bindings /\ syncer[s] # None /\ syncer[s].step # "clean"
        /\ syncer'[s] # None => SameBatch(syncer'[s], syncer[s]) /\ syncer'[s].step # "clean"
    BY <1>11, UpdateDoes
  <2> QED
    BY <1>7, <1>8, <2>1
<1>12. ASSUME CreateItem(s) PROVE WithItems' /\ Rest /\ Mine
  <2>1. /\ bindings' = bindings /\ syncer[s] # None /\ SameBatch(syncer'[s], syncer[s])
        /\ syncer[s].step # "clean" /\ syncer'[s].step # "clean"
    BY <1>12, CreateDoes
  <2> QED
    BY <1>7, <1>8, <2>1
<1>13. ASSUME SyncFails(s) \/ SyncEnds(s) PROVE WithItems' /\ Rest /\ Mine
  <2>1. bindings' = bindings /\ syncer'[s] = None
    BY <1>13, StopDoes
  <2> QED
    BY <1>8, <2>1
<1>14. ASSUME UpsertExternalBinding(s), bindings' # bindings PROVE WithItems' /\ Rest /\ Mine
  <2> DEFINE p == syncer[s]
  <2>1. /\ p # None /\ p.step = "stored" /\ p.at \in RemoteIds
        /\ p.item \in Items /\ syncer'[s] # None /\ syncer'[s].step = "next"
        /\ syncer'[s].listed = p.listed /\ syncer'[s].todo = p.todo \ {p.at}
        /\ Bound' = Bound \cup {p.at} /\ bindings'[p.at].item = p.item
        /\ ~ bindings'[p.at].stale
        /\ \A r \in RemoteIds : r # p.at => bindings'[r] = bindings[r]
    BY <1>14, UpsertDoes
  <2>2. p.item # None
    BY <2>1 DEF Items, ItemIds, MailSane
  <2>3. WithItems'
    BY <1>2, <2>1, <2>2 DEF WithItems, Bound
  <2>4. Rest
    BY <1>6, <2>1 DEF Rest
  <2>5. ASSUME NEW r \in syncer'[s].listed \ syncer'[s].todo, Alive(r)'
        PROVE  r \in Bound' /\ (setting.cleanup => ~ bindings'[r].stale)
    <3>1. CASE r = p.at
      BY <2>1, <3>1
    <3>2. CASE r # p.at
      <4>1. r \in p.listed \ p.todo
        BY <2>1, <3>2
      <4>2. Past(r, remote)
        BY <1>2, <2>1, <4>1 DEF PassSound
      <4>3. Alive(r)
        BY <1>1, <2>5, <4>2, StillAlive
      <4>4. r \in Bound /\ (setting.cleanup => ~ bindings[r].stale)
        BY <1>2, <2>1, <4>1, <4>3 DEF Covers
      <4> QED
        BY <2>1, <3>2, <4>2, <4>4 DEF Past
    <3> QED
      BY <3>1, <3>2
  <2>6. Covers(syncer[s])'
    BY <1>4, <2>1, <2>5 DEF Covers
  <2> QED
    BY <2>1, <2>3, <2>4, <2>6
<1>15. ASSUME UpsertExternalBinding(s), bindings' = bindings PROVE WithItems' /\ Rest /\ Mine
  <2> DEFINE p == syncer[s]
  <2>1. \/ syncer'[s] = None
        \/ /\ p # None /\ p.step = "stored" /\ syncer'[s].step = "next"
           /\ syncer'[s].listed = p.listed /\ syncer'[s].todo = p.todo \ {p.at}
           /\ p.at \in Bound' /\ ~ bindings'[p.at].stale
    BY <1>15, UpsertDoes
  <2>2. Bound' = Bound
    BY <1>15 DEF Bound
  <2>3. ASSUME syncer'[s] # None, NEW r \in syncer'[s].listed \ syncer'[s].todo, Alive(r)'
        PROVE  r \in Bound' /\ (setting.cleanup => ~ bindings'[r].stale)
    <3>1. CASE r = p.at
      BY <2>1, <2>3, <3>1
    <3>2. CASE r # p.at
      <4>1. r \in p.listed \ p.todo
        BY <2>1, <2>3, <3>2
      <4>2. Past(r, remote)
        BY <1>2, <2>1, <2>3, <4>1 DEF PassSound
      <4>3. Alive(r)
        BY <1>1, <2>3, <4>2, StillAlive
      <4>4. r \in Bound /\ (setting.cleanup => ~ bindings[r].stale)
        BY <1>2, <2>1, <2>3, <4>1, <4>3 DEF Covers
      <4> QED
        BY <1>15, <2>2, <4>4
    <3> QED
      BY <3>1, <3>2
  <2>4. syncer'[s] # None => Covers(syncer[s])'
    BY <1>4, <2>1, <2>3 DEF Covers
  <2> QED
    BY <1>8, <1>15, <2>1, <2>4
\* What is stale is deleted; the bindings of the pass are not.
<1>16. ASSUME ListStaleBindings(s) PROVE WithItems' /\ Rest /\ Mine
  <2> DEFINE p == syncer[s]
  <2>1. bindings' = bindings /\ p # None /\ p.step = "next" /\ remote' = remote
    BY <1>16, ListDoes DEF OthersSame
  <2>2. CASE syncer'[s] = None
    BY <1>8, <2>1, <2>2
  <2>3. CASE /\ syncer'[s] # None /\ syncer'[s].step = "clean" /\ SameBatch(syncer'[s], p)
             /\ syncer'[s].doomed = {bindings[r].row : r \in {q \in Bound : bindings[q].stale}}
             /\ setting.cleanup
    <3>1. ASSUME NEW r \in syncer'[s].listed \ syncer'[s].todo, Alive(r)'
          PROVE  r \in Bound' /\ bindings'[r].row \notin syncer'[s].doomed
      <4>1. r \in p.listed \ p.todo /\ Alive(r)
        BY <2>1, <2>3, <3>1 DEF SameBatch, Alive, Id
      <4>2. r \in Bound /\ ~ bindings[r].stale
        BY <1>2, <2>1, <2>3, <4>1 DEF Covers
      <4>3. \A q \in Bound : bindings[q].row = bindings[r].row => q = r
        BY <4>2, TablesHere DEF Tables
      <4> QED
        BY <2>1, <2>3, <4>2, <4>3 DEF Bound
    <3>2. Covers(syncer[s])'
      BY <2>3, <3>1 DEF Covers
    <3> QED
      BY <1>8, <2>1, <2>3, <3>2
  <2> QED
    BY <1>16, <2>2, <2>3, ListDoes
<1>17. ASSUME DeleteBinding(s) PROVE WithItems' /\ Rest /\ Mine
  <2> DEFINE p == syncer[s]
  <2>1. /\ p # None /\ p.step = "clean"
        /\ \A r \in RemoteIds : \/ bindings'[r] = bindings[r]
                                \/ /\ bindings'[r] = None /\ bindings[r] # None
                                   /\ bindings[r].row \in p.doomed
        /\ \/ syncer'[s] = None
           \/ /\ syncer'[s] # None /\ syncer'[s].step = "clean"
              /\ SameBatch(syncer'[s], p) /\ syncer'[s].doomed \subseteq p.doomed
    BY <1>17, DeleteDoes
  <2>2. setting.cleanup
    BY <1>2, <2>1
  <2>3. WithItems'
    BY <1>2, <2>1 DEF WithItems, Bound
  <2>4. Rest
    BY <1>6, <2>1, <2>2 DEF Rest
  <2>5. ASSUME syncer'[s] # None PROVE Covers(syncer[s])'
    <3>1. PICK q : q = syncer'[s]
      OBVIOUS
    <3>2. \A r \in p.listed \ p.todo : Alive(r) => Keeps(r)
      <4> SUFFICES ASSUME NEW r \in p.listed \ p.todo, Alive(r) PROVE Keeps(r)
        OBVIOUS
      <4>1. r \in Bound /\ bindings[r].row \notin p.doomed
        BY <1>2, <2>1, <2>2 DEF Covers
      <4>2. bindings'[r] = bindings[r]
        BY <2>1, <4>1 DEF Bound
      <4> QED
        BY <4>1, <4>2 DEF Keeps, Bound
    <3>3. Covers(q)'
      <4>1. /\ q.listed = p.listed /\ q.todo = p.todo /\ q.step = "clean"
            /\ q.doomed \subseteq p.doomed
        BY <2>1, <2>5, <3>1 DEF SameBatch
      <4>2. PassSound(p, remote) /\ Covers(p)
        BY <1>2, <2>1
      <4> QED
        BY <1>1, <1>4, <2>1, <3>2, <4>1, <4>2, CoversKept
    <3> QED
      BY <3>1, <3>3 DEF Covers
  <2> QED
    BY <2>2, <2>3, <2>4, <2>5
<1>18. WithItems' /\ Rest /\ Mine
  BY <1>9, <1>10, <1>11, <1>12, <1>13, <1>14, <1>15, <1>16, <1>17 DEF Pass
<1> QED
  BY <1>4, <1>18 DEF Rest

LEMMA NextCovered ==
    ASSUME MailSane, MailBase, Covered, [Next]_vars
    PROVE  Covered'
<1> SUFFICES ASSUME Covering'
             PROVE  /\ WithItems'
                    /\ \A s \in Syncers : syncer'[s] # None =>
                          /\ Covers(syncer[s])'
                          /\ ~ setting'.cleanup => syncer'[s].step # "clean"
  BY DEF Covered
<1>1. setting' = setting
  BY DEF Next, Pass, Act, Sync, resolveItemTarget, UpdateItem, CreateItem, UpsertExternalBinding,
         SyncFails, ListStaleBindings, DeleteBinding, SyncEnds, mailAction, Call,
         ApplyExternalBindingReconcileUpdates, UpdateMailActionLogResult, OwnerMoves, DeleteItem,
         Age, Restart, vars
<1>2. Covering /\ ~ setting.deletes
  BY <1>1 DEF Covering, OneSyncer
<1>3. WithItems /\ \A t \in Syncers : syncer[t] # None =>
          /\ PassSound(syncer[t], remote) /\ Covers(syncer[t])
          /\ ~ setting.cleanup => syncer[t].step # "clean"
  BY <1>2, PassFacts DEF Covered
\* Passes stay as they are, and bindings too.
<1>4. ASSUME syncer' = syncer, \A r \in Bound : Alive(r) => Keeps(r), NEW s \in Syncers,
             syncer'[s] # None
      PROVE  /\ Covers(syncer[s])'
             /\ ~ setting'.cleanup => syncer'[s].step # "clean"
  <2>1. PICK q : q = syncer[s]
    OBVIOUS
  <2>2. \A r \in q.listed \ q.todo : Alive(r) => Keeps(r)
    BY <1>3, <1>4, <2>1 DEF Covers
  <2>3. PassSound(q, remote) /\ Covers(q)
    BY <1>3, <1>4, <2>1
  <2>4. Covers(q)'
    BY <1>1, <2>2, <2>3, CoversKept
  <2> QED
    BY <1>1, <1>3, <1>4, <2>1, <2>4 DEF Covers
<1> DEFINE Goal == /\ WithItems'
                   /\ \A s \in Syncers : syncer'[s] # None =>
                         /\ Covers(syncer[s])'
                         /\ ~ setting'.cleanup => syncer'[s].step # "clean"
<1>5. ASSUME NEW s \in Syncers, Pass(s) PROVE Goal
  BY <1>1, <1>2, <1>5, PassCovered
<1>6. ASSUME syncer' = syncer, bindings' = bindings PROVE Goal
  <2>1. Bound' = Bound
    BY <1>6 DEF Bound
  <2>2. WithItems' /\ \A r \in Bound : Alive(r) => Keeps(r)
    BY <1>3, <1>6, <2>1 DEF WithItems, Keeps
  <2> QED
    BY <1>4, <1>6, <2>2
<1>7. ASSUME NEW a \in Actors, ApplyExternalBindingReconcileUpdates(a) PROVE Goal
  <2>1. WithItems' /\ syncer' = syncer
    BY <1>3, <1>7, ApplyKeeps, ApplyDoes
  <2>2. \A r \in Bound : Alive(r) => Keeps(r)
    BY <1>7, ApplyKeeps DEF Keeps
  <2> QED
    BY <1>4, <2>1, <2>2
\* No binding grows old under a pass.
<1>8. ASSUME NEW r \in RemoteIds, Age(r) PROVE Goal
  <2>1. \A s \in Syncers : syncer'[s] = None
    BY <1>8 DEF Age, Passing
  <2>2. bindings[r] \in BindingRecords /\ bindings \in [RemoteIds -> BindingRecords \cup {None}]
    BY <1>8, TablesHere DEF Age, Tables, Bound
  <2> DEFINE aged == [bindings[r] EXCEPT !.stale = TRUE]
  <2>3. aged.item = bindings[r].item
    BY <2>2 DEF BindingRecords
  <2>4. bindings' = [bindings EXCEPT ![r] = aged] /\ r \in Bound
    BY <1>8 DEF Age
  <2> HIDE DEF aged
  <2>5. WithItems'
    BY <1>3, <2>2, <2>3, <2>4 DEF WithItems, Bound
  <2> QED
    BY <2>1, <2>5
<1>9. ASSUME Restart PROVE Goal
  <2>1. bindings' = bindings /\ \A s \in Syncers : syncer'[s] = None
    BY <1>9 DEF Restart
  <2>2. WithItems'
    BY <1>3, <2>1 DEF WithItems, Bound
  <2> QED
    BY <2>1, <2>2
<1>10. ASSUME NEW a \in Actors, mailAction(a) \/ Call(a) \/ UpdateMailActionLogResult(a) PROVE Goal
  <2>1. syncer' = syncer /\ bindings' = bindings
    BY <1>10 DEF mailAction, Call, UpdateMailActionLogResult
  <2> QED
    BY <1>6, <2>1
<1>11. ASSUME NEW m \in setting.messages, NEW folder \in {"inbox", "archive"}, OwnerMoves(m, folder)
       PROVE  Goal
  BY <1>6, <1>11 DEF OwnerMoves
<1>12. ASSUME NEW i \in ItemIds PROVE ~ DeleteItem(i)
  BY <1>2 DEF DeleteItem
<1>13. ASSUME UNCHANGED vars PROVE Goal
  BY <1>6, <1>13 DEF vars
<1> HIDE DEF Goal
<1>14. ASSUME NEW a \in Actors, Act(a) PROVE Goal
  BY <1>7, <1>10, <1>14 DEF Act
<1>15. ASSUME Next PROVE Goal
  BY <1>5, <1>8, <1>9, <1>11, <1>12, <1>14, <1>15 DEF Next
<1>16. Goal
  BY <1>13, <1>15
<1> QED
  BY <1>16 DEF Goal

\* When its messages are through, a pass has covered what it listed, for any number of passes,
\* actions and messages: each message still there has a binding with an item.
THEOREM PassesCover == Spec => []SyncCovers
<1>0. MailSane
  BY MailAssumption
<1>1. Init => MailBase /\ Covered
  BY <1>0, InitBase DEF Init, Covered, WithItems, Bound
<1>2. MailBase /\ Covered /\ [Next]_vars => MailBase' /\ Covered'
  BY <1>0, NextBase, NextCovered
<1>3. MailBase /\ Covered => SyncCovers
  <2> SUFFICES ASSUME MailBase, Covered, Covering, NEW s \in Passing,
                      syncer[s].todo = {}, NEW r \in syncer[s].listed, Alive(r)
               PROVE  bindings[r] # None /\ bindings[r].item # None
    BY DEF SyncCovers, Covering
  <2> QED
    BY DEF Covered, Covers, WithItems, Passing, Bound
<1> QED
  BY <1>1, <1>2, <1>3, PTL DEF Spec

---------------------------------------------------------------------------
(* A message has one item.                                                     *)

\* The call of an action has moved it.
Moving(m) == \E a \in Actors : /\ action[a] # None /\ action[a].step = "moved"
                               /\ \E k \in DOMAIN action[a].ids : action[a].ids[k][1] = m

\* One pass or one action.
Single == /\ \A s, t \in Syncers : syncer[s] # None /\ syncer[t] # None => s = t
          /\ \A a, b \in Actors : action[a] # None /\ action[b] # None => a = b
          /\ \A s \in Syncers, a \in Actors : syncer[s] = None \/ action[a] = None

\* What is bound: ids that messages have, or had until the call, to the items of the messages.
OrderlyTable == \A r \in Bound :
    /\ r[1] \in setting.messages /\ (Alive(r) \/ Moving(r[1]))
    /\ bindings[r].item # None => items[bindings[r].item].about = r[1]

OrderlyAct(act) ==
    /\ act.step \in {"logged", "moved", "reconciled"} /\ act.kind \in setting.kinds
    /\ act.step = "logged" => \A k \in DOMAIN act.ids : Alive(act.ids[k])
    /\ act.step = "moved" =>
          /\ DOMAIN act.new = DOMAIN act.ids
          /\ \A k \in DOMAIN act.ids :
                /\ act.new[k] = NewId(act.ids[k]) /\ Alive(act.new[k]) /\ act.new[k] \notin Bound
                /\ remote[act.ids[k][1]].folder = Target(act.kind)
                /\ \A r \in Bound : r[1] = act.ids[k][1] => r = act.ids[k]

OrderlyPass(p) ==
    /\ p.listed = In("inbox")
    /\ p.step # "clean" =>
          \A r \in p.listed \ p.todo : r \in Bound /\ ~ bindings[r].stale
    /\ p.step = "clean" =>
          setting.cleanup /\ \A r \in Bound : bindings[r].row \in p.doomed => r \notin p.listed
    /\ p.step \in {"resolved", "stored"} =>
          /\ p.at \in Bound => bindings[p.at].item \in {None, p.item}
          /\ p.item \in Items => items[p.item].about = p.at[1]

\* Items that count are bound, or in hand.
OrderlyItems ==
    /\ \A i \in Items : items[i].state = "inbox" \/ ~ setting.cleanup =>
          \/ \E r \in Bound : bindings[r].item = i
          \/ \E s \in Syncers : /\ syncer[s] # None /\ syncer[s].step = "stored"
                                /\ syncer[s].item = i
    /\ \A i \in Items : remote[items[i].about].folder = "archive" =>
          items[i].state = "done" \/ Moving(items[i].about)
    /\ \A m \in Messages : remote[m].folder \in {"inbox", "archive"}
    /\ setting.cleanup \/ \A i, j \in Items : items[i].about = items[j].about => i = j

Ordered == /\ Single /\ OrderlyTable /\ OrderlyItems
           /\ \A s \in Syncers : syncer[s] # None => OrderlyPass(syncer[s])
           /\ \A a \in Actors : action[a] # None => OrderlyAct(action[a])

\* A pass has the store and the mailbox for itself.
LEMMA PassAlone ==
    ASSUME MailSane, MailBase, Orderly, Ordered, NEW s \in Syncers, Pass(s)
    PROVE  /\ \A t \in Syncers : t # s => syncer[t] = None /\ syncer'[t] = None
           /\ \A a \in Actors : action[a] = None /\ action'[a] = None
           /\ UNCHANGED <<setting, remote>>
           /\ \A r \in Bound : /\ r \in RemoteIds /\ r[1] \in setting.messages /\ Alive(r)
                               /\ bindings[r].item # None => items[bindings[r].item].about = r[1]
           /\ \A i \in Items : /\ items[i].state = "inbox" \/ ~ setting.cleanup =>
                                     \/ \E r \in Bound : bindings[r].item = i
                                     \/ /\ syncer[s] # None /\ syncer[s].step = "stored"
                                        /\ syncer[s].item = i
                               /\ remote[items[i].about].folder = "archive" => items[i].state = "done"
           /\ In("inbox")' = In("inbox") /\ \A r : Alive(r)' <=> Alive(r)
<1>1. OthersSame(s)
  BY SyncDoes, ResolveDoes, UpdateDoes, CreateDoes, UpsertDoes, ListDoes, DeleteDoes, StopDoes
     DEF Pass
<1>2. \/ syncer[s] # None
      \/ Passing \cup Acting = {}
  BY DEF Pass, Sync, resolveItemTarget, UpdateItem, CreateItem, UpsertExternalBinding,
         SyncFails, ListStaleBindings, DeleteBinding, SyncEnds, At, MayStart, Orderly
<1>3. /\ \A t \in Syncers : t # s => syncer[t] = None
      /\ \A a \in Actors : action[a] = None
  BY <1>2 DEF Ordered, Single, Passing, Acting
<1>4. UNCHANGED <<setting, remote, action>> /\ \A t \in Syncers : t # s => syncer'[t] = None
  BY <1>1, <1>3 DEF OthersSame
<1>5. \A m : ~ Moving(m)
  BY <1>3 DEF Moving
<1>6. In("inbox")' = In("inbox") /\ \A r : Alive(r)' <=> Alive(r)
  BY <1>4 DEF In, Id, Alive
<1>7. OrderlyTable /\ OrderlyItems
  BY DEF Ordered
<1>8. \A r \in Bound : /\ r \in RemoteIds /\ r[1] \in setting.messages /\ Alive(r)
                       /\ bindings[r].item # None => items[bindings[r].item].about = r[1]
  BY <1>5, <1>7 DEF OrderlyTable, Bound
<1>9. \A i \in Items : /\ items[i].state = "inbox" \/ ~ setting.cleanup =>
                             \/ \E r \in Bound : bindings[r].item = i
                             \/ /\ syncer[s] # None /\ syncer[s].step = "stored"
                                /\ syncer[s].item = i
                       /\ remote[items[i].about].folder = "archive" => items[i].state = "done"
  BY <1>3, <1>5, <1>7 DEF OrderlyItems
<1> QED
  BY <1>3, <1>4, <1>6, <1>8, <1>9

\* What a step of a pass has to keep.
LEMMA PassOrder ==
    ASSUME MailSane, MailBase, Orderly, Ordered, NEW s \in Syncers, Pass(s),
           \A r \in Bound' : /\ r[1] \in setting.messages /\ Alive(r)
                             /\ bindings'[r].item # None => items'[bindings'[r].item].about = r[1],
           \A i \in Items' : /\ items'[i].state = "inbox" \/ ~ setting.cleanup =>
                                   \/ \E r \in Bound' : bindings'[r].item = i
                                   \/ /\ syncer'[s] # None /\ syncer'[s].step = "stored"
                                      /\ syncer'[s].item = i
                             /\ remote[items'[i].about].folder = "archive" => items'[i].state = "done",
           setting.cleanup \/ \A i, j \in Items' : items'[i].about = items'[j].about => i = j,
           syncer'[s] # None => OrderlyPass(syncer[s])'
    PROVE  Ordered'
<1>1. /\ \A t \in Syncers : t # s => syncer'[t] = None
      /\ \A a \in Actors : action'[a] = None
      /\ UNCHANGED <<setting, remote>> /\ \A r : Alive(r)' <=> Alive(r)
  BY PassAlone
<1>2. Single'
  BY <1>1 DEF Single
<1>3. OrderlyTable'
  BY <1>1 DEF OrderlyTable
<1>4. OrderlyItems'
  <2>1. \A m \in Messages : remote'[m].folder \in {"inbox", "archive"}
    BY <1>1 DEF Ordered, OrderlyItems
  <2>2. setting'.cleanup \/ \A i, j \in Items' : items'[i].about = items'[j].about => i = j
    BY <1>1
  <2>3. \A i \in Items' : items'[i].state = "inbox" \/ ~ setting'.cleanup =>
           \/ \E r \in Bound' : bindings'[r].item = i
           \/ \E t \in Syncers : /\ syncer'[t] # None /\ syncer'[t].step = "stored"
                                 /\ syncer'[t].item = i
    BY <1>1
  <2>4. \A i \in Items' : remote'[items'[i].about].folder = "archive" => items'[i].state = "done"
    BY <1>1
  <2> QED
    BY <2>1, <2>2, <2>3, <2>4 DEF OrderlyItems
<1>5. \A t \in Syncers : syncer'[t] # None => OrderlyPass(syncer[t])'
  BY <1>1
<1> QED
  BY <1>1, <1>2, <1>3, <1>4, <1>5 DEF Ordered

LEMMA ReadOrder ==
    ASSUME MailSane, MailBase, Orderly, Ordered, NEW s \in Syncers, Pass(s),
           UNCHANGED <<items, bindings>>, syncer[s] # None => syncer[s].step # "stored",
           syncer'[s] # None => OrderlyPass(syncer[s])'
    PROVE  Ordered'
<1>1. Bound' = Bound /\ Items' = Items
  BY DEF Bound, Items
<1>2. /\ \A r \in Bound : /\ r \in RemoteIds /\ r[1] \in setting.messages /\ Alive(r)
                          /\ bindings[r].item # None => items[bindings[r].item].about = r[1]
      /\ \A i \in Items : /\ items[i].state = "inbox" \/ ~ setting.cleanup =>
                                \E r \in Bound : bindings[r].item = i
                          /\ remote[items[i].about].folder = "archive" => items[i].state = "done"
  BY PassAlone
<1>3. setting.cleanup \/ \A i, j \in Items : items[i].about = items[j].about => i = j
  BY DEF Ordered, OrderlyItems
<1> QED
  BY <1>1, <1>2, <1>3, PassOrder

LEMMA SyncOrder ==
    ASSUME MailSane, MailBase, Orderly, Ordered, NEW s \in Syncers, Sync(s)
    PROVE  Ordered'
<1>1. Pass(s)
  BY DEF Pass
<1>2. /\ UNCHANGED <<items, bindings>> /\ syncer[s] = None
      /\ syncer'[s].listed = In("inbox") /\ syncer'[s].todo = In("inbox")
      /\ syncer'[s].step = "next"
  BY SyncDoes
<1>3. In("inbox")' = In("inbox")
  BY <1>1, PassAlone
<1>4. OrderlyPass(syncer[s])'
  BY <1>2, <1>3 DEF OrderlyPass
<1> QED
  BY <1>1, <1>2, <1>4, ReadOrder

LEMMA ResolveOrder ==
    ASSUME MailSane, MailBase, Orderly, Ordered, NEW s \in Syncers, NEW r \in RemoteIds,
           resolveItemTarget(s, r)
    PROVE  Ordered'
<1> DEFINE p == syncer[s]
<1>1. Pass(s)
  BY DEF Pass
<1>2. /\ UNCHANGED <<items, bindings>> /\ p # None /\ p.step = "next"
      /\ SameBatch(syncer'[s], p) /\ syncer'[s].at = r /\ syncer'[s].step = "resolved"
      /\ syncer'[s].item = IF bindings[r] = None THEN None ELSE bindings[r].item
  BY ResolveDoes
<1>3. In("inbox")' = In("inbox") /\ Bound' = Bound /\ Items' = Items
  BY <1>1, <1>2, PassAlone DEF Bound, Items
<1>4. OrderlyPass(p)
  BY <1>2 DEF Ordered
<1>5. \A q \in Bound : bindings[q].item # None => items[bindings[q].item].about = q[1]
  BY <1>1, PassAlone
<1>6. PICK q : q = syncer'[s]
  OBVIOUS
<1>7. q.listed = In("inbox")' /\ q.step = "resolved" /\ q.at = r
  BY <1>2, <1>3, <1>4, <1>6 DEF SameBatch, OrderlyPass
<1>8. \A x \in q.listed \ q.todo : x \in Bound' /\ ~ bindings'[x].stale
  BY <1>2, <1>3, <1>4, <1>6 DEF SameBatch, OrderlyPass
<1>9. r \in Bound' => bindings'[r].item \in {None, q.item}
  BY <1>2, <1>3, <1>6 DEF Bound
<1>10. q.item \in Items' => items'[q.item].about = r[1]
  <2> SUFFICES ASSUME q.item \in Items PROVE items[q.item].about = r[1]
    BY <1>2, <1>3
  <2>1. q.item # None
    BY DEF Items, ItemIds, MailSane
  <2>2. r \in Bound /\ q.item = bindings[r].item
    BY <1>2, <1>6, <2>1 DEF Bound
  <2> QED
    BY <1>5, <2>1, <2>2
<1>11. OrderlyPass(q)'
  BY <1>7, <1>8, <1>9, <1>10 DEF OrderlyPass
<1>12. OrderlyPass(syncer[s])'
  BY <1>6, <1>11 DEF OrderlyPass
<1> QED
  BY <1>1, <1>2, <1>12, ReadOrder

LEMMA UpdateOrder ==
    ASSUME MailSane, MailBase, Orderly, Ordered, NEW s \in Syncers, UpdateItem(s)
    PROVE  Ordered'
<1> DEFINE p == syncer[s]
<1>1. Pass(s)
  BY DEF Pass
<1>2. /\ bindings' = bindings /\ Items' = Items /\ p # None /\ p.step = "resolved" /\ p.item # None
      /\ \A i \in Items : /\ items'[i].about = items[i].about
                          /\ \/ items'[i].state = items[i].state
                             \/ i = p.item /\ items'[i].state = "inbox"
      /\ \/ p.item \notin Items /\ syncer'[s] = None
         \/ /\ p.item \in Items /\ syncer'[s] # None /\ syncer'[s].step = "stored"
            /\ SameBatch(syncer'[s], p) /\ syncer'[s].item = p.item /\ syncer'[s].at = p.at
  BY UpdateDoes
<1>3. Bound' = Bound /\ In("inbox")' = In("inbox")
  BY <1>1, <1>2, PassAlone DEF Bound
<1>4. OrderlyPass(p) /\ PassSound(p, remote)
  BY <1>2, PassFacts DEF Ordered
<1>5. /\ \A r \in Bound : /\ r \in RemoteIds /\ r[1] \in setting.messages /\ Alive(r)
                          /\ bindings[r].item # None => items[bindings[r].item].about = r[1]
      /\ \A i \in Items : /\ items[i].state = "inbox" \/ ~ setting.cleanup =>
                                \E r \in Bound : bindings[r].item = i
                          /\ remote[items[i].about].folder = "archive" => items[i].state = "done"
  BY <1>1, <1>2, PassAlone
<1>6. \A r \in Bound : bindings[r].item \in Items \cup {None}
  BY TablesHere DEF Tables
\* The message in hand is in the inbox.
<1>7. p.item \in Items => remote[items[p.item].about].folder = "inbox"
  <2>1. p.at \in In("inbox")
    BY <1>2, <1>4 DEF OrderlyPass, PassSound
  <2>2. remote[p.at[1]].folder = "inbox"
    BY <2>1 DEF In, Id
  <2> QED
    BY <1>2, <1>4, <2>2 DEF OrderlyPass
<1>8. \A i \in Items' : /\ items'[i].state = "inbox" \/ ~ setting.cleanup =>
                              \/ \E r \in Bound' : bindings'[r].item = i
                              \/ /\ syncer'[s] # None /\ syncer'[s].step = "stored"
                                 /\ syncer'[s].item = i
                        /\ remote[items'[i].about].folder = "archive" => items'[i].state = "done"
  <2> TAKE i \in Items'
  <2>1. i \in Items /\ items'[i].about = items[i].about
    BY <1>2
  <2>2. CASE items'[i].state = items[i].state
    BY <1>2, <1>3, <1>5, <2>1, <2>2
  <2>3. CASE i = p.item
    BY <1>2, <1>7, <2>1, <2>3
  <2> QED
    BY <1>2, <2>1, <2>2, <2>3
<1>9. \A r \in Bound' : /\ r[1] \in setting.messages /\ Alive(r)
                        /\ bindings'[r].item # None => items'[bindings'[r].item].about = r[1]
  BY <1>2, <1>3, <1>5, <1>6
<1>10. setting.cleanup \/ \A i, j \in Items' : items'[i].about = items'[j].about => i = j
  BY <1>2 DEF Ordered, OrderlyItems
<1>11. ASSUME syncer'[s] # None PROVE OrderlyPass(syncer[s])'
  <2>1. PICK q : q = syncer'[s]
    OBVIOUS
  <2>2. /\ q.step = "stored" /\ q.listed = p.listed /\ q.todo = p.todo /\ q.item = p.item
        /\ q.at = p.at
    BY <1>2, <1>11, <2>1 DEF SameBatch
  <2>3. OrderlyPass(q)'
    BY <1>2, <1>3, <1>4, <2>2 DEF OrderlyPass
  <2> QED
    BY <2>1, <2>3 DEF OrderlyPass
<1> QED
  BY <1>1, <1>8, <1>9, <1>10, <1>11, PassOrder

LEMMA CreateOrder ==
    ASSUME MailSane, MailBase, Orderly, Ordered, NEW s \in Syncers, CreateItem(s)
    PROVE  Ordered'
<1> DEFINE p == syncer[s]
<1>1. Pass(s)
  BY DEF Pass
<1>2. PICK n \in ItemIds \ Items :
          /\ Items' = Items \cup {n} /\ \A j \in Items : items'[j] = items[j]
          /\ items'[n].about = p.at[1] /\ items'[n].state = "inbox" /\ syncer'[s].item = n
  BY CreateDoes
<1>3. /\ bindings' = bindings /\ p # None /\ p.step = "resolved" /\ p.item = None
      /\ syncer'[s] # None /\ syncer'[s].step = "stored" /\ SameBatch(syncer'[s], p)
      /\ syncer'[s].at = p.at
  BY CreateDoes
<1>4. Bound' = Bound /\ In("inbox")' = In("inbox")
  BY <1>1, <1>3, PassAlone DEF Bound
<1>5. OrderlyPass(p) /\ PassSound(p, remote)
  BY <1>3, PassFacts DEF Ordered
<1>6. /\ \A r \in Bound : /\ r \in RemoteIds /\ r[1] \in setting.messages /\ Alive(r)
                          /\ bindings[r].item # None => items[bindings[r].item].about = r[1]
      /\ \A i \in Items : /\ items[i].state = "inbox" \/ ~ setting.cleanup =>
                                \E r \in Bound : bindings[r].item = i
                          /\ remote[items[i].about].folder = "archive" => items[i].state = "done"
  BY <1>1, <1>3, PassAlone
<1>7. \A r \in Bound : bindings[r].item \in Items \cup {None}
  BY TablesHere DEF Tables
<1>8. Alive(p.at) /\ remote[p.at[1]].folder = "inbox" /\ p.at \in RemoteIds
  <2>1. p.at \in In("inbox")
    BY <1>3, <1>5 DEF OrderlyPass, PassSound
  <2> QED
    BY <2>1, Ids DEF In, Id, Alive
\* No item of the message is bound.
<1>9. \A r \in Bound : r[1] = p.at[1] => bindings[r].item = None
  <2> SUFFICES ASSUME NEW r \in Bound, r[1] = p.at[1] PROVE bindings[r].item = None
    OBVIOUS
  <2>1. r = p.at
    BY <1>6, <1>8 DEF Alive
  <2> QED
    BY <1>3, <1>5, <2>1 DEF OrderlyPass
<1>10. ~ setting.cleanup => \A i \in Items : items[i].about # p.at[1]
  <2> SUFFICES ASSUME ~ setting.cleanup, NEW i \in Items, items[i].about = p.at[1] PROVE FALSE
    OBVIOUS
  <2>1. PICK r \in Bound : bindings[r].item = i
    BY <1>6
  <2>2. i # None
    BY DEF Items, ItemIds, MailSane
  <2> QED
    BY <1>6, <1>9, <2>1, <2>2
<1>11. setting.cleanup \/ \A i, j \in Items' : items'[i].about = items'[j].about => i = j
  <2>1. setting.cleanup \/ \A i, j \in Items : items[i].about = items[j].about => i = j
    BY DEF Ordered, OrderlyItems
  <2> QED
    BY <1>2, <1>10, <2>1
<1>12. \A r \in Bound' : /\ r[1] \in setting.messages /\ Alive(r)
                         /\ bindings'[r].item # None => items'[bindings'[r].item].about = r[1]
  BY <1>2, <1>3, <1>4, <1>6, <1>7
<1>13. \A i \in Items' : /\ items'[i].state = "inbox" \/ ~ setting.cleanup =>
                               \/ \E r \in Bound' : bindings'[r].item = i
                               \/ /\ syncer'[s] # None /\ syncer'[s].step = "stored"
                                  /\ syncer'[s].item = i
                         /\ remote[items'[i].about].folder = "archive" => items'[i].state = "done"
  BY <1>2, <1>3, <1>4, <1>6, <1>8
<1>14. OrderlyPass(syncer[s])'
  <2>1. PICK q : q = syncer'[s]
    OBVIOUS
  <2>2. /\ q.step = "stored" /\ q.listed = p.listed /\ q.todo = p.todo /\ q.item = n /\ q.at = p.at
    BY <1>2, <1>3, <2>1 DEF SameBatch
  <2>3. p.at \in Bound => bindings[p.at].item = None
    BY <1>9
  <2>4. OrderlyPass(q)'
    BY <1>2, <1>3, <1>4, <1>5, <2>2, <2>3 DEF OrderlyPass
  <2> QED
    BY <2>1, <2>4 DEF OrderlyPass
<1> QED
  BY <1>1, <1>11, <1>12, <1>13, <1>14, PassOrder

LEMMA UpsertOrder ==
    ASSUME MailSane, MailBase, Orderly, Ordered, NEW s \in Syncers, UpsertExternalBinding(s)
    PROVE  Ordered'
<1> DEFINE p == syncer[s]
<1>1. Pass(s)
  BY DEF Pass
<1>2. /\ items' = items /\ Items' = Items /\ p # None /\ p.step = "stored" /\ p.at \in RemoteIds
      /\ \/ p.item \notin Items /\ syncer'[s] = None /\ bindings' = bindings
         \/ /\ p.item \in Items /\ syncer'[s] # None /\ syncer'[s].step = "next"
            /\ syncer'[s].listed = p.listed /\ syncer'[s].todo = p.todo \ {p.at}
            /\ Bound' = Bound \cup {p.at} /\ bindings'[p.at].item = p.item
            /\ ~ bindings'[p.at].stale
            /\ \A r \in RemoteIds : r # p.at => bindings'[r] = bindings[r]
  BY UpsertDoes
<1>3. OrderlyPass(p) /\ PassSound(p, remote) /\ In("inbox")' = In("inbox")
  BY <1>1, <1>2, PassFacts, PassAlone DEF Ordered
<1>4. /\ \A r \in Bound : /\ r \in RemoteIds /\ r[1] \in setting.messages /\ Alive(r)
                          /\ bindings[r].item # None => items[bindings[r].item].about = r[1]
      /\ \A i \in Items : /\ items[i].state = "inbox" \/ ~ setting.cleanup =>
                                \/ \E r \in Bound : bindings[r].item = i
                                \/ i = p.item
                          /\ remote[items[i].about].folder = "archive" => items[i].state = "done"
  BY <1>1, PassAlone
<1>5. setting.cleanup \/ \A i, j \in Items' : items'[i].about = items'[j].about => i = j
  BY <1>2 DEF Ordered, OrderlyItems
<1>6. CASE p.item \notin Items /\ syncer'[s] = None /\ bindings' = bindings
  <2>1. Bound' = Bound
    BY <1>6 DEF Bound
  <2> QED
    BY <1>1, <1>2, <1>4, <1>5, <1>6, <2>1, PassOrder
<1>7. CASE /\ p.item \in Items /\ syncer'[s] # None /\ syncer'[s].step = "next"
           /\ syncer'[s].listed = p.listed /\ syncer'[s].todo = p.todo \ {p.at}
           /\ Bound' = Bound \cup {p.at} /\ bindings'[p.at].item = p.item
           /\ ~ bindings'[p.at].stale
           /\ \A r \in RemoteIds : r # p.at => bindings'[r] = bindings[r]
  <2>1. p.at[1] \in setting.messages /\ Alive(p.at)
    <3>1. p.at \in In("inbox")
      BY <1>2, <1>3 DEF OrderlyPass, PassSound
    <3> QED
      BY <3>1, Ids DEF In, Id, Alive
  <2>2. p.item \in Items /\ items[p.item].about = p.at[1] /\ p.item # None
    BY <1>2, <1>3, <1>7 DEF OrderlyPass, Items, ItemIds, MailSane
  <2>3. \A r \in Bound' : /\ r[1] \in setting.messages /\ Alive(r)
                          /\ bindings'[r].item # None => items'[bindings'[r].item].about = r[1]
    BY <1>2, <1>4, <1>7, <2>1, <2>2
\* An item that the binding has is the one in hand.
  <2>4. \A i \in Items : (\E r \in Bound : bindings[r].item = i) =>
           \E r \in Bound' : bindings'[r].item = i
    <3> SUFFICES ASSUME NEW i \in Items, NEW r \in Bound, bindings[r].item = i
                 PROVE  \E x \in Bound' : bindings'[x].item = i
      OBVIOUS
    <3>1. CASE r = p.at
      <4>1. i # None
        BY DEF Items, ItemIds, MailSane
      <4>2. i = p.item
        BY <1>2, <1>3, <3>1, <4>1 DEF OrderlyPass
      <4> QED
        BY <1>7, <4>2
    <3>2. CASE r # p.at
      BY <1>4, <1>7, <3>2
    <3> QED
      BY <3>1, <3>2
  <2>5. \A i \in Items' : /\ items'[i].state = "inbox" \/ ~ setting.cleanup =>
                                \E r \in Bound' : bindings'[r].item = i
                          /\ remote[items'[i].about].folder = "archive" => items'[i].state = "done"
    BY <1>2, <1>4, <1>7, <2>4
  <2>6. OrderlyPass(syncer[s])'
    <3>1. PICK q : q = syncer'[s]
      OBVIOUS
    <3>2. q.step = "next" /\ q.listed = p.listed /\ q.todo = p.todo \ {p.at}
      BY <1>7, <3>1
    <3>3. \A r \in p.listed \ p.todo : r \in Bound /\ ~ bindings[r].stale
      BY <1>2, <1>3 DEF OrderlyPass
    <3>4. \A r \in q.listed \ q.todo : r \in Bound' /\ ~ bindings'[r].stale
      BY <1>4, <1>7, <3>2, <3>3
    <3>5. OrderlyPass(q)'
      BY <1>3, <3>2, <3>4 DEF OrderlyPass
    <3> QED
      BY <3>1, <3>5 DEF OrderlyPass
  <2> QED
    BY <1>1, <1>5, <2>3, <2>5, <2>6, PassOrder
<1> QED
  BY <1>2, <1>6, <1>7

LEMMA ListOrder ==
    ASSUME MailSane, MailBase, Orderly, Ordered, NEW s \in Syncers, ListStaleBindings(s)
    PROVE  Ordered'
<1> DEFINE p == syncer[s]
<1>1. Pass(s)
  BY DEF Pass
<1>2. /\ UNCHANGED <<items, bindings>> /\ p # None /\ p.step = "next" /\ p.todo = {}
      /\ \/ syncer'[s] = None
         \/ /\ syncer'[s] # None /\ syncer'[s].step = "clean" /\ SameBatch(syncer'[s], p)
            /\ syncer'[s].doomed = {bindings[r].row : r \in {q \in Bound : bindings[q].stale}}
            /\ setting.cleanup
  BY ListDoes
<1>3. /\ In("inbox")' = In("inbox") /\ setting' = setting /\ Bound' = Bound
      /\ OrderlyPass(p) /\ Tables
  BY <1>1, <1>2, PassAlone, TablesHere DEF Ordered, Bound
<1>4. ASSUME syncer'[s] # None PROVE OrderlyPass(syncer[s])'
  <2>1. PICK q : q = syncer'[s]
    OBVIOUS
  <2>2. /\ q.step = "clean" /\ q.listed = p.listed /\ setting.cleanup
        /\ q.doomed = {bindings[r].row : r \in {x \in Bound : bindings[x].stale}}
    BY <1>2, <1>4, <2>1 DEF SameBatch
  <2>3. \A r \in p.listed : r \in Bound /\ ~ bindings[r].stale
    BY <1>2, <1>3 DEF OrderlyPass
  <2>4. ASSUME NEW r \in Bound, bindings[r].row \in q.doomed PROVE r \notin p.listed
    <3>1. PICK x \in Bound : bindings[x].stale /\ bindings[x].row = bindings[r].row
      BY <2>2, <2>4
    <3>2. x = r
      BY <1>3, <3>1 DEF Tables
    <3> QED
      BY <2>3, <3>1, <3>2
  <2>5. OrderlyPass(q)'
    BY <1>2, <1>3, <2>2, <2>4 DEF OrderlyPass
  <2> QED
    BY <2>1, <2>5 DEF OrderlyPass
<1> QED
  BY <1>1, <1>2, <1>4, ReadOrder

LEMMA DeleteOrder ==
    ASSUME MailSane, MailBase, Orderly, Ordered, NEW s \in Syncers, DeleteBinding(s)
    PROVE  Ordered'
<1> DEFINE p == syncer[s]
<1>1. Pass(s)
  BY DEF Pass
<1>2. /\ items' = items /\ Items' = Items /\ p # None /\ p.step = "clean"
      /\ \A r \in RemoteIds : \/ bindings'[r] = bindings[r]
                              \/ /\ bindings'[r] = None /\ bindings[r] # None
                                 /\ bindings[r].row \in p.doomed
      /\ \/ syncer'[s] = None
         \/ /\ syncer'[s] # None /\ syncer'[s].step = "clean"
            /\ SameBatch(syncer'[s], p) /\ syncer'[s].doomed \subseteq p.doomed
  BY DeleteDoes
<1>3. /\ In("inbox")' = In("inbox") /\ setting' = setting /\ OrderlyPass(p) /\ Tables
  BY <1>1, <1>2, PassAlone, TablesHere DEF Ordered
<1>4. /\ \A r \in Bound : /\ r \in RemoteIds /\ r[1] \in setting.messages /\ Alive(r)
                          /\ bindings[r].item # None => items[bindings[r].item].about = r[1]
      /\ \A i \in Items : /\ items[i].state = "inbox" \/ ~ setting.cleanup =>
                                \E r \in Bound : bindings[r].item = i
                          /\ remote[items[i].about].folder = "archive" => items[i].state = "done"
  BY <1>1, <1>2, PassAlone
<1>5. setting.cleanup /\ p.listed = In("inbox")
      /\ \A r \in Bound : bindings[r].row \in p.doomed => r \notin p.listed
  BY <1>2, <1>3 DEF OrderlyPass
<1>6. \A r \in Bound' : r \in Bound /\ bindings'[r] = bindings[r]
  BY <1>2 DEF Bound
\* What is deleted is of archived messages, whose items are done.
<1>7. ASSUME NEW i \in Items, items[i].state = "inbox" PROVE \E r \in Bound' : bindings'[r].item = i
  <2>1. PICK r \in Bound : bindings[r].item = i
    BY <1>4, <1>7
  <2>2. i # None
    BY DEF Items, ItemIds, MailSane
  <2>3. r[1] \in setting.messages /\ setting.messages \subseteq Messages /\ Alive(r)
        /\ items[i].about = r[1]
    BY <1>4, <2>1, <2>2, Typed DEF MailBase, MailSane, SettingRecords
  <2>4. remote[r[1]].folder = "inbox"
    BY <1>4, <1>7, <2>3 DEF Ordered, OrderlyItems
  <2>5. r \in In("inbox")
    BY <2>3, <2>4 DEF In, Alive
  <2>6. bindings'[r] = bindings[r]
    BY <1>2, <1>4, <1>5, <2>5
  <2> QED
    BY <2>1, <2>6 DEF Bound
<1>8. ASSUME syncer'[s] # None PROVE OrderlyPass(syncer[s])'
  <2>1. PICK q : q = syncer'[s]
    OBVIOUS
  <2>2. q.step = "clean" /\ q.listed = p.listed /\ q.doomed \subseteq p.doomed
    BY <1>2, <1>8, <2>1 DEF SameBatch
  <2>3. OrderlyPass(q)'
    BY <1>3, <1>5, <1>6, <2>2 DEF OrderlyPass
  <2> QED
    BY <2>1, <2>3 DEF OrderlyPass
<1>9. \A i \in Items' : /\ items'[i].state = "inbox" \/ ~ setting.cleanup =>
                              \E r \in Bound' : bindings'[r].item = i
                        /\ remote[items'[i].about].folder = "archive" => items'[i].state = "done"
  BY <1>2, <1>4, <1>5, <1>7
<1>10. \A r \in Bound' : /\ r[1] \in setting.messages /\ Alive(r)
                         /\ bindings'[r].item # None => items'[bindings'[r].item].about = r[1]
  BY <1>2, <1>4, <1>6
<1> QED
  BY <1>1, <1>5, <1>8, <1>9, <1>10, PassOrder

LEMMA PassOrdered ==
    ASSUME MailSane, MailBase, Orderly, Ordered, NEW s \in Syncers, Pass(s)
    PROVE  Ordered'
<1>1. ~ SyncFails(s)
  BY DEF Orderly, SyncFails
<1>2. CASE SyncEnds(s)
  <2>1. UNCHANGED <<items, bindings>> /\ syncer'[s] = None /\ syncer[s].step # "stored"
    BY <1>2, StopDoes DEF SyncEnds, At
  <2> QED
    BY <2>1, ReadOrder
<1> QED
  BY <1>1, <1>2, SyncOrder, ResolveOrder, UpdateOrder, CreateOrder, UpsertOrder, ListOrder,
     DeleteOrder DEF Pass

\* An action has the store for itself.
LEMMA ActAlone ==
    ASSUME MailSane, MailBase, Orderly, Ordered, NEW a \in Actors, Act(a)
    PROVE  /\ \A s \in Syncers : syncer[s] = None /\ syncer'[s] = None
           /\ \A b \in Actors : b # a => action[b] = None /\ action'[b] = None
           /\ setting' = setting
           /\ \A m : Moving(m) <=> /\ action[a] # None /\ action[a].step = "moved"
                                   /\ \E k \in DOMAIN action[a].ids : action[a].ids[k][1] = m
           /\ \A m : Moving(m)' <=> /\ action'[a] # None /\ action'[a].step = "moved"
                                    /\ \E k \in DOMAIN action'[a].ids : action'[a].ids[k][1] = m
           /\ \A i \in Items : items[i].state = "inbox" \/ ~ setting.cleanup =>
                 \E r \in Bound : bindings[r].item = i
<1>1. action \in [Actors -> ActionRecords \cup {None}]
  BY Typed DEF MailBase
<1>2. ActorsSame(a) /\ UNCHANGED <<setting, syncer>>
  <2>1. CASE mailAction(a)
    BY <2>1, StartDoes
  <2>2. CASE Call(a)
    BY <2>2, CallDoes
  <2>3. CASE ApplyExternalBindingReconcileUpdates(a)
    BY <2>3, ApplyDoes
  <2>4. CASE UpdateMailActionLogResult(a)
    BY <1>1, <2>4, Typed DEF UpdateMailActionLogResult, ActorsSame, MailBase
  <2> QED
    BY <2>1, <2>2, <2>3, <2>4 DEF Act
<1>3. action[a] # None \/ Passing \cup Acting = {}
  BY DEF Act, mailAction, Call, ApplyExternalBindingReconcileUpdates, UpdateMailActionLogResult,
         Doing, MayStart, Orderly
<1>4. /\ \A s \in Syncers : syncer[s] = None
      /\ \A b \in Actors : b # a => action[b] = None
  BY <1>3 DEF Ordered, Single, Passing, Acting
<1>5. \A b \in Actors : b # a => action'[b] = None
  BY <1>2, <1>4 DEF ActorsSame
<1>6. /\ \A m : Moving(m) <=> /\ action[a] # None /\ action[a].step = "moved"
                              /\ \E k \in DOMAIN action[a].ids : action[a].ids[k][1] = m
      /\ \A m : Moving(m)' <=> /\ action'[a] # None /\ action'[a].step = "moved"
                               /\ \E k \in DOMAIN action'[a].ids : action'[a].ids[k][1] = m
  BY <1>4, <1>5 DEF Moving
<1>7. \A i \in Items : items[i].state = "inbox" \/ ~ setting.cleanup =>
                 \E r \in Bound : bindings[r].item = i
  BY <1>4 DEF Ordered, OrderlyItems
<1> QED
  BY <1>2, <1>4, <1>5, <1>6, <1>7

\* What a step of an action has to keep.
LEMMA ActOrder ==
    ASSUME MailSane, MailBase, Orderly, Ordered, NEW a \in Actors, Act(a),
           \A r \in Bound' : /\ r[1] \in setting.messages /\ (Alive(r)' \/ Moving(r[1])')
                             /\ bindings'[r].item # None => items'[bindings'[r].item].about = r[1],
           \A i \in Items' : /\ items'[i].state = "inbox" \/ ~ setting.cleanup =>
                                   \E r \in Bound' : bindings'[r].item = i
                             /\ remote'[items'[i].about].folder = "archive" =>
                                   items'[i].state = "done" \/ Moving(items[i].about)',
           \A m \in Messages : remote'[m].folder \in {"inbox", "archive"},
           setting.cleanup \/ \A i, j \in Items' : items'[i].about = items'[j].about => i = j,
           action'[a] # None => OrderlyAct(action[a])'
    PROVE  Ordered'
<1>1. /\ \A s \in Syncers : syncer'[s] = None
      /\ \A b \in Actors : b # a => action'[b] = None
      /\ setting' = setting
  BY ActAlone
<1>2. Single'
  BY <1>1 DEF Single
<1>3. OrderlyTable'
  BY <1>1 DEF OrderlyTable
<1>4. OrderlyItems'
  BY <1>1 DEF OrderlyItems
<1>5. \A b \in Actors : action'[b] # None => OrderlyAct(action[b])'
  BY <1>1
<1> QED
  BY <1>1, <1>2, <1>3, <1>4, <1>5 DEF Ordered

LEMMA StartOrder ==
    ASSUME MailSane, MailBase, Orderly, Ordered, NEW a \in Actors, mailAction(a)
    PROVE  Ordered'
<1>1. Act(a)
  BY DEF Act
<1>2. /\ UNCHANGED <<setting, remote, items, bindings, syncer>>
      /\ action[a] = None /\ action'[a] # None /\ action'[a].step = "logged"
      /\ action'[a].kind \in setting.kinds
      /\ \A k \in DOMAIN action'[a].ids : Alive(action'[a].ids[k])
  BY StartDoes
<1>3. Bound' = Bound /\ Items' = Items /\ \A r : Alive(r)' <=> Alive(r)
  BY <1>2 DEF Bound, Items, Alive, Id
<1>4. \A m : ~ Moving(m)
  BY <1>1, <1>2, ActAlone
<1>5. OrderlyTable /\ OrderlyItems
  BY DEF Ordered
<1>6. \A i \in Items : items[i].state = "inbox" \/ ~ setting.cleanup =>
         \E r \in Bound : bindings[r].item = i
  BY <1>1, ActAlone
<1>7. OrderlyAct(action[a])'
  <2>1. PICK q : q = action'[a]
    OBVIOUS
  <2>2. OrderlyAct(q)'
    BY <1>2, <1>3, <2>1 DEF OrderlyAct
  <2> QED
    BY <2>1, <2>2 DEF OrderlyAct
<1>8. \A r \in Bound' : /\ r[1] \in setting.messages /\ (Alive(r)' \/ Moving(r[1])')
                        /\ bindings'[r].item # None => items'[bindings'[r].item].about = r[1]
  BY <1>2, <1>3, <1>4, <1>5 DEF OrderlyTable
<1>9. \A i \in Items' : /\ items'[i].state = "inbox" \/ ~ setting.cleanup =>
                              \E r \in Bound' : bindings'[r].item = i
                        /\ remote'[items'[i].about].folder = "archive" =>
                              items'[i].state = "done" \/ Moving(items[i].about)'
  BY <1>2, <1>3, <1>4, <1>5, <1>6 DEF OrderlyItems
<1>10. /\ \A m \in Messages : remote'[m].folder \in {"inbox", "archive"}
       /\ setting.cleanup \/ \A i, j \in Items' : items'[i].about = items'[j].about => i = j
  BY <1>2, <1>3, <1>5 DEF OrderlyItems
<1> QED
  BY <1>1, <1>7, <1>8, <1>9, <1>10, ActOrder

LEMMA CallOrder ==
    ASSUME MailSane, MailBase, Orderly, Ordered, NEW a \in Actors, Call(a)
    PROVE  Ordered'
<1> DEFINE act == action[a]
           ids == act.ids
           new == actionResolutions(ids, ToSet(ids))
<1>1. Act(a)
  BY DEF Act
<1>2. /\ act # None /\ act \in ActionRecords /\ act.step = "logged" /\ ActSound(act, remote, setting)
      /\ ids \in Seq(RemoteIds) /\ 1 \in DOMAIN ids /\ OrderlyAct(act)
  BY ActFacts, CallDoes DEF Ordered
<1>3. \A k \in DOMAIN ids : ids[k] \in RemoteIds /\ Alive(ids[k]) /\ ids[k] \in ToSet(ids)
  BY <1>2 DEF OrderlyAct, ToSet
<1>4. Alives(ids) = ToSet(ids) /\ ToSet(ids) \subseteq RemoteIds
  BY <1>3 DEF Alives, ToSet
<1> DEFINE after == [m \in Messages |->
                        IF Id(m) \in ToSet(ids)
                        THEN [folder |-> Target(act.kind), version |-> remote[m].version + 1]
                        ELSE remote[m]]
<1>5. /\ UNCHANGED <<setting, items, bindings>> /\ action'[a] # None
      /\ action'[a].ids = ids /\ action'[a].kind = act.kind /\ action'[a].step = "moved"
      /\ action'[a].new = new /\ remote' = after
  <2>1. setting.outcomes = {"ok"} /\ ids[1] \in Alives(ids)
    BY <1>2, <1>3, <1>4 DEF Orderly
  <2> QED
    BY <1>4, <2>1, CallDoes
<1>6. PICK rn : /\ rn = action'[a].new /\ DOMAIN rn = DOMAIN ids
                /\ \A k \in DOMAIN ids : rn[k] = NewId(ids[k])
  <2> DEFINE pair == [ids |-> ids, new |-> new]
  <2>1. Exact(pair)
    BY <1>2, <1>3, Resolutions DEF ActSound
  <2> HIDE DEF new
  <2> QED
    BY <1>5, <2>1 DEF Exact
<1> HIDE DEF new, after
<1>7. /\ remote \in Mailbox /\ MaxVersion \in Nat /\ act.kind \in setting.kinds
      /\ setting.kinds \subseteq {"archive", "move_to_inbox"}
  BY <1>2, Typed DEF MailBase, MailSane, OrderlyAct, Orderly
<1>8. Bound' = Bound /\ Items' = Items /\ OrderlyTable /\ OrderlyItems
  BY <1>5 DEF Bound, Items, Ordered
<1>9. \A m : ~ Moving(m)
  BY <1>1, <1>2, ActAlone
<1>10. \A m : Moving(m)' <=> \E k \in DOMAIN ids : ids[k][1] = m
  BY <1>1, <1>5, ActAlone
<1>11. \A i \in Items : items[i].state = "inbox" \/ ~ setting.cleanup =>
          \E r \in Bound : bindings[r].item = i
  BY <1>1, ActAlone
\* What the messages have afterwards.
<1>12. ASSUME NEW k \in DOMAIN ids
       PROVE  /\ ids[k][1] \in Messages /\ ids[k][2] = remote[ids[k][1]].version
              /\ ids[k][2] \in Nat /\ ids[k] = <<ids[k][1], ids[k][2]>>
              /\ remote'[ids[k][1]] = [folder |-> Target(act.kind), version |-> ids[k][2] + 1]
  <2>1. /\ ids[k][1] \in Messages /\ ids[k][2] \in Nat /\ ids[k] = <<ids[k][1], ids[k][2]>>
        /\ Id(ids[k][1]) = ids[k]
    BY <1>3 DEF RemoteIds, Alive
  <2>2. ids[k][2] = remote[ids[k][1]].version
    BY <2>1 DEF Id
  <2> QED
    BY <1>3, <1>5, <2>1, <2>2 DEF after
<1>13. ASSUME NEW m \in Messages, \A k \in DOMAIN ids : ids[k][1] # m
       PROVE  remote'[m] = remote[m]
  <2>1. Id(m) \notin ToSet(ids)
    BY <1>13 DEF Id, ToSet
  <2> QED
    BY <1>5, <2>1 DEF after
<1>14. \A r \in Bound : r \in RemoteIds /\ r[1] \in Messages /\ Alive(r)
  BY <1>8, <1>9 DEF OrderlyTable, Bound, RemoteIds
<1>15. \A r \in Bound : /\ r[1] \in setting.messages /\ (Alive(r)' \/ Moving(r[1])')
                        /\ bindings[r].item # None => items[bindings[r].item].about = r[1]
  <2> TAKE r \in Bound
  <2>1. CASE Moving(r[1])'
    BY <1>8, <2>1 DEF OrderlyTable
  <2>2. CASE ~ Moving(r[1])'
    <3>1. remote'[r[1]] = remote[r[1]]
      BY <1>10, <1>13, <1>14, <2>2
    <3>2. Alive(r)'
      BY <1>14, <3>1 DEF Alive, Id
    <3> QED
      BY <1>8, <3>2 DEF OrderlyTable
  <2> QED
    BY <2>1, <2>2
<1>16. \A i \in Items : /\ items[i].state = "inbox" \/ ~ setting.cleanup =>
                              \E r \in Bound : bindings[r].item = i
                        /\ remote'[items[i].about].folder = "archive" =>
                              items[i].state = "done" \/ Moving(items[i].about)'
  <2> TAKE i \in Items
  <2>1. items[i].about \in Messages
    BY TablesHere DEF Tables, Items, ItemRecords
  <2>2. ASSUME ~ Moving(items[i].about)' PROVE remote'[items[i].about] = remote[items[i].about]
    BY <1>5, <1>10, <1>13, <2>1, <2>2
  <2>3. remote[items[i].about].folder = "archive" => items[i].state = "done"
    BY <1>8, <1>9 DEF OrderlyItems
  <2> QED
    BY <1>11, <2>2, <2>3
<1>17. \A m \in Messages : remote'[m].folder \in {"inbox", "archive"}
  <2> TAKE m \in Messages
  <2>1. ASSUME NEW k \in DOMAIN ids, ids[k][1] = m
        PROVE  remote'[m].folder \in {"inbox", "archive"}
    <3>1. act.kind \in {"archive", "move_to_inbox"}
      BY <1>7
    <3>2. Target(act.kind) \in {"inbox", "archive"}
      BY <3>1 DEF Target
    <3>3. remote'[ids[k][1]] = [folder |-> Target(act.kind), version |-> ids[k][2] + 1]
      BY <1>12
    <3> HIDE DEF act
    <3> QED
      BY <2>1, <3>2, <3>3
  <2>2. CASE \A k \in DOMAIN ids : ids[k][1] # m
    BY <1>8, <1>13, <2>2 DEF OrderlyItems
  <2> QED
    BY <2>1, <2>2
<1>18. ASSUME NEW k \in DOMAIN ids
       PROVE  /\ Alive(rn[k])' /\ rn[k] \notin Bound
              /\ remote'[ids[k][1]].folder = Target(act.kind)
              /\ \A r \in Bound : r[1] = ids[k][1] => r = ids[k]
  <2>0. PICK m, v : m = ids[k][1] /\ v = ids[k][2]
    OBVIOUS
  <2>1. /\ v \in Nat /\ ids[k] = <<m, v>>
        /\ remote[m].version = v /\ remote'[m].version = v + 1
        /\ remote'[m].folder = Target(act.kind)
    <3>1. /\ v \in Nat /\ ids[k] = <<m, v>> /\ remote[m].version = v
          /\ remote'[m] = [folder |-> Target(act.kind), version |-> v + 1]
      BY <1>12, <2>0
    <3> QED
      BY <3>1
  <2>2. rn[k] = <<m, v + 1>>
    BY <1>6, <2>0, <2>1 DEF NewId
  <2>3. Alive(rn[k])'
    BY <2>1, <2>2 DEF Alive, Id
  <2>4. ~ Alive(rn[k])
    <3>1. Id(rn[k][1]) = <<m, v>>
      BY <2>1, <2>2 DEF Id
    <3>2. <<m, v>> # <<m, v + 1>>
      BY <2>1
    <3> QED
      BY <2>2, <3>1, <3>2 DEF Alive
  <2>5. \A r \in Bound : r[1] = ids[k][1] => r = ids[k]
    BY <1>3, <1>14 DEF Alive
  <2> QED
    BY <1>14, <2>0, <2>1, <2>3, <2>4, <2>5
<1>19. OrderlyAct(action[a])'
  <2>1. PICK q : q = action'[a]
    OBVIOUS
  <2>2. OrderlyAct(q)'
    <3>1. q.ids = ids /\ q.new = rn /\ q.kind = act.kind /\ q.step = "moved"
      BY <1>5, <1>6, <2>1
    <3>2. \A k \in DOMAIN ids :
             /\ rn[k] = NewId(ids[k]) /\ Alive(rn[k])' /\ rn[k] \notin Bound'
             /\ remote'[ids[k][1]].folder = Target(act.kind)
             /\ \A r \in Bound' : r[1] = ids[k][1] => r = ids[k]
      BY <1>6, <1>8, <1>18
    <3>3. setting' = setting /\ DOMAIN rn = DOMAIN ids
      BY <1>5, <1>6
    <3> QED
      BY <1>7, <3>1, <3>2, <3>3 DEF OrderlyAct
  <2> QED
    BY <2>1, <2>2 DEF OrderlyAct
<1>20. setting.cleanup \/ \A i, j \in Items' : items'[i].about = items'[j].about => i = j
  BY <1>5, <1>8 DEF OrderlyItems
<1>21. \A r \in Bound' : /\ r[1] \in setting.messages /\ (Alive(r)' \/ Moving(r[1])')
                         /\ bindings'[r].item # None => items'[bindings'[r].item].about = r[1]
  BY <1>5, <1>8, <1>15
<1>22. \A i \in Items' : /\ items'[i].state = "inbox" \/ ~ setting.cleanup =>
                               \E r \in Bound' : bindings'[r].item = i
                         /\ remote'[items'[i].about].folder = "archive" =>
                               items'[i].state = "done" \/ Moving(items[i].about)'
  BY <1>5, <1>8, <1>16
<1> QED
  BY <1>1, <1>17, <1>19, <1>20, <1>21, <1>22, ActOrder

LEMMA LogOrder ==
    ASSUME MailSane, MailBase, Orderly, Ordered, NEW a \in Actors, UpdateMailActionLogResult(a)
    PROVE  Ordered'
<1>1. Act(a)
  BY DEF Act
<1>2. /\ UNCHANGED <<setting, remote, items, bindings>> /\ action[a] # None
      /\ action[a].step # "moved" /\ action'[a] = None
  BY Typed DEF UpdateMailActionLogResult, MailBase
<1>3. Bound' = Bound /\ Items' = Items /\ \A r : Alive(r)' <=> Alive(r)
  BY <1>2 DEF Bound, Items, Alive, Id
<1>4. \A m : ~ Moving(m)
  BY <1>1, <1>2, ActAlone
<1>5. OrderlyTable /\ OrderlyItems
  BY DEF Ordered
<1>6. \A i \in Items : items[i].state = "inbox" \/ ~ setting.cleanup =>
         \E r \in Bound : bindings[r].item = i
  BY <1>1, ActAlone
<1>7. \A r \in Bound' : /\ r[1] \in setting.messages /\ (Alive(r)' \/ Moving(r[1])')
                        /\ bindings'[r].item # None => items'[bindings'[r].item].about = r[1]
  BY <1>2, <1>3, <1>4, <1>5 DEF OrderlyTable
<1>8. \A i \in Items' : /\ items'[i].state = "inbox" \/ ~ setting.cleanup =>
                              \E r \in Bound' : bindings'[r].item = i
                        /\ remote'[items'[i].about].folder = "archive" =>
                              items'[i].state = "done" \/ Moving(items[i].about)'
  BY <1>2, <1>3, <1>4, <1>5, <1>6 DEF OrderlyItems
<1>9. /\ \A m \in Messages : remote'[m].folder \in {"inbox", "archive"}
      /\ setting.cleanup \/ \A i, j \in Items' : items'[i].about = items'[j].about => i = j
  BY <1>2, <1>3, <1>5 DEF OrderlyItems
<1> QED
  BY <1>1, <1>2, <1>7, <1>8, <1>9, ActOrder

LEMMA ApplyOrder ==
    ASSUME MailSane, MailBase, Orderly, Ordered, NEW a \in Actors,
           ApplyExternalBindingReconcileUpdates(a)
    PROVE  Ordered'
<1> DEFINE act == action[a]
           ids == act.ids
           new == act.new
           carries(k, i) == k \in Carried(act) /\ bindings[ids[k]].item = i
<1>1. Act(a)
  BY DEF Act
<1>2. /\ UNCHANGED <<setting, remote>> /\ act # None /\ act.step = "moved" /\ action'[a] # None
      /\ action'[a].step = "reconciled" /\ action'[a].kind = act.kind
      /\ bindings' = Reconciled(act) /\ items' = FollowedUp(act)
  BY ApplyDoes DEF Orderly
<1>3. act \in ActionRecords /\ ActSound(act, remote, setting) /\ Resolves(act) /\ OrderlyAct(act)
      /\ DOMAIN new = DOMAIN ids
  BY <1>2, ActFacts DEF ActSound, Resolves, Ordered
<1>4. /\ act.kind \in {"archive", "move_to_inbox"}
      /\ \A k \in DOMAIN ids :
            /\ new[k] = NewId(ids[k]) /\ Alive(new[k]) /\ new[k] \notin Bound
            /\ remote[ids[k][1]].folder = Target(act.kind)
            /\ \A r \in Bound : r[1] = ids[k][1] => r = ids[k]
  BY <1>2, <1>3 DEF OrderlyAct, Orderly
<1>5. /\ \A k \in Carried(act) : k \in DOMAIN ids /\ ids[k] \in Bound
      /\ \A k \in DOMAIN ids : ids[k] \in Bound => k \in Carried(act)
      /\ \A k \in DOMAIN ids : ids[k] \in RemoteIds
  BY <1>3, <1>4 DEF Carried, Bound, ActionRecords
<1>6. Items' = Items /\ Tables
  BY ApplyBase, TablesHere
<1>7. \A i \in Items : /\ items'[i].about = items[i].about
                       /\ items'[i].state = IF \E k \in Carried(act) : carries(k, i)
                                            THEN ItemState(act.kind) ELSE items[i].state
  BY <1>2, <1>3, <1>6, FollowedDoes
<1>8. /\ \A m : Moving(m) <=> \E k \in DOMAIN ids : ids[k][1] = m
      /\ \A m : ~ Moving(m)'
  BY <1>1, <1>2, ActAlone
<1>9. OrderlyTable /\ OrderlyItems
  BY DEF Ordered
<1>10. \A i \in Items : items[i].state = "inbox" \/ ~ setting.cleanup =>
          \E r \in Bound : bindings[r].item = i
  BY <1>1, ActAlone
<1>11. \A r : Alive(r)' <=> Alive(r)
  BY <1>2 DEF Alive, Id
\* A binding is that of an old id, or was there before.
<1>12. ASSUME NEW r \in RemoteIds
       PROVE  \/ \E k \in Carried(act) : /\ new[k] = r /\ bindings'[r] # None
                                         /\ bindings'[r].item = bindings[ids[k]].item
              \/ /\ \A k \in DOMAIN ids : ~ (k \in Carried(act) /\ new[k] = r)
                 /\ \E k \in Carried(act) : ids[k] = r
                 /\ bindings'[r] = None
              \/ /\ \A k \in Carried(act) : new[k] # r /\ ids[k] # r
                 /\ bindings'[r] = bindings[r]
  <2> DEFINE x == Reconciled(act)[r]
             to(k) == k \in Carried(act) /\ act.new[k] = r
             of(k) == k \in Carried(act) /\ act.ids[k] = r
  <2>1. \/ \E k \in DOMAIN act.ids :
              /\ to(k) /\ (act.ids[k] = r \/ bindings[r] = None) /\ x \in BindingRecords
              /\ x.row = bindings[act.ids[k]].row /\ x.item = bindings[act.ids[k]].item
              /\ ~ x.stale
        \/ \E k \in DOMAIN act.ids :
              /\ to(k) /\ act.ids[k] # r /\ bindings[r] # None /\ x \in BindingRecords
              /\ x.row = bindings[r].row /\ ~ x.stale
              /\ x.item = IF bindings[r].item = None THEN bindings[act.ids[k]].item
                          ELSE bindings[r].item
        \/ (\A k \in DOMAIN act.ids : ~ to(k)) /\ (\E k \in DOMAIN act.ids : of(k)) /\ x = None
        \/ (\A k \in DOMAIN act.ids : ~ to(k) /\ ~ of(k)) /\ x = bindings[r]
    BY <1>3, <1>6, ReconciledIs
  <2>2. bindings'[r] = x
    BY <1>2
  <2> HIDE DEF x
  <2>3. \A k \in DOMAIN ids : to(k) => bindings[r] = None
    BY <1>4 DEF Bound
  <2>4. None \notin BindingRecords
    BY DEF MailSane
  <2> QED
    BY <1>5, <2>1, <2>2, <2>3, <2>4
<1>13. ASSUME NEW k \in Carried(act)
       PROVE  /\ ids[k][1] \in setting.messages /\ new[k] \in Bound'
              /\ bindings'[new[k]].item = bindings[ids[k]].item
  <2>1. new[k] \in RemoteIds /\ k \in DOMAIN ids
    BY <1>3, <1>5 DEF ActionRecords
  <2>2. \A j \in Carried(act) : new[j] = new[k] => j = k
    BY <1>3, <1>5 DEF Resolves
  <2>3. bindings'[new[k]] # None /\ bindings'[new[k]].item = bindings[ids[k]].item
    BY <1>12, <2>1, <2>2
  <2> QED
    BY <1>5, <1>9, <2>1, <2>3 DEF OrderlyTable, Bound
<1>14. ASSUME NEW r \in Bound'
       PROVE  /\ r[1] \in setting.messages /\ (Alive(r)' \/ Moving(r[1])')
              /\ bindings'[r].item # None => items'[bindings'[r].item].about = r[1]
  <2>1. r \in RemoteIds /\ bindings'[r] # None
    BY DEF Bound
  <2>2. ASSUME NEW k \in Carried(act), new[k] = r, bindings'[r].item = bindings[ids[k]].item
        PROVE  /\ r[1] \in setting.messages /\ Alive(r)'
               /\ bindings'[r].item # None => items'[bindings'[r].item].about = r[1]
    <3>1. r[1] = ids[k][1] /\ Alive(r) /\ ids[k] \in Bound /\ k \in DOMAIN ids
      BY <1>4, <1>5, <2>2 DEF NewId
    <3>2. bindings[ids[k]].item # None => bindings[ids[k]].item \in Items
      BY <1>6, <3>1 DEF Tables
    <3>3. bindings[ids[k]].item # None => items[bindings[ids[k]].item].about = r[1]
      BY <1>9, <3>1 DEF OrderlyTable
    <3> QED
      BY <1>7, <1>11, <1>13, <2>2, <3>1, <3>2, <3>3
  <2>3. ASSUME \A k \in Carried(act) : new[k] # r /\ ids[k] # r, bindings'[r] = bindings[r]
        PROVE  /\ r[1] \in setting.messages /\ Alive(r)'
               /\ bindings'[r].item # None => items'[bindings'[r].item].about = r[1]
    <3>1. r \in Bound
      BY <2>1, <2>3 DEF Bound
    <3>2. ~ Moving(r[1])
      BY <1>4, <1>5, <1>8, <2>3, <3>1
    <3>3. bindings[r].item # None => bindings[r].item \in Items
      BY <1>6, <3>1 DEF Tables
    <3> QED
      BY <1>7, <1>9, <1>11, <2>3, <3>1, <3>2, <3>3 DEF OrderlyTable
  <2> QED
    BY <1>12, <2>1, <2>2, <2>3
<1>15. ASSUME NEW i \in Items, NEW r \in Bound, bindings[r].item = i
       PROVE  \E q \in Bound' : bindings'[q].item = i
  <2>1. r \in RemoteIds /\ bindings[r] # None
    BY DEF Bound
  <2>2. ASSUME NEW k \in Carried(act), ids[k] = r
        PROVE  \E q \in Bound' : bindings'[q].item = i
    BY <1>13, <1>15, <2>2
  <2>3. ASSUME NEW k \in Carried(act), new[k] = r
        PROVE  FALSE
    BY <1>4, <1>5, <2>3
  <2>4. ASSUME \A k \in Carried(act) : new[k] # r /\ ids[k] # r, bindings'[r] = bindings[r]
        PROVE  \E q \in Bound' : bindings'[q].item = i
    BY <1>15, <2>1, <2>4 DEF Bound
  <2> QED
    BY <1>12, <2>1, <2>2, <2>3, <2>4
\* What an item's binding is carried over with is its message.
<1>16. ASSUME NEW i \in Items, NEW k \in Carried(act), carries(k, i)
       PROVE  items[i].about = ids[k][1]
  <2>1. i # None
    BY DEF Items, ItemIds, MailSane
  <2> QED
    BY <1>5, <1>9, <1>16, <2>1 DEF OrderlyTable
<1>17. ASSUME NEW i \in Items, remote[items[i].about].folder = "archive"
       PROVE  items'[i].state = "done"
  <2>1. CASE \E k \in Carried(act) : carries(k, i)
    <3>1. PICK k \in Carried(act) : carries(k, i)
      BY <2>1
    <3>2. items[i].about = ids[k][1] /\ k \in DOMAIN ids
      BY <1>5, <1>16, <3>1
    <3>3. act.kind = "archive"
      BY <1>4, <1>17, <3>2 DEF Target
    <3> QED
      BY <1>7, <2>1, <3>3 DEF ItemState
  <2>2. CASE ~ \E k \in Carried(act) : carries(k, i)
    <3>1. items'[i].state = items[i].state
      BY <1>7, <2>2
    <3>2. CASE items[i].state = "done"
      BY <3>1, <3>2
    <3>3. CASE items[i].state = "inbox"
      <4>1. PICK r \in Bound : bindings[r].item = i
        BY <1>10, <3>3
      <4>2. i # None
        BY DEF Items, ItemIds, MailSane
      <4>3. items[i].about = r[1]
        BY <1>9, <4>1, <4>2 DEF OrderlyTable
      <4>4. Moving(r[1])
        BY <1>9, <1>17, <3>3, <4>3 DEF OrderlyItems
      <4>5. PICK k \in DOMAIN ids : ids[k][1] = r[1]
        BY <1>8, <4>4
      <4>6. r = ids[k] /\ k \in Carried(act)
        BY <1>4, <1>5, <4>5
      <4> QED
        BY <2>2, <4>1, <4>6
    <3>4. items[i].state \in {"inbox", "done"}
      BY <1>6 DEF Tables, Items, ItemRecords
    <3> QED
      BY <3>2, <3>3, <3>4
  <2> QED
    BY <2>1, <2>2
<1>18. ASSUME NEW i \in Items, items'[i].state = "inbox" \/ ~ setting.cleanup
       PROVE  \E r \in Bound' : bindings'[r].item = i
  <2>1. CASE \E k \in Carried(act) : carries(k, i)
    BY <1>13, <2>1
  <2>2. CASE ~ \E k \in Carried(act) : carries(k, i)
    <3>1. items'[i].state = items[i].state
      BY <1>7, <2>2
    <3>2. PICK r \in Bound : bindings[r].item = i
      BY <1>10, <1>18, <3>1
    <3> QED
      BY <1>15, <3>2
  <2> QED
    BY <2>1, <2>2
<1>19. OrderlyAct(action[a])'
  <2>1. PICK q : q = action'[a]
    OBVIOUS
  <2>2. OrderlyAct(q)'
    BY <1>2, <1>3, <2>1 DEF OrderlyAct
  <2> QED
    BY <2>1, <2>2 DEF OrderlyAct
<1>20. /\ \A m \in Messages : remote'[m].folder \in {"inbox", "archive"}
       /\ setting.cleanup \/ \A i, j \in Items' : items'[i].about = items'[j].about => i = j
  BY <1>2, <1>6, <1>7, <1>9 DEF OrderlyItems
<1>21. \A i \in Items' : /\ items'[i].state = "inbox" \/ ~ setting.cleanup =>
                               \E r \in Bound' : bindings'[r].item = i
                         /\ remote'[items'[i].about].folder = "archive" =>
                               items'[i].state = "done" \/ Moving(items[i].about)'
  BY <1>2, <1>6, <1>7, <1>17, <1>18
<1> HIDE DEF carries
<1> QED
  BY <1>1, <1>14, <1>19, <1>20, <1>21, ActOrder

LEMMA ActOrdered ==
    ASSUME MailSane, MailBase, Orderly, Ordered, NEW a \in Actors, Act(a)
    PROVE  Ordered'
  BY StartOrder, CallOrder, ApplyOrder, LogOrder DEF Act

\* The table of bindings loses an item, or gets old.
LEMMA TableOrder ==
    ASSUME MailSane, MailBase, Orderly, Ordered, Tables',
           UNCHANGED <<setting, remote, syncer, action>>,
           Bound' = Bound, Items' \subseteq Items, \A i \in Items' : items'[i] = items[i],
           \A r \in Bound : /\ bindings'[r].row = bindings[r].row
                            /\ \/ bindings'[r].item = bindings[r].item
                               \/ bindings'[r].item = None /\ bindings[r].item \notin Items',
           Passing # {} => \A r \in Bound : bindings'[r].stale = bindings[r].stale
    PROVE  Ordered'
<1>1. Single'
  BY DEF Ordered, Single
<1>2. /\ \A r : Alive(r)' <=> Alive(r)
      /\ \A m : Moving(m)' <=> Moving(m)
      /\ In("inbox")' = In("inbox")
  BY DEF Alive, Id, Moving, In
<1>3. OrderlyTable /\ OrderlyItems
  BY DEF Ordered
<1>4. OrderlyTable'
  <2> SUFFICES ASSUME NEW r \in Bound
               PROVE  /\ r[1] \in setting.messages /\ (Alive(r) \/ Moving(r[1]))
                      /\ bindings'[r].item # None => items'[bindings'[r].item].about = r[1]
    BY <1>2 DEF OrderlyTable
  <2>1. bindings'[r].item \in Items' \cup {None}
    BY DEF Tables
  <2> QED
    BY <1>3, <2>1 DEF OrderlyTable
<1>5. OrderlyItems'
  <2>1. ASSUME NEW i \in Items', items[i].state = "inbox" \/ ~ setting.cleanup
        PROVE  \/ \E r \in Bound : bindings'[r].item = i
               \/ \E s \in Syncers : /\ syncer[s] # None /\ syncer[s].step = "stored"
                                     /\ syncer[s].item = i
    <3>1. CASE \E r \in Bound : bindings[r].item = i
      BY <3>1
    <3> QED
      BY <1>3, <2>1, <3>1 DEF OrderlyItems
  <2>2. \A i \in Items' : remote[items[i].about].folder = "archive" =>
           items[i].state = "done" \/ Moving(items[i].about)
    BY <1>3 DEF OrderlyItems
  <2>3. \A i \in Items' : remote'[items'[i].about].folder = "archive" =>
           items'[i].state = "done" \/ Moving(items[i].about)'
    <3> TAKE i \in Items'
    <3>1. PICK m : m = items[i].about
      OBVIOUS
    <3>2. Moving(m)' <=> Moving(m)
      BY <1>2
    <3>3. Moving(items[i].about)' <=> Moving(m)'
      BY <3>1 DEF Moving
    <3> QED
      BY <2>2, <3>1, <3>2, <3>3
  <2>4. setting'.cleanup \/ \A i, j \in Items' : items'[i].about = items'[j].about => i = j
    BY <1>3 DEF OrderlyItems
  <2>5. \A m \in Messages : remote'[m].folder \in {"inbox", "archive"}
    BY <1>3 DEF OrderlyItems
  <2>6. \A i \in Items' : items'[i].state = "inbox" \/ ~ setting'.cleanup =>
           \/ \E r \in Bound' : bindings'[r].item = i
           \/ \E s \in Syncers : /\ syncer'[s] # None /\ syncer'[s].step = "stored"
                                 /\ syncer'[s].item = i
    BY <2>1
  <2> QED
    BY <2>3, <2>4, <2>5, <2>6 DEF OrderlyItems
<1>6. ASSUME NEW s \in Syncers, syncer'[s] # None PROVE OrderlyPass(syncer[s])'
  <2>1. PICK p : p = syncer[s]
    OBVIOUS
  <2>2. OrderlyPass(p) /\ \A r \in Bound : bindings'[r].stale = bindings[r].stale
    BY <1>6, <2>1 DEF Ordered, Passing
  <2>3. p.item \in Items' => p.item \in Items
    OBVIOUS
  <2>4. OrderlyPass(p)'
    BY <1>2, <2>2, <2>3 DEF OrderlyPass
  <2> QED
    BY <2>1, <2>4 DEF OrderlyPass
<1>7. ASSUME NEW a \in Actors, action'[a] # None PROVE OrderlyAct(action[a])'
  <2>1. PICK act : act = action[a]
    OBVIOUS
  <2>2. OrderlyAct(act)
    BY <1>7, <2>1 DEF Ordered
  <2>3. OrderlyAct(act)'
    BY <2>2 DEF OrderlyAct, Alive, Id
  <2> QED
    BY <2>1, <2>3 DEF OrderlyAct
<1> QED
  BY <1>1, <1>4, <1>5, <1>6, <1>7 DEF Ordered

LEMMA DeleteItemOrder ==
    ASSUME MailSane, MailBase, Orderly, Ordered, NEW i \in ItemIds, DeleteItem(i)
    PROVE  Ordered'
<1>1. Tables' /\ Items' = Items \ {i}
  <2>1. MailBase' /\ Items' = Items \ {i}
    BY DeleteItemBase
  <2> QED
    BY <2>1 DEF MailBase, TypeOK, Tables
<1>2. items' = [items EXCEPT ![i] = None] /\ UNCHANGED <<setting, remote, syncer, action>>
      /\ bindings' = [r \in RemoteIds |-> IF r \in Bound /\ bindings[r].item = i
                                          THEN [bindings[r] EXCEPT !.item = None] ELSE bindings[r]]
  BY DEF DeleteItem
<1>3. Tables
  BY TablesHere
<1>4. \A j \in Items' : items'[j] = items[j]
  BY <1>1, <1>2, <1>3 DEF Tables
<1>5. ASSUME NEW r \in Bound
      PROVE  /\ bindings'[r] # None /\ bindings'[r].row = bindings[r].row
             /\ bindings'[r].stale = bindings[r].stale
             /\ \/ bindings'[r].item = bindings[r].item
                \/ bindings'[r].item = None /\ bindings[r].item \notin Items'
  <2>1. r \in RemoteIds /\ bindings[r] # None /\ bindings[r] \in BindingRecords
    BY <1>3 DEF Bound, Tables
  <2> DEFINE x == [bindings[r] EXCEPT !.item = None]
  <2>2. /\ x \in BindingRecords /\ x.row = bindings[r].row /\ x.stale = bindings[r].stale
        /\ x.item = None
    BY <2>1 DEF BindingRecords
  <2>3. bindings'[r] = IF bindings[r].item = i THEN x ELSE bindings[r]
    BY <1>2, <2>1
  <2> HIDE DEF x
  <2>4. x # None
    BY <2>2 DEF MailSane
  <2> QED
    BY <1>1, <2>1, <2>2, <2>3, <2>4
<1>6. Bound' = Bound
  <2>1. \A r \in RemoteIds : r \notin Bound => bindings'[r] = None
    BY <1>2 DEF Bound
  <2> QED
    BY <1>5, <2>1 DEF Bound
<1> QED
  BY <1>1, <1>2, <1>4, <1>5, <1>6, TableOrder

LEMMA AgeOrder ==
    ASSUME MailSane, MailBase, Orderly, Ordered, NEW r \in RemoteIds, Age(r)
    PROVE  Ordered'
<1>1. Tables
  BY TablesHere
<1>2. bindings[r] \in BindingRecords /\ bindings \in [RemoteIds -> BindingRecords \cup {None}]
  BY <1>1 DEF Age, Tables, Bound
<1> DEFINE aged == [bindings[r] EXCEPT !.stale = TRUE]
<1>3. aged \in BindingRecords /\ aged.item = bindings[r].item /\ aged.row = bindings[r].row
  BY <1>2 DEF BindingRecords
<1>4. /\ bindings' = [bindings EXCEPT ![r] = aged] /\ r \in Bound /\ Passing = {}
      /\ UNCHANGED <<setting, remote, items, syncer, action>>
  BY DEF Age
<1> HIDE DEF aged
<1>5. Bound' = Bound /\ \A q \in Bound : /\ bindings'[q].item = bindings[q].item
                                         /\ bindings'[q].row = bindings[q].row
  BY <1>2, <1>3, <1>4 DEF Bound, MailSane
<1>6. Tables' /\ Items' = Items
  <2>1. MailBase'
    BY AgeBase
  <2> QED
    BY <1>4, <2>1 DEF MailBase, TypeOK, Tables, Items
<1> QED
  BY <1>4, <1>5, <1>6, TableOrder

LEMMA NextOrder ==
    ASSUME MailSane, MailBase, Orderly => Ordered, [Next]_vars
    PROVE  (Orderly => Ordered)'
<1> SUFFICES ASSUME Orderly'
             PROVE  Ordered'
  OBVIOUS
<1>1. setting' = setting
  BY DEF Next, Pass, Act, Sync, resolveItemTarget, UpdateItem, CreateItem, UpsertExternalBinding,
         SyncFails, ListStaleBindings, DeleteBinding, SyncEnds, mailAction, Call,
         ApplyExternalBindingReconcileUpdates, UpdateMailActionLogResult, OwnerMoves, DeleteItem,
         Age, Restart, vars
<1>2. Orderly /\ Ordered
  BY <1>1 DEF Orderly
<1>3. ASSUME UNCHANGED vars PROVE Ordered'
  <2>1. Tables'
    BY <1>3, TablesHere, TablesKept DEF vars
  <2>2. Bound' = Bound /\ Items' = Items
    BY <1>3 DEF Bound, Items, vars
  <2> QED
    BY <1>2, <1>3, <2>1, <2>2, TableOrder DEF vars
<1>4. ASSUME NEW s \in Syncers, Pass(s) PROVE Ordered'
  BY <1>2, <1>4, PassOrdered
<1>5. ASSUME NEW a \in Actors, Act(a) PROVE Ordered'
  BY <1>2, <1>5, ActOrdered
<1>6. ASSUME NEW i \in ItemIds, DeleteItem(i) PROVE Ordered'
  BY <1>2, <1>6, DeleteItemOrder
<1>7. ASSUME NEW r \in RemoteIds, Age(r) PROVE Ordered'
  BY <1>2, <1>7, AgeOrder
<1>8. ~ Restart /\ \A m, folder : ~ OwnerMoves(m, folder)
  BY <1>2 DEF Orderly, Restart, OwnerMoves
<1> QED
  BY <1>3, <1>4, <1>5, <1>6, <1>7, <1>8 DEF Next

\* One at a time, a message keeps its item, and its item is done when it is archived, for any number
\* of messages, accounts and actions, with any number of messages each.
THEOREM MessagesHaveOneItem == Spec => []OneItemPerMessage
<1>0. MailSane
  BY MailAssumption
<1>1. Init => MailBase /\ (Orderly => Ordered)
  <2> SUFFICES ASSUME Init PROVE Ordered
    BY <1>0, InitBase
  <2>1. Bound = {} /\ Items = {} /\ \A m \in Messages : remote[m].folder = "inbox"
    BY DEF Init, Bound, Items
  <2>2. (\A s \in Syncers : syncer[s] = None) /\ (\A a \in Actors : action[a] = None)
    BY DEF Init
  <2> QED
    BY <2>1, <2>2 DEF Ordered, Single, OrderlyTable, OrderlyItems
<1>2. MailBase /\ (Orderly => Ordered) /\ [Next]_vars => MailBase' /\ (Orderly => Ordered)'
  BY <1>0, NextBase, NextOrder
<1>3. (Orderly => Ordered) => OneItemPerMessage
  BY DEF Ordered, OrderlyItems, OneItemPerMessage, Moving, Acting
<1> QED
  BY <1>1, <1>2, <1>3, PTL DEF Spec

---------------------------------------------------------------------------
(* Handoffs.                                                                   *)

\* The clients whose reply with the n-th consume of h is under way.
Replying(h, n) == {c \in Clients : Registry!At(c, "reply") /\ call[c].id = h /\ call[c].n = n}

\* A call past its lookup names a stored record, and a reply names a counted consume.
CallsSound ==
    \A c \in Clients :
       /\ Registry!At(c, "store") =>
             call[c].record \in Registry!Records /\ call[c].record.consumedCount = 0
       /\ call[c].at \in {"consume", "revoke", "reply", "peek", "lookup"} =>
             call[c].id \in Handoffs /\ handoffs[call[c].id] # None
       /\ Registry!At(c, "reply") => call[c].n \in 1 .. handoffs[call[c].id].consumedCount

\* What is stored keeps within its limit, and what was served was counted.
RecordsSound ==
    \A h \in Handoffs :
       /\ handoffs[h] # None => handoffs[h].consumedCount <= handoffs[h].maxConsumes
       /\ \A s \in served[h] : handoffs[h] # None /\ s[1] \in 1 .. handoffs[h].consumedCount

\* One consume, one recipient.
OneRecipient ==
    \A h \in Handoffs :
       /\ \A s, t \in served[h] : s[1] = t[1] => s = t
       /\ \A c, d \in Clients : \A n \in Nat : c \in Replying(h, n) /\ d \in Replying(h, n) => c = d
       /\ \A s \in served[h] : Replying(h, s[1]) = {}

RegistryInv == Registry!TypeOK /\ CallsSound /\ RecordsSound /\ OneRecipient

\* The record a create stores is well-formed and unconsumed.
LEMMA PolicyType ==
    ASSUME Registry!TypeOK, NEW max \in (0 .. MaxConsumes) \cup {None},
           NEW expiresAt \in Registry!Times \cup {None}, NEW ttl \in Registry!Times \cup {None}
    PROVE  /\ Registry!Policy(max, expiresAt, ttl) \in Registry!Records
           /\ Registry!Policy(max, expiresAt, ttl).consumedCount = 0
<1>1. now \in Nat /\ Registry!Times \subseteq Nat /\ 0 .. MaxConsumes \subseteq Nat
  BY RegistryAssumption DEF Registry!TypeOK, Registry!Times
<1>2. ttl # None => now + ttl \in Nat
  BY <1>1
<1> QED
  BY <1>1, <1>2 DEF Registry!Policy, Registry!Records, Registry!defaultHandoffMaxConsumes

LEMMA RegistryInitInv == Registry!Init => RegistryInv
<1> SUFFICES ASSUME Registry!Init PROVE RegistryInv
  OBVIOUS
<1>1. Registry!TypeOK
  BY RegistryAssumption DEF Registry!Init, Registry!TypeOK, Registry!NoCall, Registry!Calls,
     Registry!Times
<1>2. CallsSound /\ RecordsSound /\ OneRecipient
  BY DEF Registry!Init, CallsSound, RecordsSound, OneRecipient, Registry!At, Registry!NoCall,
     Replying
<1> QED
  BY <1>1, <1>2 DEF RegistryInv

\* A step that moves one call on, to no reply, and leaves the registry alone.
LEMMA MoveOn ==
    ASSUME RegistryInv, NEW c \in Clients, NEW r \in Registry!Calls, Registry!Goes(c, r),
           r.at # "reply",
           UNCHANGED <<handoffs, served>>, now' \in Registry!Times,
           r.at = "store" => r.record \in Registry!Records /\ r.record.consumedCount = 0,
           r.at \in {"consume", "revoke", "peek", "lookup"} =>
              r.id \in Handoffs /\ handoffs[r.id] # None
    PROVE  RegistryInv'
<1>1. /\ call' \in [Clients -> Registry!Calls]
      /\ call'[c] = r /\ \A d \in Clients : d # c => call'[d] = call[d]
  BY DEF RegistryInv, Registry!TypeOK, Registry!Goes
<1>2. Registry!TypeOK'
  BY <1>1 DEF RegistryInv, Registry!TypeOK
<1>3. CallsSound'
  BY <1>1 DEF RegistryInv, CallsSound, Registry!At
<1>4. RecordsSound'
  BY DEF RegistryInv, RecordsSound
<1>5. \A h \in Handoffs, n \in Nat : Replying(h, n)' \subseteq Replying(h, n)
  BY <1>1 DEF Replying, Registry!At
<1>6. \A h \in Handoffs : \A s \in served[h] : s[1] \in Nat
  BY DEF RegistryInv, Registry!TypeOK
<1>7. OneRecipient'
  BY <1>5, <1>6 DEF RegistryInv, OneRecipient
<1> QED
  BY <1>2, <1>3, <1>4, <1>7 DEF RegistryInv

LEMMA NoCallType == Registry!NoCall \in Registry!Calls
BY DEF Registry!NoCall, Registry!Calls

LEMMA ReturnInv ==
    ASSUME RegistryInv, NEW c \in Clients, Registry!Return(c), UNCHANGED <<handoffs, served, now>>
    PROVE  RegistryInv'
BY MoveOn, NoCallType DEF Registry!Return, Registry!NoCall, RegistryInv, Registry!TypeOK

LEMMA CallInv ==
    ASSUME RegistryInv, NEW c \in Clients,
           \/ \E max \in (0 .. MaxConsumes) \cup {None},
                 expiresAt, ttl \in Registry!Times \cup {None} :
                 Registry!mailHandoffCreate(c, max, expiresAt, ttl)
           \/ \E h \in Handoffs : \/ Registry!canvasImportHandoff(c, h)
                                  \/ Registry!handoffConsume(c, h) \/ Registry!handoffRevoke(c, h)
           \/ Registry!handoffPeek(c) \/ Registry!mcpToolCallFails(c)
    PROVE  RegistryInv'
<1> USE DEF RegistryInv, Registry!TypeOK
<1>0. call[c] \in Registry!Calls
  OBVIOUS
<1>1. ASSUME NEW max \in (0 .. MaxConsumes) \cup {None}, NEW expiresAt \in Registry!Times \cup {None},
             NEW ttl \in Registry!Times \cup {None},
             Registry!mailHandoffCreate(c, max, expiresAt, ttl)
      PROVE  RegistryInv'
  <2> DEFINE r == [Registry!NoCall EXCEPT !.at = "store",
                                          !.record = Registry!Policy(max, expiresAt, ttl)]
  <2>1. /\ Registry!Policy(max, expiresAt, ttl) \in Registry!Records
        /\ Registry!Policy(max, expiresAt, ttl).consumedCount = 0
    BY PolicyType
  <2>2. r \in Registry!Calls /\ r.at = "store" /\ r.record = Registry!Policy(max, expiresAt, ttl)
    BY <2>1, NoCallType DEF Registry!Calls, Registry!NoCall
  <2>3. Registry!Goes(c, r) /\ UNCHANGED <<handoffs, served, now>>
    BY <1>1 DEF Registry!mailHandoffCreate
  <2> QED
    BY <2>1, <2>2, <2>3, MoveOn
<1>2. ASSUME NEW h \in Handoffs, NEW r \in Registry!Calls, r.at \in {"consume", "revoke", "peek",
                                                                     "lookup"},
             r.id = h, handoffs[h] # None, Registry!Goes(c, r), UNCHANGED <<handoffs, served, now>>
      PROVE  RegistryInv'
  BY <1>2, MoveOn
<1>3. ASSUME NEW h \in Handoffs, Registry!canvasImportHandoff(c, h) \/ Registry!handoffRevoke(c, h)
      PROVE  RegistryInv'
  <2> DEFINE p == [Registry!NoCall EXCEPT !.at = "peek", !.over = "http", !.id = h]
             q == [Registry!NoCall EXCEPT !.at = "revoke", !.id = h]
  <2>1. p \in Registry!Calls /\ p.at = "peek" /\ p.id = h
    BY DEF Registry!Calls, Registry!NoCall
  <2>2. q \in Registry!Calls /\ q.at = "revoke" /\ q.id = h
    BY DEF Registry!Calls, Registry!NoCall
  <2>3. CASE Registry!canvasImportHandoff(c, h)
    <3>1. handoffs[h] # None /\ Registry!Goes(c, p) /\ UNCHANGED <<handoffs, served, now>>
      BY <2>3 DEF Registry!canvasImportHandoff
    <3> HIDE DEF p
    <3> QED
      BY <1>2, <2>1, <3>1
  <2>4. CASE Registry!handoffRevoke(c, h)
    <3>1. handoffs[h] # None /\ Registry!Goes(c, q) /\ UNCHANGED <<handoffs, served, now>>
      BY <2>4 DEF Registry!handoffRevoke
    <3> HIDE DEF q
    <3> QED
      BY <1>2, <2>2, <3>1
  <2> QED
    BY <1>3, <2>3, <2>4
<1>4. ASSUME NEW h \in Handoffs, Registry!handoffConsume(c, h)
      PROVE  RegistryInv'
  <2> DEFINE r == [call[c] EXCEPT !.at = "consume", !.id = h]
  <2>1. r \in Registry!Calls /\ r.at = "consume" /\ r.id = h
    BY <1>0 DEF Registry!Calls
  <2> QED
    BY <1>2, <1>4, <2>1 DEF Registry!handoffConsume
<1>5. ASSUME Registry!handoffPeek(c)
      PROVE  RegistryInv'
  <2> DEFINE r == [call[c] EXCEPT !.at = "lookup"]
  <2>1. r \in Registry!Calls /\ r.at = "lookup" /\ r.id = call[c].id
    BY <1>0 DEF Registry!Calls
  <2>2. r.id \in Handoffs /\ handoffs[r.id] # None
    BY <1>5, <2>1 DEF Registry!handoffPeek, CallsSound, Registry!At
  <2> QED
    BY <1>2, <1>5, <2>1, <2>2 DEF Registry!handoffPeek
<1>6. CASE Registry!mcpToolCallFails(c)
  BY <1>6, ReturnInv DEF Registry!mcpToolCallFails
<1> QED
  BY <1>1, <1>3, <1>4, <1>5, <1>6

\* A step that lets counts grow within their limits and leaves the recipients alone.
LEMMA RecordsKept ==
    ASSUME RegistryInv, Registry!TypeOK', served' = served,
           \A k \in Handoffs : handoffs'[k] # None =>
               handoffs'[k].consumedCount <= handoffs'[k].maxConsumes,
           \A k \in Handoffs : handoffs[k] # None =>
               handoffs'[k] # None /\ handoffs[k].consumedCount <= handoffs'[k].consumedCount
    PROVE  RecordsSound'
<1>1. ASSUME NEW k \in Handoffs, NEW s \in served[k]
      PROVE  handoffs'[k] # None /\ s[1] \in 1 .. handoffs'[k].consumedCount
  <2>1. handoffs[k] # None /\ s[1] \in 1 .. handoffs[k].consumedCount
    BY DEF RegistryInv, RecordsSound
  <2>2. handoffs'[k] # None /\ handoffs[k].consumedCount <= handoffs'[k].consumedCount
    BY <2>1
  <2> DEFINE m == handoffs[k].consumedCount
             m2 == handoffs'[k].consumedCount
  <2>3. m \in Nat
    <3>1. handoffs[k] \in Registry!Records
      BY <2>1 DEF RegistryInv, Registry!TypeOK
    <3> QED
      BY <3>1 DEF Registry!Records
  <2>4. m2 \in Nat
    <3>1. handoffs'[k] \in Registry!Records
      BY <2>2 DEF Registry!TypeOK
    <3> QED
      BY <3>1 DEF Registry!Records
  <2>5. m <= m2 /\ s[1] \in 1 .. m
    BY <2>1, <2>2
  <2> HIDE DEF m, m2
  <2>6. s[1] \in 1 .. m2
    BY <2>3, <2>4, <2>5
  <2> QED
    BY <2>2, <2>6 DEF m2
<1> QED
  BY <1>1 DEF RecordsSound

LEMMA StoreInv == ASSUME RegistryInv, NEW c \in Clients, NEW h \in Handoffs, Registry!store(c, h)
                  PROVE  RegistryInv'
<1>1. /\ call'[c] = Registry!NoCall /\ \A d \in Clients : d # c => call'[d] = call[d]
      /\ call' \in [Clients -> Registry!Calls]
  BY NoCallType DEF RegistryInv, Registry!TypeOK, Registry!store, Registry!Return, Registry!Goes
<1>2. /\ handoffs'[h] = call[c].record /\ \A k \in Handoffs : k # h => handoffs'[k] = handoffs[k]
      /\ call[c].record \in Registry!Records /\ call[c].record.consumedCount = 0
      /\ handoffs[h] = None /\ handoffs'[h] # None
  BY RegistryAssumption DEF RegistryInv, Registry!TypeOK, CallsSound, Registry!store
<1>3. Registry!TypeOK'
  BY <1>1, <1>2 DEF RegistryInv, Registry!TypeOK, Registry!store
<1>4. CallsSound'
  BY <1>1, <1>2 DEF RegistryInv, CallsSound, Registry!At, Registry!NoCall
<1>5. served' = served /\ served[h] = {}
  BY <1>2 DEF RegistryInv, RecordsSound, Registry!store
<1>6. call[c].record.maxConsumes \in Nat
  BY <1>2 DEF Registry!Records
<1>7. RecordsSound'
  BY <1>2, <1>5, <1>6 DEF RegistryInv, RecordsSound
<1>8. \A k \in Handoffs, n \in Nat : Replying(k, n)' \subseteq Replying(k, n)
  BY <1>1 DEF Replying, Registry!At, Registry!NoCall
<1>9. \A k \in Handoffs : \A s \in served[k] : s[1] \in Nat
  BY DEF RegistryInv, Registry!TypeOK
<1>10. OneRecipient'
  BY <1>5, <1>8, <1>9 DEF RegistryInv, OneRecipient
<1> QED
  BY <1>3, <1>4, <1>7, <1>10 DEF RegistryInv

LEMMA ConsumeInv == ASSUME RegistryInv, NEW c \in Clients, Registry!consume(c)
                    PROVE  RegistryInv'
<1> DEFINE h == call[c].id
           r == handoffs[h]
<1>1. CASE ~Registry!Consumable(r)
  BY <1>1, ReturnInv DEF Registry!consume
<1>2. CASE Registry!Consumable(r)
  <2>1. h \in Handoffs /\ r # None /\ r \in Registry!Records
    BY DEF RegistryInv, CallsSound, Registry!consume, Registry!At, Registry!TypeOK
  <2>2. r.consumedCount \in Nat /\ r.maxConsumes \in Nat /\ r.consumedCount < r.maxConsumes
    BY <1>2, <2>1 DEF Registry!Records, Registry!Consumable
  <2> DEFINE new == [r EXCEPT !.consumedCount = @ + 1]
             q == [call[c] EXCEPT !.at = "reply", !.n = r.consumedCount + 1]
  <2>3. /\ new \in Registry!Records /\ new # None
        /\ new.consumedCount = r.consumedCount + 1 /\ new.maxConsumes = r.maxConsumes
    BY <2>1, <2>2, RegistryAssumption DEF Registry!Records
  <2>4. handoffs'[h] = new /\ \A k \in Handoffs : k # h => handoffs'[k] = handoffs[k]
    BY <1>2, <2>1 DEF Registry!consume, RegistryInv, Registry!TypeOK
  <2>5. call[c] \in Registry!Calls
    BY DEF RegistryInv, Registry!TypeOK
  <2>6. q \in Registry!Calls /\ q.at = "reply" /\ q.id = h /\ q.n = r.consumedCount + 1
    <3>1. r.consumedCount + 1 \in Nat
      BY <2>2
    <3> HIDE DEF r
    <3> QED
      BY <3>1, <2>5 DEF Registry!Calls
  <2>7. /\ call'[c] = q /\ \A d \in Clients : d # c => call'[d] = call[d]
        /\ call' \in [Clients -> Registry!Calls]
    BY <1>2, <2>6 DEF Registry!consume, Registry!Goes, RegistryInv, Registry!TypeOK
  <2>8. served' = served /\ now' = now
    BY DEF Registry!consume
  <2>9. handoffs' \in [Handoffs -> Registry!Records \cup {None}]
    BY <1>2, <2>1, <2>3 DEF Registry!consume, RegistryInv, Registry!TypeOK
  <2>10. Registry!TypeOK'
    BY <2>7, <2>8, <2>9 DEF RegistryInv, Registry!TypeOK
  <2>11. CallsSound'
    <3> SUFFICES ASSUME NEW d \in Clients
                 PROVE  /\ Registry!At(d, "store")' =>
                              /\ call'[d].record \in Registry!Records
                              /\ call'[d].record.consumedCount = 0
                        /\ call'[d].at \in {"consume", "revoke", "reply", "peek", "lookup"} =>
                              call'[d].id \in Handoffs /\ handoffs'[call'[d].id] # None
                        /\ Registry!At(d, "reply")' =>
                              call'[d].n \in 1 .. handoffs'[call'[d].id].consumedCount
      BY DEF CallsSound
    <3>1. CASE d = c
      <4>1. call'[d].at = "reply" /\ call'[d].id = h /\ call'[d].n = r.consumedCount + 1
        BY <3>1, <2>6, <2>7
      <4>2. handoffs'[h] # None /\ handoffs'[h].consumedCount = r.consumedCount + 1
        BY <2>3, <2>4
      <4>3. r.consumedCount + 1 \in 1 .. r.consumedCount + 1
        BY <2>2
      <4> QED
        BY <4>1, <4>2, <4>3, <2>1 DEF Registry!At
    <3>2. CASE d # c /\ Registry!At(d, "reply")
      <4>1. /\ call[d].id \in Handoffs /\ handoffs[call[d].id] # None
            /\ call[d].n \in 1 .. handoffs[call[d].id].consumedCount
        BY <3>2 DEF RegistryInv, CallsSound, Registry!At
      <4>2. call'[d] = call[d]
        BY <3>2, <2>7
      <4>3. \A k \in Handoffs : handoffs[k] # None =>
               /\ handoffs'[k] # None
               /\ 1 .. handoffs[k].consumedCount \subseteq 1 .. handoffs'[k].consumedCount
        <5>1. /\ handoffs'[h] # None
              /\ 1 .. handoffs[h].consumedCount \subseteq 1 .. handoffs'[h].consumedCount
          BY <2>2, <2>3, <2>4
        <5> QED
          BY <5>1, <2>4
      <4> QED
        BY <4>1, <4>2, <4>3, <3>2 DEF Registry!At
    <3>3. CASE d # c /\ ~Registry!At(d, "reply")
      BY <3>3, <2>3, <2>4, <2>7 DEF RegistryInv, CallsSound, Registry!At
    <3> QED
      BY <3>1, <3>2, <3>3
  <2>12. RecordsSound'
    <3>1. \A k \in Handoffs : handoffs'[k] # None =>
             handoffs'[k].consumedCount <= handoffs'[k].maxConsumes
      <4>1. handoffs'[h].consumedCount <= handoffs'[h].maxConsumes
        BY <2>2, <2>3, <2>4
      <4> QED
        BY <4>1, <2>4 DEF RegistryInv, RecordsSound
    <3>2. \A k \in Handoffs : handoffs[k] # None =>
             handoffs'[k] # None /\ handoffs[k].consumedCount <= handoffs'[k].consumedCount
      <4>1. handoffs'[h] # None /\ handoffs[h].consumedCount <= handoffs'[h].consumedCount
        BY <2>2, <2>3, <2>4
      <4>2. \A k \in Handoffs : handoffs[k] # None => handoffs[k].consumedCount \in Nat
        BY DEF RegistryInv, Registry!TypeOK, Registry!Records
      <4>3. ASSUME NEW k \in Handoffs, handoffs[k] # None, k # h
            PROVE  handoffs'[k] # None /\ handoffs[k].consumedCount <= handoffs'[k].consumedCount
        <5>1. handoffs'[k] = handoffs[k] /\ handoffs[k].consumedCount \in Nat
          BY <4>2, <4>3, <2>4
        <5> QED
          BY <4>3, <5>1
      <4> QED
        BY <4>1, <4>3
    <3> QED
      BY <3>1, <3>2, <2>8, <2>10, RecordsKept
  <2>13. \A k \in Handoffs, n \in Nat :
           Replying(k, n)' = (Replying(k, n) \ {c}) \cup
                             (IF k = h /\ n = r.consumedCount + 1 THEN {c} ELSE {})
    BY <2>6, <2>7 DEF Replying, Registry!At
  <2>14. \A d \in Clients : d \notin Replying(h, r.consumedCount + 1)
    <3> SUFFICES ASSUME NEW d \in Clients, d \in Replying(h, r.consumedCount + 1)
                 PROVE  FALSE
      OBVIOUS
    <3>1. call[d].n \in 1 .. r.consumedCount /\ call[d].n = r.consumedCount + 1
      BY DEF Replying, RegistryInv, CallsSound, Registry!At
    <3> QED
      BY <3>1, <2>2
  <2>15. \A s \in served[h] : s[1] \in Nat /\ s[1] # r.consumedCount + 1
    BY <2>1, <2>2 DEF RegistryInv, RecordsSound
  <2>16. \A k \in Handoffs : \A s \in served[k] : s[1] \in Nat
    BY DEF RegistryInv, Registry!TypeOK
  <2>17. OneRecipient'
    <3>1. \A k \in Handoffs : \A s, t \in served[k] : s[1] = t[1] => s = t
      BY DEF RegistryInv, OneRecipient
    <3>2. \A k \in Handoffs, d, e \in Clients, n \in Nat :
             d \in Replying(k, n)' /\ e \in Replying(k, n)' => d = e
      BY <2>13, <2>14 DEF RegistryInv, OneRecipient
    <3>3. \A k \in Handoffs : \A s \in served[k] : Replying(k, s[1])' = {}
      BY <2>13, <2>15, <2>16 DEF RegistryInv, OneRecipient
    <3> QED
      BY <3>1, <3>2, <3>3, <2>8 DEF OneRecipient
  <2> QED
    BY <2>10, <2>11, <2>12, <2>17 DEF RegistryInv
<1> QED
  BY <1>1, <1>2

LEMMA ReplyInv == ASSUME RegistryInv, NEW c \in Clients, Registry!reply(c)
                  PROVE  RegistryInv'
<1> DEFINE h == call[c].id
           n == call[c].n
<1>1. /\ h \in Handoffs /\ handoffs[h] # None /\ n \in 1 .. handoffs[h].consumedCount
      /\ n \in Nat /\ call[c] \in Registry!Calls /\ c \in Replying(h, n)
  BY DEF RegistryInv, CallsSound, Registry!reply, Registry!At, Registry!TypeOK, Registry!Calls,
     Replying
<1>2. /\ call'[c] = Registry!NoCall /\ \A d \in Clients : d # c => call'[d] = call[d]
      /\ call' \in [Clients -> Registry!Calls]
  BY NoCallType DEF RegistryInv, Registry!TypeOK, Registry!reply, Registry!Return, Registry!Goes
<1>3. /\ served'[h] = served[h] \cup {<<n, c>>}
      /\ \A k \in Handoffs : k # h => served'[k] = served[k]
      /\ handoffs' = handoffs /\ now' = now
  BY <1>1 DEF Registry!reply, RegistryInv, Registry!TypeOK
<1>4. served' \in [Handoffs -> SUBSET (Nat \X Clients)]
  BY <1>1 DEF Registry!reply, RegistryInv, Registry!TypeOK
<1>5. Registry!TypeOK'
  BY <1>2, <1>3, <1>4 DEF RegistryInv, Registry!TypeOK
<1>6. CallsSound'
  BY <1>2, <1>3 DEF RegistryInv, CallsSound, Registry!At, Registry!NoCall
<1>7. RecordsSound'
  BY <1>1, <1>3 DEF RegistryInv, RecordsSound
<1>8. \A k \in Handoffs, m \in Nat : Replying(k, m)' = Replying(k, m) \ {c}
  BY <1>2 DEF Replying, Registry!At, Registry!NoCall
<1>9. Replying(h, n) = {c}
  BY <1>1 DEF RegistryInv, OneRecipient, Replying
<1>10. \A s \in served[h] : s[1] # n
  BY <1>1 DEF RegistryInv, OneRecipient
<1>11. OneRecipient'
  <2>1. \A k \in Handoffs : \A s, t \in served'[k] : s[1] = t[1] => s = t
    BY <1>3, <1>10 DEF RegistryInv, OneRecipient
  <2>2. \A k \in Handoffs, d, e \in Clients, m \in Nat :
           d \in Replying(k, m)' /\ e \in Replying(k, m)' => d = e
    BY <1>8 DEF RegistryInv, OneRecipient
  <2>3. \A k \in Handoffs : \A s \in served'[k] : Replying(k, s[1])' = {}
    <3>1. \A k \in Handoffs : \A s \in served[k] : s[1] \in Nat /\ Replying(k, s[1]) = {}
      BY DEF RegistryInv, Registry!TypeOK, OneRecipient
    <3>2. \A k \in Handoffs : \A s \in served[k] : Replying(k, s[1])' = {}
      BY <3>1, <1>8
    <3>3. Replying(h, n) \ {c} = {}
      BY <1>9
    <3>4. \A k \in Handoffs, m \in Nat : k = h /\ m = n => Replying(k, m)' = {}
      <4> HIDE DEF n, h
      <4> QED
        BY <3>3, <1>8
    <3>5. \A k \in Handoffs : \A s \in served'[k] : s \in served[k] \/ (k = h /\ s = <<n, c>>)
      BY <1>3
    <3> SUFFICES ASSUME NEW k \in Handoffs, NEW s \in served'[k] PROVE Replying(k, s[1])' = {}
      OBVIOUS
    <3>6. CASE s \in served[k]
      BY <3>2, <3>6
    <3>7. CASE k = h /\ s = <<n, c>>
      <4>1. s[1] = n /\ s[1] \in Nat
        BY <3>7, <1>1
      <4> HIDE DEF n, h
      <4> QED
        BY <4>1, <3>4, <3>7
    <3> QED
      BY <3>5, <3>6, <3>7
  <2> QED
    BY <2>1, <2>2, <2>3 DEF OneRecipient
<1> QED
  BY <1>5, <1>6, <1>7, <1>11 DEF RegistryInv

LEMMA RevokeInv == ASSUME RegistryInv, NEW c \in Clients, Registry!revoke(c)
                   PROVE  RegistryInv'
<1> DEFINE h == call[c].id
           new == [handoffs[h] EXCEPT !.revoked = TRUE]
<1>1. h \in Handoffs /\ handoffs[h] # None /\ handoffs[h] \in Registry!Records
  BY DEF RegistryInv, CallsSound, Registry!revoke, Registry!At, Registry!TypeOK
<1>2. /\ new \in Registry!Records /\ new # None /\ new.consumedCount = handoffs[h].consumedCount
      /\ new.maxConsumes = handoffs[h].maxConsumes
  BY <1>1, RegistryAssumption DEF Registry!Records
<1>3. handoffs'[h] = new /\ \A k \in Handoffs : k # h => handoffs'[k] = handoffs[k]
  BY <1>1 DEF Registry!revoke, RegistryInv, Registry!TypeOK
<1>4. handoffs' \in [Handoffs -> Registry!Records \cup {None}] /\ served' = served /\ now' = now
  BY <1>1, <1>2 DEF Registry!revoke, RegistryInv, Registry!TypeOK
<1>5. /\ call'[c] = Registry!NoCall /\ \A d \in Clients : d # c => call'[d] = call[d]
      /\ call' \in [Clients -> Registry!Calls]
  BY NoCallType DEF RegistryInv, Registry!TypeOK, Registry!revoke, Registry!Return, Registry!Goes
<1>6. Registry!TypeOK'
  BY <1>4, <1>5 DEF RegistryInv, Registry!TypeOK
<1> HIDE DEF h, new
<1>61. \A k \in Handoffs : handoffs[k] # None =>
         /\ handoffs'[k] # None /\ handoffs'[k].consumedCount = handoffs[k].consumedCount
         /\ handoffs'[k].maxConsumes = handoffs[k].maxConsumes
  BY <1>2, <1>3
<1>62. \A k \in Handoffs : handoffs'[k] # None => handoffs[k] # None
  BY <1>1, <1>3
<1>63. \A k \in Handoffs : handoffs[k] # None => handoffs[k].consumedCount \in Nat
  BY DEF RegistryInv, Registry!TypeOK, Registry!Records
<1>7. CallsSound'
  BY <1>5, <1>61 DEF RegistryInv, CallsSound, Registry!At, Registry!NoCall
<1>8. RecordsSound'
  BY <1>4, <1>6, <1>61, <1>62, <1>63, RecordsKept DEF RegistryInv, RecordsSound
<1>9. \A k \in Handoffs, n \in Nat : Replying(k, n)' \subseteq Replying(k, n)
  BY <1>5 DEF Replying, Registry!At, Registry!NoCall
<1>10. \A k \in Handoffs : \A s \in served[k] : s[1] \in Nat
  BY DEF RegistryInv, Registry!TypeOK
<1>11. OneRecipient'
  BY <1>4, <1>9, <1>10 DEF RegistryInv, OneRecipient
<1> QED
  BY <1>6, <1>7, <1>8, <1>11 DEF RegistryInv

LEMMA TickInv == ASSUME RegistryInv, Registry!Tick PROVE RegistryInv'
BY RegistryAssumption DEF RegistryInv, Registry!Tick, Registry!TypeOK, Registry!Times,
   CallsSound, RecordsSound, OneRecipient, Replying, Registry!At

\* The inductive invariant.
THEOREM RegistryInvariant == Registry!Spec => []RegistryInv
<1>1. Registry!Init => RegistryInv
  BY RegistryInitInv
<1>2. RegistryInv /\ [Registry!Next]_(Registry!vars) => RegistryInv'
  <2> SUFFICES ASSUME RegistryInv, [Registry!Next]_(Registry!vars) PROVE RegistryInv'
    OBVIOUS
  <2>1. CASE UNCHANGED Registry!vars
    BY <2>1 DEF Registry!vars, RegistryInv, Registry!TypeOK, CallsSound, RecordsSound,
       OneRecipient, Replying, Registry!At
  <2>2. CASE Registry!Tick
    BY <2>2, TickInv
  <2>3. ASSUME NEW c \in Clients,
               \/ \E max \in (0 .. MaxConsumes) \cup {None},
                     expiresAt, ttl \in Registry!Times \cup {None} :
                     Registry!mailHandoffCreate(c, max, expiresAt, ttl)
               \/ \E h \in Handoffs : \/ Registry!store(c, h) \/ Registry!canvasImportHandoff(c, h)
                                      \/ Registry!handoffConsume(c, h) \/ Registry!handoffRevoke(c, h)
               \/ Registry!handoffPeek(c) \/ Registry!consume(c) \/ Registry!reply(c)
               \/ Registry!mcpToolCallFails(c) \/ Registry!revoke(c)
        PROVE  RegistryInv'
    <3>1. CASE \E h \in Handoffs : Registry!store(c, h)
      BY <3>1, StoreInv
    <3>2. CASE Registry!consume(c)
      BY <3>2, ConsumeInv
    <3>3. CASE Registry!reply(c)
      BY <3>3, ReplyInv
    <3>4. CASE Registry!revoke(c)
      BY <3>4, RevokeInv
    <3> QED
      BY <2>3, <3>1, <3>2, <3>3, <3>4, CallInv
  <2> QED
    BY <2>1, <2>2, <2>3 DEF Registry!Next
<1> QED
  BY <1>1, <1>2, PTL DEF Registry!Spec

\* Two clients never get the same consume, and none gets one beyond max_consumes, however
\* many clients race and however many replies are lost.
THEOREM AtMostMaxConsumes == Registry!Spec => []ConsumesBounded
<1>1. RegistryInv => ConsumesBounded
  <2> SUFFICES ASSUME RegistryInv, NEW h \in Handoffs, NEW s \in served[h]
               PROVE  /\ handoffs[h] # None /\ s[1] \in 1 .. handoffs[h].maxConsumes
                      /\ \A t \in served[h] : s[1] = t[1] => s = t
    BY DEF ConsumesBounded, Registry!ConsumesBounded
  <2>1. /\ handoffs[h] # None /\ handoffs[h] \in Registry!Records
        /\ s[1] \in 1 .. handoffs[h].consumedCount
        /\ handoffs[h].consumedCount <= handoffs[h].maxConsumes
    BY DEF RegistryInv, Registry!TypeOK, RecordsSound
  <2>2. \A t \in served[h] : s[1] = t[1] => s = t
    BY DEF RegistryInv, OneRecipient
  <2> QED
    BY <2>1, <2>2 DEF Registry!Records
<1> QED
  BY <1>1, RegistryInvariant, PTL

\* What a step can do to one record.
LEMMA RecordSteps ==
    ASSUME RegistryInv, [Registry!Next]_(Registry!vars), NEW h \in Handoffs, handoffs[h] # None
    PROVE  /\ now \in Nat /\ now' \in Nat /\ now <= now'
           /\ \/ handoffs'[h] = handoffs[h]
              \/ handoffs'[h] = [handoffs[h] EXCEPT !.revoked = TRUE]
              \/ Registry!Consumable(handoffs[h])
<1>1. now \in Nat /\ (now' = now \/ (now' = now + 1 /\ handoffs' = handoffs))
  <2>1. now \in Nat
    BY RegistryAssumption DEF RegistryInv, Registry!TypeOK, Registry!Times
  <2> QED
    BY <2>1 DEF Registry!Next, Registry!vars, Registry!Tick, Registry!mailHandoffCreate,
       Registry!store, Registry!canvasImportHandoff, Registry!handoffConsume,
       Registry!handoffRevoke, Registry!handoffPeek, Registry!consume, Registry!reply,
       Registry!mcpToolCallFails, Registry!revoke
<1>2. \/ handoffs' = handoffs
      \/ \E c \in Clients : \/ \E k \in Handoffs : Registry!store(c, k)
                           \/ Registry!consume(c) \/ Registry!revoke(c)
  BY DEF Registry!Next, Registry!vars, Registry!Tick, Registry!mailHandoffCreate,
     Registry!canvasImportHandoff, Registry!handoffConsume, Registry!handoffRevoke,
     Registry!handoffPeek, Registry!reply, Registry!mcpToolCallFails
<1>3. ASSUME NEW c \in Clients, NEW k \in Handoffs, Registry!store(c, k)
      PROVE  handoffs'[h] = handoffs[h]
  BY <1>3 DEF Registry!store, RegistryInv, Registry!TypeOK
<1>4. ASSUME NEW c \in Clients, Registry!consume(c)
      PROVE  handoffs'[h] = handoffs[h] \/ Registry!Consumable(handoffs[h])
  <2>1. CASE Registry!Consumable(handoffs[call[c].id])
    <3>1. CASE call[c].id = h
      BY <2>1, <3>1
    <3>2. CASE call[c].id # h
      BY <1>4, <2>1, <3>2 DEF Registry!consume, RegistryInv, Registry!TypeOK
    <3> QED
      BY <3>1, <3>2
  <2> QED
    BY <1>4, <2>1 DEF Registry!consume
<1>5. ASSUME NEW c \in Clients, Registry!revoke(c)
      PROVE  handoffs'[h] = handoffs[h] \/ handoffs'[h] = [handoffs[h] EXCEPT !.revoked = TRUE]
  BY <1>5 DEF Registry!revoke, RegistryInv, Registry!TypeOK
<1>6. \/ handoffs'[h] = handoffs[h]
      \/ handoffs'[h] = [handoffs[h] EXCEPT !.revoked = TRUE]
      \/ Registry!Consumable(handoffs[h])
  BY <1>2, <1>3, <1>4, <1>5
<1>7. now \in Nat /\ now' \in Nat /\ now <= now'
  BY <1>1
<1> QED
  BY <1>6, <1>7

\* A revoked, expired or used-up handoff stays so, and is never consumed again.
THEOREM NeverRevived == Registry!Spec => EndedForGood
<1>1. RegistryInv /\ [Registry!Next]_(Registry!vars) => Registry!EndedSteps
  <2> SUFFICES ASSUME RegistryInv, [Registry!Next]_(Registry!vars), NEW h \in Handoffs,
                      handoffs[h] # None, ~Registry!Consumable(handoffs[h])
               PROVE  /\ handoffs'[h] # None /\ ~Registry!Consumable(handoffs[h])'
                      /\ handoffs'[h].consumedCount = handoffs[h].consumedCount
    BY DEF Registry!EndedSteps
  <2>1. handoffs[h] \in Registry!Records
    BY DEF RegistryInv, Registry!TypeOK
  <2> DEFINE r == handoffs[h]
             q == handoffs'[h]
  <2>2. /\ q # None /\ q.consumedCount = r.consumedCount /\ q.maxConsumes = r.maxConsumes
        /\ q.expiresAt = r.expiresAt /\ (r.revoked => q.revoked)
    BY <2>1, RecordSteps, RegistryAssumption DEF Registry!Records
  <2>3. now \in Nat /\ now' \in Nat /\ now <= now'
    BY RecordSteps
  <2>4. r.expiresAt \in Nat \cup {None} /\ r.consumedCount \in Nat /\ r.maxConsumes \in Nat
    BY <2>1 DEF Registry!Records
  <2>5. Registry!Expired(handoffs[h]) => Registry!Expired(handoffs[h])'
    BY <2>2, <2>3, <2>4, RegistryAssumption DEF Registry!Expired
  <2>6. ~Registry!Consumable(handoffs[h])'
    BY <2>2, <2>4, <2>5 DEF Registry!Consumable
  <2> QED
    BY <2>2, <2>6
<1>2. RegistryInv /\ [Registry!Next]_(Registry!vars) => [Registry!EndedSteps]_(Registry!vars)
  BY <1>1
<1> QED
  BY <1>2, RegistryInvariant, PTL DEF Registry!Spec, EndedForGood, Registry!EndedForGood

---------------------------------------------------------------------------
(* Both.                                                                       *)

\* An MCP server is one of each, so that what is proved of the bindings and of the handoffs is
\* true of both parts of one server.
THEOREM PartsOfOneServer == ServerSpec => Spec /\ Registry!Spec
<1>1. ServerInit => Init /\ Registry!Init
  BY DEF ServerInit
<1>2. [ServerNext]_serverVars => [Next]_vars /\ [Registry!Next]_(Registry!vars)
  BY DEF ServerNext, serverVars, registryVars, vars, Registry!vars
<1> QED
  BY <1>1, <1>2, PTL DEF ServerSpec, Spec, Registry!Spec

=============================================================================
