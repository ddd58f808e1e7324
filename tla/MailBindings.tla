---------------------------- MODULE MailBindings ----------------------------
(* External bindings tie a remote mailbox message to an item of the store.     *)
(* Sync passes (internal/sync) write them for the messages a provider lists;   *)
(* mail actions (internal/mcp/mail_action.go) move messages, which gives them  *)
(* new ids on an Exchange server, and carry the bindings over.  Both work in   *)
(* separate statements, with calls to the server in between.                   *)
EXTENDS Naturals, SequencesExt, FiniteSetsExt

CONSTANTS Syncers,      \* goroutines in Engine.RunOnce or RunNow
          Actors,       \* handlers of the mail_action tool
          Messages,
          Settings,     \* the circumstances all of them work under
          MaxVersion,   \* bound: how often a message changes its id
          MaxItems,     \* bound: items of the store
          None

Folders == {"inbox", "archive", "dumpster"}
Kinds == {"archive", "move_to_inbox", "delete", "recover"}
Outcomes == {"ok", "failed", "unanswered"}

\* syncers, actors, messages, kinds: those that are there; batch: messages per action;
\* versions: a bound on a message's; overlap: whether passes and actions run at the same time;
\* owner: whether messages are moved by other programs; deletes: whether items are deleted;
\* cleanup: whether stale bindings are; restarts: whether everything can stop; outcomes: how
\* a call can end.
SettingRecords == [syncers : SUBSET Syncers, actors : SUBSET Actors, messages : SUBSET Messages,
                   kinds : SUBSET Kinds, batch : Nat, versions : 0 .. MaxVersion,
                   overlap : BOOLEAN, owner : BOOLEAN, deletes : BOOLEAN, cleanup : BOOLEAN,
                   restarts : BOOLEAN, outcomes : SUBSET Outcomes]

\* A message that is moved gets a new id: the message and how often it has been moved.
RemoteIds == Messages \X (0 .. MaxVersion)
ItemIds == 1 .. MaxItems

VARIABLES setting,   \* one of the Settings, the same all the time
          remote,    \* remote[m]: the folder and the version of message m
          items,     \* the items table; about: the message an item was made for
          bindings,  \* the external_bindings table, by remote id (its unique index)
          syncer,    \* syncer[s]: the pass s is in, or None
          action,    \* action[a]: the action a is in, or None
          logs,      \* logs[a][r]: status of r's log in a's last action
          moved      \* moved[a]: ids that a's last action moved

vars == <<setting, remote, items, bindings, syncer, action, logs, moved>>

ItemRecords == [about : Messages, state : {"inbox", "done"}]
BindingRecords == [row : Nat \ {0}, item : ItemIds \cup {None}, stale : BOOLEAN]
\* listed: what the provider listed; todo: what is left of it; at, item: the message in hand
\* and its item; doomed: rows of bindings that are stale.
PassRecords == [step : {"next", "resolved", "stored", "clean"}, listed : SUBSET RemoteIds,
                todo : SUBSET RemoteIds, at : RemoteIds \cup {None},
                item : ItemIds \cup {None}, doomed : SUBSET (Nat \ {0})]
\* new: the resolutions of ids, by index.
ActionRecords == [step : {"logged", "moved", "failed", "reconciled", "unreconciled"},
                  kind : Kinds, ids : Seq(RemoteIds), new : Seq(RemoteIds)]
Statuses == {"pending", "applied", "failed", "reconcile_failed"}

\* There are finitely many messages, passes and actions; None is no id, no record, no status.
MailSane == /\ Settings \subseteq SettingRecords /\ MaxVersion \in Nat /\ MaxItems \in Nat
            /\ IsFiniteSet(Messages) /\ IsFiniteSet(Syncers) /\ IsFiniteSet(Actors)
            /\ None \notin Nat /\ None \notin RemoteIds /\ None \notin ItemRecords
            /\ None \notin BindingRecords /\ None \notin PassRecords /\ None \notin ActionRecords
            /\ None \notin Statuses
ASSUME MailAssumption == MailSane

Items == {i \in ItemIds : items[i] # None}
Bound == {r \in RemoteIds : bindings[r] # None}

\* Bindings name items that there are, and have a key each.
TypeOK == /\ setting \in Settings
          /\ remote \in [Messages -> [folder : Folders, version : 0 .. MaxVersion]]
          /\ items \in [ItemIds -> ItemRecords \cup {None}]
          /\ bindings \in [RemoteIds -> BindingRecords \cup {None}]
          /\ syncer \in [Syncers -> PassRecords \cup {None}]
          /\ action \in [Actors -> ActionRecords \cup {None}]
          /\ logs \in [Actors -> [RemoteIds -> Statuses \cup {None}]]
          /\ moved \in [Actors -> SUBSET RemoteIds]
          /\ \A r \in Bound : bindings[r].item \in Items \cup {None}
          /\ \A q, r \in Bound : bindings[q].row = bindings[r].row => q = r

Init == /\ setting \in Settings
        /\ remote = [m \in Messages |-> [folder |-> "inbox", version |-> 0]]
        /\ items = [i \in ItemIds |-> None] /\ bindings = [r \in RemoteIds |-> None]
        /\ syncer = [s \in Syncers |-> None] /\ action = [a \in Actors |-> None]
        /\ logs = [a \in Actors |-> [r \in RemoteIds |-> None]]
        /\ moved = [a \in Actors |-> {}]

Id(m) == <<m, remote[m].version>>
Alive(r) == r = Id(r[1])
In(folder) == {Id(m) : m \in {n \in setting.messages : remote[n].folder = folder}}

\* INTEGER PRIMARY KEY: one more than the largest key.
NextKey(keys) == IF keys = {} THEN 1 ELSE 1 + Max(keys)

Passing == {s \in Syncers : syncer[s] # None}
Acting == {a \in Actors : action[a] # None}
MayStart == setting.overlap \/ Passing \cup Acting = {}

-----------------------------------------------------------------------------
\* A pass: the account's provider lists the inbox and gives the sink every message.
Sync(s) ==
    /\ s \in setting.syncers /\ syncer[s] = None /\ MayStart
    /\ syncer' = [syncer EXCEPT ![s] =
                    [step |-> "next", listed |-> In("inbox"), todo |-> In("inbox"),
                     at |-> None, item |-> None, doomed |-> {}]]
    /\ UNCHANGED <<setting, remote, items, bindings, action, logs, moved>>

At(s, step) == syncer[s] # None /\ syncer[s].step = step

\* Faulty variant: a message without a binding keeps the item of the one before it.
resolveItemTargetKept(s, r) ==
    /\ At(s, "next") /\ r \in syncer[s].todo
    /\ syncer' = [syncer EXCEPT ![s].step = "resolved", ![s].at = r,
                                ![s].item = IF bindings[r] = None THEN @ ELSE bindings[r].item]
    /\ UNCHANGED <<setting, remote, items, bindings, action, logs, moved>>

resolveItemTarget(s, r) ==
    /\ At(s, "next") /\ r \in syncer[s].todo
    /\ syncer' = [syncer EXCEPT ![s].step = "resolved", ![s].at = r,
                                ![s].item = IF bindings[r] = None THEN None ELSE bindings[r].item]
    /\ UNCHANGED <<setting, remote, items, bindings, action, logs, moved>>

\* The pass ends with an error when the item is gone; a provider may give a state or none.
UpdateItem(s) ==
    LET i == syncer[s].item
    IN  /\ At(s, "resolved") /\ i # None
        /\ IF i \in Items
           THEN /\ items' \in {items, [items EXCEPT ![i].state = "inbox"]}
                /\ syncer' = [syncer EXCEPT ![s].step = "stored"]
           ELSE /\ syncer' = [syncer EXCEPT ![s] = None]
                /\ items' = items
        /\ UNCHANGED <<setting, remote, bindings, action, logs, moved>>

CreateItem(s) ==
    LET i == NextKey(Items)
    IN  /\ At(s, "resolved") /\ syncer[s].item = None /\ i <= MaxItems
        /\ items' = [items EXCEPT ![i] = [about |-> syncer[s].at[1], state |-> "inbox"]]
        /\ syncer' = [syncer EXCEPT ![s].step = "stored", ![s].item = i]
        /\ UNCHANGED <<setting, remote, bindings, action, logs, moved>>

\* Faulty variant: a binding that is there keeps its time.
UpsertExternalBindingUntimed(s) ==
    LET p == syncer[s]
        fresh == [row |-> NextKey({bindings[r].row : r \in Bound}), item |-> p.item,
                  stale |-> FALSE]
    IN  /\ At(s, "stored")
        /\ IF p.item \in Items
           THEN /\ bindings' = [bindings EXCEPT ![p.at] =
                                  IF @ = None THEN fresh ELSE [@ EXCEPT !.item = p.item]]
                /\ syncer' = [syncer EXCEPT ![s].step = "next", ![s].todo = @ \ {p.at}]
           ELSE /\ syncer' = [syncer EXCEPT ![s] = None]
                /\ bindings' = bindings
        /\ UNCHANGED <<setting, remote, items, action, logs, moved>>

\* The foreign key refuses an item that is gone.
UpsertExternalBinding(s) ==
    LET p == syncer[s]
        fresh == [row |-> NextKey({bindings[r].row : r \in Bound}), item |-> p.item,
                  stale |-> FALSE]
    IN  /\ At(s, "stored")
        /\ IF p.item \in Items
           THEN /\ bindings' = [bindings EXCEPT ![p.at] =
                                  IF @ = None THEN fresh
                                  ELSE [@ EXCEPT !.item = p.item, !.stale = FALSE]]
                /\ syncer' = [syncer EXCEPT ![s].step = "next", ![s].todo = @ \ {p.at}]
           ELSE /\ syncer' = [syncer EXCEPT ![s] = None]
                /\ bindings' = bindings
        /\ UNCHANGED <<setting, remote, items, action, logs, moved>>

\* The provider or the store fails: what was written stays.
SyncFails(s) ==
    /\ "failed" \in setting.outcomes /\ syncer[s] # None
    /\ syncer' = [syncer EXCEPT ![s] = None]
    /\ UNCHANGED <<setting, remote, items, bindings, action, logs, moved>>

\* cleanupStaleBindings after a pass without an error.
ListStaleBindings(s) ==
    /\ At(s, "next") /\ syncer[s].todo = {}
    /\ syncer' = [syncer EXCEPT ![s] =
                    IF ~setting.cleanup THEN None
                    ELSE [@ EXCEPT !.step = "clean",
                                   !.doomed = {bindings[r].row : r \in {q \in Bound : bindings[q].stale}}]]
    /\ UNCHANGED <<setting, remote, items, bindings, action, logs, moved>>

\* By its key; a row that is gone is an error, which ends the pass.
DeleteBinding(s) ==
    /\ At(s, "clean")
    /\ \E row \in syncer[s].doomed :
          LET gone == {r \in Bound : bindings[r].row = row}
          IN  /\ bindings' = [r \in RemoteIds |-> IF r \in gone THEN None ELSE bindings[r]]
              /\ syncer' = IF gone = {} THEN [syncer EXCEPT ![s] = None]
                           ELSE [syncer EXCEPT ![s].doomed = @ \ {row}]
    /\ UNCHANGED <<setting, remote, items, action, logs, moved>>

SyncEnds(s) ==
    /\ At(s, "clean") /\ syncer[s].doomed = {}
    /\ syncer' = [syncer EXCEPT ![s] = None]
    /\ UNCHANGED <<setting, remote, items, bindings, action, logs, moved>>

-----------------------------------------------------------------------------
Target(kind) == CASE kind = "move_to_inbox" -> "inbox"
                  [] kind = "delete" -> "dumpster"
                  [] OTHER -> "archive"

\* The messages an action is asked for: any that are listed, those of the dumpster to recover.
Candidates(kind) == IF kind = "recover" THEN In("dumpster") ELSE In("inbox") \cup In("archive")
Batches(kind) == {ids \in BoundedSeq(Candidates(kind), setting.batch) :
                     ids # <<>> /\ IsInjective(ids)}

\* mailAction: every message gets a pending log.
mailAction(a) ==
    /\ a \in setting.actors /\ action[a] = None /\ MayStart
    /\ \E kind \in setting.kinds : \E ids \in Batches(kind) :
          /\ action' = [action EXCEPT ![a] = [step |-> "logged", kind |-> kind, ids |-> ids,
                                             new |-> <<>>]]
          /\ logs' = [logs EXCEPT ![a] = [r \in RemoteIds |->
                                           IF r \in ToSet(ids) THEN "pending" ELSE None]]
          /\ moved' = [moved EXCEPT ![a] = {}]
    /\ UNCHANGED <<setting, remote, items, bindings, syncer>>

Doing(a, step) == action[a] # None /\ action[a].step = step

NewId(r) == <<r[1], r[2] + 1>>

\* ResolvedItemIDs has the new ids of the messages that were moved; actionResolutions pairs
\* them with the ids of the action by index, and what is left over with itself.
actionResolutions(ids, hit) ==
    LET Place(j) == Cardinality({i \in 1 .. j : ids[i] \in hit})
        Resolved(k) == {j \in DOMAIN ids : ids[j] \in hit /\ Place(j) = k}
    IN  [k \in DOMAIN ids |-> IF Resolved(k) = {} THEN ids[k]
                              ELSE NewId(ids[CHOOSE j \in Resolved(k) : TRUE])]

\* Faulty variant: an error of the server is not one of the call.
CallUnchecked(a) ==
    LET ids == action[a].ids
        hit == {r \in ToSet(ids) : Alive(r)}
    IN  /\ Doing(a, "logged") /\ \A r \in hit : r[2] < setting.versions
        /\ \E outcome \in setting.outcomes :
              IF outcome = "failed"
              THEN /\ action' = [action EXCEPT ![a].step = "failed"]
                   /\ UNCHANGED <<remote, moved>>
              ELSE /\ action' = [action EXCEPT ![a].step = "moved",
                                              ![a].new = actionResolutions(ids, hit)]
                   /\ remote' = [m \in Messages |->
                                    IF Id(m) \in hit THEN [folder |-> Target(action[a].kind),
                                                           version |-> remote[m].version + 1]
                                    ELSE remote[m]]
                   /\ moved' = [moved EXCEPT ![a] = hit]
        /\ UNCHANGED <<setting, items, bindings, syncer, logs>>

\* One call for all messages.  It moves those that still have the id they were listed with;
\* it fails when the first one does not (FirstCode), or when the answer is lost.
Call(a) ==
    LET ids == action[a].ids
        hit == {r \in ToSet(ids) : Alive(r)}
    IN  /\ Doing(a, "logged") /\ \A r \in hit : r[2] < setting.versions
        /\ \E outcome \in setting.outcomes :
              IF outcome = "failed"
              THEN /\ action' = [action EXCEPT ![a].step = "failed"]
                   /\ UNCHANGED <<remote, moved>>
              ELSE /\ action' = IF outcome = "unanswered" \/ ids[1] \notin hit
                                THEN [action EXCEPT ![a].step = "failed"]
                                ELSE [action EXCEPT ![a].step = "moved",
                                                    ![a].new = actionResolutions(ids, hit)]
                   /\ remote' = [m \in Messages |->
                                    IF Id(m) \in hit THEN [folder |-> Target(action[a].kind),
                                                           version |-> remote[m].version + 1]
                                    ELSE remote[m]]
                   /\ moved' = [moved EXCEPT ![a] = hit]
        /\ UNCHANGED <<setting, items, bindings, syncer, logs>>

ItemState(kind) == IF kind = "move_to_inbox" THEN "inbox" ELSE "done"

\* The resolutions of an action by index, of those messages that have a binding.  A delete has
\* none, and recover does not come here.
Carried(act) == IF act.kind \in {"delete", "recover"} THEN {}
                ELSE {k \in DOMAIN act.new : bindings[act.ids[k]] # None}

\* Faulty variant: the binding keeps its old id.
ReconciledInPlace(act) ==
    [r \in RemoteIds |-> IF \E k \in Carried(act) : act.ids[k] = r
                         THEN [bindings[r] EXCEPT !.stale = FALSE] ELSE bindings[r]]

\* The binding goes from the old id to the new one, whose own binding keeps its item.  The ids of
\* an action are of different messages, so no resolution is about what another one has written.
Reconciled(act) ==
    [r \in RemoteIds |->
        LET to == {k \in Carried(act) : act.new[k] = r}
            old == act.ids[CHOOSE k \in to : TRUE]
        IN  CASE to # {} /\ (old = r \/ bindings[r] = None) -> [bindings[old] EXCEPT !.stale = FALSE]
              [] to # {} /\ old # r /\ bindings[r] # None ->
                    [bindings[r] EXCEPT !.item = IF @ = None THEN bindings[old].item ELSE @,
                                        !.stale = FALSE]
              [] to = {} /\ (\E k \in Carried(act) : act.ids[k] = r) -> None
              [] OTHER -> bindings[r]]

\* Then the items of the old ones get their state.
FollowedUp(act) ==
    [i \in ItemIds |-> IF \E k \in Carried(act) : bindings[act.ids[k]].item = i
                       THEN [items[i] EXCEPT !.state = ItemState(act.kind)] ELSE items[i]]

\* One transaction over all resolutions.
ApplyExternalBindingReconcileUpdates(a) ==
    /\ Doing(a, "moved")
    /\ \/ /\ action' = [action EXCEPT ![a].step = "reconciled"]
          /\ bindings' = Reconciled(action[a]) /\ items' = FollowedUp(action[a])
       \/ /\ "failed" \in setting.outcomes /\ action[a].kind \notin {"delete", "recover"}
          /\ action' = [action EXCEPT ![a].step = "unreconciled"]
          /\ UNCHANGED <<bindings, items>>
    /\ UNCHANGED <<setting, remote, syncer, logs, moved>>

Status(step) == CASE step = "failed" -> "failed"
                  [] step = "reconciled" -> "applied"
                  [] step = "unreconciled" -> "reconcile_failed"

UpdateMailActionLogResult(a) ==
    /\ action[a] # None /\ action[a].step \in {"failed", "reconciled", "unreconciled"}
    /\ logs' = [logs EXCEPT ![a] = [r \in RemoteIds |->
                                     IF r \in ToSet(action[a].ids) THEN Status(action[a].step)
                                     ELSE @[r]]]
    /\ action' = [action EXCEPT ![a] = None]
    /\ UNCHANGED <<setting, remote, items, bindings, syncer, moved>>

-----------------------------------------------------------------------------
\* Another mail program moves a message.
OwnerMoves(m, folder) ==
    /\ setting.owner /\ remote[m].folder # folder /\ remote[m].version < setting.versions
    /\ remote' = [remote EXCEPT ![m] = [folder |-> folder, version |-> @.version + 1]]
    /\ UNCHANGED <<setting, items, bindings, syncer, action, logs, moved>>

\* DeleteItem; the foreign key clears the bindings of the item.
DeleteItem(i) ==
    /\ setting.deletes /\ i \in Items
    /\ items' = [items EXCEPT ![i] = None]
    /\ bindings' = [r \in RemoteIds |-> IF r \in Bound /\ bindings[r].item = i
                                         THEN [bindings[r] EXCEPT !.item = None] ELSE bindings[r]]
    /\ UNCHANGED <<setting, remote, syncer, action, logs, moved>>

\* A binding was not written for longer than staleAfter, which is longer than a pass.
Age(r) == /\ setting.cleanup /\ r \in Bound /\ ~bindings[r].stale
          /\ Passing = {}
          /\ bindings' = [bindings EXCEPT ![r].stale = TRUE]
          /\ UNCHANGED <<setting, remote, items, syncer, action, logs, moved>>

Restart == /\ setting.restarts /\ Passing \cup Acting # {}
           /\ syncer' = [s \in Syncers |-> None] /\ action' = [a \in Actors |-> None]
           /\ UNCHANGED <<setting, remote, items, bindings, logs, moved>>

Pass(s) == \/ Sync(s) \/ UpdateItem(s) \/ CreateItem(s) \/ UpsertExternalBinding(s)
           \/ SyncFails(s) \/ ListStaleBindings(s) \/ DeleteBinding(s) \/ SyncEnds(s)
           \/ \E r \in RemoteIds : resolveItemTarget(s, r)

Act(a) == \/ mailAction(a) \/ Call(a) \/ ApplyExternalBindingReconcileUpdates(a)
          \/ UpdateMailActionLogResult(a)

Next == \/ \E s \in Syncers : Pass(s)
        \/ \E a \in Actors : Act(a)
        \/ \E m \in setting.messages, folder \in {"inbox", "archive"} : OwnerMoves(m, folder)
        \/ \E i \in ItemIds : DeleteItem(i)
        \/ \E r \in RemoteIds : Age(r)
        \/ Restart

Spec == Init /\ [][Next]_vars

-----------------------------------------------------------------------------
\* An action's messages cannot be moved under it, or there is just one of them.
Whole == setting.batch <= 1 \/ ~(setting.owner \/ Cardinality(setting.actors) > 1)
OneSyncer == Cardinality(setting.syncers) <= 1
Answered == "unanswered" \notin setting.outcomes

\* No binding of a message points at an item that was made for another one, whatever passes
\* and actions do to each other, fail or stop between their steps.  (Items that are deleted
\* while two passes run are excluded: their keys are used again.)
NoCrossBinding ==
    Whole /\ (OneSyncer \/ ~setting.deletes) =>
       \A r \in Bound : bindings[r].item # None => items[bindings[r].item].about = r[1]

\* When the messages of a pass are through, each of them that is still where it was listed has
\* a binding with an item, also after stale bindings were deleted; actions may be under way.
SyncCovers ==
    (OneSyncer \/ ~setting.cleanup) /\ ~setting.deletes =>
       \A s \in Passing :
          syncer[s].todo = {} /\ syncer[s].step \in {"next", "clean"} =>
             \A r \in syncer[s].listed : Alive(r) => bindings[r] # None /\ bindings[r].item # None

\* One pass or action at a time, of the kinds that carry bindings over, and none fails.
Orderly == /\ ~setting.overlap /\ ~setting.owner /\ ~setting.restarts
           /\ setting.outcomes = {"ok"} /\ setting.kinds \subseteq {"archive", "move_to_inbox"}

\* Then a message has one item, however often it is archived and moved back to the inbox, unless
\* its binding was deleted; and the items of an archived message are done, also those then.
OneItemPerMessage == Orderly =>
    /\ setting.cleanup \/ \A i, j \in Items : items[i].about = items[j].about => i = j
    /\ Acting = {} => \A i \in Items :
          remote[items[i].about].folder = "archive" => items[i].state = "done"

\* What a log says of a message is so: "applied" and "reconcile_failed" when the call moved
\* it, "failed" when not; a log stays pending only when the server stopped.
LogTells ==
    /\ Whole /\ Answered => \A a \in Actors, r \in RemoteIds :
          /\ logs[a][r] \in {"applied", "reconcile_failed"} => r \in moved[a]
          /\ logs[a][r] = "failed" => r \notin moved[a]
    /\ ~setting.restarts => \A a \in Actors, r \in RemoteIds :
          logs[a][r] = "pending" => action[a] # None /\ r \in ToSet(action[a].ids)

\* A message is resolved to an id that it has after the move.
ResolvedAfterMove == \A a \in Acting : \A k \in DOMAIN action[a].new :
                        action[a].new[k] = NewId(action[a].ids[k])

=============================================================================
