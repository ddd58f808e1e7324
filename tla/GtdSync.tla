------------------------------- MODULE GtdSync ------------------------------
(* GTD commitments are notes of the vault, bound to objects of other services: *)
(* issues, tasks, mails.  Tools of internal/mcp (brain_gtd_sync.go and         *)
(* brain_gtd_dedup.go) close them on one side when the other is closed, and    *)
(* merge those that are about the same.  A tool reads all notes first, calls   *)
(* the services and git, and writes back what it read with its changes, always *)
(* through brain.WithGitCommit (internal/brain/git_commit.go).  A mail tool    *)
(* gives the commitments that are bound to a message the status of the message *)
(* (mail_bindings.go).                                                         *)
EXTENDS Naturals, SequencesExt, FiniteSetsExt

CONSTANTS Agents,     \* processes that run a tool
          MaxNote,    \* notes are numbered in the order of their paths
          Objects,    \* upstream objects, all of them writeable and none manual
          Settings,   \* the circumstances they work under
          None

Notes == 1 .. MaxNote
Tools == {"push", "periodic", "set_status", "review", "bind", "mail"}
Statuses == {"done", "closed", "dropped"}

\* agents, notes, objects, tools: those that are there; overlap: whether agents, the owner and
\* others work at the same time; owner: whether the owner edits notes; others: whether objects
\* are closed and opened elsewhere; fails: whether calls fail; restarts: whether agents stop.
SettingRecords == [agents : SUBSET Agents, notes : SUBSET Notes, objects : SUBSET Objects,
                   tools : SUBSET Tools, overlap : BOOLEAN, owner : BOOLEAN,
                   others : BOOLEAN, fails : BOOLEAN, restarts : BOOLEAN]

ASSUME ConstantsAssumption ==
    /\ MaxNote \in Nat /\ Settings \subseteq SettingRecords
    /\ None \notin Nat \cup Objects \cup Statuses

VARIABLES setting,    \* one of the Settings, the same all the time
          note,       \* note[n]: the commitment in file n of the working tree
          head,       \* head[n]: the one in the last commit
          upstream,   \* upstream[o]: whether object o is open or closed
          tool        \* tool[a]: the call that agent a is in, or None

vars == <<setting, note, head, upstream, tool>>

\* overlay: local_overlay.status, None while it is open; into: dedup.equivalent_to;
\* separate: the other notes that dedup.not_duplicates has a candidate id with.
Commitments == [overlay : Statuses \cup {None}, bindings : SUBSET Objects,
                into : Notes \cup {None}, separate : SUBSET Notes]
Files == [file : Notes, text : Commitments]
\* read: the notes when the tool read them; todo: pairs of a note and a binding that are left;
\* at: the pair in hand; writes: files left to write; mine: files the mutation is about;
\* error: whether a binding had one.
Calls == [step : {"next", "close", "prepare", "write", "commit"}, name : Tools,
          read : [Notes -> Commitments], todo : SUBSET (Notes \X Objects),
          at : (Notes \X Objects) \cup {None}, writes : Seq(Files), mine : SUBSET Notes,
          error : BOOLEAN]

TypeOK == /\ setting \in Settings
          /\ note \in [Notes -> Commitments] /\ head \in [Notes -> Commitments]
          /\ upstream \in [Objects -> {"open", "closed"}]
          /\ tool \in [Agents -> Calls \cup {None}]

\* The circumstances under which nothing but the tools changes anything.
Quiet == ~ (setting.owner \/ setting.others \/ setting.fails)

Init == /\ setting \in Settings
        /\ \E bound \in [setting.notes -> SUBSET setting.objects], done \in SUBSET setting.notes :
             /\ done # {} => "push" \in setting.tools
             /\ note = [n \in Notes |->
                   [overlay |-> IF n \in done THEN "done" ELSE None,
                    bindings |-> IF n \in setting.notes THEN bound[n] ELSE {},
                    into |-> None, separate |-> {}]]
        /\ head = note
        /\ upstream \in [Objects -> {"open", "closed"}]
        /\ \A o \in Objects : upstream[o] = "closed" =>
              "periodic" \in setting.tools /\ o \in setting.objects
        /\ tool = [a \in Agents |-> None]

Busy == {a \in Agents : tool[a] # None}
MayStart == setting.overlap \/ Busy = {}

-----------------------------------------------------------------------------
\* Deduplication: the open commitments of one group share bindings, by union-find.

commitmentClosed(c) == c.overlay \in Statuses
\* A commitment that is done is closed to the sync, and open to the deduplication.
isOpen(c) == c.into = None /\ c.overlay \notin {"closed", "dropped"}
openCommitments(notes) == {n \in setting.notes : isOpen(notes[n])}

find(parent, i) == LET root[k \in Notes] == IF parent[k] = k THEN k ELSE root[parent[k]]
                   IN root[i]

\* Faulty variant: hangs the one below the other, wherever that has its root.
unionShallow(parent, a, b) == [parent EXCEPT ![b] = a]

union(parent, a, b) == [parent EXCEPT ![find(parent, b)] = find(parent, a)]

\* The groups of entries: every binding of an entry is united with the first entry that has it,
\* the largest path last (a fold puts what it chooses first around the rest).
groupedBySource(entries, notes) ==
    LET first(o) == Min({n \in entries : o \in notes[n].bindings})
        \* the bindings of one entry, in any order
        Unite(n, p) == FoldSet(LAMBDA o, q : IF first(o) = n THEN q ELSE union(q, n, first(o)),
                               p, notes[n].bindings)
        parent == MapThenFoldSet(Unite, [n \in Notes |-> n], LAMBDA n : n, LAMBDA s : Max(s), entries)
    IN {{n \in entries : find(parent, n) = r} : r \in {find(parent, n) : n \in entries}}

\* A decision counts in either note ("deferred" makes no difference to what may be done).
decisionState(c, d, m, n) == IF n \in c.separate \/ m \in d.separate THEN "not_duplicate" ELSE "open"

\* Any two may be similar enough.
buildCandidates(notes) ==
    LET entries == openCommitments(notes)
        groups == groupedBySource(entries, notes)
    IN {c \in entries \X entries :
           /\ c[1] < c[2] /\ \A g \in groups : ~ {c[1], c[2]} \subseteq g
           /\ decisionState(notes[c[1]], notes[c[2]], c[1], c[2]) # "not_duplicate"}

-----------------------------------------------------------------------------
\* What a tool starts with: it reads all notes.
Call(name, todo, writes) ==
    [step |-> IF writes = <<>> THEN "next" ELSE "prepare", name |-> name, read |-> note,
     todo |-> todo, at |-> None, writes |-> writes, mine |-> {f.file : f \in ToSet(writes)},
     error |-> FALSE]

Start(a, name, todo, writes) ==
    /\ a \in setting.agents /\ tool[a] = None /\ name \in setting.tools /\ MayStart
    /\ tool' = [tool EXCEPT ![a] = Call(name, todo, writes)]
    /\ UNCHANGED <<setting, note, head, upstream>>

Bindings(notes, cs) == UNION {{<<n, o>> : o \in cs[n].bindings} : n \in notes}
Closed(cs) == {n \in setting.notes : commitmentClosed(cs[n])}

File(n, c) == [file |-> n, text |-> c]

\* Faulty variants: push what the deduplication takes for closed, and whatever is bound.
PushNotOpen(a) == Start(a, "push", Bindings({n \in setting.notes : ~ isOpen(note[n])}, note), <<>>)
PushAny(a) == Start(a, "push", Bindings(setting.notes, note), <<>>)

brainGTDSyncPush(a) == Start(a, "push", Bindings(Closed(note), note), <<>>)
brainGTDSyncPeriodic(a) == Start(a, "periodic", Bindings(setting.notes, note), <<>>)

\* Any status may be set, an open one included.
brainGTDSetStatus(a) == \E n \in setting.notes, s \in {None, "done", "dropped"} :
    Start(a, "set_status", {}, <<File(n, [note[n] EXCEPT !.overlay = s])>>)

Winner(w, c) == [w EXCEPT !.bindings = @ \cup c.bindings]
Loser(c, n) == [c EXCEPT !.overlay = "dropped", !.into = n]

\* Faulty variant: the loser is written first.
applyDedupMergeReversed(w, n) == <<File(n, Loser(note[n], w)), File(w, Winner(note[w], note[n]))>>

applyDedupMerge(w, n) == <<File(w, Winner(note[w], note[n])), File(n, Loser(note[n], w))>>

MarkNotDuplicate(m, n) == <<File(m, [note[m] EXCEPT !.separate = @ \cup {n}]),
                            File(n, [note[n] EXCEPT !.separate = @ \cup {m}])>>
\* Nothing but the candidate's label depends on the mark.
MarkDeferred(m, n) == <<File(m, note[m]), File(n, note[n])>>

brainGTDDedupReviewApply(a) == \E pair \in buildCandidates(note) :
    LET m == pair[1]
        n == pair[2]
    IN \E files \in {applyDedupMerge(m, n), applyDedupMerge(n, m),
                     MarkNotDuplicate(m, n), MarkDeferred(m, n)} :
          Start(a, "review", {}, files)

\* The caller names two notes with the same outcome, closed and merged ones included; the map
\* of changed notes is written in any order.
brainGTDBind(a) == \E w, n \in setting.notes : w # n /\
    \E files \in {applyDedupMerge(w, n), Reverse(applyDedupMerge(w, n))} :
        Start(a, "bind", {}, files)

-----------------------------------------------------------------------------
\* The loop over notes, in the order of their paths, and their bindings.

At(a, step) == tool[a] # None /\ tool[a].step = step
Pushing(a) == tool[a].name \in {"push", "set_status"}
First(a) == IF At(a, "next") THEN {p \in tool[a].todo : \A q \in tool[a].todo : p[1] <= q[1]}
                             ELSE {}

Skip(a, p, error) == tool' = [tool EXCEPT ![a].step = "next", ![a].todo = @ \ {p}, ![a].at = None,
                                          ![a].error = @ \/ error]

readBindingStateFails(a) == \E p \in First(a) :
    /\ setting.fails /\ tool[a].name # "mail"
    /\ Skip(a, p, TRUE)
    /\ UNCHANGED <<setting, note, head, upstream>>

pushClosedBinding(a) == \E p \in First(a) :
    /\ Pushing(a)
    /\ IF upstream[p[2]] = "closed" THEN Skip(a, p, FALSE)
       ELSE tool' = [tool EXCEPT ![a].step = "close", ![a].at = p]
    /\ UNCHANGED <<setting, note, head, upstream>>

\* The call may fail, and it may be done although it fails.
closeBinding(a) == \E done, error \in BOOLEAN :
    /\ At(a, "close") /\ (error \/ done) /\ (error => setting.fails)
    /\ upstream' = IF done THEN [upstream EXCEPT ![tool[a].at[2]] = "closed"] ELSE upstream
    /\ Skip(a, tool[a].at, error)
    /\ UNCHANGED <<setting, note, head>>

\* A difference the other way around is only reported.
periodicSyncBinding(a) == \E p \in First(a) :
    LET c == tool[a].read[p[1]]
    IN /\ tool[a].name = "periodic"
       /\ IF upstream[p[2]] = "closed" /\ ~ commitmentClosed(c)
          THEN tool' = [tool EXCEPT ![a].step = "prepare", ![a].at = p, ![a].mine = {p[1]},
                                    ![a].writes = <<File(p[1], [c EXCEPT !.overlay = "closed"])>>]
          ELSE Skip(a, p, FALSE)
       /\ UNCHANGED <<setting, note, head, upstream>>

\* A mail tool has moved message o, or undone that.
mailAction(a) == \E o \in setting.objects, status \in {"open", "closed"} :
    /\ a \in setting.agents /\ tool[a] = None /\ "mail" \in setting.tools /\ MayStart
    /\ upstream' = [upstream EXCEPT ![o] = status]
    /\ tool' = [tool EXCEPT ![a] = Call("mail", {p \in Bindings(setting.notes, note) : p[2] = o}, <<>>)]
    /\ UNCHANGED <<setting, note, head>>

changed(status, a) == {n \in {p[1] : p \in tool[a].todo} : tool[a].read[n].overlay # status}

\* The sequence of some notes in the order of their paths.
InOrder(ns) == {order \in [1 .. Cardinality(ns) -> ns] :
                   ToSet(order) = ns /\ \A i, j \in DOMAIN order : i < j => order[i] < order[j]}

\* A message that cannot be fetched counts as deleted, whatever the reason.
walkMailBindings(a) == \E p \in First(a), error \in BOOLEAN :
    /\ tool[a].name = "mail" /\ (error => setting.fails)
    /\ LET status == IF error \/ upstream[p[2]] = "closed" THEN "closed" ELSE None
       IN \E order \in InOrder(changed(status, a)) :
            tool' = [tool EXCEPT
                     ![a].todo = {}, ![a].at = p, ![a].error = error, ![a].mine = ToSet(order),
                     ![a].writes = [i \in DOMAIN order |->
                         File(order[i], [tool[a].read[order[i]] EXCEPT !.overlay = status])],
                     ![a].step = IF order = <<>> THEN @ ELSE "prepare"]
    /\ UNCHANGED <<setting, note, head, upstream>>

Done(a) == At(a, "next") /\ tool[a].todo = {}

Return(a) == /\ Done(a)
             /\ tool' = [tool EXCEPT ![a] = None]
             /\ UNCHANGED <<setting, note, head, upstream>>

-----------------------------------------------------------------------------
\* WithGitCommit: preflight, the writes, the commit.

\* A mutation that fails ends the call, or is an error of the binding in hand.
Failed(a) == IF tool[a].name = "periodic" THEN Skip(a, tool[a].at, TRUE)
             ELSE tool' = [tool EXCEPT ![a] = None]

rollbackBrainGit == note' = head /\ head' = head

\* Faulty variant: edits that are not committed stay where they are.
commitPreexistingNothing == UNCHANGED <<note, head>>

commitPreexistingDirtyGit == head' = note /\ note' = note

\* What is checked before it fails, or push, which comes after it, without undoing it.
ensureGitFails(a) ==
    /\ At(a, "prepare") \/ At(a, "commit")
    /\ setting.fails
    /\ Failed(a)
    /\ UNCHANGED <<setting, note, head, upstream>>

ensureGitReady(a) ==
    /\ At(a, "prepare") /\ commitPreexistingDirtyGit
    /\ \/ tool' = [tool EXCEPT ![a].step = "write"]
       \/ setting.fails /\ Failed(a)
    /\ UNCHANGED <<setting, upstream>>

\* git add or git commit fails, when there is something to commit.
preflightCommitFails(a) ==
    /\ At(a, "prepare") /\ setting.fails /\ note # head
    /\ rollbackBrainGit
    /\ Failed(a)
    /\ UNCHANGED <<setting, upstream>>

writeDedupNotes(a) ==
    /\ At(a, "write")
    /\ LET f == Head(tool[a].writes) IN
       /\ note' = [note EXCEPT ![f.file] = f.text]
       /\ tool' = [tool EXCEPT ![a].writes = Tail(@),
                               ![a].step = IF Len(tool[a].writes) = 1 THEN "commit" ELSE @]
       /\ UNCHANGED <<setting, head, upstream>>

mutationFails(a) ==
    /\ At(a, "write") \/ At(a, "commit")
    /\ setting.fails
    /\ rollbackBrainGit
    /\ Failed(a)
    /\ UNCHANGED <<setting, upstream>>

\* brain.gtd.set_status goes on with a push of its note, which reads it again.
Committed(a) ==
    CASE tool[a].name = "periodic" -> Skip(a, tool[a].at, FALSE)
      [] tool[a].name = "set_status" ->
           tool' = [tool EXCEPT ![a] = [Call("set_status", Bindings(tool[a].mine \cap Closed(note), note),
                                             <<>>) EXCEPT !.mine = tool[a].mine]]
      [] tool[a].name = "mail" -> tool' = [tool EXCEPT ![a].step = "next"]
      [] OTHER -> tool' = [tool EXCEPT ![a] = None]

\* Everything in the working tree is committed; push may fail after it.
CommitBrainGit(a) ==
    /\ At(a, "commit")
    /\ head' = note
    /\ \/ Committed(a)
       \/ setting.fails /\ Failed(a)
    /\ UNCHANGED <<setting, note, upstream>>

-----------------------------------------------------------------------------
\* The owner edits a note, others close and open objects, an agent stops.

EditNote == \E n \in setting.notes, s \in {None, "done"} :
    /\ setting.owner /\ MayStart /\ note[n].overlay # s
    /\ note' = [note EXCEPT ![n].overlay = s]
    /\ UNCHANGED <<setting, head, upstream, tool>>

ChangeUpstream == \E o \in setting.objects :
    /\ setting.others /\ MayStart
    /\ upstream' = [upstream EXCEPT ![o] = IF @ = "open" THEN "closed" ELSE "open"]
    /\ UNCHANGED <<setting, note, head, tool>>

Stop(a) == /\ setting.restarts /\ tool[a] # None
           /\ tool' = [tool EXCEPT ![a] = None]
           /\ UNCHANGED <<setting, note, head, upstream>>

Sync(a) == \/ brainGTDSyncPush(a) \/ brainGTDSyncPeriodic(a)
           \/ readBindingStateFails(a) \/ pushClosedBinding(a) \/ closeBinding(a)
           \/ periodicSyncBinding(a) \/ mailAction(a) \/ walkMailBindings(a) \/ Return(a)
Mutate(a) == \/ brainGTDSetStatus(a) \/ brainGTDDedupReviewApply(a) \/ brainGTDBind(a)
             \/ ensureGitFails(a) \/ ensureGitReady(a) \/ preflightCommitFails(a)
             \/ writeDedupNotes(a) \/ mutationFails(a) \/ CommitBrainGit(a)

Next == \/ \E a \in Agents : Sync(a) \/ Mutate(a) \/ Stop(a)
        \/ EditNote \/ ChangeUpstream

Spec == Init /\ [][Next]_vars

-----------------------------------------------------------------------------
\* The groups of the union-find are the connected components: of the sets of commitments that
\* share no binding with the others, the smallest.
AggregatesAreComponents ==
    LET entries == openCommitments(note)
        Alone(S) == \A m \in S, n \in entries \ S : note[m].bindings \cap note[n].bindings = {}
        Component(n) == {m \in entries : \A S \in SUBSET entries : n \in S /\ Alone(S) => m \in S}
    IN groupedBySource(entries, note) = {Component(n) : n \in entries}

AloneAtWork == ~ setting.overlap

\* A periodic sync whose preflight fails, and is undone, goes on with what it read before.  That
\* may be a merge that reached the files only, when the owner has opened the loser again.
KeepsUp == "periodic" \in setting.tools => ~ (setting.owner /\ setting.fails)
Reviewed == AloneAtWork /\ "bind" \notin setting.tools /\ KeepsUp

\* Two commitments whose owner has decided to keep them apart are never merged with each other,
\* also when the decision reached only one of the two files before the agent stopped. And a
\* merge loses no binding: whatever a note is bound to, a note that was not merged into another
\* is bound to as well, although the two files are written one by one, and rolled back.
MergesAreSafe == Reviewed => \A n \in Notes :
    /\ \A m \in Notes : note[m].into = n => n \notin note[m].separate /\ m \notin note[n].separate
    /\ \A o \in note[n].bindings : \E w \in Notes : note[w].into = None /\ o \in note[w].bindings

\* A tool that got through its preflight changes the files of its mutation only, a rollback
\* included.
ChangesOnlyMine(a) == \A n \in Notes : note'[n] # note[n] => n \in tool[a].mine
RollbacksKeepOthers ==
    [][AloneAtWork => \A a \in Busy : tool'[a] # tool[a] /\ ~ At(a, "prepare") => ChangesOnlyMine(a)]_vars

\* internal/brain/git_commit.go says that a rollback is used only after the repository was proved clean:
\* then no step of a tool changes a file that is not the tool's.
EditsKept == [][AloneAtWork => \A a \in Busy : tool'[a] # tool[a] => ChangesOnlyMine(a)]_vars

\* A tool that ends without an error has made the sides agree: a push has closed the objects of
\* the closed notes (set_status those of its note), a periodic sync the notes of the closed
\* objects, and a mail tool has made the notes of its message as open or closed as it is.
Settled == AloneAtWork => \A a \in Busy :
    LET IsClosed(o) == upstream[o] = "closed"
        Pushed(notes) == \A n \in notes \cap Closed(note) : \A o \in note[n].bindings : IsClosed(o)
    IN Done(a) /\ tool'[a] = None /\ ~ tool[a].error =>
         /\ tool[a].name = "push" => Pushed(setting.notes)
         /\ tool[a].name = "set_status" => Pushed(tool[a].mine)
         /\ tool[a].name = "periodic" => \A n \in setting.notes \ Closed(note) :
                                           \A o \in note[n].bindings : ~ IsClosed(o)
         /\ tool[a].name = "mail" /\ tool[a].at # None => \A n \in setting.notes :
              LET o == tool[a].at[2]
              IN o \in note[n].bindings => (n \in Closed(note) <=> IsClosed(o))

\* Tools that merge nothing, one at a time; or syncs at the same time and nothing else.
SyncsOnly == \/ AloneAtWork /\ setting.tools \cap {"review", "bind"} = {}
             \/ Quiet /\ setting.tools \subseteq {"push", "periodic"}

\* A sync closes nothing without a reason: an object only when a note bound to it is closed, a
\* note only when an object it is bound to is.  (A merge closes the loser of an open winner, so
\* this is for commitments that are not merged.)  Syncs at the same time, which work on what they
\* read before, keep to it as long as everything else leaves notes and objects alone.
Justified == SyncsOnly => \A a \in Busy :
        tool'[a] # tool[a] /\ tool'[a] # None /\ tool[a].name \in {"push", "periodic"} =>
          /\ \A o \in Objects : upstream'[o] # upstream[o] =>
                \E n \in Closed(note) : o \in note[n].bindings
          /\ At(a, "write") => \A n \in Notes : note'[n] # note[n] =>
                \E o \in note[n].bindings : upstream[o] = "closed"

\* A sync leaves the two sides as they should be, and does nothing to them without a reason.
SyncsAgree == [][Settled /\ Justified]_vars

=============================================================================
