----------------------------- MODULE EvidenceLog -----------------------------
(* The evidence log of the brain nights (internal/brain/evidence): a file with a *)
(* line per claim, appended by the scout stage and rewritten as a whole by every *)
(* other operation.  A night goes through scout, triage, edit, propose, feedback *)
(* and judge (cmd/sloptools/brain_night_triage.go, internal/brain/edit); it can  *)
(* be killed anywhere, and the owner reverts edits in git whenever he likes.     *)
EXTENDS Naturals, Sequences, FiniteSets, SequencesExt, FiniteSetsExt, Functions

CONSTANTS Nights,        \* the processes that run nights on the vault
          Entities,
          Settings,      \* the circumstances the nights run under
          MaxEntries,    \* claims that are ever found
          MaxDay, MaxRuns,
          None

Ids == 1 .. MaxEntries
Days == 0 .. MaxDay
Verdicts == {"verified", "conflicting"}

\* triageDays, yieldDays: how far back triage (7 in the code) and the picker (90) read;
\* nights: the processes there are; kills: whether a night can be killed; gaps: whether a
\* day can pass without a night; whole: whether the owner reverts the commit, not only the
\* note; items, entries, days, runs: bounds on what triage lists, on the claims, on the days
\* and on the nights.
SettingRecords == [triageDays : Nat, yieldDays : Nat, nights : SUBSET Nights,
                   kills : BOOLEAN, gaps : BOOLEAN, whole : BOOLEAN,
                   items : Nat, entries : 0 .. MaxEntries, days : Days, runs : 0 .. MaxRuns]

VARIABLES setting,   \* one of the Settings, the same all the time
          day,
          claim,     \* claim[i]: what entry i says, None while it is not found
          log,       \* log[i]: the line of entry i in the file, None if there is none
          head,      \* the log in the last commit
          edits,     \* edits[e]: the log before and after the last edit commit of e
          reverts,   \* the owner's revert commits
          proposed,  \* the entities with a proposal file of today
          night,     \* night[n]: the stage and the memory of process n
          uses,      \* uses[i]: the runs in which an edit that succeeded was given entry i
          rejected   \* the entries whose edit the owner reverted

vars == <<setting, day, claim, log, head, edits, reverts, proposed, night, uses, rejected>>

Claims == [entity : Entities, verdict : Verdicts, day : Days]
Lines == [applied : BOOLEAN, reverted : BOOLEAN]
Logs == [Ids -> Lines \cup {None}]
Stages == {"idle", "scout", "edit", "marking", "commit", "feedback", "judge"}

\* snapshot: the entries triage read; items: the entities still to be edited; edited: those
\* that were; tmp: the file that is being rewritten, None between rewrites; run: the run ID,
\* on: the day of the night, both kept after it.
NightStates == [stage : Stages, snapshot : SUBSET Ids, items : Seq(Entities),
                edited : SUBSET Entities, tmp : Logs \cup {None},
                run : 0 .. MaxRuns, on : Days \cup {None}]

TypeOK == /\ setting \in Settings /\ day \in Days
          /\ claim \in [Ids -> Claims \cup {None}]
          /\ log \in Logs /\ head \in Logs
          /\ edits \in [Entities -> [before : Logs, after : Logs] \cup {None}]
          /\ reverts \in SUBSET [entity : Entities, day : Days]
          /\ proposed \in SUBSET Entities
          /\ night \in [Nights -> NightStates]
          /\ uses \in [Ids -> SUBSET Nat] /\ rejected \in SUBSET Ids
          /\ \A i \in Ids : log[i] # None => claim[i] # None
          /\ \A n \in Nights : night[n].stage = "idle" => night[n].tmp = None

Asleep(run, on) == [stage |-> "idle", snapshot |-> {}, items |-> <<>>, edited |-> {},
                    tmp |-> None, run |-> run, on |-> on]

Over(n) == night' = [night EXCEPT ![n] = Asleep(night[n].run, night[n].on)]

Init == /\ setting \in Settings /\ day = 0 /\ reverts = {} /\ proposed = {} /\ rejected = {}
        /\ claim = [i \in Ids |-> None]
        /\ log = [i \in Ids |-> None] /\ head = log
        /\ edits = [e \in Entities |-> None]
        /\ night = [n \in Nights |-> Asleep(0, None)]
        /\ uses = [i \in Ids |-> {}]

-----------------------------------------------------------------------------
Logged(l) == {i \in Ids : l[i] # None}
About(e) == {i \in Ids : claim[i] # None /\ claim[i].entity = e}

\* Faulty variant: an entry of the last days that are read is dropped with the older ones.
RecentNarrow(days) == {i \in Logged(log) : claim[i].day + days > day + 1}

Recent(days) == {i \in Logged(log) : claim[i].day + days > day}

\* Faulty variant: what was applied is read again.
UnappliedAny(ids) == ids

\* The entries of ReadUnapplied.
Unapplied(ids) == {i \in ids : ~log[i].applied /\ ~log[i].reverted}

\* The three rewrites, each the new contents of the file.
Pruned(days) == [i \in Ids |-> IF i \in Recent(days) THEN log[i] ELSE None]

\* Faulty variant: an edit marks the lines of every entity.
AppliedAny(e) == [i \in Ids |-> IF i \in Logged(log)
                                THEN [log[i] EXCEPT !.applied = TRUE] ELSE log[i]]

AppliedAll(e) == [i \in Ids |-> IF i \in Logged(log) \cap About(e)
                                THEN [log[i] EXCEPT !.applied = TRUE] ELSE log[i]]

Reverted(es) == [i \in Ids |-> IF i \in Logged(log) /\ claim[i].entity \in es /\ log[i].applied
                               THEN [log[i] EXCEPT !.reverted = TRUE] ELSE log[i]]

Ready(n, stage) == night[n].stage = stage /\ night[n].tmp = None

\* rewrite: the new contents go to a temporary file first.
Goto(n, stage, new) == night' = [night EXCEPT ![n].stage = stage, ![n].tmp = new]

\* An operation that changed no line leaves the file alone.
Changed(new) == IF new = log THEN None ELSE new

\* The rename at the end of a rewrite.
Rename(n) == /\ night[n].tmp # None
             /\ log' = night[n].tmp
             /\ night' = [night EXCEPT ![n].tmp = None]
             /\ UNCHANGED <<setting, day, claim, head, edits, reverts, proposed, uses, rejected>>

LastRun == Max({night[n].run : n \in Nights})

\* A night starts; its picker asks the log for the yield of the entities.
PickEntities(n) ==
    /\ Ready(n, "idle") /\ LastRun < setting.runs
    /\ night' = [night EXCEPT ![n] = [Asleep(LastRun + 1, day) EXCEPT !.stage = "scout",
                                                                    !.tmp = Pruned(setting.yieldDays)]]
    /\ UNCHANGED <<setting, day, claim, log, head, edits, reverts, proposed, uses, rejected>>

\* The scout stage appends what a report says of an entity.
Append1(n) ==
    /\ Ready(n, "scout")
    /\ \E i \in 1 .. setting.entries, e \in Entities, v \in Verdicts :
          /\ claim[i] = None /\ (i > 1 => claim[i - 1] # None)
          /\ claim' = [claim EXCEPT ![i] = [entity |-> e, verdict |-> v, day |-> day]]
          /\ log' = [log EXCEPT ![i] = [applied |-> FALSE, reverted |-> FALSE]]
    /\ UNCHANGED <<setting, day, head, edits, reverts, proposed, night, uses, rejected>>

\* What triage may answer: any list of entities, repetitions included.
Lists == SeqOf(Entities, setting.items)

\* runTriageEditStages reads what is not applied, and ranks the entities.
Triage(n) ==
    /\ Ready(n, "scout")
    /\ \E items \in Lists :
          night' = [night EXCEPT ![n].stage = "edit", ![n].tmp = Pruned(setting.triageDays),
                                 ![n].snapshot = Unapplied(Recent(setting.triageDays)),
                                 ![n].items = items]
    /\ UNCHANGED <<setting, day, claim, log, head, edits, reverts, proposed, uses, rejected>>

\* runOne: the packet of the entity has its entries of the snapshot; the model edits the
\* note, at the first attempt or after the escalation.
EditSucceeds(n) ==
    /\ Ready(n, "edit") /\ night[n].items # <<>>
    /\ LET e == Head(night[n].items) IN
          uses' = [i \in Ids |-> IF i \in night[n].snapshot \cap About(e)
                                 THEN uses[i] \cup {night[n].run} ELSE uses[i]]
    /\ night' = [night EXCEPT ![n].stage = "marking"]
    /\ UNCHANGED <<setting, day, claim, log, head, edits, reverts, proposed, rejected>>

EditFails(n) ==
    /\ Ready(n, "edit") /\ night[n].items # <<>>
    /\ night' = [night EXCEPT ![n].items = Tail(@)]
    /\ UNCHANGED <<setting, day, claim, log, head, edits, reverts, proposed, uses, rejected>>

MarkAppliedAll(n) ==
    /\ Ready(n, "marking")
    /\ Goto(n, "commit", Changed(AppliedAll(Head(night[n].items))))
    /\ UNCHANGED <<setting, day, claim, log, head, edits, reverts, proposed, uses, rejected>>

\* git add -A: the commit has whatever is in the log by now.
commitEntityEdit(n) ==
    /\ Ready(n, "commit")
    /\ LET e == Head(night[n].items) IN
          /\ edits' = [edits EXCEPT ![e] = [before |-> head, after |-> log]]
          /\ night' = [night EXCEPT ![n].stage = "edit", ![n].items = Tail(@),
                                    ![n].edited = @ \cup {e}]
    /\ head' = log
    /\ UNCHANGED <<setting, day, claim, log, reverts, proposed, uses, rejected>>

\* Faulty variant: no proposal for an entity that was not edited.
ConflictsEdited(n) == {claim[i].entity : i \in {j \in night[n].snapshot :
                          claim[j].verdict = "conflicting" /\ claim[j].entity \in night[n].edited}}

Conflicts(n) == {claim[i].entity : i \in {j \in night[n].snapshot :
                                              claim[j].verdict = "conflicting"}}

\* ProposeConflicts goes through the snapshot; a proposal of today stays as it is.
ProposeConflicts(n) ==
    /\ Ready(n, "edit") /\ night[n].items = <<>>
    /\ proposed' = proposed \cup Conflicts(n)
    /\ night' = [night EXCEPT ![n].stage = "feedback"]
    /\ UNCHANGED <<setting, day, claim, log, head, edits, reverts, uses, rejected>>

\* Faulty variant: the reverts of today only.
RevertedToday == {r.entity : r \in {s \in reverts : s.day = day}}

\* git log since a day before the night.
RevertedLately == {r.entity : r \in {s \in reverts : s.day + 1 >= day}}

DetectReverts(n) ==
    /\ Ready(n, "feedback")
    /\ Goto(n, "judge", Changed(Reverted(RevertedLately)))
    /\ UNCHANGED <<setting, day, claim, log, head, edits, reverts, proposed, uses, rejected>>

\* The judge stage ends the night with a commit of its own.
Judge(n) ==
    /\ Ready(n, "judge")
    /\ head' = log
    /\ Over(n)
    /\ UNCHANGED <<setting, day, claim, log, edits, reverts, proposed, uses, rejected>>

Kill(n) ==
    /\ setting.kills /\ night[n].stage # "idle"
    /\ Over(n)
    /\ UNCHANGED <<setting, day, claim, log, head, edits, reverts, proposed, uses, rejected>>

-----------------------------------------------------------------------------
\* The lines that a commit changed.
Touched(c) == {i \in Ids : c.before[i] # c.after[i]}

\* The entries that the last edit commit of e applied.
AppliedBy(e) == {i \in Touched(edits[e]) \cap About(e) :
                    edits[e].after[i] # None /\ edits[e].after[i].applied}

\* The owner restores the note and commits that, as a revert.
RevertNote(e) ==
    /\ edits[e] # None
    /\ reverts' = reverts \cup {[entity |-> e, day |-> day]}
    /\ rejected' = rejected \cup AppliedBy(e)
    /\ edits' = [edits EXCEPT ![e] = None]
    /\ UNCHANGED <<setting, day, claim, log, head, proposed, night, uses>>

\* git revert of the edit commit, which holds the log too: it takes a log without
\* uncommitted changes, and applies if nothing else changed the lines.
RevertCommit(e) ==
    /\ setting.whole /\ edits[e] # None /\ log = head
    /\ \A i \in Touched(edits[e]) : log[i] = edits[e].after[i]
    /\ log' = [i \in Ids |-> IF i \in Touched(edits[e]) THEN edits[e].before[i] ELSE log[i]]
    /\ head' = log'
    /\ reverts' = reverts \cup {[entity |-> e, day |-> day]}
    /\ rejected' = rejected \cup AppliedBy(e)
    /\ edits' = [edits EXCEPT ![e] = None]
    /\ UNCHANGED <<setting, day, claim, proposed, night, uses>>

\* A day passes between the nights.
NextDay == /\ day < setting.days /\ \A n \in Nights : night[n].stage = "idle"
           /\ setting.gaps \/ \E n \in Nights : night[n].on = day
           /\ day' = day + 1 /\ proposed' = {}
           /\ UNCHANGED <<setting, claim, log, head, edits, reverts, night, uses, rejected>>

Next == \/ \E n \in setting.nights : \/ PickEntities(n) \/ Append1(n) \/ Triage(n) \/ Rename(n)
                             \/ EditSucceeds(n) \/ EditFails(n) \/ MarkAppliedAll(n)
                             \/ commitEntityEdit(n) \/ ProposeConflicts(n)
                             \/ DetectReverts(n) \/ Judge(n) \/ Kill(n)
        \/ \E e \in Entities : RevertNote(e) \/ RevertCommit(e)
        \/ NextDay

Spec == Init /\ [][Next]_vars

-----------------------------------------------------------------------------
\* One night at a time.
Alone == \A n, m \in setting.nights : n = m

\* As long as one night runs at a time and no commit is reverted as a whole: a line is marked
\* applied only after an edit that succeeded was given its claim, and, where no night is killed,
\* an edit that took up a claim is the only one, whatever triage lists.
AppliedOnce == Alone /\ ~setting.whole => \A i \in Ids :
    /\ log[i] # None /\ log[i].applied => uses[i] # {}
    /\ setting.kills \/ Cardinality(uses[i]) <= 1

\* A night that gets through its edits drops no conflict it read, whatever runs beside it or
\* was killed before it: the entity was edited, or there is a proposal of today.
ConflictsReviewed == \A n \in Nights : night[n].stage \in {"feedback", "judge"} =>
                        \A i \in night[n].snapshot :
                            claim[i].verdict = "conflicting" /\ night[n].on = day =>
                                claim[i].entity \in night[n].edited \cup proposed

\* A step of the owner.
TakingBack == \E e \in Entities : edits[e] # None /\ edits'[e] = None

KeepFresh == \A i \in Ids : log[i] # None /\ log'[i] = None =>
                claim[i].day + setting.triageDays <= day \/ TakingBack

\* No rewrite drops a line that triage would still read, as long as one night runs at a time.
FreshKept == [][Alone => KeepFresh]_vars

Respect == \A i \in rejected : uses'[i] = uses[i]

\* Evidence whose edit the owner has taken back is not given to the edits of a later night, as
\* long as one night runs at a time and the owner takes back notes, not commits, however many
\* nights are killed and days skipped.
RejectedStays == [][Alone /\ ~setting.whole => Respect]_vars

File(n) == IF night[n].tmp = None THEN log ELSE night[n].tmp

RecordReverts == \A n \in Nights :
                    night[n].stage = "feedback" /\ night'[n].stage = "judge" =>
                        \A i \in rejected \cap Logged(log) : (File(n)[i].reverted)'

\* The feedback stage marks the evidence of every edit that the owner has taken back, as long
\* as there is one night every day that is not killed, and no commit is reverted as a whole.
RevertsRecorded == [][Alone /\ ~setting.kills /\ ~setting.gaps /\ ~setting.whole =>
                         RecordReverts]_vars

=============================================================================
