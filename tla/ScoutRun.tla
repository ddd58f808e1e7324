------------------------------- MODULE ScoutRun -------------------------------
(* The scout stage of `sloptools brain night` (cmd/sloptools/brain_night.go,   *)
(* internal/brain/scout): the notes that no report was written about lately    *)
(* are ranked, the first few of them are each researched by the local bulk     *)
(* model, a report the classifier flags is given to a free self-resolve pass   *)
(* and then to a paid reviewer, and the claims of the report go to the         *)
(* evidence log.  What was scouted is remembered by the files of the reports   *)
(* and by a cursor file.                                                       *)
EXTENDS Naturals, FiniteSets

CONSTANTS Notes,      \* notes with a score above zero
          Nights,     \* processes that run the stage
          Settings,   \* the circumstances the stage runs under
          MaxDay,     \* bound: the nights are those of days 0 to MaxDay
          None

Days == 0 .. MaxDay

\* What a model call can do: fail (an error, an empty answer), or return a report that the
\* classifier flags or does not.
Outcomes == {"failed", "flagged", "clean"}

\* Who wrote a report: the bulk model, the n-th self-resolve pass, the paid reviewer; or
\* nobody, because the note was skipped.
bulk == 0
escalated == 4
Writers == bulk .. escalated
skipped == 5

\* notes, nights: those there are; slug: the name of a note's report, which sanitize makes of
\* its path; sparse: notes with less than 200 characters; maxItems: --max-scout-items;
\* cooldown: 7 days, of both files; passes: --self-resolve-passes; outcomes: of every model
\* call; paid: the paid provider is not saturated; killed: nights can be killed; daily: one
\* night runs to its end every day; until: a bound on the day.
SettingRecords == [notes : SUBSET Notes, nights : SUBSET Nights, slug : [Notes -> Notes],
                   sparse : SUBSET Notes, maxItems : Nat, cooldown : Nat, passes : Nat,
                   outcomes : SUBSET Outcomes, paid : BOOLEAN, killed : BOOLEAN,
                   daily : BOOLEAN, until : Days]

VARIABLES setting,    \* one of the Settings, the same all the time
          day,
          ended,      \* whether a night has come to the end of the stage today
          report,     \* report[s]: the newest report of slug s, or None
          processed,  \* the cursor file: the day a note was processed last, or None
          evidence,   \* evidence[n]: the newest claims about n in the log, or None
          run         \* run[r]: the stage r is in, or None

vars == <<setting, day, ended, report, processed, evidence, run>>

Reports == [note : Notes, day : Days, by : Writers]
Claims == [day : Days, by : Writers \cup {skipped}]

\* cursor: as loaded; todo: picks not looked at; done: picks with a report; note: the pick at
\* hand, its report written by the writer by, which is in body; left: self-resolve passes.
RunRecords == [at : {"next", "resolve", "escalate", "evidence"}, cursor : [Notes -> Days \cup {None}],
               todo : SUBSET Notes, done : SUBSET Notes, note : Notes \cup {None},
               by : Writers, left : 0 .. 3]

TypeOK == /\ setting \in Settings /\ day \in Days /\ ended \in BOOLEAN
          /\ report \in [Notes -> Reports \cup {None}]
          /\ processed \in [Notes -> Days \cup {None}]
          /\ evidence \in [Notes -> Claims \cup {None}]
          /\ run \in [Nights -> RunRecords \cup {None}]

Init == /\ setting \in Settings /\ day = 0 /\ ended = FALSE
        /\ report = [s \in Notes |-> None] /\ processed = [n \in Notes |-> None]
        /\ evidence = [n \in Notes |-> None] /\ run = [r \in Nights |-> None]

Slug(n) == setting.slug[n]

\* Nights begin at the same hour: what was written in the night a cooldown ago is younger than
\* the cut-off of tonight.
Lately(d) == d # None /\ d + setting.cooldown >= day

\* Faulty variant: the files of the reports are not looked at.
cooldownOff(n) == FALSE

\* loadCooldown, by the modification times of the reports.
loadCooldown(n) == report[Slug(n)] # None /\ Lately(report[Slug(n)].day)

\* loadScoutCursor drops what is older.
loadScoutCursor == [n \in Notes |-> IF Lately(processed[n]) THEN processed[n] ELSE None]

Eligible == {n \in setting.notes : ~loadCooldown(n) /\ loadScoutCursor[n] = None}

\* The first maxItems of some notes in an order that depends on their contents.
Cropped(ns) == IF setting.maxItems = 0 \/ Cardinality(ns) <= setting.maxItems THEN {ns}
               ELSE {picks \in SUBSET ns : Cardinality(picks) = setting.maxItems}

\* Faulty variant: the notes are ranked and cropped before those scouted lately are dropped.
PicksCropFirst == {picks \cap Eligible : picks \in Cropped(setting.notes)}

\* PickEntities and the cap of runScoutStage.
Picks == Cropped(Eligible)

-----------------------------------------------------------------------------
At(r, at) == run[r] # None /\ run[r].at = at
Goes(r, rec) == run' = [run EXCEPT ![r] = rec]
NextPick(r) == [run[r] EXCEPT !.at = "next", !.note = None, !.by = bulk, !.left = 0]

\* runScoutStage reads the notes, the reports and the cursor; without a pick it ends at once.
runScoutStage(r) ==
    /\ run[r] = None
    /\ \E picks \in Picks :
          IF picks = {} THEN ended' = TRUE /\ UNCHANGED run
          ELSE /\ Goes(r, [at |-> "next", cursor |-> loadScoutCursor, todo |-> picks, done |-> {},
                           note |-> None, by |-> bulk, left |-> 0])
               /\ UNCHANGED ended
    /\ UNCHANGED <<setting, day, report, processed, evidence>>

\* runOnePick of a note with too little text: the log says so, and nothing else does.
skipSparse(r, n) ==
    /\ At(r, "next") /\ n \in run[r].todo \cap setting.sparse
    /\ evidence' = [evidence EXCEPT ![n] = [day |-> day, by |-> skipped]]
    /\ Goes(r, [run[r] EXCEPT !.todo = @ \ {n}])
    /\ UNCHANGED <<setting, day, ended, report, processed>>

writeReport(n, by) == report' = [report EXCEPT ![Slug(n)] = [note |-> n, day |-> day, by |-> by]]

Passes == IF setting.passes = 0 THEN 1 ELSE IF setting.passes > 3 THEN 3 ELSE setting.passes

\* runOnePick up to the classifier: the bulk model writes the report, or the pick is skipped.
runOnePick(r, n) ==
    /\ At(r, "next") /\ n \in run[r].todo \ setting.sparse
    /\ \E outcome \in setting.outcomes :
          IF outcome = "failed"
          THEN Goes(r, [run[r] EXCEPT !.todo = @ \ {n}]) /\ UNCHANGED report
          ELSE /\ writeReport(n, bulk)
               /\ Goes(r, [run[r] EXCEPT !.todo = @ \ {n}, !.note = n, !.left = Passes,
                              !.at = IF outcome = "flagged" THEN "resolve" ELSE "evidence"])
    /\ UNCHANGED <<setting, day, ended, processed, evidence>>

\* Faulty variant: the caller keeps the draft that the pass was given.
selfResolveKeepingDraft(r) ==
    /\ At(r, "resolve")
    /\ \E outcome \in setting.outcomes \ {"failed"} :
          /\ writeReport(run[r].note, Passes - run[r].left + 1)
          /\ Goes(r, [run[r] EXCEPT !.at = IF outcome = "clean" THEN "evidence" ELSE "escalate"])
    /\ UNCHANGED <<setting, day, ended, processed, evidence>>

\* A pass rewrites the report; the passes end with one that fails or satisfies the classifier.
selfResolveOne(r) ==
    /\ At(r, "resolve")
    /\ \E outcome \in setting.outcomes :
          IF outcome = "failed"
          THEN Goes(r, [run[r] EXCEPT !.at = "escalate"]) /\ UNCHANGED report
          ELSE LET by == Passes - run[r].left + 1
               IN  /\ writeReport(run[r].note, by)
                   /\ Goes(r, [run[r] EXCEPT !.by = by, !.left = @ - 1,
                                  !.at = IF outcome = "clean" THEN "evidence"
                                         ELSE IF run[r].left > 1 THEN "resolve" ELSE "escalate"])
    /\ UNCHANGED <<setting, day, ended, processed, evidence>>

\* The reviewer's report replaces the file; the caller goes on with the one it has.
escalateOne(r) ==
    /\ At(r, "escalate")
    /\ Goes(r, [run[r] EXCEPT !.at = "evidence"])
    /\ \/ UNCHANGED report   \* saturated, an error, or an empty answer
       \/ setting.paid /\ writeReport(run[r].note, escalated)
    /\ UNCHANGED <<setting, day, ended, processed, evidence>>

\* The claims are parsed from the report at hand.  Every report is taken to have some.
appendEvidence(r) ==
    /\ At(r, "evidence")
    /\ evidence' = [evidence EXCEPT ![run[r].note] = [day |-> day, by |-> run[r].by]]
    /\ Goes(r, [NextPick(r) EXCEPT !.done = @ \cup {run[r].note}])
    /\ UNCHANGED <<setting, day, ended, report, processed>>

\* The cursor file is written from the copy that was loaded.
saveScoutCursor(r) ==
    /\ At(r, "next") /\ run[r].todo = {}
    /\ processed' = [n \in Notes |-> IF n \in run[r].done THEN day ELSE run[r].cursor[n]]
    /\ run' = [run EXCEPT ![r] = None]
    /\ ended' = TRUE
    /\ UNCHANGED <<setting, day, report, evidence>>

Kill(r) == /\ setting.killed /\ run[r] # None
           /\ run' = [run EXCEPT ![r] = None]
           /\ UNCHANGED <<setting, day, ended, report, processed, evidence>>

\* A night is over before the next day begins.
Tomorrow == /\ day < setting.until /\ \A r \in Nights : run[r] = None
            /\ setting.daily => ended
            /\ day' = day + 1 /\ ended' = FALSE
            /\ UNCHANGED <<setting, report, processed, evidence, run>>

Next == \/ \E r \in setting.nights :
              \/ \E n \in Notes : skipSparse(r, n) \/ runOnePick(r, n)
              \/ runScoutStage(r) \/ selfResolveOne(r) \/ escalateOne(r)
              \/ appendEvidence(r) \/ saveScoutCursor(r) \/ Kill(r)
        \/ Tomorrow

Spec == Init /\ [][Next]_vars

-----------------------------------------------------------------------------
Alone == \A r, s \in setting.nights : r = s

\* One night at a time, killed at any point, with calls that fail: the bulk model is not asked
\* about a note that has a report from within the cooldown, whichever of the two files of what
\* was scouted is behind.
ScoutedAfresh ==
    [][Alone => \A s \in Notes : LET old == report[s] new == report'[s] IN
          (new # old /\ new.by = bulk) => old = None \/ old.note # new.note \/ ~Lately(old.day)]_vars

\* A vault small enough, a night every day, and calls that succeed.
Rotating == /\ setting.daily /\ ~setting.killed /\ setting.sparse = {}
            /\ "failed" \notin setting.outcomes
            /\ setting.maxItems = 0
                 \/ Cardinality(setting.notes) <= setting.maxItems * (setting.cooldown + 1)

\* Then every note gets its turn, or one that shares its slug, whatever its rank: the first
\* within a cooldown, and the next one at most two cooldowns and a day after the last.
EveryNoteInTurn ==
    Rotating => \A n \in setting.notes :
       LET last == report[Slug(n)]
       IN  IF last = None THEN day <= setting.cooldown
           ELSE last.day + 2 * setting.cooldown + 1 >= day

\* When no night is under way and none was killed, every report has its claims in the log,
\* also where two nights scouted a note at once.  With one at a time they are the claims of the
\* pass that wrote the report last, unless a paid reviewer replaced it.
EvidenceOfReports ==
    (~setting.killed /\ \A r \in Nights : run[r] = None) =>
       \A s \in Notes : LET last == report[s] IN
          last # None =>
             /\ evidence[last.note] # None /\ evidence[last.note].day = last.day
             /\ Alone /\ last.by # escalated => evidence[last.note].by = last.by

=============================================================================
