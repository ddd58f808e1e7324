---------------------------- MODULE MCBrainNight ----------------------------
(* BrainNight with two processes, six notes, one job and two entities.         *)
EXTENDS BrainNight, TLC

CONSTANTS a, b, n1, n2, n3, n4, n5, n6, e1, e2

TwoProcesses == {a, b}
OneJob == {a}
SixNotes == {n1, n2, n3, n4, n5, n6}

\* Two processes with the pool of the default stages, one paid model, whose calls are answered;
\* and one process with a pool that brain.toml can give a stage, whose calls can fail, on a
\* vault whose commands can be rolled back.
Answered == [processes |-> {a, b}, pool |-> <<"openai">>,
             fail |-> FALSE, rollback |-> FALSE, ledger |-> 6]
Mixed == [processes |-> {a}, pool |-> <<"openai", "openai", "local">>,
          fail |-> TRUE, rollback |-> TRUE, ledger |-> 4]
AllSettings == {Answered, Mixed}

\* A vault as large as a cooldown can scout, without and with two notes of one slug; calls that
\* fail, are flagged and escalated, with nights that are killed, and with two nights at once.
Rotation == [notes |-> Notes, nights |-> {a}, slug |-> [n \in Notes |-> n], sparse |-> {},
             maxItems |-> 2, cooldown |-> 2, passes |-> 1, outcomes |-> {"clean"}, paid |-> FALSE,
             killed |-> FALSE, daily |-> TRUE, until |-> MaxScoutDay]
SameSlug == [Rotation EXCEPT !.slug = [n \in Notes |-> IF n = n2 THEN n1 ELSE n]]
Flagged == [Rotation EXCEPT !.notes = {n1, n2}, !.maxItems = 1, !.cooldown = 1, !.passes = 2,
                            !.outcomes = {"failed", "flagged", "clean"}, !.paid = TRUE, !.daily = FALSE, !.until = 3]
Killed == [Flagged EXCEPT !.killed = TRUE, !.sparse = {n2}, !.maxItems = 0, !.passes = 0]
TwoNights == [Flagged EXCEPT !.nights = {a, b}, !.passes = 1, !.until = 1]
AllScouts == {Rotation, SameSlug, Flagged, Killed, TwoNights}

AllKinds == {"night", "sync", "sweep", "edit", "judge", "sleep"}

\* Full nights that end; and jobs of every kind that fail or are killed at any stage.
Regular == [jobs |-> {a}, kinds |-> {"night"}, dry |-> FALSE, fails |-> FALSE, killed |-> FALSE,
            first |-> MaxTime, most |-> MaxTime, until |-> MaxTime]
Irregular == [jobs |-> {a}, kinds |-> AllKinds, dry |-> TRUE, fails |-> TRUE, killed |-> TRUE,
              first |-> 1, most |-> 2, until |-> 3]
AllWindows == {Regular, Irregular}
RegularOnly == {Regular}

\* One night a day.
Orderly == [triageDays |-> 2, yieldDays |-> 3, nights |-> {a}, kills |-> FALSE, gaps |-> FALSE,
            whole |-> FALSE, items |-> 2, entries |-> 2, days |-> 1, runs |-> 2]
\* More days and nights, of one edit each.
Lasting == [Orderly EXCEPT !.triageDays = 3, !.items = 1, !.days = 2, !.runs = 3]
\* Nights that are killed, days without one, a window of a day.
Rough == [Orderly EXCEPT !.triageDays = 1, !.yieldDays = 2, !.kills = TRUE, !.gaps = TRUE]
\* Two nights at once on one day, and one claim.
Overlapping == [Orderly EXCEPT !.nights = {a, b}, !.items = 1, !.entries = 1, !.days = 0]
\* The owner reverts commits.
Whole == [Orderly EXCEPT !.items = 1, !.whole = TRUE]
AllLogs == {Orderly, Lasting, Rough, Overlapping, Whole}

\* Nothing tells the two entities apart, and only the evidence log has them.
TwoEntities == {e1, e2}
AlikeEntities == Permutations(TwoEntities)

\* While one side changes, the others are at rest in one of their settings.
MCInit == /\ NightInit
          /\ part = "evidence" \/ setting = Orderly
          /\ part = "budget" \/ budget = Answered
          /\ part = "scout" \/ scouting = Rotation
          /\ part = "windows" \/ window = Regular

MCSpec == MCInit /\ [][NightNext]_nightVars

=============================================================================
