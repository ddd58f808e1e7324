----------------------------- MODULE BrainNight -----------------------------
(* Four sides of a night whose models share no state: its evidence log         *)
(* (EvidenceLog), the budget of its paid calls (NightBudget), the scout stage  *)
(* (ScoutRun) and the windows of what it looks at (NightWindow).  A behaviour  *)
(* is one of the four.                                                         *)
EXTENDS EvidenceLog

CONSTANTS Processes, BudgetSettings, MaxCalls, NightTokens, WeekNights, Week, CallTokens,
          MaxInstant, MaxLedger, MaxPicks,
          Notes, ScoutSettings, MaxScoutDay,
          Jobs, WindowSettings, MaxTime

VARIABLES budget, instant, ledger, kept, proc,
          scouting, scoutDay, ended, report, processed, evidence, run,
          window, now, lastSync, committed, job, digested, judged, talked,
          part   \* the side that changes

Budget == INSTANCE NightBudget WITH Settings <- BudgetSettings, Nights <- WeekNights,
                                    MaxTime <- MaxInstant,
                                    setting <- budget, now <- instant, committed <- kept
Scout == INSTANCE ScoutRun WITH Settings <- ScoutSettings, MaxDay <- MaxScoutDay,
                                setting <- scouting, day <- scoutDay
Windows == INSTANCE NightWindow WITH Settings <- WindowSettings, setting <- window

budgetVars == <<budget, instant, ledger, kept, proc>>
scoutVars == <<scouting, scoutDay, ended, report, processed, evidence, run>>
windowVars == <<window, now, lastSync, committed, job, digested, judged, talked>>

ASSUME ConstantsAssumption ==
    /\ Settings \subseteq SettingRecords /\ {MaxEntries, MaxDay, MaxRuns} \subseteq Nat
    /\ \A s \in Settings : s.triageDays <= s.yieldDays
    /\ IsFiniteSet(Processes) /\ BudgetSettings \subseteq Budget!SettingRecords
    /\ {MaxCalls, NightTokens, WeekNights, Week, MaxInstant, MaxLedger, MaxPicks} \subseteq Nat
    /\ IsFiniteSet(CallTokens) /\ CallTokens \subseteq Nat /\ CallTokens # {}
    /\ ScoutSettings \subseteq Scout!SettingRecords /\ MaxScoutDay \in Nat
    /\ WindowSettings \subseteq Windows!SettingRecords /\ MaxTime \in Nat
    /\ None \notin Nat

NightInit == /\ Init /\ Budget!Init /\ Scout!Init /\ Windows!Init
             /\ part \in {"evidence", "budget", "scout", "windows"}

NightNext ==
    /\ UNCHANGED part
    /\ \/ part = "evidence" /\ Next /\ UNCHANGED <<budgetVars, scoutVars, windowVars>>
       \/ part = "budget" /\ Budget!Next /\ UNCHANGED <<vars, scoutVars, windowVars>>
       \/ part = "scout" /\ Scout!Next /\ UNCHANGED <<vars, budgetVars, windowVars>>
       \/ part = "windows" /\ Windows!Next /\ UNCHANGED <<vars, budgetVars, scoutVars>>

nightVars == <<vars, budgetVars, scoutVars, windowVars, part>>

NightSpec == NightInit /\ [][NightNext]_nightVars

\* Processes that run at once overshoot their budget by no more than the calls they have in flight.
OvershootBounded == Budget!OvershootBounded

\* A paid model is never more than one pick ahead of a local model of its pool.
EvenSplit == Budget!EvenSplit

\* One night at a time, killed anywhere: no note is scouted again within the cooldown.
ScoutedAfresh == Scout!ScoutedAfresh

\* In a vault small enough, every note gets its turn within two cooldowns and a day.
EveryNoteInTurn == Scout!EveryNoteInTurn

\* The reports of nights that are not killed have their claims in the evidence log.
EvidenceOfReports == Scout!EvidenceOfReports

\* Digests neither overlap nor leave a gap, however long the nights take.
DigestsTile == Windows!DigestsTile

\* The judge is given the commits of the time that the digests are about.
JudgeSeesCommits == Windows!JudgeSeesCommits

=============================================================================
