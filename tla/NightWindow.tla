------------------------------ MODULE NightWindow ------------------------------
(* What a night looks at (cmd/sloptools/brain_night.go): the sync stage makes  *)
(* a digest of the mail, the meetings and the commits since the last one and   *)
(* saves in a state file where it ended (internal/brain/activity); triage and  *)
(* edit are given the digest; the judge is given the commits since the time in *)
(* the state file and the conversations since the last commit of a judge       *)
(* (internal/brain/sleep*.go), and its report comes from a local model or from *)
(* a paid one (internal/brain/sleep/runner.go).  The owner is taken to write,  *)
(* commit and talk at every instant.                                           *)
EXTENDS Naturals

CONSTANTS Jobs,       \* processes that run a night, some stages of it, or `brain sleep`
          Settings,   \* the circumstances they run under
          MaxTime,    \* bound: the clock runs from 0 to MaxTime
          None

Times == 0 .. MaxTime

\* `brain night`, `brain night --only-stage ...`, `brain sleep`.
Kinds == {"night", "sync", "sweep", "edit", "judge", "sleep"}

\* jobs: those there are; kinds: what they run; dry: with --dry-run too; fails: whether stages
\* and model calls can fail; killed: whether jobs can be killed; first: how far the first digest
\* looks back (48 hours); most: how far any does (7 days); until: a bound on the clock.
SettingRecords == [jobs : SUBSET Jobs, kinds : SUBSET Kinds, dry : BOOLEAN, fails : BOOLEAN,
                   killed : BOOLEAN, first : Nat, most : Nat, until : Times]

VARIABLES setting,   \* one of the Settings, the same all the time
          now,
          lastSync,  \* LastSyncUntil in the state file, or None
          committed, \* the time of the last "brain sleep:" commit, or None
          job,       \* job[j]: where j is, or None
          digested,  \* digested[t]: digests of instant t that edits were given, up to 2
          judged,    \* instants whose commits a judge that came to a report was given
          talked     \* talked[t]: such judges that were given the talks of instant t, up to 2

vars == <<setting, now, lastSync, committed, job, digested, judged, talked>>

\* from .. up to, but not including, to.
Windows == [from : Times, to : Times]
Within(w) == {t \in Times : w.from <= t /\ t < w.to}
NoWindow == [from |-> 0, to |-> 0]

\* digest, git, talks: the windows of the job; draft: the judge's body so far.
JobRecords == [kind : Kinds, dry : BOOLEAN, started : Times,
               at : {"sync", "save", "sweep", "scout", "edit", "judge", "bulk", "escalate", "commit"},
               digest : Windows, git : Windows, talks : Windows, draft : {"none", "flagged", "fine"}]

TypeOK == /\ setting \in Settings /\ now \in Times
          /\ lastSync \in Times \cup {None} /\ committed \in Times \cup {None}
          /\ job \in [Jobs -> JobRecords \cup {None}]
          /\ digested \in [Times -> 0 .. 2] /\ talked \in [Times -> 0 .. 2]
          /\ judged \subseteq Times

Init == /\ setting \in Settings /\ now = 0
        /\ lastSync = None /\ committed = None
        /\ job = [j \in Jobs |-> None]
        /\ digested = [t \in Times |-> 0] /\ talked = [t \in Times |-> 0] /\ judged = {}

Ago(n) == IF n > now THEN 0 ELSE now - n

\* LoadState: no file, or a time too long ago.
LoadState == IF lastSync = None THEN Ago(setting.first)
             ELSE IF lastSync < Ago(setting.most) THEN Ago(setting.most) ELSE lastSync

At(j, at) == job[j] # None /\ job[j].at = at
Goes(j, rec) == job' = [job EXCEPT ![j] = rec]
Ends(j) == Goes(j, None)
Counted(count, w) == [t \in Times |-> IF t \in Within(w) /\ count[t] < 2 THEN count[t] + 1 ELSE count[t]]

-----------------------------------------------------------------------------
\* cmdBrainNight, or `brain sleep`: the upper end of all windows of a night is fixed here.
cmdBrainNight(j) ==
    /\ job[j] = None
    /\ \E kind \in setting.kinds, dry \in {FALSE, setting.dry} :
          Goes(j, [kind |-> kind, dry |-> dry, started |-> now,
                   at |-> CASE kind \in {"night", "sync", "sweep"} -> "sync"
                            [] kind = "edit" -> "edit"
                            [] OTHER -> "judge",
                   digest |-> NoWindow, git |-> NoWindow, talks |-> NoWindow, draft |-> "none"])
    /\ UNCHANGED <<setting, now, lastSync, committed, digested, judged, talked>>

\* runSyncStage builds the digest: calls that fail leave parts of it empty, no more.
BuildWithGit(j) ==
    /\ At(j, "sync")
    /\ Goes(j, [job[j] EXCEPT !.at = "save", !.digest = [from |-> LoadState, to |-> job[j].started]])
    /\ UNCHANGED <<setting, now, lastSync, committed, digested, judged, talked>>

\* Faulty variant: the end that is saved is not the one the digest has.
SaveStateNow(j) ==
    /\ At(j, "save")
    /\ lastSync' = now
    /\ IF job[j].kind = "sync" THEN Ends(j) ELSE Goes(j, [job[j] EXCEPT !.at = "sweep"])
    /\ UNCHANGED <<setting, now, committed, digested, judged, talked>>

\* The end of the digest is saved before any stage has used it, by a dry run too.
SaveState(j) ==
    /\ At(j, "save")
    /\ lastSync' = job[j].digest.to
    /\ IF job[j].kind = "sync" THEN Ends(j) ELSE Goes(j, [job[j] EXCEPT !.at = "sweep"])
    /\ UNCHANGED <<setting, now, committed, digested, judged, talked>>

\* runSweepStage, runScoutStage: they ask nothing of the windows, but end the night if they fail.
runSweepStage(j) ==
    /\ At(j, "sweep")
    /\ \/ setting.fails /\ Ends(j)
       \/ IF job[j].kind = "sweep" THEN Ends(j) ELSE Goes(j, [job[j] EXCEPT !.at = "scout"])
    /\ UNCHANGED <<setting, now, lastSync, committed, digested, judged, talked>>

runScoutStage(j) ==
    /\ At(j, "scout")
    /\ \/ setting.fails /\ Ends(j)
       \/ Goes(j, [job[j] EXCEPT !.at = "edit"])
    /\ UNCHANGED <<setting, now, lastSync, committed, digested, judged, talked>>

\* The digest is in the packets of triage and of every edit; a dry run edits nothing, and when
\* the stage fails the night goes on.
runTriageEditStages(j) ==
    /\ At(j, "edit")
    /\ \/ (setting.fails \/ job[j].dry) /\ UNCHANGED digested
       \/ ~job[j].dry /\ digested' = Counted(digested, job[j].digest)
    /\ IF job[j].kind = "edit" THEN Ends(j) ELSE Goes(j, [job[j] EXCEPT !.at = "judge"])
    /\ UNCHANGED <<setting, now, lastSync, committed, judged, talked>>

SinceSleepCommit(otherwise) == [from |-> IF committed = None THEN Ago(otherwise) ELSE committed,
                                to |-> now]

\* buildSleepGitPacketBounded: without a lower end, the commits since that of the last judge,
\* or of today.
gitWindow(j) == IF job[j].kind = "sleep" THEN SinceSleepCommit(1)
                ELSE [from |-> LoadState, to |-> job[j].started]

\* previousSleepWindow: since that commit, or yesterday.
talkWindow == SinceSleepCommit(2)

\* prepareSleepCycle, and the gate of RunJudge: a packet too large is not shown to the local
\* model.  A dry run ends with the packet.
prepareSleepCycle(j) ==
    /\ At(j, "judge")
    /\ \/ (setting.fails \/ job[j].dry) /\ Ends(j)
       \/ /\ ~job[j].dry
          /\ \E at \in {"bulk", "escalate"} :
                Goes(j, [job[j] EXCEPT !.at = at, !.git = gitWindow(j), !.talks = talkWindow])
    /\ UNCHANGED <<setting, now, lastSync, committed, digested, judged, talked>>

\* The local model's body, which the classifier accepts or flags; an error ends the judge.
runBulk(j) ==
    /\ At(j, "bulk")
    /\ \/ setting.fails /\ Ends(j)
       \/ Goes(j, [job[j] EXCEPT !.at = "escalate", !.draft = "flagged"])
       \/ Goes(j, [job[j] EXCEPT !.at = "commit", !.draft = "fine"])
    /\ UNCHANGED <<setting, now, lastSync, committed, digested, judged, talked>>

\* The paid model's body, or else the flagged one, if there is one.
runEscalate(j) ==
    /\ At(j, "escalate")
    /\ \/ Goes(j, [job[j] EXCEPT !.at = "commit", !.draft = "fine"])
       \/ /\ setting.fails
          /\ IF job[j].draft = "none" THEN Ends(j) ELSE Goes(j, [job[j] EXCEPT !.at = "commit"])
    /\ UNCHANGED <<setting, now, lastSync, committed, digested, judged, talked>>

\* writeSleepReport and the commit, under the subject that the next judge looks for; where it
\* fails the repository is rolled back.
runJudgeStage(j) ==
    /\ At(j, "commit") /\ Ends(j)
    /\ \/ setting.fails /\ UNCHANGED <<committed, judged, talked>>
       \/ /\ committed' = now
          /\ judged' = judged \cup Within(job[j].git)
          /\ talked' = Counted(talked, job[j].talks)
    /\ UNCHANGED <<setting, now, lastSync, digested>>

Kill(j) == /\ setting.killed /\ job[j] # None /\ Ends(j)
           /\ UNCHANGED <<setting, now, lastSync, committed, digested, judged, talked>>

\* Stages take time.
Clock == /\ now < setting.until /\ now' = now + 1
         /\ UNCHANGED <<setting, lastSync, committed, job, digested, judged, talked>>

Next == \/ \E j \in setting.jobs :
              \/ cmdBrainNight(j) \/ BuildWithGit(j) \/ SaveState(j) \/ runSweepStage(j)
              \/ runScoutStage(j) \/ runTriageEditStages(j) \/ prepareSleepCycle(j) \/ runBulk(j)
              \/ runEscalate(j) \/ runJudgeStage(j) \/ Kill(j)
        \/ Clock

Spec == Init /\ [][Next]_vars

-----------------------------------------------------------------------------
Alone == \A i, j \in setting.jobs : i = j
Idle == \A j \in Jobs : job[j] = None

\* Full nights that come to their end, often enough for the time a digest looks back.
Regular == /\ setting.kinds = {"night"} /\ ~setting.dry /\ ~setting.fails /\ ~setting.killed
           /\ setting.first >= setting.until /\ setting.most >= setting.until

\* One job at a time, of any kind, killed or failing at any stage: no instant is in the digests
\* of two nights that edited with them, nor are its conversations given to two judges that came
\* to a report.  And with regular nights every instant before the last digest's end is in one,
\* however long the nights take.
DigestsTile ==
    Alone => /\ \A t \in Times : digested[t] <= 1 /\ talked[t] <= 1
             /\ Regular /\ Idle => \A t \in Times : lastSync # None /\ t < lastSync => digested[t] = 1

\* With regular nights, the judge is given the commits of the instants that the digests are
\* about: its git window has the "same lower bound as activity digest" (brain_night.go:226).
JudgeSeesCommits == Regular /\ Alone /\ Idle /\ lastSync # None => \A t \in Times : t < lastSync => t \in judged

=============================================================================
