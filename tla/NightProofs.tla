------------------------------ MODULE NightProofs ------------------------------
(* Proofs about the brain nights: what a night looks at (NightWindow), for any *)
(* jobs and any clock; how its calls are split over the models of a pool, and  *)
(* what they use of the budget (NightBudget), for any pool, ledger and number  *)
(* of processes; and what the scout stage remembers of its reports and whose   *)
(* turn it is (ScoutRun), for any notes, nights and days.                      *)
EXTENDS BrainNight, FiniteSetTheorems, TLAPS

---------------------------------------------------------------------------
(* What a night looks at (NightWindow).                                        *)

\* None is no time and no job.
WindowSane == /\ WindowSettings \subseteq Windows!SettingRecords /\ MaxTime \in Nat
              /\ None \notin Nat /\ None \notin Windows!JobRecords

\* The stages between the digest that was saved and the edits that are given it.
Pending == {"sweep", "scout", "edit"}

\* What a job has in hand. An instant is in its digest only when no edit was given it before, and
\* is before the end that was saved; its talks are those since the last commit of a judge.
Looks(w) ==
    /\ w.started <= now
    /\ w.at \in {"sync", "save"} /\ lastSync # None => lastSync <= w.started
    /\ w.at = "save" => w.digest.to = w.started /\ (lastSync # None => lastSync <= w.digest.from)
    /\ w.at \in Pending =>
          \A t \in Windows!Within(w.digest) : digested[t] = 0 /\ lastSync # None /\ t < lastSync
    /\ w.at \in {"bulk", "escalate", "commit"} =>
          w.talks.to <= now /\ (committed # None => committed <= w.talks.from)
    /\ Windows!Regular => /\ w.kind = "night" /\ w.dry = FALSE
                          /\ w.at = "save" => w.digest.from = IF lastSync = None THEN 0 ELSE lastSync

\* With regular nights the digests leave nothing out, but for the one that is in hand.
Holds(t, w) == w # None /\ w.at \in Pending /\ t \in Windows!Within(w.digest)
InDigest(t) == digested[t] = 1 \/ \E j \in Jobs : Holds(t, job[j])

OneLook ==
    /\ now <= window.until
    /\ lastSync # None => lastSync <= now
    /\ committed # None => committed <= now
    /\ \A t \in Windows!Times : digested[t] <= 1 /\ (digested[t] # 0 => lastSync # None /\ t < lastSync)
    /\ \A t \in Windows!Times : talked[t] <= 1 /\ (talked[t] # 0 => committed # None /\ t < committed)
    /\ \A j \in Jobs : job[j] # None => j \in window.jobs /\ Looks(job[j])
    /\ Windows!Regular => \A t \in Windows!Times : lastSync # None /\ t < lastSync => InDigest(t)

WindowInv == Windows!TypeOK /\ (Windows!Alone => OneLook)

LEMMA WindowFacts ==
    ASSUME WindowSane, Windows!TypeOK
    PROVE  /\ window \in Windows!SettingRecords /\ window.jobs \subseteq Jobs
           /\ window.kinds \subseteq Windows!Kinds
           /\ window.dry \in BOOLEAN /\ window.first \in Nat /\ window.most \in Nat
           /\ window.until \in Windows!Times /\ now \in Nat /\ now <= MaxTime /\ MaxTime \in Nat
           /\ \A n \in Nat : Windows!Ago(n) \in 0 .. now
           /\ Windows!LoadState \in Windows!Times /\ (lastSync # None => lastSync <= Windows!LoadState)
           /\ \A n \in Nat : Windows!SinceSleepCommit(n) \in Windows!Windows
           /\ \A n \in Nat : Windows!SinceSleepCommit(n).to = now
           /\ \A n \in Nat : committed # None => Windows!SinceSleepCommit(n).from = committed
           /\ \A n \in Nat : n >= window.until /\ now <= window.until => Windows!Ago(n) = 0
<1>1. /\ window \in Windows!SettingRecords /\ window.jobs \subseteq Jobs
      /\ window.kinds \subseteq Windows!Kinds
      /\ window.dry \in BOOLEAN /\ window.first \in Nat /\ window.most \in Nat
      /\ window.until \in Windows!Times /\ now \in Nat /\ now <= MaxTime /\ MaxTime \in Nat
  BY DEF WindowSane, Windows!TypeOK, Windows!SettingRecords, Windows!Times
<1>2. \A n \in Nat : Windows!Ago(n) \in 0 .. now
  BY <1>1 DEF Windows!Ago
<1>3. lastSync \in Nat \cup {None} /\ committed \in Windows!Times \cup {None} /\ None \notin Nat
      /\ (lastSync # None => lastSync \in Windows!Times)
  BY DEF Windows!TypeOK, Windows!Times, WindowSane
<1>4. Windows!LoadState \in Windows!Times /\ (lastSync # None => lastSync <= Windows!LoadState)
  <2>1. Windows!Ago(window.first) \in 0 .. now /\ Windows!Ago(window.most) \in 0 .. now
    BY <1>1, <1>2
  <2> QED
    BY <1>1, <1>3, <2>1 DEF Windows!LoadState, Windows!Times
<1>5. /\ \A n \in Nat : Windows!SinceSleepCommit(n) \in Windows!Windows
      /\ \A n \in Nat : Windows!SinceSleepCommit(n).to = now
      /\ \A n \in Nat : committed # None => Windows!SinceSleepCommit(n).from = committed
  BY <1>1, <1>2, <1>3 DEF Windows!SinceSleepCommit, Windows!Windows, Windows!Times
<1>6. \A n \in Nat : n >= window.until /\ now <= window.until => Windows!Ago(n) = 0
  BY <1>1 DEF Windows!Ago, Windows!Times
<1> QED
  BY <1>1, <1>2, <1>4, <1>5, <1>6

LEMMA TimeFacts ==
    ASSUME WindowSane, Windows!TypeOK
    PROVE  /\ Windows!Times \subseteq Nat /\ now \in Nat /\ None \notin Nat
           /\ (lastSync # None => lastSync \in Nat) /\ (committed # None => committed \in Nat)
           /\ lastSync \in Windows!Times \cup {None} /\ committed \in Windows!Times \cup {None}
           /\ digested \in [Windows!Times -> 0 .. 2] /\ talked \in [Windows!Times -> 0 .. 2]
  BY DEF WindowSane, Windows!TypeOK, Windows!Times

\* A step of job j leaves it with w, and the others alone.
LEMMA JobMoves ==
    ASSUME Windows!TypeOK, NEW j \in Jobs, NEW w \in Windows!JobRecords \cup {None},
           job' = [job EXCEPT ![j] = w], UNCHANGED <<window, now>>,
           lastSync' \in Windows!Times \cup {None}, committed' \in Windows!Times \cup {None},
           digested' \in [Windows!Times -> 0 .. 2], talked' \in [Windows!Times -> 0 .. 2],
           judged' \subseteq Windows!Times
    PROVE  Windows!TypeOK' /\ job'[j] = w /\ \A i \in Jobs : i # j => job'[i] = job[i]
  BY DEF Windows!TypeOK

\* No other job is at work when there is one only.
LEMMA NoOther ==
    ASSUME OneLook, Windows!Alone, NEW j \in window.jobs
    PROVE  \A i \in Jobs : i # j => job[i] = None
  BY DEF OneLook, Windows!Alone

\* A step that changes nothing but its job.
LEMMA OnlyTheJob ==
    ASSUME WindowSane, WindowInv, NEW j \in window.jobs, NEW w \in Windows!JobRecords \cup {None},
           job' = [job EXCEPT ![j] = w],
           UNCHANGED <<window, now, lastSync, committed, digested, judged, talked>>,
           Windows!Alone /\ OneLook /\ w # None => Looks(w),
           Windows!Alone /\ OneLook /\ Windows!Regular =>
                                \/ job[j] = None \/ job[j].at \notin Pending
                                \/ (w # None /\ w.at \in Pending /\ w.digest = job[j].digest)
    PROVE  WindowInv'
<1>1. j \in Jobs
  BY WindowFacts DEF WindowInv
<1>2. Windows!TypeOK' /\ job'[j] = w /\ \A i \in Jobs : i # j => job'[i] = job[i]
  <2>1. /\ lastSync' \in Windows!Times \cup {None} /\ committed' \in Windows!Times \cup {None}
        /\ digested' \in [Windows!Times -> 0 .. 2] /\ talked' \in [Windows!Times -> 0 .. 2]
        /\ judged' \subseteq Windows!Times
        /\ UNCHANGED <<window, now>> /\ Windows!TypeOK
    BY DEF WindowInv, Windows!TypeOK
  <2> QED
    BY <1>1, <2>1, JobMoves
<1>3. SUFFICES ASSUME Windows!Alone, OneLook
               PROVE  OneLook'
  BY <1>2 DEF WindowInv, Windows!Alone
<1>4. \A i \in Jobs : i # j => job'[i] = None
  BY <1>2, <1>3, NoOther
<1>5. w # None => Looks(w)'
  <2>1. w # None => Looks(w)
    BY <1>3
  <2> QED
    BY <2>1 DEF Looks, Windows!Within, Windows!Times, Windows!Regular
<1>6. ASSUME NEW i \in Jobs, job'[i] # None
      PROVE  i \in window'.jobs /\ Looks(job[i])'
  <2>1. i = j /\ job'[i] = w /\ w # None
    BY <1>2, <1>4, <1>6
  <2> QED
    BY <1>5, <2>1 DEF Looks
<1>7. ASSUME Windows!Regular, NEW t \in Windows!Times, lastSync # None, t < lastSync
      PROVE  InDigest(t)'
  <2>1. CASE digested[t] = 1
    BY <2>1 DEF InDigest
  <2>2. CASE digested[t] # 1
    <3>1. PICK i \in Jobs : Holds(t, job[i])
      BY <1>3, <1>7, <2>2 DEF OneLook, InDigest
    <3>2. i = j
      BY <1>3, <3>1, NoOther DEF Holds
    <3>3. w # None /\ w.at \in Pending /\ w.digest = job[j].digest
      BY <1>3, <1>7, <3>1, <3>2 DEF Holds
    <3>4. Holds(t, job[j])'
      BY <1>2, <3>1, <3>2, <3>3 DEF Holds, Windows!Within, Windows!Times
    <3> QED
      BY <1>1, <3>4 DEF InDigest
  <2> QED
    BY <2>1, <2>2
<1>8. Windows!Regular' => \A t \in Windows!Times : lastSync' # None /\ t < lastSync' => InDigest(t)'
  BY <1>7 DEF Windows!Regular
<1> QED
  BY <1>3, <1>6, <1>8 DEF OneLook, Windows!Times

LEMMA cmdBrainNightLooks ==
    ASSUME WindowSane, WindowInv, NEW j \in window.jobs, Windows!cmdBrainNight(j)
    PROVE  WindowInv'
<1>1. job[j] = None /\ UNCHANGED <<window, now, lastSync, committed, digested, judged, talked>>
  BY DEF Windows!cmdBrainNight
<1>2. PICK kind \in window.kinds, dry \in {FALSE, window.dry} :
          job' = [job EXCEPT ![j] = [kind |-> kind, dry |-> dry, started |-> now,
                      at |-> CASE kind \in {"night", "sync", "sweep"} -> "sync"
                               [] kind = "edit" -> "edit"
                               [] OTHER -> "judge",
                      digest |-> Windows!NoWindow, git |-> Windows!NoWindow,
                      talks |-> Windows!NoWindow, draft |-> "none"]]
  BY DEF Windows!cmdBrainNight, Windows!Goes
<1>3. PICK at : at = CASE kind \in {"night", "sync", "sweep"} -> "sync"
                         [] kind = "edit" -> "edit" [] OTHER -> "judge"
  OBVIOUS
<1>4. at \in {"sync", "edit", "judge"}
  BY <1>3
<1>5. PICK w : w = [kind |-> kind, dry |-> dry, started |-> now, at |-> at, digest |-> Windows!NoWindow,
                    git |-> Windows!NoWindow, talks |-> Windows!NoWindow, draft |-> "none"]
  OBVIOUS
<1>6. job' = [job EXCEPT ![j] = w]
  BY <1>2, <1>3, <1>5
<1>7. Windows!NoWindow \in Windows!Windows /\ Windows!Within(Windows!NoWindow) = {}
  BY WindowFacts DEF WindowSane, WindowInv, Windows!NoWindow, Windows!Windows, Windows!Within,
     Windows!Times
<1>8. w \in Windows!JobRecords
  <2>1. kind \in Windows!Kinds /\ dry \in BOOLEAN /\ now \in Windows!Times
    <3>1. window.kinds \subseteq Windows!Kinds /\ window.dry \in BOOLEAN /\ now \in Nat /\ now <= MaxTime
          /\ MaxTime \in Nat
      BY WindowFacts DEF WindowInv
    <3>2. dry \in BOOLEAN
      BY <3>1
    <3> QED
      BY <3>1, <3>2 DEF Windows!Times
  <2> QED
    BY <1>4, <1>5, <1>7, <2>1 DEF Windows!JobRecords
<1>9. Windows!Alone /\ OneLook => Looks(w)
  <2>1. w.started = now /\ w.at \in {"sync", "edit", "judge"} /\ w.digest = Windows!NoWindow
    BY <1>4, <1>5
  <2>2. Windows!Regular => w.kind = "night" /\ w.dry = FALSE
    <3>1. ASSUME Windows!Regular
          PROVE  kind = "night" /\ dry = FALSE
      BY <3>1, WindowFacts DEF WindowInv, Windows!Regular
    <3> QED
      BY <1>5, <3>1
  <2> QED
    BY <1>7, <2>1, <2>2, WindowFacts DEF WindowInv, Looks, OneLook
<1> QED
  BY <1>1, <1>6, <1>8, <1>9, OnlyTheJob

LEMMA BuildWithGitLooks ==
    ASSUME WindowSane, WindowInv, NEW j \in window.jobs, Windows!BuildWithGit(j)
    PROVE  WindowInv'
<1>1. job[j] # None /\ job[j].at = "sync" /\ job[j] \in Windows!JobRecords /\ j \in Jobs
      /\ UNCHANGED <<window, now, lastSync, committed, digested, judged, talked>>
  BY WindowFacts DEF Windows!BuildWithGit, Windows!At, WindowInv, Windows!TypeOK
<1>2. PICK d : d = [from |-> Windows!LoadState, to |-> job[j].started]
  OBVIOUS
<1>3. PICK w : w = [job[j] EXCEPT !.at = "save", !.digest = d]
  OBVIOUS
<1>4. job' = [job EXCEPT ![j] = w]
  BY <1>2, <1>3 DEF Windows!BuildWithGit, Windows!Goes
<1>5. d \in Windows!Windows /\ d.from = Windows!LoadState /\ d.to = job[j].started
  BY <1>1, <1>2, WindowFacts DEF WindowInv, Windows!Windows, Windows!JobRecords
<1>6. w \in Windows!JobRecords /\ w.at = "save" /\ w.digest = d /\ w.started = job[j].started
      /\ w.kind = job[j].kind /\ w.dry = job[j].dry
  BY <1>1, <1>3, <1>5 DEF Windows!JobRecords
<1>7. ASSUME Windows!Alone, OneLook
      PROVE  Looks(w)
  <2>1. Looks(job[j]) /\ now <= window.until
    BY <1>1, <1>7 DEF OneLook
  <2>2. Windows!Regular => Windows!LoadState = IF lastSync = None THEN 0 ELSE lastSync
    <3>1. Windows!Regular => Windows!Ago(window.first) = 0 /\ Windows!Ago(window.most) = 0
      BY <2>1, WindowFacts DEF WindowInv, Windows!Regular
    <3>2. lastSync # None => lastSync \in Nat
      BY DEF WindowInv, Windows!TypeOK, Windows!Times
    <3> QED
      BY <3>1, <3>2 DEF Windows!LoadState
  <2>3. lastSync # None => lastSync <= Windows!LoadState
    BY WindowFacts DEF WindowInv
  <2> QED
    BY <1>1, <1>5, <1>6, <2>1, <2>2, <2>3 DEF Looks, Pending
<1>8. Windows!Alone /\ OneLook /\ w # None => Looks(w)
  BY <1>7
<1>9. job[j].at \notin Pending
  BY <1>1 DEF Pending
<1> QED
  BY <1>1, <1>4, <1>6, <1>8, <1>9, OnlyTheJob

\* The stages that ask nothing of the windows, and those that end the job.
LEMMA StagesLook ==
    ASSUME WindowSane, WindowInv, NEW j \in window.jobs,
           Windows!runSweepStage(j) \/ Windows!runScoutStage(j) \/ Windows!runBulk(j)
           \/ Windows!runEscalate(j) \/ Windows!Kill(j)
    PROVE  WindowInv'
<1>1. job[j] # None /\ job[j] \in Windows!JobRecords /\ j \in Jobs
      /\ UNCHANGED <<window, now, lastSync, committed, digested, judged, talked>>
  BY WindowFacts DEF WindowInv, Windows!TypeOK, Windows!runSweepStage, Windows!runScoutStage,
     Windows!runBulk, Windows!runEscalate, Windows!Kill, Windows!At
<1>2. Windows!Alone /\ OneLook => Looks(job[j])
  BY <1>1 DEF OneLook
<1>3. ASSUME job' = [job EXCEPT ![j] = None],
             Windows!Alone /\ OneLook /\ Windows!Regular => job[j].at \notin Pending
      PROVE  WindowInv'
  <2>1. None \in Windows!JobRecords \cup {None}
    OBVIOUS
  <2> QED
    BY <1>1, <1>3, <2>1, OnlyTheJob
<1>4. ASSUME NEW w \in Windows!JobRecords, job' = [job EXCEPT ![j] = w],
             w.started = job[j].started, w.digest = job[j].digest, w.talks = job[j].talks,
             w.kind = job[j].kind, w.dry = job[j].dry,
             \/ job[j].at \in Pending /\ w.at \in Pending
             \/ job[j].at \in {"bulk", "escalate"} /\ w.at \in {"escalate", "commit"}
      PROVE  WindowInv'
  <2>1. Windows!Alone /\ OneLook /\ w # None => Looks(w)
    BY <1>2, <1>4 DEF Looks, Pending
  <2>2. \/ job[j].at \notin Pending
        \/ (w # None /\ w.at \in Pending /\ w.digest = job[j].digest)
    BY <1>4 DEF Pending, WindowSane
  <2> QED
    BY <1>1, <1>4, <2>1, <2>2, OnlyTheJob
<1>5. CASE Windows!Kill(j)
  BY <1>3, <1>5 DEF Windows!Kill, Windows!Ends, Windows!Goes, Windows!Regular
<1>6. CASE Windows!runSweepStage(j)
  <2>1. job[j].at = "sweep"
    BY <1>6 DEF Windows!runSweepStage, Windows!At
  <2>2. CASE job' = [job EXCEPT ![j] = None] /\ (window.fails \/ job[j].kind = "sweep")
    <3>1. ~(Windows!Alone /\ OneLook /\ Windows!Regular)
      BY <1>2, <2>2 DEF Windows!Regular, Looks
    <3> QED
      BY <1>3, <2>2, <3>1
  <2>3. CASE job' = [job EXCEPT ![j] = [job[j] EXCEPT !.at = "scout"]]
    <3>1. PICK w : w = [job[j] EXCEPT !.at = "scout"]
      OBVIOUS
    <3>2. /\ w \in Windows!JobRecords /\ w.at = "scout" /\ w.started = job[j].started
          /\ w.digest = job[j].digest /\ w.talks = job[j].talks /\ w.kind = job[j].kind
          /\ w.dry = job[j].dry
      BY <1>1, <3>1 DEF Windows!JobRecords
    <3> QED
      BY <1>4, <2>1, <2>3, <3>1, <3>2 DEF Pending
  <2> QED
    BY <1>6, <2>2, <2>3 DEF Windows!runSweepStage, Windows!Ends, Windows!Goes
<1>7. CASE Windows!runScoutStage(j)
  <2>1. job[j].at = "scout"
    BY <1>7 DEF Windows!runScoutStage, Windows!At
  <2>2. CASE job' = [job EXCEPT ![j] = None] /\ window.fails
    BY <1>3, <2>2 DEF Windows!Regular
  <2>3. CASE job' = [job EXCEPT ![j] = [job[j] EXCEPT !.at = "edit"]]
    <3>1. PICK w : w = [job[j] EXCEPT !.at = "edit"]
      OBVIOUS
    <3>2. /\ w \in Windows!JobRecords /\ w.at = "edit" /\ w.started = job[j].started
          /\ w.digest = job[j].digest /\ w.talks = job[j].talks /\ w.kind = job[j].kind
          /\ w.dry = job[j].dry
      BY <1>1, <3>1 DEF Windows!JobRecords
    <3> QED
      BY <1>4, <2>1, <2>3, <3>1, <3>2 DEF Pending
  <2> QED
    BY <1>7, <2>2, <2>3 DEF Windows!runScoutStage, Windows!Ends, Windows!Goes
<1>8. CASE Windows!runBulk(j) \/ Windows!runEscalate(j)
  <2>1. job[j].at \in {"bulk", "escalate"}
    BY <1>8 DEF Windows!runBulk, Windows!runEscalate, Windows!At
  <2>2. CASE job' = [job EXCEPT ![j] = None]
    BY <1>3, <2>1, <2>2 DEF Pending
  <2>3. CASE \E at \in {"escalate", "commit"}, draft \in {"flagged", "fine", job[j].draft} :
                job' = [job EXCEPT ![j] = [job[j] EXCEPT !.at = at, !.draft = draft]]
    <3>1. PICK at \in {"escalate", "commit"}, draft \in {"flagged", "fine", job[j].draft} :
                job' = [job EXCEPT ![j] = [job[j] EXCEPT !.at = at, !.draft = draft]]
      BY <2>3
    <3>2. PICK w : w = [job[j] EXCEPT !.at = at, !.draft = draft]
      OBVIOUS
    <3>3. /\ w \in Windows!JobRecords /\ w.at = at /\ w.started = job[j].started
          /\ w.digest = job[j].digest /\ w.talks = job[j].talks /\ w.kind = job[j].kind
          /\ w.dry = job[j].dry
      BY <1>1, <3>2 DEF Windows!JobRecords
    <3> QED
      BY <1>4, <2>1, <3>1, <3>2, <3>3
  <2>4. [job[j] EXCEPT !.at = "commit"] = [job[j] EXCEPT !.at = "commit", !.draft = job[j].draft]
    BY <1>1 DEF Windows!JobRecords
  <2> QED
    BY <1>8, <2>2, <2>3, <2>4 DEF Windows!runBulk, Windows!runEscalate, Windows!Ends, Windows!Goes
<1> QED
  BY <1>5, <1>6, <1>7, <1>8

LEMMA prepareSleepCycleLooks ==
    ASSUME WindowSane, WindowInv, NEW j \in window.jobs, Windows!prepareSleepCycle(j)
    PROVE  WindowInv'
<1>1. job[j] # None /\ job[j].at = "judge" /\ job[j] \in Windows!JobRecords /\ j \in Jobs
      /\ UNCHANGED <<window, now, lastSync, committed, digested, judged, talked>>
  BY WindowFacts DEF Windows!prepareSleepCycle, Windows!At, WindowInv, Windows!TypeOK
<1>2. Windows!Alone /\ OneLook => Looks(job[j])
  BY <1>1 DEF OneLook
<1>3. job[j].at \notin Pending
  BY <1>1 DEF Pending
<1>4. CASE job' = [job EXCEPT ![j] = None]
  <2>1. None \in Windows!JobRecords \cup {None}
    OBVIOUS
  <2> QED
    BY <1>1, <1>3, <1>4, <2>1, OnlyTheJob
<1>5. CASE \E at \in {"bulk", "escalate"} :
              job' = [job EXCEPT ![j] = [job[j] EXCEPT !.at = at, !.git = Windows!gitWindow(j),
                                         !.talks = Windows!talkWindow]]
  <2>1. PICK at \in {"bulk", "escalate"} :
              job' = [job EXCEPT ![j] = [job[j] EXCEPT !.at = at, !.git = Windows!gitWindow(j),
                                         !.talks = Windows!talkWindow]]
    BY <1>5
  <2>2. PICK git, talks : git = Windows!gitWindow(j) /\ talks = Windows!talkWindow
    OBVIOUS
  <2>3. talks \in Windows!Windows /\ talks.to = now /\ (committed # None => talks.from = committed)
    BY <2>2, WindowFacts DEF WindowInv, Windows!talkWindow
  <2>4. git \in Windows!Windows
    <3>1. Windows!SinceSleepCommit(1) \in Windows!Windows /\ Windows!LoadState \in Windows!Times
      BY WindowFacts DEF WindowInv
    <3>2. job[j].started \in Windows!Times
      BY <1>1 DEF Windows!JobRecords
    <3> QED
      BY <2>2, <3>1, <3>2 DEF Windows!gitWindow, Windows!Windows
  <2>5. PICK w : w = [job[j] EXCEPT !.at = at, !.git = git, !.talks = talks]
    OBVIOUS
  <2>6. /\ w \in Windows!JobRecords /\ w.at = at /\ w.started = job[j].started /\ w.talks = talks
        /\ w.kind = job[j].kind /\ w.dry = job[j].dry
    BY <1>1, <2>3, <2>4, <2>5 DEF Windows!JobRecords
  <2>7. Windows!Alone /\ OneLook /\ w # None => Looks(w)
    <3>1. now \in Nat /\ (committed # None => committed \in Nat)
      BY WindowFacts DEF WindowInv, Windows!TypeOK, Windows!Times
    <3> QED
      BY <1>2, <2>3, <2>6, <3>1 DEF Looks, Pending
  <2>8. job' = [job EXCEPT ![j] = w]
    BY <2>1, <2>2, <2>5
  <2> QED
    BY <1>1, <1>3, <2>6, <2>7, <2>8, OnlyTheJob
<1> QED
  BY <1>4, <1>5 DEF Windows!prepareSleepCycle, Windows!Ends, Windows!Goes

\* The end of the digest becomes the one that is saved: what was digested before is before it.
LEMMA SaveStateLooks ==
    ASSUME WindowSane, WindowInv, NEW j \in window.jobs, Windows!SaveState(j)
    PROVE  WindowInv'
<1>1. /\ job[j] # None /\ job[j].at = "save" /\ job[j] \in Windows!JobRecords /\ j \in Jobs
      /\ Windows!TypeOK
      /\ lastSync' = job[j].digest.to
      /\ UNCHANGED <<window, now, committed, digested, judged, talked>>
  BY WindowFacts DEF Windows!SaveState, Windows!At, WindowInv, Windows!TypeOK
<1>2. PICK w : w = IF job[j].kind = "sync" THEN None ELSE [job[j] EXCEPT !.at = "sweep"]
  OBVIOUS
<1>3. job' = [job EXCEPT ![j] = w]
  BY <1>2 DEF Windows!SaveState, Windows!Ends, Windows!Goes
<1>4. /\ w \in Windows!JobRecords \cup {None}
      /\ w # None => /\ w.at = "sweep" /\ w.started = job[j].started /\ w.digest = job[j].digest
                     /\ w.kind = job[j].kind /\ w.dry = job[j].dry
      /\ job[j].kind # "sync" => w # None
  <2>1. CASE job[j].kind = "sync"
    BY <1>2, <2>1
  <2>2. CASE job[j].kind # "sync"
    BY <1>1, <1>2, <2>2 DEF Windows!JobRecords, WindowSane
  <2> QED
    BY <2>1, <2>2
<1>5. /\ job[j].digest.to \in Windows!Times /\ job[j].digest.from \in Windows!Times
      /\ Windows!Times \subseteq Nat /\ now \in Nat /\ None \notin Nat
      /\ (lastSync # None => lastSync \in Nat) /\ committed \in Windows!Times \cup {None}
      /\ digested \in [Windows!Times -> 0 .. 2]
  BY <1>1, TimeFacts DEF Windows!JobRecords, Windows!Windows
<1>6. Windows!TypeOK' /\ job'[j] = w /\ \A i \in Jobs : i # j => job'[i] = job[i]
  <2>1. /\ lastSync' \in Windows!Times \cup {None} /\ committed' \in Windows!Times \cup {None}
        /\ digested' \in [Windows!Times -> 0 .. 2] /\ talked' \in [Windows!Times -> 0 .. 2]
        /\ judged' \subseteq Windows!Times
        /\ UNCHANGED <<window, now>>
    BY <1>1, <1>5 DEF Windows!TypeOK
  <2> QED
    BY <1>1, <1>3, <1>4, <2>1, JobMoves
<1>7. SUFFICES ASSUME Windows!Alone, OneLook
               PROVE  OneLook'
  BY <1>1, <1>6 DEF WindowInv, Windows!Alone
<1>8. \A i \in Jobs : i # j => job[i] = None /\ job'[i] = None
  BY <1>6, <1>7, NoOther
<1>9. PICK s : s = job[j].digest.to
  OBVIOUS
<1>10. /\ s \in Nat /\ s <= now /\ s = job[j].started /\ (lastSync # None => lastSync <= s)
       /\ (lastSync # None => lastSync <= job[j].digest.from)
       /\ Windows!Regular => job[j].kind = "night" /\ job[j].dry = FALSE
       /\ Windows!Regular => job[j].digest.from = IF lastSync = None THEN 0 ELSE lastSync
  BY <1>1, <1>5, <1>7, <1>9 DEF OneLook, Looks
<1>11. \A t \in Windows!Times : digested[t] <= 1 /\ (digested[t] # 0 => t < s)
  BY <1>5, <1>7, <1>10 DEF OneLook
<1>12. ASSUME NEW t \in Windows!Within(job[j].digest)
       PROVE  digested[t] = 0 /\ t < s
  <2>1. t \in Windows!Times /\ job[j].digest.from <= t /\ t < s
    BY <1>9 DEF Windows!Within
  <2>2. digested[t] # 0 => lastSync # None /\ t < lastSync
    BY <1>7, <2>1 DEF OneLook
  <2>3. t \in Nat /\ job[j].digest.from \in Nat
    BY <1>5, <2>1
  <2>4. lastSync # None => lastSync \in Nat /\ lastSync <= t
    BY <1>5, <1>10, <2>1, <2>3
  <2> QED
    BY <2>1, <2>2, <2>3, <2>4
<1>13. ASSUME NEW i \in Jobs, job'[i] # None
       PROVE  i \in window'.jobs /\ Looks(job[i])'
  <2>1. i = j /\ job'[i] = w /\ w # None
    BY <1>6, <1>8, <1>13
  <2>2. Looks(w)'
    BY <1>1, <1>4, <1>5, <1>9, <1>10, <1>12, <2>1 DEF Looks, Pending, Windows!Within,
       Windows!Regular, Windows!Times
  <2> QED
    BY <1>1, <2>1, <2>2 DEF Looks
<1>14. ASSUME Windows!Regular, NEW t \in Windows!Times, t < s
       PROVE  InDigest(t)'
  <2>1. CASE lastSync # None /\ t < lastSync
    <3>1. InDigest(t)
      BY <1>7, <1>14, <2>1 DEF OneLook
    <3>2. ~Holds(t, job[j])
      BY <1>1 DEF Holds, Pending
    <3>3. digested[t] = 1
      BY <1>8, <3>1, <3>2 DEF InDigest, Holds
    <3> QED
      BY <1>1, <3>3 DEF InDigest
  <2>2. CASE ~(lastSync # None /\ t < lastSync)
    <3>1. t \in Windows!Within(job[j].digest)
      BY <1>5, <1>9, <1>10, <1>14, <2>2 DEF Windows!Within
    <3>2. Holds(t, job[j])'
      BY <1>4, <1>6, <1>10, <1>14, <3>1 DEF Holds, Pending, Windows!Within, Windows!Times
    <3> QED
      BY <1>1, <3>2 DEF InDigest
  <2> QED
    BY <2>1, <2>2
<1>15. Windows!Regular' => \A t \in Windows!Times : lastSync' # None /\ t < lastSync' => InDigest(t)'
  BY <1>1, <1>9, <1>14 DEF Windows!Regular
<1>16. /\ now' <= window'.until /\ lastSync' <= now' /\ (committed' # None => committed' <= now')
       /\ \A t \in Windows!Times : digested'[t] <= 1 /\ (digested'[t] # 0 => lastSync' # None /\ t < lastSync')
       /\ \A t \in Windows!Times : talked'[t] <= 1 /\ (talked'[t] # 0 => committed' # None /\ t < committed')
  BY <1>1, <1>5, <1>7, <1>9, <1>10, <1>11 DEF OneLook
<1> QED
  BY <1>13, <1>15, <1>16 DEF OneLook, Windows!Times

\* Who is counted twice is counted up to 2.
LEMMA Counting ==
    ASSUME NEW c \in [Windows!Times -> 0 .. 2], NEW w, NEW new, new = Windows!Counted(c, w)
    PROVE  /\ new \in [Windows!Times -> 0 .. 2]
           /\ \A t \in Windows!Times \ Windows!Within(w) : new[t] = c[t]
           /\ \A t \in Windows!Within(w) : t \in Windows!Times /\ (c[t] = 0 => new[t] = 1)
<1>1. Windows!Within(w) \subseteq Windows!Times
  BY DEF Windows!Within
<1> QED
  BY <1>1 DEF Windows!Counted

\* The digest is given to the edits: none of its instants was.
LEMMA runTriageEditStagesLooks ==
    ASSUME WindowSane, WindowInv, NEW j \in window.jobs, Windows!runTriageEditStages(j)
    PROVE  WindowInv'
<1>1. /\ job[j] # None /\ job[j].at = "edit" /\ job[j] \in Windows!JobRecords /\ j \in Jobs
      /\ Windows!TypeOK
      /\ UNCHANGED <<window, now, lastSync, committed, judged, talked>>
      /\ \/ (window.fails \/ job[j].dry) /\ digested' = digested
         \/ ~job[j].dry /\ digested' = Windows!Counted(digested, job[j].digest)
  BY WindowFacts DEF Windows!runTriageEditStages, Windows!At, WindowInv, Windows!TypeOK
<1>2. PICK w : w = IF job[j].kind = "edit" THEN None ELSE [job[j] EXCEPT !.at = "judge"]
  OBVIOUS
<1>3. job' = [job EXCEPT ![j] = w]
  BY <1>2 DEF Windows!runTriageEditStages, Windows!Ends, Windows!Goes
<1>4. /\ w \in Windows!JobRecords \cup {None}
      /\ w # None => /\ w.at = "judge" /\ w.started = job[j].started
                     /\ w.kind = job[j].kind /\ w.dry = job[j].dry
  <2>1. CASE job[j].kind = "edit"
    BY <1>2, <2>1
  <2>2. CASE job[j].kind # "edit"
    BY <1>1, <1>2, <2>2 DEF Windows!JobRecords
  <2> QED
    BY <2>1, <2>2
<1>5. digested \in [Windows!Times -> 0 .. 2] /\ now \in Nat /\ Windows!Times \subseteq Nat
  BY <1>1, TimeFacts
<1>6. /\ digested' \in [Windows!Times -> 0 .. 2]
      /\ \A t \in Windows!Times \ Windows!Within(job[j].digest) : digested'[t] = digested[t]
      /\ \A t \in Windows!Within(job[j].digest) : t \in Windows!Times /\ (digested[t] = 0 => digested'[t] \in {0, 1})
      /\ ~(window.fails \/ job[j].dry) =>
            \A t \in Windows!Within(job[j].digest) : digested[t] = 0 => digested'[t] = 1
  <2>1. PICK new : new = digested'
    OBVIOUS
  <2>2. CASE digested' = digested /\ (window.fails \/ job[j].dry)
    BY <1>5, <2>2 DEF Windows!Within
  <2>3. CASE digested' = Windows!Counted(digested, job[j].digest)
    BY <1>5, <2>1, <2>3, Counting
  <2> QED
    BY <1>1, <2>2, <2>3
<1>7. Windows!TypeOK' /\ job'[j] = w /\ \A i \in Jobs : i # j => job'[i] = job[i]
  <2>1. /\ lastSync' \in Windows!Times \cup {None} /\ committed' \in Windows!Times \cup {None}
        /\ digested' \in [Windows!Times -> 0 .. 2] /\ talked' \in [Windows!Times -> 0 .. 2]
        /\ judged' \subseteq Windows!Times
        /\ UNCHANGED <<window, now>>
    BY <1>1, <1>6 DEF Windows!TypeOK
  <2> QED
    BY <1>1, <1>3, <1>4, <2>1, JobMoves
<1>8. SUFFICES ASSUME Windows!Alone, OneLook
               PROVE  OneLook'
  BY <1>1, <1>7 DEF WindowInv, Windows!Alone
<1>9. \A i \in Jobs : i # j => job[i] = None /\ job'[i] = None
  BY <1>7, <1>8, NoOther
<1>10. Looks(job[j])
  BY <1>1, <1>8 DEF OneLook
<1>11. \A t \in Windows!Within(job[j].digest) : digested[t] = 0 /\ lastSync # None /\ t < lastSync
  BY <1>1, <1>10 DEF Looks, Pending
<1>12. \A t \in Windows!Times : digested'[t] <= 1 /\ (digested'[t] # 0 => lastSync' # None /\ t < lastSync')
  BY <1>1, <1>6, <1>8, <1>11 DEF OneLook
<1>13. ASSUME NEW i \in Jobs, job'[i] # None
       PROVE  i \in window'.jobs /\ Looks(job[i])'
  <2>1. i = j /\ job'[i] = w /\ w # None
    BY <1>7, <1>9, <1>13
  <2>2. Looks(w)'
    BY <1>1, <1>4, <1>10, <2>1 DEF Looks, Pending, Windows!Regular
  <2> QED
    BY <1>1, <2>1, <2>2 DEF Looks
<1>14. ASSUME Windows!Regular, NEW t \in Windows!Times, lastSync # None, t < lastSync
       PROVE  InDigest(t)'
  <2>1. ~(window.fails \/ job[j].dry)
    BY <1>10, <1>14 DEF Windows!Regular, Looks
  <2>2. CASE t \in Windows!Within(job[j].digest)
    BY <1>6, <1>11, <2>1, <2>2 DEF InDigest
  <2>3. CASE t \notin Windows!Within(job[j].digest)
    <3>1. InDigest(t)
      BY <1>8, <1>14 DEF OneLook
    <3>2. digested[t] = 1
      BY <1>9, <2>3, <3>1 DEF InDigest, Holds
    <3> QED
      BY <1>6, <2>3, <3>2 DEF InDigest
  <2> QED
    BY <2>2, <2>3
<1>15. Windows!Regular' => \A t \in Windows!Times : lastSync' # None /\ t < lastSync' => InDigest(t)'
  BY <1>1, <1>14 DEF Windows!Regular
<1>16. /\ now' <= window'.until /\ (lastSync' # None => lastSync' <= now')
       /\ (committed' # None => committed' <= now')
       /\ \A t \in Windows!Times : talked'[t] <= 1 /\ (talked'[t] # 0 => committed' # None /\ t < committed')
  BY <1>1, <1>8 DEF OneLook
<1> QED
  BY <1>12, <1>13, <1>15, <1>16 DEF OneLook, Windows!Times

\* A judge that comes to a report was given talks that no other was; its commit is after them.
LEMMA runJudgeStageLooks ==
    ASSUME WindowSane, WindowInv, NEW j \in window.jobs, Windows!runJudgeStage(j)
    PROVE  WindowInv'
<1>1. /\ job[j] # None /\ job[j].at = "commit" /\ job[j] \in Windows!JobRecords /\ j \in Jobs
      /\ Windows!TypeOK
      /\ job' = [job EXCEPT ![j] = None]
      /\ UNCHANGED <<window, now, lastSync, digested>>
      /\ \/ UNCHANGED <<committed, judged, talked>>
         \/ /\ committed' = now /\ judged' = judged \cup Windows!Within(job[j].git)
            /\ talked' = Windows!Counted(talked, job[j].talks)
  BY WindowFacts DEF Windows!runJudgeStage, Windows!At, Windows!Ends, Windows!Goes, WindowInv,
     Windows!TypeOK
<1>2. Windows!Times \subseteq Nat /\ now \in Windows!Times /\ talked \in [Windows!Times -> 0 .. 2]
      /\ (committed # None => committed \in Nat) /\ None \notin Nat
      /\ job[j].talks.from \in Nat /\ job[j].talks.to \in Nat
  <2>1. now \in Windows!Times
    BY <1>1 DEF Windows!TypeOK
  <2>2. job[j].talks.from \in Windows!Times /\ job[j].talks.to \in Windows!Times
    BY <1>1 DEF Windows!JobRecords, Windows!Windows
  <2> QED
    BY <1>1, <2>1, <2>2, TimeFacts
<1>3. /\ talked' \in [Windows!Times -> 0 .. 2] /\ committed' \in Windows!Times \cup {None}
      /\ judged' \subseteq Windows!Times
      /\ \A t \in Windows!Times \ Windows!Within(job[j].talks) : talked'[t] = talked[t]
      /\ \A t \in Windows!Within(job[j].talks) : talked[t] = 0 => talked'[t] \in {0, 1}
      /\ \A t \in Windows!Times : talked'[t] # talked[t] => committed' = now
  <2>1. PICK new : new = talked'
    OBVIOUS
  <2>2. Windows!Within(job[j].git) \subseteq Windows!Times
    BY DEF Windows!Within
  <2>3. CASE UNCHANGED <<committed, judged, talked>>
    BY <1>1, <1>2, <2>3 DEF Windows!Within, Windows!TypeOK
  <2>4. CASE /\ committed' = now /\ judged' = judged \cup Windows!Within(job[j].git)
             /\ talked' = Windows!Counted(talked, job[j].talks)
    <3>1. committed' = now /\ judged' \subseteq Windows!Times
      BY <1>1, <2>2, <2>4 DEF Windows!TypeOK
    <3> QED
      BY <1>2, <2>1, <2>4, <3>1, Counting
  <2> QED
    BY <1>1, <2>3, <2>4
<1>4. Windows!TypeOK' /\ job'[j] = None /\ \A i \in Jobs : i # j => job'[i] = job[i]
  <2>1. /\ lastSync' \in Windows!Times \cup {None} /\ digested' \in [Windows!Times -> 0 .. 2]
        /\ UNCHANGED <<window, now>> /\ None \in Windows!JobRecords \cup {None}
    BY <1>1 DEF Windows!TypeOK
  <2> QED
    BY <1>1, <1>3, <2>1, JobMoves
<1>5. SUFFICES ASSUME Windows!Alone, OneLook
               PROVE  OneLook'
  BY <1>1, <1>4 DEF WindowInv, Windows!Alone
<1>6. \A i \in Jobs : job'[i] = None
  BY <1>4, <1>5, NoOther
<1>7. job[j].talks.to <= now /\ (committed # None => committed <= job[j].talks.from)
  BY <1>1, <1>5 DEF OneLook, Looks
<1>8. committed' # None => committed' <= now'
  BY <1>1, <1>2, <1>5 DEF OneLook
<1>9. ASSUME NEW t \in Windows!Times
      PROVE  talked'[t] <= 1 /\ (talked'[t] # 0 => committed' # None /\ t < committed')
  <2>1. t \in Nat /\ now \in Nat /\ (committed # None => committed <= now) /\ talked[t] \in 0 .. 2
    BY <1>2, <1>5 DEF OneLook
  <2>2. talked[t] <= 1 /\ (talked[t] # 0 => committed # None /\ t < committed)
    BY <1>5 DEF OneLook
  <2>3. committed' = committed \/ committed' = now
    BY <1>1
  <2>4. CASE t \notin Windows!Within(job[j].talks)
    BY <1>2, <1>3, <2>1, <2>2, <2>3, <2>4
  <2>5. CASE t \in Windows!Within(job[j].talks)
    <3>1. job[j].talks.from <= t /\ t < job[j].talks.to
      BY <2>5 DEF Windows!Within
    <3>2. talked[t] = 0
      BY <1>2, <1>7, <2>1, <2>2, <3>1
    <3>3. talked'[t] \in {0, 1} /\ (talked'[t] # 0 => committed' = now)
      BY <1>3, <2>5, <3>2
    <3>4. t < now
      BY <1>2, <1>7, <2>1, <3>1
    <3> QED
      BY <1>2, <2>1, <3>3, <3>4
  <2> QED
    BY <2>4, <2>5
<1>10. ASSUME Windows!Regular, NEW t \in Windows!Times, lastSync # None, t < lastSync
       PROVE  InDigest(t)'
  <2>1. InDigest(t)
    BY <1>5, <1>10 DEF OneLook
  <2>2. ~Holds(t, job[j]) /\ \A i \in Jobs : i # j => job[i] = None
    BY <1>1, <1>5, NoOther DEF Holds, Pending
  <2>3. digested[t] = 1
    BY <2>1, <2>2 DEF InDigest, Holds
  <2> QED
    BY <1>1, <2>3 DEF InDigest
<1>11. Windows!Regular' => \A t \in Windows!Times : lastSync' # None /\ t < lastSync' => InDigest(t)'
  BY <1>1, <1>10 DEF Windows!Regular
<1>12. /\ now' <= window'.until /\ (lastSync' # None => lastSync' <= now')
       /\ \A t \in Windows!Times : digested'[t] <= 1 /\ (digested'[t] # 0 => lastSync' # None /\ t < lastSync')
  BY <1>1, <1>5 DEF OneLook
<1> QED
  BY <1>6, <1>8, <1>9, <1>11, <1>12 DEF OneLook, Windows!Times

LEMMA ClockLooks ==
    ASSUME WindowSane, WindowInv, Windows!Clock
    PROVE  WindowInv'
<1>1. /\ now < window.until /\ now' = now + 1
      /\ UNCHANGED <<window, lastSync, committed, job, digested, judged, talked>>
  BY DEF Windows!Clock
<1>2. now \in Nat /\ MaxTime \in Nat /\ window.until \in 0 .. MaxTime
  BY WindowFacts DEF WindowInv, Windows!Times
<1>3. Windows!TypeOK'
  BY <1>1, <1>2 DEF WindowInv, Windows!TypeOK, Windows!Times
<1>4. SUFFICES ASSUME Windows!Alone, OneLook
               PROVE  OneLook'
  BY <1>1, <1>3 DEF WindowInv, Windows!Alone
<1>5. /\ now' <= window'.until /\ (lastSync' # None => lastSync' <= now')
      /\ (committed' # None => committed' <= now')
  BY <1>1, <1>2, <1>4, TimeFacts DEF WindowInv, OneLook
<1>6. ASSUME NEW i \in Jobs, job'[i] # None
      PROVE  i \in window'.jobs /\ Looks(job[i])'
  <2>1. i \in window.jobs /\ Looks(job[i]) /\ job[i] \in Windows!JobRecords /\ job'[i] = job[i]
    BY <1>1, <1>4, <1>6 DEF OneLook, WindowInv, Windows!TypeOK
  <2>2. job[i].started \in Nat /\ job[i].talks.to \in Nat
    BY <2>1 DEF Windows!JobRecords, Windows!Windows, Windows!Times
  <2>3. job[i].started <= now' /\ (job[i].talks.to <= now => job[i].talks.to <= now')
    BY <1>1, <1>2, <2>1, <2>2 DEF Looks
  <2> QED
    BY <1>1, <2>1, <2>3 DEF Looks, Windows!Within, Windows!Times, Windows!Regular
<1>7. Windows!Regular' => \A t \in Windows!Times : lastSync' # None /\ t < lastSync' => InDigest(t)'
  BY <1>1, <1>4 DEF OneLook, Windows!Regular, InDigest, Holds, Windows!Within, Windows!Times
<1> QED
  BY <1>1, <1>4, <1>5, <1>6, <1>7 DEF OneLook, Windows!Times

LEMMA WindowInit ==
    ASSUME WindowSane, Windows!Init
    PROVE  WindowInv
<1>1. window \in Windows!SettingRecords /\ window.until \in Windows!Times /\ 0 \in Windows!Times
  BY DEF Windows!Init, WindowSane, Windows!SettingRecords, Windows!Times
<1>2. Windows!TypeOK
  BY <1>1 DEF Windows!Init, Windows!TypeOK
<1>3. OneLook
  BY <1>1 DEF Windows!Init, OneLook, Windows!Times
<1> QED
  BY <1>2, <1>3 DEF WindowInv

LEMMA WindowNext ==
    ASSUME WindowSane, WindowInv, [Windows!Next]_(Windows!vars)
    PROVE  WindowInv'
<1>1. CASE UNCHANGED Windows!vars
  BY <1>1 DEF Windows!vars, WindowInv, Windows!TypeOK, Windows!Alone, OneLook, Looks,
     Windows!Within, Windows!Times, Windows!Regular, InDigest, Holds
<1>2. CASE Windows!Clock
  BY <1>2, ClockLooks
<1>3. ASSUME NEW j \in window.jobs,
             \/ Windows!cmdBrainNight(j) \/ Windows!BuildWithGit(j) \/ Windows!SaveState(j)
             \/ Windows!runSweepStage(j)
             \/ Windows!runScoutStage(j) \/ Windows!runTriageEditStages(j)
             \/ Windows!prepareSleepCycle(j) \/ Windows!runBulk(j)
             \/ Windows!runEscalate(j) \/ Windows!runJudgeStage(j) \/ Windows!Kill(j)
      PROVE  WindowInv'
  BY <1>3, cmdBrainNightLooks, BuildWithGitLooks, SaveStateLooks, StagesLook,
     runTriageEditStagesLooks, prepareSleepCycleLooks, runJudgeStageLooks
<1> QED
  BY <1>1, <1>2, <1>3 DEF Windows!Next

\* With one job at a time, of any kind, failing or killed at any stage and at any time of the
\* clock, the digests that edits are given never overlap, nor do the talks that judges are given;
\* and regular nights leave no instant before the end of the last digest out, however long their
\* stages take.
THEOREM DigestsAlwaysTile ==
    ASSUME WindowSane
    PROVE  Windows!Spec => []DigestsTile
<1>1. ASSUME Windows!Init
      PROVE  WindowInv
  BY <1>1, WindowInit
<1>2. ASSUME WindowInv, [Windows!Next]_(Windows!vars)
      PROVE  WindowInv'
  BY <1>2, WindowNext
<1>3. ASSUME WindowInv
      PROVE  DigestsTile
  BY <1>3 DEF DigestsTile, WindowInv, OneLook, InDigest, Holds, Windows!DigestsTile, Windows!Idle
<1> QED
  BY <1>1, <1>2, <1>3, PTL DEF Windows!Spec

---------------------------------------------------------------------------
(* The round-robin of the paid models (NightBudget).                           *)

BudgetSane == BudgetSettings \subseteq Budget!SettingRecords /\ MaxPicks \in Nat /\ MaxInstant \in Nat

\* How far i is from the place r, in a circle of n.
Far(n, r, i) == IF i >= r THEN i - r ELSE (i + n) - r

LEMMA Modulus ==
    ASSUME NEW n \in Nat \ {0}, NEW a \in Nat, a < 2 * n
    PROVE  a % n = IF a < n THEN a ELSE a - n
<1>1. CASE a < n
  BY <1>1
<1>2. CASE n <= a
  BY <1>2
<1> QED
  BY <1>1, <1>2

\* At the place s after x, what was behind x on the way from r is as much nearer; what was before
\* it, or is x itself, is on the far side of it.
Turned(n, r, x, s, i) ==
    /\ Far(n, r, i) \in 0 .. (n - 1)
    /\ Far(n, r, i) = Far(n, r, x) => i = x
    /\ Far(n, r, x) < Far(n, r, i) => Far(n, s, i) = (Far(n, r, i) - Far(n, r, x)) - 1
    /\ Far(n, r, i) <= Far(n, r, x) => Far(n, s, i) = ((Far(n, r, i) - Far(n, r, x)) - 1) + n

LEMMA FarAfter ==
    ASSUME NEW n \in Nat \ {0}, NEW r \in 1 .. n, NEW x \in 1 .. n, NEW s \in 1 .. n, NEW i \in 1 .. n,
           s = x + 1 \/ (x = n /\ s = 1)
    PROVE  Turned(n, r, x, s, i)
  BY DEF Far, Turned

\* A paid model i is ahead of a local one j by at most one pick, and only while the place is on
\* the way from i to j.
Balanced(s) == \A i, j \in Budget!Indices : i # j /\ Budget!Pool[j] = "local" =>
                  s.picks[i] <= s.picks[j] + (IF Far(Len(Budget!Pool), s.rr, j) < Far(Len(Budget!Pool), s.rr, i)
                                              THEN 1 ELSE 0)

Router == [start : Budget!Times \cup {None}, live : BOOLEAN, rr : Budget!Indices,
           call : Budget!Indices \cup {None}, made : Nat, picks : [Budget!Indices -> 0 .. MaxPicks]]
Routers == [Processes -> Router]

SplitInv == /\ budget \in BudgetSettings /\ instant \in Budget!Times /\ proc \in Routers
            /\ \A p \in Processes : Balanced(proc[p])

LEMMA PoolFacts ==
    ASSUME BudgetSane, budget \in BudgetSettings
    PROVE  /\ Len(Budget!Pool) \in Nat \ {0} /\ Budget!Indices = 1 .. Len(Budget!Pool)
           /\ 1 \in Budget!Indices
           /\ \A i \in Budget!Indices : Budget!Pool[i] \in {"openai", "local"}
<1>1. Budget!Pool \in Seq({"openai", "local"}) /\ Budget!Pool # <<>>
  BY DEF BudgetSane, Budget!SettingRecords, Budget!Pool
<1> QED
  BY <1>1 DEF Budget!Indices

\* What the round-robin computes with %.
LEMMA Places ==
    ASSUME BudgetSane, SplitInv, NEW p \in Processes, NEW i \in Budget!Indices
    PROVE  /\ Budget!Distance(p, i) = Far(Len(Budget!Pool), proc[p].rr, i)
           /\ Budget!After(i) = IF i < Len(Budget!Pool) THEN i + 1 ELSE 1
<1>1. PICK n : n = Len(Budget!Pool)
  OBVIOUS
<1>2. PICK r : r = proc[p].rr
  OBVIOUS
<1>3. n \in Nat \ {0} /\ i \in 1 .. n /\ r \in 1 .. n
  BY <1>1, <1>2, PoolFacts DEF SplitInv, Routers, Router
<1>4. PICK a : a = i + n - r
  OBVIOUS
<1>5. a \in Nat /\ a < 2 * n
  BY <1>3, <1>4
<1>6. a % n = IF a < n THEN a ELSE a - n
  BY <1>3, <1>5, Modulus
<1>7. i % n = IF i < n THEN i ELSE i - n
  <2>1. i \in Nat /\ i < 2 * n
    BY <1>3
  <2> QED
    BY <1>3, <2>1, Modulus
<1>8. Budget!Distance(p, i) = a % n
  BY <1>1, <1>2, <1>4 DEF Budget!Distance
<1>9. a % n = Far(n, r, i)
  BY <1>3, <1>4, <1>6 DEF Far
<1>10. Budget!After(i) = (i % n) + 1
  BY <1>1 DEF Budget!After
<1>11. Budget!After(i) = IF i < n THEN i + 1 ELSE 1
  BY <1>3, <1>7, <1>10
<1> QED
  BY <1>1, <1>2, <1>8, <1>9, <1>11

\* A step of p leaves it with the router new, and the others alone.
LEMMA RouterMoves ==
    ASSUME SplitInv, NEW p \in Processes, NEW new \in Router, Balanced(new),
           proc' = [proc EXCEPT ![p] = new], UNCHANGED <<budget, instant>>
    PROVE  SplitInv'
<1>1. proc' \in Routers'
  BY DEF SplitInv, Routers, Router, Budget!Indices, Budget!Pool, Budget!Times
<1>2. ASSUME NEW q \in Processes
      PROVE  Balanced(proc[q])'
  <2>1. proc'[q] = new \/ proc'[q] = proc[q]
    BY DEF SplitInv, Routers
  <2>2. Balanced(proc[q])
    BY DEF SplitInv
  <2> QED
    BY <2>1, <2>2 DEF Balanced, Budget!Indices, Budget!Pool
<1> QED
  BY <1>1, <1>2 DEF SplitInv, Budget!Times

\* The model that is picked is no farther than any local one, which is never saturated.
LEMMA PickKeeps ==
    ASSUME BudgetSane, SplitInv, NEW p \in Processes, Budget!Pick(p)
    PROVE  SplitInv'
<1>1. PICK x \in Budget!Eligible(p) :
         /\ \A j \in Budget!Eligible(p) : Budget!Distance(p, x) <= Budget!Distance(p, j)
         /\ proc[p].picks[x] < MaxPicks
         /\ proc' = [proc EXCEPT ![p].rr = Budget!After(x),
                                 ![p].picks[x] = @ + 1,
                                 ![p].call = IF Budget!Pool[x] = "openai" THEN x ELSE None,
                                 ![p].made = IF Budget!Pool[x] = "openai" THEN @ + 1 ELSE @]
         /\ UNCHANGED <<budget, instant>>
  BY DEF Budget!Pick
<1>2. PICK n : n = Len(Budget!Pool)
  OBVIOUS
<1>3. PICK old : old = proc[p]
  OBVIOUS
<1>4. PICK new : new = [old EXCEPT !.rr = Budget!After(x), !.picks[x] = @ + 1,
                                   !.call = IF Budget!Pool[x] = "openai" THEN x ELSE None,
                                   !.made = IF Budget!Pool[x] = "openai" THEN @ + 1 ELSE @]
  OBVIOUS
<1>5. proc' = [proc EXCEPT ![p] = new]
  BY <1>1, <1>3, <1>4 DEF SplitInv, Routers, Router
<1>6. /\ n \in Nat \ {0} /\ Budget!Indices = 1 .. n /\ x \in 1 .. n /\ old.rr \in 1 .. n
      /\ old.picks \in [1 .. n -> 0 .. MaxPicks] /\ old.made \in Nat /\ old.picks[x] < MaxPicks
      /\ MaxPicks \in Nat
  BY <1>1, <1>2, <1>3, PoolFacts DEF SplitInv, Routers, Router, Budget!Eligible, BudgetSane
<1>7. Budget!After(x) = IF x < n THEN x + 1 ELSE 1
  BY <1>2, <1>6, Places
<1>8. PICK picks : picks = [old.picks EXCEPT ![x] = @ + 1]
  OBVIOUS
<1>9. picks \in [1 .. n -> 0 .. MaxPicks] /\ picks[x] = old.picks[x] + 1
      /\ \A i \in 1 .. n : i # x => picks[i] = old.picks[i]
  <2>1. old.picks[x] + 1 \in 0 .. MaxPicks
    BY <1>6
  <2> QED
    BY <1>6, <1>8, <2>1
<1>10. PICK call, made : /\ call = IF Budget!Pool[x] = "openai" THEN x ELSE None
                         /\ made = IF Budget!Pool[x] = "openai" THEN old.made + 1 ELSE old.made
  OBVIOUS
<1>11. call \in Budget!Indices \cup {None} /\ made \in Nat
  BY <1>6, <1>10
<1>12. PICK s : s = Budget!After(x)
  OBVIOUS
<1>13. new = [old EXCEPT !.rr = s, !.picks = picks, !.call = call, !.made = made]
  BY <1>4, <1>8, <1>10, <1>12
<1>14. s \in Budget!Indices
  BY <1>6, <1>7, <1>12
<1>15. /\ new.rr = s /\ new.picks = picks
       /\ new \in Router
  <2>1. old \in Router
    BY <1>3 DEF SplitInv, Routers
  <2> QED
    BY <1>6, <1>9, <1>11, <1>13, <1>14, <2>1 DEF Router
<1>16. s \in 1 .. n /\ (s = x + 1 \/ (x = n /\ s = 1))
  BY <1>6, <1>7, <1>12
<1>17. ASSUME NEW i \in 1 .. n, NEW j \in 1 .. n, i # j, Budget!Pool[j] = "local"
       PROVE  picks[i] <= picks[j] + (IF Far(n, s, j) < Far(n, s, i) THEN 1 ELSE 0)
  <2>1. j \in Budget!Eligible(p)
    BY <1>6, <1>17 DEF Budget!Eligible
  <2>2. Budget!Distance(p, x) = Far(n, old.rr, x) /\ Budget!Distance(p, j) = Far(n, old.rr, j)
    BY <1>2, <1>3, <1>6, <1>17, Places
  <2>3. Far(n, old.rr, x) <= Far(n, old.rr, j)
    BY <1>1, <2>1, <2>2
  <2>4. old.picks[i] <= old.picks[j] + (IF Far(n, old.rr, j) < Far(n, old.rr, i) THEN 1 ELSE 0)
    BY <1>2, <1>3, <1>6, <1>17 DEF SplitInv, Balanced
  <2>5. PICK fx, fi, fj, gi, gj : /\ fx = Far(n, old.rr, x) /\ fi = Far(n, old.rr, i)
                                  /\ fj = Far(n, old.rr, j)
                                  /\ gi = Far(n, s, i) /\ gj = Far(n, s, j)
    OBVIOUS
  <2>6. /\ fi \in 0 .. (n - 1) /\ (fi = fx => i = x)
        /\ fx < fi => gi = (fi - fx) - 1
        /\ fi <= fx => gi = ((fi - fx) - 1) + n
    <3>1. Turned(n, old.rr, x, s, i)
      BY <1>6, <1>16, FarAfter
    <3> QED
      BY <2>5, <3>1 DEF Turned
  <2>7. /\ fj \in 0 .. (n - 1) /\ (fj = fx => j = x)
        /\ fx < fj => gj = (fj - fx) - 1
        /\ fj <= fx => gj = ((fj - fx) - 1) + n
    <3>1. Turned(n, old.rr, x, s, j)
      BY <1>6, <1>16, FarAfter
    <3> QED
      BY <2>5, <3>1 DEF Turned
  <2>8. fx \in 0 .. (n - 1) /\ fx <= fj
    <3>1. Turned(n, old.rr, x, s, x)
      BY <1>6, <1>16, FarAfter
    <3>2. Far(n, old.rr, x) \in 0 .. (n - 1)
      BY <3>1 DEF Turned
    <3> QED
      BY <2>3, <2>5, <3>2
  <2>9. old.picks[i] \in Nat /\ old.picks[j] \in Nat /\ picks[i] \in Nat /\ picks[j] \in Nat
    <3>1. 0 .. MaxPicks \subseteq Nat
      BY <1>6
    <3>2. picks[i] \in 0 .. MaxPicks /\ picks[j] \in 0 .. MaxPicks
      BY <1>9
    <3>3. old.picks[i] \in 0 .. MaxPicks /\ old.picks[j] \in 0 .. MaxPicks
      BY <1>6
    <3> QED
      BY <3>1, <3>2, <3>3
  <2>10. old.picks[i] <= old.picks[j] + (IF fj < fi THEN 1 ELSE 0)
    BY <2>4, <2>5
  <2>11. picks[i] <= picks[j] + (IF gj < gi THEN 1 ELSE 0)
    <3>1. CASE i = x
      <4>1. fi = fx /\ picks[i] = old.picks[i] + 1 /\ picks[j] = old.picks[j]
        BY <1>9, <1>17, <2>5, <3>1
      <4>2. fx < fj /\ gj < gi
        BY <1>6, <1>17, <2>6, <2>7, <2>8, <3>1, <4>1
      <4> QED
        BY <2>6, <2>7, <2>8, <2>9, <2>10, <4>1, <4>2
    <3>2. CASE j = x
      <4>1. fj = fx /\ picks[j] = old.picks[j] + 1 /\ picks[i] = old.picks[i]
        BY <1>9, <1>17, <2>5, <3>2
      <4> QED
        BY <2>6, <2>7, <2>8, <2>9, <2>10, <4>1
    <3>3. CASE i # x /\ j # x
      <4>1. picks[j] = old.picks[j] /\ picks[i] = old.picks[i]
        BY <1>9, <3>3
      <4>2. fx < fj /\ fi # fx
        BY <2>6, <2>7, <2>8, <3>3
      <4>3. CASE fx < fi
        <5>1. gj < gi <=> fj < fi
          BY <1>6, <2>6, <2>7, <2>8, <4>2, <4>3
        <5> QED
          BY <2>9, <2>10, <4>1, <5>1
      <4>4. CASE fi < fx
        <5>1. ~(fj < fi)
          BY <2>6, <2>7, <2>8, <4>4
        <5>2. picks[i] <= picks[j]
          BY <2>9, <2>10, <4>1, <5>1
        <5> QED
          BY <2>9, <5>2
      <4> QED
        BY <2>6, <2>8, <4>2, <4>3, <4>4
    <3> QED
      BY <3>1, <3>2, <3>3
  <2> QED
    BY <2>5, <2>11
<1>18. Balanced(new)
  BY <1>2, <1>6, <1>15, <1>17 DEF Balanced
<1> QED
  BY <1>1, <1>5, <1>15, <1>18, RouterMoves

\* The other steps of a process start its router anew, or leave it where it is.
LEMMA SessionKeeps ==
    ASSUME BudgetSane, SplitInv, NEW p \in Processes,
           Budget!SetSessionStart(p) \/ Budget!EndSession(p) \/ Budget!AppendEntry(p)
           \/ Budget!CallFails(p)
    PROVE  SplitInv'
<1>1. UNCHANGED <<budget, instant>>
  BY DEF Budget!SetSessionStart, Budget!EndSession, Budget!AppendEntry, Budget!CallFails
<1>2. proc[p] \in Router /\ Balanced(proc[p])
  BY DEF SplitInv, Routers
<1>3. CASE Budget!SetSessionStart(p)
  <2>1. PICK new : new = Budget!StartSession(p)
    OBVIOUS
  <2>2. new = [start |-> instant, live |-> TRUE, rr |-> 1, call |-> None, made |-> 0,
               picks |-> [i \in Budget!Indices |-> 0]]
    BY <2>1 DEF Budget!StartSession, Budget!NoSession
  <2>3. 1 \in Budget!Indices /\ Budget!Indices \subseteq Nat /\ instant \in Budget!Times /\ 0 \in 0 .. MaxPicks
    BY PoolFacts DEF SplitInv, BudgetSane
  <2>4. new \in Router /\ \A i \in Budget!Indices : new.picks[i] = 0
    BY <2>2, <2>3 DEF Router
  <2>5. Balanced(new)
    BY <2>4 DEF Balanced
  <2> QED
    BY <1>1, <1>3, <2>1, <2>4, <2>5, RouterMoves DEF Budget!SetSessionStart
<1>4. CASE ~Budget!SetSessionStart(p)
  <2>1. PICK new : /\ proc' = [proc EXCEPT ![p] = new]
                   /\ \/ new = [proc[p] EXCEPT !.live = FALSE]
                      \/ new = [proc[p] EXCEPT !.call = None]
    BY <1>4 DEF Budget!EndSession, Budget!AppendEntry, Budget!CallFails
  <2>2. new \in Router /\ new.rr = proc[p].rr /\ new.picks = proc[p].picks
    BY <1>2, <2>1 DEF Router
  <2>3. Balanced(new)
    BY <1>2, <2>2 DEF Balanced
  <2> QED
    BY <1>1, <2>1, <2>2, <2>3, RouterMoves
<1> QED
  BY <1>3, <1>4

LEMMA SplitInit ==
    ASSUME BudgetSane, Budget!Init
    PROVE  SplitInv
<1>1. budget \in BudgetSettings /\ instant = 0 /\ proc = [p \in Processes |-> Budget!NoSession]
  BY DEF Budget!Init
<1>2. 1 \in Budget!Indices /\ 0 \in 0 .. MaxPicks
  BY <1>1, PoolFacts DEF BudgetSane
<1>3. Budget!NoSession \in Router /\ \A i \in Budget!Indices : Budget!NoSession.picks[i] = 0
  BY <1>2 DEF Budget!NoSession, Router
<1>4. Balanced(Budget!NoSession)
  BY <1>3 DEF Balanced
<1>5. instant \in Budget!Times
  BY <1>1 DEF Budget!Times, BudgetSane
<1> QED
  BY <1>1, <1>3, <1>4, <1>5 DEF SplitInv, Routers

LEMMA SplitNext ==
    ASSUME BudgetSane, SplitInv, [Budget!Next]_(Budget!vars)
    PROVE  SplitInv'
<1>1. CASE UNCHANGED <<budget, proc>> /\ instant' \in Budget!Times
  BY <1>1 DEF SplitInv, Routers, Router, Balanced, Budget!Indices, Budget!Pool, Budget!Times
<1>2. CASE UNCHANGED Budget!vars \/ Budget!PrepareBrainGit \/ Budget!CommitBrainGit \/ Budget!RollbackBrainGit
  BY <1>1, <1>2 DEF SplitInv, Budget!vars, Budget!PrepareBrainGit, Budget!CommitBrainGit,
     Budget!RollbackBrainGit
<1>3. CASE Budget!Clock
  <2>1. instant' \in Budget!Times
    BY <1>3 DEF SplitInv, Budget!Clock, Budget!Times, BudgetSane
  <2> QED
    BY <1>1, <1>3, <2>1 DEF Budget!Clock
<1>4. ASSUME NEW p \in budget.processes,
             \/ Budget!SetSessionStart(p) \/ Budget!EndSession(p) \/ Budget!Pick(p)
             \/ Budget!AppendEntry(p) \/ Budget!CallFails(p)
      PROVE  SplitInv'
  <2>1. p \in Processes
    BY DEF SplitInv, BudgetSane, Budget!SettingRecords
  <2> QED
    BY <1>4, <2>1, PickKeeps, SessionKeeps
<1> QED
  BY <1>2, <1>3, <1>4 DEF Budget!Next

\* In every session the picks of a paid model are never more than one ahead of those of a local
\* model of its pool, for any pool of models and any number of processes: whichever models the
\* night's and the week's budget exclude, and whenever calls, commands that are rolled back and
\* the clock let them back in.
THEOREM AlwaysEvenSplit ==
    ASSUME BudgetSane
    PROVE  Budget!Spec => []EvenSplit
<1>1. ASSUME Budget!Init
      PROVE  SplitInv
  BY <1>1, SplitInit
<1>2. ASSUME SplitInv, [Budget!Next]_(Budget!vars)
      PROVE  SplitInv'
  BY <1>2, SplitNext
<1>3. ASSUME SplitInv
      PROVE  EvenSplit
  <2>1. SUFFICES ASSUME NEW p \in Processes, NEW i \in Budget!Indices, NEW j \in Budget!Indices,
                        Budget!Pool[j] = "local"
                 PROVE  proc[p].picks[i] <= proc[p].picks[j] + 1
    BY DEF EvenSplit, Budget!EvenSplit
  <2>2. proc[p].picks[i] \in Nat /\ proc[p].picks[j] \in Nat /\ Balanced(proc[p])
    BY <1>3 DEF SplitInv, Routers, Router
  <2> QED
    BY <2>1, <2>2 DEF Balanced
<1> QED
  BY <1>1, <1>2, <1>3, PTL DEF Budget!Spec

---------------------------------------------------------------------------
(* What the calls use (NightBudget).                                           *)

\* Induction on the numbers, stated of sets.
LEMMA Ascending ==
    ASSUME NEW T, T \subseteq Nat, 0 \in T, \A n \in T : n + 1 \in T
    PROVE  \A n \in Nat : n \in T
<1> SUFFICES ASSUME NEW m \in Nat, m \notin T
             PROVE  FALSE
  OBVIOUS
<1>1. IsWellFoundedOn(OpToRel(<, Nat), Nat)
  BY NatLessThanWellFounded
<1>2. PICK x \in Nat \ T : \A y \in Nat \ T : <<y, x>> \notin OpToRel(<, Nat)
  <2>1. Nat \ T \subseteq Nat /\ Nat \ T # {}
    OBVIOUS
  <2> QED
    BY <1>1, <2>1, WFMin
<1>3. x # 0 /\ x - 1 \in Nat /\ (x - 1) + 1 = x
  OBVIOUS
<1>4. x - 1 \in Nat \ T
  BY <1>3
<1>5. <<x - 1, x>> \in OpToRel(<, Nat)
  BY <1>3 DEF OpToRel
<1> QED
  BY <1>2, <1>4, <1>5

\* f holds the sums of the first amounts, n at most.
Sums(f, amount, n) == f = [k \in 0 .. n |-> IF k = 0 THEN 0 ELSE f[k - 1] + amount[k]]

LEMMA SumsExist ==
    ASSUME NEW amount, NEW n \in Nat
    PROVE  \E f : Sums(f, amount, n)
<1> DEFINE T == {m \in Nat : \E f : Sums(f, amount, m)}
<1>1. 0 \in T
  <2>1. Sums([k \in 0 .. 0 |-> 0], amount, 0)
    BY DEF Sums
  <2> QED
    BY <2>1
<1>2. ASSUME NEW m \in T
      PROVE  m + 1 \in T
  <2>1. PICK f : Sums(f, amount, m)
    OBVIOUS
  <2> DEFINE g == [k \in 0 .. (m + 1) |-> IF k = m + 1 THEN f[m] + amount[m + 1] ELSE f[k]]
  <2>2. ASSUME NEW k \in 0 .. (m + 1)
        PROVE  g[k] = IF k = 0 THEN 0 ELSE g[k - 1] + amount[k]
    BY <2>1 DEF Sums
  <2>3. g = [k \in 0 .. (m + 1) |-> g[k]]
    OBVIOUS
  <2>4. Sums(g, amount, m + 1)
    <3> HIDE DEF g
    <3> QED
      BY <2>2, <2>3 DEF Sums
  <2> HIDE DEF g
  <2> QED
    BY <2>4
<1> HIDE DEF T
<1>3. T \subseteq Nat
  BY DEF T
<1>4. n \in T
  BY <1>1, <1>2, <1>3, Ascending
<1> QED
  BY <1>4 DEF T

\* What Total computes, and that the sums are numbers.
LEMMA TotalIs ==
    ASSUME NEW amount \in Seq(Nat)
    PROVE  \E f \in [0 .. Len(amount) -> Nat] :
              /\ f[0] = 0 /\ Budget!Total(amount) = f[Len(amount)]
              /\ \A k \in Nat : k + 1 <= Len(amount) => f[k + 1] = f[k] + amount[k + 1]
<1> DEFINE f == CHOOSE f : Sums(f, amount, Len(amount))
<1>1. Sums(f, amount, Len(amount)) /\ Len(amount) \in Nat
  BY SumsExist
<1>2. Budget!Total(amount) = f[Len(amount)]
  BY DEF Budget!Total, Sums
<1> HIDE DEF f
<1> DEFINE T == {k \in Nat : k <= Len(amount) => f[k] \in Nat}
<1>3. 0 \in T
  BY <1>1 DEF Sums
<1>4. ASSUME NEW k \in T
      PROVE  k + 1 \in T
  <2> SUFFICES ASSUME k + 1 <= Len(amount)
               PROVE  f[k + 1] \in Nat
    OBVIOUS
  <2>1. f[k + 1] = f[k] + amount[k + 1]
    BY <1>1 DEF Sums
  <2>2. f[k] \in Nat /\ amount[k + 1] \in Nat
    BY <1>1
  <2> QED
    BY <2>1, <2>2
<1>5. \A k \in Nat : k \in T
  <2> HIDE DEF T
  <2>1. T \subseteq Nat
    BY DEF T
  <2> QED
    BY <1>3, <1>4, <2>1, Ascending
<1>6. f \in [0 .. Len(amount) -> Nat]
  <2>1. \A k \in 0 .. Len(amount) : f[k] \in Nat
    BY <1>1, <1>5
  <2>2. f = [k \in 0 .. Len(amount) |-> f[k]]
    BY <1>1 DEF Sums
  <2> QED
    BY <2>1, <2>2
<1>7. ASSUME NEW k \in Nat, k + 1 <= Len(amount)
      PROVE  f[k + 1] = f[k] + amount[k + 1]
  <2>1. k + 1 \in 0 .. Len(amount) /\ k + 1 # 0 /\ (k + 1) - 1 = k
    BY <1>1, <1>7
  <2> QED
    BY <1>1, <2>1 DEF Sums
<1>8. f[0] = 0
  BY <1>1 DEF Sums
<1> QED
  BY <1>2, <1>6, <1>7, <1>8

\* Amounts that are as large, and more of them, have a total as large.
LEMMA TotalGrows ==
    ASSUME NEW v \in Seq(Nat), NEW w \in Seq(Nat), Len(v) <= Len(w),
           \A i \in 1 .. Len(v) : v[i] <= w[i]
    PROVE  Budget!Total(v) <= Budget!Total(w)
<1>1. PICK f \in [0 .. Len(v) -> Nat] :
         /\ f[0] = 0 /\ Budget!Total(v) = f[Len(v)]
         /\ \A k \in Nat : k + 1 <= Len(v) => f[k + 1] = f[k] + v[k + 1]
  BY TotalIs
<1>2. PICK g \in [0 .. Len(w) -> Nat] :
         /\ g[0] = 0 /\ Budget!Total(w) = g[Len(w)]
         /\ \A k \in Nat : k + 1 <= Len(w) => g[k + 1] = g[k] + w[k + 1]
  BY TotalIs
<1>3. PICK m \in Nat, n \in Nat : m = Len(v) /\ n = Len(w) /\ m <= n
  OBVIOUS
<1>4. ASSUME NEW k \in Nat, k + 1 <= n
      PROVE  g[k + 1] = g[k] + w[k + 1] /\ w[k + 1] \in Nat /\ g[k] \in Nat
  <2>1. k \in 0 .. Len(w) /\ k + 1 \in 1 .. Len(w)
    BY <1>3, <1>4
  <2>2. w[k + 1] \in Nat /\ g[k] \in Nat
    <3>1. g[k] \in Nat
      BY <2>1
    <3> QED
      BY <2>1, <3>1
  <2> QED
    BY <1>2, <1>3, <1>4, <2>2
<1>5. ASSUME NEW k \in Nat, k + 1 <= m
      PROVE  f[k + 1] = f[k] + v[k + 1] /\ v[k + 1] \in Nat /\ f[k] \in Nat
  <2>1. k \in 0 .. Len(v) /\ k + 1 \in 1 .. Len(v)
    BY <1>3, <1>5
  <2>2. v[k + 1] \in Nat /\ f[k] \in Nat
    <3>1. f[k] \in Nat
      BY <2>1
    <3> QED
      BY <2>1, <3>1
  <2> QED
    BY <1>1, <1>3, <1>5, <2>2
<1> DEFINE T == {k \in Nat : k <= m => f[k] <= g[k]}
<1>6. 0 \in T
  BY <1>1, <1>2, <1>3
<1>7. ASSUME NEW k \in T
      PROVE  k + 1 \in T
  <2> SUFFICES ASSUME k + 1 <= m
               PROVE  f[k + 1] <= g[k + 1]
    OBVIOUS
  <2>1. k + 1 \in 1 .. Len(v) /\ k + 1 <= n /\ f[k] <= g[k]
    BY <1>3
  <2>2. v[k + 1] <= w[k + 1]
    BY <2>1
  <2>3. g[k + 1] = g[k] + w[k + 1] /\ w[k + 1] \in Nat /\ g[k] \in Nat
    BY <1>4, <2>1
  <2>4. f[k + 1] = f[k] + v[k + 1] /\ v[k + 1] \in Nat /\ f[k] \in Nat
    BY <1>5, <2>1
  <2>5. \A a, b, c, d \in Nat : a <= b /\ c <= d => a + c <= b + d
    OBVIOUS
  <2> HIDE DEF T
  <2>6. v[k + 1] \in Nat /\ w[k + 1] \in Nat /\ f[k] \in Nat /\ g[k] \in Nat
    BY <2>3, <2>4
  <2>7. f[k] + v[k + 1] <= g[k] + w[k + 1]
    BY <2>1, <2>2, <2>5, <2>6
  <2> QED
    BY <2>3, <2>4, <2>7
<1>8. \A k \in Nat : k \in T
  <2> HIDE DEF T
  <2>1. T \subseteq Nat
    BY DEF T
  <2> QED
    BY <1>6, <1>7, <2>1, Ascending
<1>9. f[m] <= g[m]
  BY <1>8
<1> DEFINE U == {k \in Nat : m + k <= n => g[m] <= g[m + k]}
<1>10. 0 \in U
  BY <1>2, <1>3
<1>11. ASSUME NEW k \in U
       PROVE  k + 1 \in U
  <2> SUFFICES ASSUME m + (k + 1) <= n
               PROVE  g[m] <= g[m + (k + 1)]
    OBVIOUS
  <2>1. m + k \in Nat /\ m + (k + 1) = (m + k) + 1 /\ g[m] <= g[m + k] /\ g[m] \in Nat
    BY <1>2, <1>3
  <2>2. g[(m + k) + 1] = g[m + k] + w[(m + k) + 1] /\ w[(m + k) + 1] \in Nat /\ g[m + k] \in Nat
    BY <1>4, <2>1
  <2> QED
    BY <2>1, <2>2
<1>12. \A k \in Nat : k \in U
  <2> HIDE DEF U
  <2>1. U \subseteq Nat
    BY DEF U
  <2> QED
    BY <1>10, <1>11, <2>1, Ascending
<1>13. g[m] <= g[n]
  <2>1. n - m \in Nat /\ m + (n - m) = n /\ n - m \in U
    <3> HIDE DEF U
    <3> QED
      BY <1>3, <1>12
  <2> QED
    BY <2>1
<1>14. f[m] \in Nat /\ g[m] \in Nat /\ g[n] \in Nat
  BY <1>1, <1>2, <1>3
<1> QED
  BY <1>1, <1>2, <1>3, <1>9, <1>13, <1>14

\* An amount more is added.
LEMMA TotalAdds ==
    ASSUME NEW v \in Seq(Nat), NEW w \in Seq(Nat), Len(w) = Len(v) + 1,
           \A i \in 1 .. Len(v) : v[i] = w[i]
    PROVE  Budget!Total(w) = Budget!Total(v) + w[Len(w)]
<1>1. PICK f \in [0 .. Len(v) -> Nat] :
         /\ f[0] = 0 /\ Budget!Total(v) = f[Len(v)]
         /\ \A k \in Nat : k + 1 <= Len(v) => f[k + 1] = f[k] + v[k + 1]
  BY TotalIs
<1>2. PICK g \in [0 .. Len(w) -> Nat] :
         /\ g[0] = 0 /\ Budget!Total(w) = g[Len(w)]
         /\ \A k \in Nat : k + 1 <= Len(w) => g[k + 1] = g[k] + w[k + 1]
  BY TotalIs
<1>3. PICK m \in Nat : m = Len(v) /\ m + 1 = Len(w)
  OBVIOUS
<1>4. ASSUME NEW k \in Nat, k <= m
      PROVE  g[k + 1] = g[k] + w[k + 1]
  BY <1>2, <1>3, <1>4
<1> DEFINE T == {k \in Nat : k <= m => f[k] = g[k]}
<1>5. 0 \in T
  BY <1>1, <1>2, <1>3
<1>6. ASSUME NEW k \in T
      PROVE  k + 1 \in T
  <2> SUFFICES ASSUME k + 1 <= m
               PROVE  f[k + 1] = g[k + 1]
    OBVIOUS
  <2>1. f[k + 1] = f[k] + v[k + 1] /\ k + 1 \in 1 .. Len(v)
    BY <1>1, <1>3
  <2>2. v[k + 1] = w[k + 1]
    BY <2>1
  <2> QED
    BY <1>3, <1>4, <2>1, <2>2
<1>7. \A k \in Nat : k \in T
  <2> HIDE DEF T
  <2>1. T \subseteq Nat
    BY DEF T
  <2> QED
    BY <1>5, <1>6, <2>1, Ascending
<1>8. f[m] = g[m] /\ g[m + 1] = g[m] + w[m + 1]
  BY <1>4, <1>7
<1> QED
  BY <1>1, <1>2, <1>3, <1>8
\* A finite set of numbers has a largest one.
LEMMA LargestIs ==
    ASSUME NEW S, IsFiniteSet(S), S \subseteq Nat, S # {}
    PROVE  Max(S) \in S /\ \A x \in S : x <= Max(S)
<1> DEFINE Above(x) == {y \in S : y > x}
           T == {Above(x) : x \in S}
<1>1. \A x \in S : Above(x) \in SUBSET S /\ IsFiniteSet(Above(x))
  BY FS_Subset
<1>2. T \subseteq FiniteSubsetsOf(S) /\ T # {}
  BY <1>1, Zenon DEF FiniteSubsetsOf
<1>3. PICK t \in T : \A u \in T : <<u, t>> \notin StrictSubsetOrdering(S)
  <2>1. IsWellFoundedOn(StrictSubsetOrdering(S), FiniteSubsetsOf(S))
    BY FS_StrictSubsetOrderingWellFounded
  <2> QED
    BY <1>2, <2>1, WFMin
<1>4. PICK x \in S : t = Above(x)
  BY Zenon
<1>5. ASSUME NEW y \in S, y > x
      PROVE  FALSE
  <2>1. \A a, b, c \in Nat : a > b /\ b > c => a > c
    OBVIOUS
  <2>2. x \in Nat /\ y \in Nat /\ ~(y > y)
    OBVIOUS
  <2>3. Above(y) \subseteq Above(x)
    BY <1>5, <2>1, <2>2
  <2>4. y \in Above(x) /\ y \notin Above(y)
    BY <1>5, <2>2
  <2>5. Above(y) \in T /\ <<Above(y), Above(x)>> \notin StrictSubsetOrdering(S)
    BY <1>3, <1>4, Zenon
  <2>6. Above(y) \in SUBSET S /\ Above(x) \in SUBSET S
    BY <1>1
  <2> HIDE DEF Above
  <2> QED
    BY <2>3, <2>4, <2>5, <2>6 DEF StrictSubsetOrdering
<1>6. \A y \in S : x >= y
  BY <1>5
<1>7. \E z \in S : \A y \in S : z >= y
  BY <1>6
<1>8. Max(S) \in S /\ \A y \in S : Max(S) >= y
  BY <1>7, Zenon DEF Max
<1> QED
  BY <1>8


\* The entries, each with what it uses of a budget: one call, or its tokens.
OneEach == [e \in Budget!Entries |-> 1]
TokensOf == [e \in Budget!Entries |-> e.tokens]

\* What the entries of l since t use.
Amounts(l, t, use) == [i \in DOMAIN l |-> IF l[i].at >= t THEN use[l[i]] ELSE 0]
Spent(use, t) == Budget!Total(Amounts(ledger, t, use))

\* The constants: budgets are not empty, and a call uses some tokens.
OvershootSane ==
    /\ BudgetSane /\ IsFiniteSet(Processes) /\ MaxCalls \in Nat /\ Week \in Nat
    /\ NightTokens \in Nat \ {0} /\ WeekNights \in Nat \ {0}
    /\ IsFiniteSet(CallTokens) /\ CallTokens \subseteq Nat /\ CallTokens # {}
    /\ None \notin Nat

LEMMA AmountsAre ==
    ASSUME NEW l \in Seq(Budget!Entries), NEW t, NEW use \in [Budget!Entries -> Nat]
    PROVE  /\ Amounts(l, t, use) \in Seq(Nat) /\ Len(Amounts(l, t, use)) = Len(l)
           /\ \A i \in 1 .. Len(l) : Amounts(l, t, use)[i] = IF l[i].at >= t THEN use[l[i]] ELSE 0
           /\ Budget!Total(Amounts(l, t, use)) \in Nat
<1>1. \A i \in 1 .. Len(l) : l[i] \in Budget!Entries
  OBVIOUS
<1>2. Amounts(l, t, use) \in [1 .. Len(l) -> Nat]
  BY <1>1 DEF Amounts
<1>3. Amounts(l, t, use) \in Seq(Nat) /\ Len(Amounts(l, t, use)) = Len(l)
  BY <1>2
<1>4. \A i \in 1 .. Len(l) : Amounts(l, t, use)[i] = IF l[i].at >= t THEN use[l[i]] ELSE 0
  BY DEF Amounts
<1>5. Budget!Total(Amounts(l, t, use)) \in Nat
  <2>1. PICK a : a = Amounts(l, t, use)
    OBVIOUS
  <2>2. a \in Seq(Nat) /\ Len(a) \in 0 .. Len(a)
    BY <1>3, <2>1
  <2>3. PICK f \in [0 .. Len(a) -> Nat] : Budget!Total(a) = f[Len(a)]
    BY <2>2, TotalIs
  <2>4. f[Len(a)] \in Nat
    BY <2>2
  <2> QED
    BY <2>1, <2>3, <2>4
<1> QED
  BY <1>3, <1>4, <1>5

\* A later time, or fewer entries, leave out some of what is used.
LEMMA AmountsShrink ==
    ASSUME NEW l \in Seq(Budget!Entries), NEW t \in Int, NEW u \in Int, t <= u,
           NEW use \in [Budget!Entries -> Nat], NEW n \in 0 .. Len(l)
    PROVE  Budget!Total(Amounts(SubSeq(l, 1, n), u, use)) <= Budget!Total(Amounts(l, t, use))
<1>1. PICK s : s = SubSeq(l, 1, n)
  OBVIOUS
<1>2. s \in Seq(Budget!Entries) /\ Len(s) = n /\ \A i \in 1 .. n : s[i] = l[i] /\ l[i] \in Budget!Entries
  BY <1>1
<1>3. PICK v : v = Amounts(s, u, use)
  OBVIOUS
<1>4. PICK w : w = Amounts(l, t, use)
  OBVIOUS
<1>5. /\ v \in Seq(Nat) /\ Len(v) = n
      /\ \A i \in 1 .. n : v[i] = IF s[i].at >= u THEN use[s[i]] ELSE 0
  BY <1>2, <1>3, AmountsAre
<1>6. /\ w \in Seq(Nat) /\ Len(w) = Len(l)
      /\ \A i \in 1 .. Len(l) : w[i] = IF l[i].at >= t THEN use[l[i]] ELSE 0
  BY <1>4, AmountsAre
<1>7. \A i \in 1 .. Len(v) : v[i] <= w[i]
  <2> TAKE i \in 1 .. Len(v)
  <2>1. i \in 1 .. n /\ i \in 1 .. Len(l)
    BY <1>5
  <2>2. l[i] \in Budget!Entries /\ s[i] = l[i]
    BY <1>2, <2>1
  <2>3. l[i].at \in Nat
    BY <2>2 DEF Budget!Entries, Budget!Times
  <2>4. use[l[i]] \in Nat
    BY <2>2
  <2> QED
    <3>1. v[i] = IF l[i].at >= u THEN use[l[i]] ELSE 0
      BY <1>5, <2>1, <2>2
    <3>2. w[i] = IF l[i].at >= t THEN use[l[i]] ELSE 0
      BY <1>6, <2>1
    <3>3. l[i].at >= u => l[i].at >= t
      BY <2>3
    <3> QED
      BY <2>4, <3>1, <3>2, <3>3
<1>8. Len(v) <= Len(w)
  BY <1>5, <1>6
<1> QED
  BY <1>1, <1>3, <1>4, <1>5, <1>6, <1>7, <1>8, TotalGrows

\* An entry that is appended adds what it uses, if it is of the time.
LEMMA AmountsAppend ==
    ASSUME NEW l \in Seq(Budget!Entries), NEW t, NEW use \in [Budget!Entries -> Nat],
           NEW e \in Budget!Entries
    PROVE  Budget!Total(Amounts(Append(l, e), t, use)) =
              Budget!Total(Amounts(l, t, use)) + (IF e.at >= t THEN use[e] ELSE 0)
<1>1. PICK s : s = Append(l, e)
  OBVIOUS
<1>2. /\ s \in Seq(Budget!Entries) /\ Len(s) = Len(l) + 1 /\ s[Len(l) + 1] = e
      /\ \A i \in 1 .. Len(l) : s[i] = l[i]
  BY <1>1
<1>3. PICK v : v = Amounts(l, t, use)
  OBVIOUS
<1>4. PICK w : w = Amounts(s, t, use)
  OBVIOUS
<1>5. /\ v \in Seq(Nat) /\ Len(v) = Len(l)
      /\ \A i \in 1 .. Len(l) : v[i] = IF l[i].at >= t THEN use[l[i]] ELSE 0
  BY <1>3, AmountsAre
<1>6. /\ w \in Seq(Nat) /\ Len(w) = Len(s)
      /\ \A i \in 1 .. Len(s) : w[i] = IF s[i].at >= t THEN use[s[i]] ELSE 0
  BY <1>2, <1>4, AmountsAre
<1>7. Len(w) = Len(v) + 1
  BY <1>2, <1>5, <1>6
<1>8. \A i \in 1 .. Len(v) : v[i] = w[i]
  <2> TAKE i \in 1 .. Len(v)
  <2>1. i \in 1 .. Len(l) /\ i \in 1 .. Len(s)
    BY <1>2, <1>5
  <2> QED
    BY <1>2, <1>5, <1>6, <2>1
<1>9. w[Len(w)] = IF e.at >= t THEN use[e] ELSE 0
  <2>1. Len(w) = Len(l) + 1 /\ Len(w) \in 1 .. Len(s)
    BY <1>2, <1>6
  <2> QED
    BY <1>2, <1>6, <2>1
<1>10. Budget!Total(w) = Budget!Total(v) + w[Len(w)]
  BY <1>5, <1>6, <1>7, <1>8, TotalAdds
<1> QED
  BY <1>1, <1>3, <1>4, <1>9, <1>10

\* The processes with a paid call in flight.
InFlight == {p \in Processes : proc[p].call # None}

\* What is used since t, and what the calls in flight can add to it at most, is less than the
\* budget and what a call of every process can add.
Bounded(use, t, limit, most) ==
    Spent(use, t) + Cardinality(InFlight) * most < limit + Budget!Crowd * most

\* The times that no session began after.
Latest == {t \in Nat : \A p \in Processes : proc[p].start # None => proc[p].start <= t}

Steady == /\ ledger \in Seq(Budget!Entries) /\ kept \in 0 .. Len(ledger) \cup {None}
          /\ \A p \in Processes :
                /\ proc[p].start # None => proc[p].start <= instant
                /\ proc[p].live => proc[p].start # None
                /\ proc[p].call # None => proc[p].live /\ p \in budget.processes

\* The calls of a session that is live are in the file since it began, or in flight.
Capped(p) ==
    /\ proc[p].made <= MaxCalls
    /\ proc[p].live => proc[p].made <= Spent(OneEach, proc[p].start) + (IF proc[p].call = None THEN 0 ELSE 1)

OvershootInv ==
    /\ SplitInv /\ Steady
    /\ \A t \in Latest : /\ MaxCalls > 0 => Bounded(OneEach, t, MaxCalls, 1)
                         /\ Bounded(TokensOf, t, NightTokens, Budget!Largest)
    /\ Bounded(TokensOf, Budget!WeekStart, WeekNights * NightTokens, Budget!Largest)
    /\ Budget!Accounted => kept = None /\ (MaxCalls > 0 => \A p \in Processes : Capped(p))

LEMMA Counts ==
    ASSUME Steady, NEW t
    PROVE  Budget!CountCalls(t) = Spent(OneEach, t) /\ Budget!Tokens(t) = Spent(TokensOf, t)
<1>1. \A i \in DOMAIN ledger : ledger[i] \in Budget!Entries
  BY DEF Steady
<1>2. \A i \in DOMAIN ledger : OneEach[ledger[i]] = 1 /\ TokensOf[ledger[i]] = ledger[i].tokens
  BY <1>1 DEF OneEach, TokensOf
<1>3. [i \in DOMAIN ledger |-> IF ledger[i].at >= t THEN 1 ELSE 0] = Amounts(ledger, t, OneEach)
  BY <1>2 DEF Amounts
<1>4. [i \in DOMAIN ledger |-> IF ledger[i].at >= t THEN ledger[i].tokens ELSE 0]
         = Amounts(ledger, t, TokensOf)
  BY <1>2 DEF Amounts
<1> QED
  BY <1>3, <1>4 DEF Budget!CountCalls, Budget!Tokens, Spent

\* What an entry uses, at most.
Measures(use, most) ==
    use \in [Budget!Entries -> Nat] /\ most \in Nat /\ \A e \in Budget!Entries : use[e] <= most

LEMMA TheMeasures ==
    ASSUME OvershootSane
    PROVE  Measures(OneEach, 1) /\ Measures(TokensOf, Budget!Largest)
<1>1. Budget!Largest \in Nat /\ \A n \in CallTokens : n <= Budget!Largest
  <2>1. Max(CallTokens) \in CallTokens /\ \A n \in CallTokens : n <= Max(CallTokens)
    BY LargestIs DEF OvershootSane
  <2> QED
    BY <2>1 DEF OvershootSane, Budget!Largest, Budget!Max, Max
<1>2. \A e \in Budget!Entries : e.tokens \in CallTokens /\ e.tokens \in Nat
  BY DEF Budget!Entries, OvershootSane
<1>3. OneEach \in [Budget!Entries -> Nat] /\ TokensOf \in [Budget!Entries -> Nat]
  BY <1>2 DEF OneEach, TokensOf
<1>4. \A e \in Budget!Entries : OneEach[e] <= 1 /\ TokensOf[e] <= Budget!Largest
  BY <1>1, <1>2 DEF OneEach, TokensOf
<1> QED
  BY <1>1, <1>3, <1>4 DEF Measures

LEMMA SpentFacts ==
    ASSUME ledger \in Seq(Budget!Entries), NEW use \in [Budget!Entries -> Nat], NEW t \in Int,
           NEW u \in Int, t <= u
    PROVE  Spent(use, t) \in Nat /\ Spent(use, u) \in Nat /\ Spent(use, u) <= Spent(use, t)
<1>1. SubSeq(ledger, 1, Len(ledger)) = ledger /\ Len(ledger) \in 0 .. Len(ledger)
  OBVIOUS
<1>2. Budget!Total(Amounts(SubSeq(ledger, 1, Len(ledger)), u, use)) <= Budget!Total(Amounts(ledger, t, use))
  BY <1>1, AmountsShrink
<1> QED
  BY <1>1, <1>2, AmountsAre DEF Spent

LEMMA CrowdFacts ==
    ASSUME OvershootSane, SplitInv, Steady
    PROVE  /\ Budget!Crowd \in Nat /\ Cardinality(InFlight) \in Nat
           /\ Cardinality(InFlight) <= Budget!Crowd /\ IsFiniteSet(InFlight)
<1>1. budget.processes \subseteq Processes
  BY DEF SplitInv, OvershootSane, BudgetSane, Budget!SettingRecords
<1>2. IsFiniteSet(budget.processes)
  BY <1>1, FS_Subset DEF OvershootSane
<1>3. InFlight \subseteq budget.processes
  BY DEF InFlight, Steady
<1>4. IsFiniteSet(InFlight) /\ Cardinality(InFlight) <= Cardinality(budget.processes)
  BY <1>2, <1>3, FS_Subset
<1>5. Cardinality(budget.processes) \in Nat /\ Cardinality(InFlight) \in Nat
  BY <1>2, <1>4, FS_CardinalityType
<1> QED
  BY <1>4, <1>5 DEF Budget!Crowd, Budget!Cardinality, Cardinality

\* As long as what is used and what is in flight keep this proportion, it is bounded.
LEMMA Trade ==
    ASSUME NEW s \in Nat, NEW f \in Nat, NEW ss \in Nat, NEW ff \in Nat, NEW limit \in Nat,
           NEW most \in Nat, NEW crowd \in Nat, s + f * most < limit + crowd * most,
           \/ ss <= s /\ ff <= f
           \/ ss <= s + most /\ f = ff + 1
           \/ ss < limit /\ ff <= crowd
    PROVE  ss + ff * most < limit + crowd * most
<1>1. ASSUME NEW a \in Nat, NEW b \in Nat, a <= b
      PROVE  a * most <= b * most
  <2>1. b * most = a * most + (b - a) * most /\ (b - a) * most >= 0
    BY <1>1
  <2> QED
    BY <2>1
<1>2. f * most \in Nat /\ ff * most \in Nat /\ crowd * most \in Nat
  OBVIOUS
<1>3. CASE ss <= s /\ ff <= f
  BY <1>1, <1>2, <1>3
<1>4. CASE ss <= s + most /\ f = ff + 1
  <2>1. f * most = ff * most + most
    BY <1>4
  <2> QED
    BY <1>2, <1>4, <2>1
<1>5. CASE ss < limit /\ ff <= crowd
  BY <1>1, <1>2, <1>5
<1> QED
  BY <1>3, <1>4, <1>5

\* A step of p, which leaves the other processes alone.
Moved(p, start, live, call, made) ==
    /\ proc'[p].start = start /\ proc'[p].live = live /\ proc'[p].call = call /\ proc'[p].made = made
    /\ \A q \in Processes \ {p} : proc'[q] = proc[q]

LEMMA Moves ==
    ASSUME OvershootSane, SplitInv, NEW p \in Processes
    PROVE  /\ Budget!SetSessionStart(p) => Moved(p, instant, TRUE, None, 0)
           /\ Budget!EndSession(p) => Moved(p, proc[p].start, FALSE, None, proc[p].made)
           /\ Budget!AppendEntry(p) \/ Budget!CallFails(p) =>
                 Moved(p, proc[p].start, proc[p].live, None, proc[p].made)
           /\ Budget!Pick(p) =>
                 /\ proc[p].live /\ proc[p].call = None
                 /\ \/ Moved(p, proc[p].start, TRUE, None, proc[p].made)
                    \/ /\ Budget!Guard(proc[p].start)
                       /\ \E i \in Budget!Indices : Moved(p, proc[p].start, TRUE, i, proc[p].made + 1)
<1>1. proc \in [Processes -> Router] /\ proc[p] \in Router
  BY DEF SplitInv, Routers
<1>2. ASSUME NEW new, proc' = [proc EXCEPT ![p] = new]
      PROVE  proc'[p] = new /\ \A q \in Processes \ {p} : proc'[q] = proc[q]
  BY <1>1, <1>2
<1>3. ASSUME Budget!SetSessionStart(p)
      PROVE  Moved(p, instant, TRUE, None, 0)
  <2>1. PICK new : new = Budget!StartSession(p)
    OBVIOUS
  <2>2. new.start = instant /\ new.live = TRUE /\ new.call = None /\ new.made = 0
    BY <2>1 DEF Budget!StartSession, Budget!NoSession
  <2>3. proc' = [proc EXCEPT ![p] = new]
    BY <1>3, <2>1 DEF Budget!SetSessionStart
  <2> QED
    BY <1>2, <2>2, <2>3 DEF Moved
<1>4. ASSUME Budget!EndSession(p)
      PROVE  Moved(p, proc[p].start, FALSE, None, proc[p].made)
  <2>1. PICK new : new = [proc[p] EXCEPT !.live = FALSE]
    OBVIOUS
  <2>2. new.start = proc[p].start /\ new.live = FALSE /\ new.call = None /\ new.made = proc[p].made
    BY <1>1, <1>4, <2>1 DEF Router, Budget!EndSession, Budget!Session
  <2>3. proc' = [proc EXCEPT ![p] = new]
    BY <1>4, <2>1 DEF Budget!EndSession
  <2> QED
    BY <1>2, <2>2, <2>3 DEF Moved
<1>5. ASSUME Budget!AppendEntry(p) \/ Budget!CallFails(p)
      PROVE  Moved(p, proc[p].start, proc[p].live, None, proc[p].made)
  <2>1. PICK new : new = [proc[p] EXCEPT !.call = None]
    OBVIOUS
  <2>2. new.start = proc[p].start /\ new.live = proc[p].live /\ new.call = None /\ new.made = proc[p].made
    BY <1>1, <2>1 DEF Router
  <2>3. proc' = [proc EXCEPT ![p] = new]
    BY <1>5, <2>1 DEF Budget!AppendEntry, Budget!CallFails
  <2> QED
    BY <1>2, <2>2, <2>3 DEF Moved
<1>6. ASSUME Budget!Pick(p)
      PROVE  /\ proc[p].live /\ proc[p].call = None
             /\ \/ Moved(p, proc[p].start, TRUE, None, proc[p].made)
                \/ /\ Budget!Guard(proc[p].start)
                   /\ \E i \in Budget!Indices : Moved(p, proc[p].start, TRUE, i, proc[p].made + 1)
  <2>1. proc[p].live /\ proc[p].call = None
    BY <1>6 DEF Budget!Pick, Budget!Session
  <2>2. PICK x \in Budget!Eligible(p) :
           proc' = [proc EXCEPT ![p].rr = Budget!After(x),
                                ![p].picks[x] = @ + 1,
                                ![p].call = IF Budget!Pool[x] = "openai" THEN x ELSE None,
                                ![p].made = IF Budget!Pool[x] = "openai" THEN @ + 1 ELSE @]
    BY <1>6 DEF Budget!Pick
  <2>3. x \in Budget!Indices /\ (Budget!Pool[x] = "openai" => Budget!Guard(proc[p].start))
    BY DEF Budget!Eligible
  <2>4. PICK call, made : /\ call = IF Budget!Pool[x] = "openai" THEN x ELSE None
                          /\ made = IF Budget!Pool[x] = "openai" THEN proc[p].made + 1 ELSE proc[p].made
    OBVIOUS
  <2>5. PICK new : new = [proc[p] EXCEPT !.rr = Budget!After(x), !.picks[x] = @ + 1,
                                         !.call = call, !.made = made]
    OBVIOUS
  <2>6. new.start = proc[p].start /\ new.live = TRUE /\ new.call = call /\ new.made = made
    BY <1>1, <2>1, <2>5 DEF Router
  <2>7. proc' = [proc EXCEPT ![p] = new]
    BY <1>1, <2>2, <2>4, <2>5
  <2>8. Moved(p, proc[p].start, TRUE, call, made)
    BY <1>2, <2>6, <2>7 DEF Moved
  <2> QED
    BY <2>1, <2>3, <2>4, <2>8
<1> QED
  BY <1>3, <1>4, <1>5, <1>6

\* What a step of a process does to the sessions and the file.
LEMMA SteadyNext ==
    ASSUME OvershootSane, SplitInv, SplitInv', Steady, [Budget!Next]_(Budget!vars)
    PROVE  /\ Steady' /\ instant <= instant' /\ budget' = budget
           /\ \A p \in Processes : proc[p].start # None => \/ proc'[p].start = proc[p].start
                                                           \/ proc'[p].start = instant'
<1>1. /\ instant \in Nat /\ instant' \in Nat /\ proc \in [Processes -> Router]
      /\ \A p \in Processes : proc[p].start \in Nat \cup {None} /\ proc[p].live \in BOOLEAN
  BY DEF SplitInv, Routers, Router, Budget!Times
<1> DEFINE Sound == \A p \in Processes :
                /\ proc[p].start # None => proc[p].start <= instant
                /\ proc[p].live => proc[p].start # None
                /\ proc[p].call # None => proc[p].live /\ p \in budget.processes
           Same == \A p \in Processes : proc[p].start # None => \/ proc'[p].start = proc[p].start
                                                                \/ proc'[p].start = instant'
<1>2. Sound /\ ledger \in Seq(Budget!Entries) /\ kept \in 0 .. Len(ledger) \cup {None}
  BY DEF Steady
<1>3. CASE /\ UNCHANGED <<budget, ledger, proc>> /\ kept' \in 0 .. Len(ledger) \cup {None}
           /\ instant <= instant'
  <2>1. Sound' /\ Same
    <3>1. \A p \in Processes : proc[p].start # None => proc[p].start <= instant'
      BY <1>1, <1>2, <1>3
    <3> QED
      BY <1>2, <1>3, <3>1
  <2> QED
    BY <1>2, <1>3, <2>1 DEF Steady, Budget!Entries, Budget!Times
<1>4. CASE UNCHANGED Budget!vars \/ Budget!PrepareBrainGit \/ Budget!CommitBrainGit \/ Budget!Clock
  <2>1. Len(ledger) \in 0 .. Len(ledger) /\ instant <= instant
    BY <1>1, <1>2
  <2> QED
    BY <1>1, <1>2, <1>3, <1>4, <2>1
    DEF Budget!vars, Budget!PrepareBrainGit, Budget!CommitBrainGit, Budget!Clock
<1>5. CASE Budget!RollbackBrainGit
  <2>1. /\ UNCHANGED <<budget, instant, proc>> /\ kept' = None /\ kept \in 0 .. Len(ledger)
        /\ ledger' = SubSeq(ledger, 1, kept)
    BY <1>2, <1>5 DEF Budget!RollbackBrainGit
  <2>2. ledger' \in Seq(Budget!Entries)
    BY <1>2, <2>1
  <2>3. Sound' /\ Same
    BY <1>2, <2>1
  <2> QED
    BY <1>1, <2>1, <2>2, <2>3 DEF Steady, Budget!Entries, Budget!Times
<1>6. ASSUME NEW p \in budget.processes,
             \/ Budget!SetSessionStart(p) \/ Budget!EndSession(p) \/ Budget!Pick(p)
             \/ Budget!AppendEntry(p) \/ Budget!CallFails(p)
      PROVE  /\ Steady' /\ instant <= instant' /\ budget' = budget /\ Same
  <2>1. p \in Processes
    BY DEF SplitInv, OvershootSane, BudgetSane, Budget!SettingRecords
  <2>2. UNCHANGED <<budget, instant, kept>>
    BY <1>6 DEF Budget!SetSessionStart, Budget!EndSession, Budget!Pick, Budget!AppendEntry, Budget!CallFails
  <2>3. ledger' \in Seq(Budget!Entries) /\ kept' \in 0 .. Len(ledger') \cup {None}
    <3>1. CASE ledger' = ledger
      BY <1>2, <2>2, <3>1
    <3>2. CASE Budget!AppendEntry(p)
      <4>1. PICK n \in CallTokens : ledger' = Append(ledger, [at |-> instant, tokens |-> n])
        BY <3>2 DEF Budget!AppendEntry
      <4>2. [at |-> instant, tokens |-> n] \in Budget!Entries
        BY DEF Budget!Entries, SplitInv
      <4>3. ledger' \in Seq(Budget!Entries) /\ Len(ledger') = Len(ledger) + 1
        BY <1>2, <4>1, <4>2
      <4> QED
        BY <1>2, <2>2, <4>3
    <3> QED
      BY <1>6, <3>1, <3>2 DEF Budget!SetSessionStart, Budget!EndSession, Budget!Pick, Budget!CallFails
  <2>4. \E start, live, call, made :
           /\ Moved(p, start, live, call, made)
           /\ \/ start = instant /\ live = TRUE /\ call = None
              \/ start = proc[p].start /\ live = FALSE /\ call = None
              \/ start = proc[p].start /\ live = proc[p].live /\ (call # None => live = TRUE)
    BY <1>6, <2>1, Moves
  <2>5. PICK start, live, call, made :
           /\ Moved(p, start, live, call, made)
           /\ \/ start = instant /\ live = TRUE /\ call = None
              \/ start = proc[p].start /\ live = FALSE /\ call = None
              \/ start = proc[p].start /\ live = proc[p].live /\ (call # None => live = TRUE)
    BY <2>4
  <2>6. /\ start # None => start <= instant
        /\ live => start # None
        /\ call # None => live
    BY <1>1, <1>2, <2>1, <2>5 DEF OvershootSane
  <2>7. Sound'
    <3> SUFFICES ASSUME NEW q \in Processes
                 PROVE  /\ proc'[q].start # None => proc'[q].start <= instant'
                        /\ proc'[q].live => proc'[q].start # None
                        /\ proc'[q].call # None => proc'[q].live /\ q \in budget'.processes
      OBVIOUS
    <3>1. CASE q = p
      BY <2>2, <2>5, <2>6, <3>1 DEF Moved
    <3>2. CASE q # p
      BY <1>2, <2>2, <2>5, <3>2 DEF Moved
    <3> QED
      BY <3>1, <3>2
  <2>8. Same
    BY <2>1, <2>2, <2>5 DEF Moved
  <2> QED
    BY <1>1, <2>2, <2>3, <2>7, <2>8 DEF Steady, Budget!Entries, Budget!Times
<1> QED
  BY <1>4, <1>5, <1>6, <1>1, <1>2, <1>3
  DEF Budget!Next, Budget!vars, Budget!PrepareBrainGit, Budget!CommitBrainGit, Budget!Clock

\* Between a time and a later one, after a step: either no more is used or in flight; or the call
\* that was in flight is in the file; or a call was let through and is in flight now.
LEMMA BoundedNext ==
    ASSUME OvershootSane, SplitInv, SplitInv', Steady, [Budget!Next]_(Budget!vars),
           NEW use, NEW most, Measures(use, most), NEW limit \in Nat,
           NEW t \in Nat, NEW u \in Nat, t <= u,
           Bounded(use, t, limit, most),
           \A p \in Processes : proc[p].live /\ Budget!Guard(proc[p].start) => Spent(use, t) < limit
    PROVE  Spent(use, u)' + Cardinality(InFlight') * most < limit + Budget!Crowd' * most
<1>1. Steady' /\ budget' = budget
  BY SteadyNext
<1>2. /\ Budget!Crowd \in Nat /\ Cardinality(InFlight) \in Nat
      /\ Cardinality(InFlight) <= Budget!Crowd /\ IsFiniteSet(InFlight)
  BY CrowdFacts
<1>3. Budget!Crowd' = Budget!Crowd
  BY <1>1 DEF Budget!Crowd
<1>4. Cardinality(InFlight') \in Nat /\ Cardinality(InFlight') <= Budget!Crowd
  <2>1. budget.processes \subseteq Processes
    BY DEF SplitInv, OvershootSane, BudgetSane, Budget!SettingRecords
  <2>2. IsFiniteSet(budget.processes)
    BY <2>1, FS_Subset DEF OvershootSane
  <2>3. InFlight' \subseteq budget.processes
    BY <1>1 DEF InFlight, Steady
  <2>4. IsFiniteSet(InFlight') /\ Cardinality(InFlight') <= Cardinality(budget.processes)
    BY <2>2, <2>3, FS_Subset
  <2>5. Cardinality(InFlight') \in Nat
    BY <2>4, FS_CardinalityType
  <2> QED
    BY <2>4, <2>5 DEF Budget!Crowd, Budget!Cardinality, Cardinality
<1>5. /\ ledger \in Seq(Budget!Entries) /\ ledger' \in Seq(Budget!Entries)
      /\ use \in [Budget!Entries -> Nat] /\ most \in Nat
  BY <1>1 DEF Steady, Measures, Budget!Entries, Budget!Times
<1>6. Spent(use, t) \in Nat /\ Spent(use, u) \in Nat /\ Spent(use, u) <= Spent(use, t)
  BY <1>5, SpentFacts
<1>7. Spent(use, u)' \in Nat
  <2>1. Budget!Total(Amounts(ledger', u, use)) \in Nat
    BY <1>5, AmountsAre
  <2> QED
    BY <2>1 DEF Spent, Amounts, Budget!Total
<1>8. ASSUME NEW n \in 0 .. Len(ledger), ledger' = SubSeq(ledger, 1, n)
      PROVE  Spent(use, u)' <= Spent(use, t)
  <2>1. Budget!Total(Amounts(ledger', u, use)) <= Budget!Total(Amounts(ledger, t, use))
    BY <1>5, <1>8, AmountsShrink
  <2> QED
    BY <2>1 DEF Spent, Amounts, Budget!Total
<1>9. ledger' = ledger => Spent(use, u)' = Spent(use, u)
  BY DEF Spent, Amounts, Budget!Total
<1>10. Spent(use, t) + Cardinality(InFlight) * most < limit + Budget!Crowd * most
  BY DEF Bounded
<1>11. \/ Spent(use, u)' <= Spent(use, t) /\ Cardinality(InFlight') <= Cardinality(InFlight)
       \/ Spent(use, u)' <= Spent(use, t) + most /\ Cardinality(InFlight) = Cardinality(InFlight') + 1
       \/ Spent(use, u)' < limit /\ Cardinality(InFlight') <= Budget!Crowd
  <2>1. CASE UNCHANGED <<ledger, proc>>
    BY <1>2, <1>6, <1>9, <2>1 DEF InFlight
  <2>2. CASE Budget!RollbackBrainGit
    <3>1. ledger' = SubSeq(ledger, 1, kept) /\ kept \in 0 .. Len(ledger) /\ proc' = proc
      BY <2>2 DEF Budget!RollbackBrainGit, Steady
    <3>2. InFlight' = InFlight
      BY <3>1 DEF InFlight
    <3> QED
      BY <1>2, <1>8, <3>1, <3>2
  <2>3. ASSUME NEW p \in budget.processes,
               \/ Budget!SetSessionStart(p) \/ Budget!EndSession(p) \/ Budget!Pick(p)
               \/ Budget!AppendEntry(p) \/ Budget!CallFails(p)
        PROVE  \/ Spent(use, u)' <= Spent(use, t) /\ Cardinality(InFlight') <= Cardinality(InFlight)
               \/ Spent(use, u)' <= Spent(use, t) + most /\ Cardinality(InFlight) = Cardinality(InFlight') + 1
               \/ Spent(use, u)' < limit /\ Cardinality(InFlight') <= Budget!Crowd
    <3>1. p \in Processes
      BY DEF SplitInv, OvershootSane, BudgetSane, Budget!SettingRecords
    <3>2. CASE Budget!AppendEntry(p)
      <4>1. PICK n \in CallTokens : ledger' = Append(ledger, [at |-> instant, tokens |-> n])
        BY <3>2 DEF Budget!AppendEntry
      <4>2. PICK e : e = [at |-> instant, tokens |-> n]
        OBVIOUS
      <4>3. e \in Budget!Entries
        BY <4>2 DEF Budget!Entries, SplitInv
      <4>4. use[e] \in Nat /\ use[e] <= most
        BY <4>3 DEF Measures
      <4>5. Budget!Total(Amounts(ledger', u, use)) =
               Budget!Total(Amounts(ledger, u, use)) + (IF e.at >= u THEN use[e] ELSE 0)
        BY <1>5, <4>1, <4>2, <4>3, AmountsAppend
      <4>6. Spent(use, u)' = Spent(use, u) + (IF e.at >= u THEN use[e] ELSE 0)
        BY <4>5 DEF Spent, Amounts, Budget!Total
      <4>7. Spent(use, u)' <= Spent(use, t) + most
        BY <1>5, <1>6, <4>4, <4>6
      <4>8. p \in InFlight
        BY <3>1, <3>2 DEF Budget!AppendEntry, InFlight
      <4>9. Moved(p, proc[p].start, proc[p].live, None, proc[p].made)
        BY <3>1, <3>2, Moves
      <4>10. InFlight' = InFlight \ {p}
        BY <4>9 DEF Moved, InFlight
      <4>11. Cardinality(InFlight') = Cardinality(InFlight) - 1
        BY <1>2, <4>8, <4>10, FS_RemoveElement
      <4> QED
        BY <1>2, <4>7, <4>11
    <3>3. CASE ~Budget!AppendEntry(p)
      <4>1. ledger' = ledger
        BY <2>3, <3>3 DEF Budget!SetSessionStart, Budget!EndSession, Budget!Pick, Budget!CallFails
      <4>2. Spent(use, u)' <= Spent(use, t)
        BY <1>6, <1>9, <4>1
      <4>3. CASE \E start, live, made : Moved(p, start, live, None, made)
        <5>1. InFlight' \subseteq InFlight
          BY <4>3 DEF Moved, InFlight
        <5> QED
          BY <1>2, <4>2, <5>1, FS_Subset
      <4>4. CASE /\ Budget!Guard(proc[p].start)
                 /\ proc[p].live
        <5>1. Spent(use, t) < limit
          BY <3>1, <4>4
        <5> QED
          BY <1>4, <1>6, <1>7, <4>2, <5>1
      <4> QED
        BY <2>3, <3>1, <3>3, <4>3, <4>4, Moves
    <3> QED
      BY <3>2, <3>3
  <2>4. CASE UNCHANGED Budget!vars \/ Budget!PrepareBrainGit \/ Budget!CommitBrainGit \/ Budget!Clock
    BY <2>1, <2>4 DEF Budget!vars, Budget!PrepareBrainGit, Budget!CommitBrainGit, Budget!Clock
  <2> QED
    BY <2>2, <2>3, <2>4 DEF Budget!Next
<1> QED
  BY <1>2, <1>3, <1>4, <1>5, <1>6, <1>7, <1>10, <1>11, Trade

\* What a session made stays within its cap, when nothing goes unrecorded.
LEMMA CappedNext ==
    ASSUME OvershootSane, SplitInv, SplitInv', Steady, [Budget!Next]_(Budget!vars), MaxCalls > 0,
           Budget!Accounted, kept = None, \A p \in Processes : Capped(p)
    PROVE  kept' = None /\ \A p \in Processes : Capped(p)'
<1>1. ~budget.fail /\ ~budget.rollback
  BY DEF Budget!Accounted
<1>2. kept' = None /\ ~Budget!RollbackBrainGit
  BY <1>1 DEF Budget!Next, Budget!vars, Budget!SetSessionStart, Budget!EndSession, Budget!Pick,
              Budget!AppendEntry, Budget!CallFails, Budget!PrepareBrainGit, Budget!CommitBrainGit,
              Budget!RollbackBrainGit, Budget!Clock
<1>3. /\ instant \in Nat /\ ledger \in Seq(Budget!Entries) /\ OneEach \in [Budget!Entries -> Nat]
      /\ \A e \in Budget!Entries : OneEach[e] = 1
  BY DEF SplitInv, Steady, Budget!Times, OneEach
<1>4. \A q \in Processes : /\ proc[q].made \in Nat /\ proc[q].start \in Nat \cup {None}
                           /\ proc[q].live \in BOOLEAN
                           /\ proc[q].live => proc[q].start \in Nat /\ proc[q].start <= instant
  BY DEF SplitInv, Steady, Routers, Router, Budget!Times
<1>5. \A t \in Nat : Spent(OneEach, t) \in Nat
  BY <1>3, SpentFacts
<1>6. CASE UNCHANGED <<ledger, proc>>
  <2> SUFFICES ASSUME NEW q \in Processes
               PROVE  Capped(q)'
    BY <1>2
  <2>1. Capped(q)
    OBVIOUS
  <2> QED
    BY <1>6, <2>1 DEF Capped, Spent, Amounts, Budget!Total
<1>7. ASSUME NEW p \in Processes, NEW q \in Processes, Budget!AppendEntry(p)
      PROVE  Capped(q)'
  <2>1. PICK n \in CallTokens : ledger' = Append(ledger, [at |-> instant, tokens |-> n])
    BY <1>7 DEF Budget!AppendEntry
  <2>2. PICK e : e = [at |-> instant, tokens |-> n]
    OBVIOUS
  <2>3. e \in Budget!Entries
    BY <2>2 DEF Budget!Entries, SplitInv
  <2>4. Moved(p, proc[p].start, proc[p].live, None, proc[p].made)
    BY <1>7, Moves
  <2>5. /\ proc'[q].start = proc[q].start /\ proc'[q].live = proc[q].live
        /\ proc'[q].made = proc[q].made /\ (q # p => proc'[q].call = proc[q].call)
    BY <2>4 DEF Moved
  <2>6. ASSUME NEW t \in Nat, t <= instant
        PROVE  Spent(OneEach, t)' = Spent(OneEach, t) + 1
    <3>1. Budget!Total(Amounts(ledger', t, OneEach)) = Budget!Total(Amounts(ledger, t, OneEach)) + 1
      BY <1>3, <2>1, <2>2, <2>3, <2>6, AmountsAppend
    <3> QED
      BY <3>1 DEF Spent, Amounts, Budget!Total, OneEach, Budget!Entries, Budget!Times
  <2>7. Capped(q)
    OBVIOUS
  <2>8. CASE ~proc[q].live
    BY <2>5, <2>7, <2>8 DEF Capped
  <2>9. CASE proc[q].live
    <3>1. PICK t \in Nat : t = proc[q].start /\ t <= instant
      BY <1>4, <2>9
    <3>2. Spent(OneEach, t) \in Nat /\ Spent(OneEach, t)' = Spent(OneEach, t) + 1
      BY <1>5, <2>6, <3>1
    <3>3. Spent(OneEach, proc[q].start)' = Spent(OneEach, t)'
      BY <2>5, <3>1 DEF Spent, Amounts
    <3>4. proc[q].made <= Spent(OneEach, t) + 1 /\ proc[q].made <= MaxCalls
      BY <1>4, <2>7, <2>9, <3>1, <3>2 DEF Capped
    <3>5. proc'[q].made <= Spent(OneEach, proc[q].start)' + (IF proc'[q].call = None THEN 0 ELSE 1)
      BY <1>4, <2>5, <3>2, <3>3, <3>4
    <3> QED
      BY <2>5, <3>4, <3>5 DEF Capped
  <2> QED
    BY <2>8, <2>9
<1>8. ASSUME NEW p \in Processes, NEW q \in Processes,
             Budget!SetSessionStart(p) \/ Budget!EndSession(p) \/ Budget!Pick(p)
      PROVE  Capped(q)'
  <2>1. ledger' = ledger
    BY <1>8 DEF Budget!SetSessionStart, Budget!EndSession, Budget!Pick
  <2>2. \A t : Spent(OneEach, t)' = Spent(OneEach, t)
    BY <2>1 DEF Spent, Amounts, Budget!Total, OneEach, Budget!Entries, Budget!Times
  <2>3. Capped(q) /\ Capped(p)
    OBVIOUS
  <2>4. CASE q # p
    <3>1. proc'[q] = proc[q]
      BY <1>8, <2>4, Moves DEF Moved
    <3> QED
      BY <2>1, <2>3, <3>1 DEF Capped, Spent, Amounts, Budget!Total
  <2>5. CASE q = p /\ Budget!SetSessionStart(p)
    <3>1. proc'[q].made = 0 /\ proc'[q].call = None /\ proc'[q].start = instant
      BY <2>5, Moves DEF Moved
    <3>2. Spent(OneEach, proc[q].start)' \in Nat
      BY <1>3, <1>5, <2>2, <3>1 DEF Spent, Amounts
    <3> QED
      BY <3>1, <3>2 DEF Capped, OvershootSane
  <2>6. CASE q = p /\ Budget!EndSession(p)
    <3>1. proc'[q].made = proc[q].made /\ proc'[q].live = FALSE
      BY <2>6, Moves DEF Moved
    <3> QED
      BY <2>3, <3>1 DEF Capped
  <2>7. CASE q = p /\ Budget!Pick(p)
    <3>1. /\ proc[p].live /\ proc[p].call = None
          /\ \/ Moved(p, proc[p].start, TRUE, None, proc[p].made)
             \/ /\ Budget!Guard(proc[p].start)
                /\ \E i \in Budget!Indices : Moved(p, proc[p].start, TRUE, i, proc[p].made + 1)
      BY <2>7, Moves
    <3>2. PICK t \in Nat : t = proc[p].start
      BY <1>4, <3>1
    <3>3. proc[p].made <= Spent(OneEach, t) /\ proc[p].made <= MaxCalls /\ Spent(OneEach, t) \in Nat
      BY <1>4, <1>5, <2>3, <3>1, <3>2 DEF Capped
    <3>4. proc'[p].start = t
      BY <3>1, <3>2 DEF Moved
    <3>5. Spent(OneEach, proc[p].start)' = Spent(OneEach, t)
      <4>1. Spent(OneEach, proc[p].start)' = Spent(OneEach, t)'
        BY <3>4 DEF Spent, Amounts
      <4> QED
        BY <2>2, <4>1
    <3>6. CASE Moved(p, proc[p].start, TRUE, None, proc[p].made)
      BY <1>4, <2>7, <3>3, <3>5, <3>6 DEF Moved, Capped
    <3>7. CASE /\ Budget!Guard(proc[p].start)
               /\ \E i \in Budget!Indices : Moved(p, proc[p].start, TRUE, i, proc[p].made + 1)
      <4>1. PICK i \in Budget!Indices : Moved(p, proc[p].start, TRUE, i, proc[p].made + 1)
        BY <3>7
      <4>2. i # None
        BY PoolFacts DEF SplitInv, OvershootSane
      <4>3. Spent(OneEach, t) < MaxCalls
        BY <3>2, <3>7, Counts DEF Budget!Guard
      <4>4. proc'[p].made = proc[p].made + 1 /\ proc'[p].call # None
        BY <4>1, <4>2 DEF Moved
      <4>5. proc[p].made + 1 <= MaxCalls /\ proc[p].made + 1 <= Spent(OneEach, t) + 1
        BY <1>4, <3>3, <4>3 DEF OvershootSane
      <4> QED
        BY <2>7, <3>5, <4>4, <4>5 DEF Capped
    <3> QED
      BY <3>1, <3>6, <3>7
  <2> QED
    BY <1>8, <2>4, <2>5, <2>6, <2>7
<1>9. CASE \E p \in budget.processes :
              \/ Budget!SetSessionStart(p) \/ Budget!EndSession(p) \/ Budget!Pick(p)
              \/ Budget!AppendEntry(p) \/ Budget!CallFails(p)
  <2>1. PICK p \in Processes :
           Budget!SetSessionStart(p) \/ Budget!EndSession(p) \/ Budget!Pick(p) \/ Budget!AppendEntry(p)
    BY <1>1, <1>9 DEF SplitInv, OvershootSane, BudgetSane, Budget!SettingRecords, Budget!CallFails
  <2> QED
    BY <1>2, <1>7, <1>8, <2>1
<1> QED
  BY <1>2, <1>6, <1>9 DEF Budget!Next, Budget!vars, Budget!PrepareBrainGit, Budget!CommitBrainGit, Budget!Clock

LEMMA OvershootInit ==
    ASSUME OvershootSane, Budget!Init
    PROVE  OvershootInv
<1>1. SplitInv
  BY SplitInit DEF OvershootSane
<1>2. budget \in BudgetSettings /\ instant = 0 /\ ledger = <<>> /\ kept = None
  BY DEF Budget!Init
<1>3. \A p \in Processes : /\ proc[p].start = None /\ proc[p].live = FALSE /\ proc[p].call = None
                           /\ proc[p].made = 0
  BY DEF Budget!Init, Budget!NoSession
<1>4. Steady
  BY <1>2, <1>3 DEF Steady
<1>5. InFlight = {}
  BY <1>3 DEF InFlight
<1>6. Cardinality(InFlight) = 0 /\ Budget!Crowd \in Nat
  BY <1>1, <1>4, <1>5, CrowdFacts, FS_EmptySet
<1>7. ASSUME NEW use, NEW most, Measures(use, most), NEW t, NEW limit \in Nat \ {0}
      PROVE  Bounded(use, t, limit, most)
  <2>1. Amounts(ledger, t, use) \in Seq(Nat) /\ Len(Amounts(ledger, t, use)) = 0
    <3>1. ledger \in Seq(Budget!Entries) /\ Len(ledger) = 0
      BY <1>2, <1>4 DEF Steady
    <3>2. use \in [Budget!Entries -> Nat]
      BY <1>7 DEF Measures
    <3> QED
      BY <3>1, <3>2, AmountsAre
  <2>2. PICK a \in Seq(Nat) : a = Amounts(ledger, t, use) /\ Len(a) = 0
    BY <2>1
  <2>3. Budget!Total(a) = 0
    BY <2>2, TotalIs
  <2>4. Spent(use, t) = 0
    BY <2>2, <2>3 DEF Spent
  <2>5. Budget!Crowd * most \in Nat /\ 0 * most = 0
    BY <1>6, <1>7 DEF Measures
  <2> QED
    BY <1>6, <2>4, <2>5 DEF Bounded
<1>8. /\ \A t \in Latest : /\ MaxCalls > 0 => Bounded(OneEach, t, MaxCalls, 1)
                           /\ Bounded(TokensOf, t, NightTokens, Budget!Largest)
      /\ Bounded(TokensOf, Budget!WeekStart, WeekNights * NightTokens, Budget!Largest)
  <2>1. WeekNights * NightTokens \in Nat \ {0}
    BY DEF OvershootSane
  <2> QED
    BY <1>7, <2>1, TheMeasures DEF OvershootSane
<1>9. \A p \in Processes : Capped(p)
  BY <1>3 DEF Capped, OvershootSane
<1> QED
  BY <1>1, <1>2, <1>4, <1>8, <1>9 DEF OvershootInv

LEMMA OvershootNext ==
    ASSUME OvershootSane, OvershootInv, [Budget!Next]_(Budget!vars)
    PROVE  OvershootInv'
<1>1. SplitInv /\ SplitInv' /\ Steady
  BY SplitNext DEF OvershootInv, OvershootSane
<1>2. /\ Steady' /\ instant <= instant' /\ budget' = budget
      /\ \A p \in Processes : proc[p].start # None => \/ proc'[p].start = proc[p].start
                                                      \/ proc'[p].start = instant'
  BY <1>1, SteadyNext
<1>3. instant \in Nat /\ instant' \in Nat /\ ledger \in Seq(Budget!Entries)
  BY <1>1 DEF SplitInv, Steady, Budget!Times
<1>4. /\ Measures(OneEach, 1) /\ Measures(TokensOf, Budget!Largest)
      /\ WeekNights * NightTokens \in Nat /\ NightTokens \in Nat /\ MaxCalls \in Nat /\ Week \in Nat
  BY TheMeasures DEF OvershootSane
<1>5. /\ Budget!WeekStart \in Nat /\ Budget!WeekStart' \in Nat /\ Budget!WeekStart <= Budget!WeekStart'
  <2>1. \A a, b, w \in Nat : a <= b => (IF a > w THEN a - w ELSE 0) <= (IF b > w THEN b - w ELSE 0)
    OBVIOUS
  <2>2. /\ Budget!WeekStart = IF instant > Week THEN instant - Week ELSE 0
        /\ Budget!WeekStart' = IF instant' > Week THEN instant' - Week ELSE 0
    BY DEF Budget!WeekStart
  <2>3. (IF instant > Week THEN instant - Week ELSE 0) <= (IF instant' > Week THEN instant' - Week ELSE 0)
    BY <1>2, <1>3, <1>4, <2>1
  <2>4. \A a, w \in Nat : (IF a > w THEN a - w ELSE 0) \in Nat
    OBVIOUS
  <2>5. Budget!WeekStart \in Nat /\ Budget!WeekStart' \in Nat
    BY <1>3, <1>4, <2>2, <2>4
  <2> QED
    BY <2>2, <2>3, <2>5
<1>6. ASSUME NEW p \in Processes, proc[p].live, Budget!Guard(proc[p].start)
      PROVE  /\ MaxCalls > 0 => Spent(OneEach, proc[p].start) < MaxCalls
             /\ Spent(TokensOf, proc[p].start) < NightTokens
             /\ Spent(TokensOf, Budget!WeekStart) < WeekNights * NightTokens
             /\ proc[p].start \in Nat /\ proc[p].start # None
  <2>1. proc[p].start # None
    BY <1>1, <1>6 DEF Steady
  <2>2. proc[p].start \in Nat
    BY <1>1, <2>1 DEF SplitInv, Routers, Router, Budget!Times
  <2> QED
    BY <1>1, <1>6, <2>1, <2>2, Counts DEF Budget!Guard
\* A time that no session began after, is one before the step too.
<1>7. ASSUME NEW t \in Nat, t \in Latest'
      PROVE  t \in Latest
  <2> SUFFICES ASSUME NEW p \in Processes, proc[p].start # None
               PROVE  proc[p].start <= t
    BY DEF Latest
  <2>1. proc[p].start \in Nat /\ proc[p].start <= instant
    BY <1>1 DEF Steady, SplitInv, Routers, Router, Budget!Times
  <2>2. proc'[p].start = proc[p].start \/ proc'[p].start = instant'
    BY <1>2
  <2>3. proc'[p].start # None => proc'[p].start <= t
    BY <1>7 DEF Latest
  <2>4. None \notin Nat
    BY DEF OvershootSane
  <2>5. proc'[p].start \in Nat /\ proc[p].start <= proc'[p].start
    BY <1>2, <1>3, <2>1, <2>2
  <2> QED
    BY <2>1, <2>3, <2>4, <2>5
<1>8. ASSUME NEW t \in Nat, t \in Latest', NEW use \in [Budget!Entries -> Nat],
             NEW p \in Processes, proc[p].live, Budget!Guard(proc[p].start)
      PROVE  Spent(use, t) <= Spent(use, proc[p].start) /\ Spent(use, proc[p].start) \in Nat
                /\ Spent(use, t) \in Nat
  <2>1. t \in Latest /\ proc[p].start \in Nat /\ proc[p].start # None
    BY <1>6, <1>7, <1>8
  <2>2. proc[p].start <= t
    BY <2>1 DEF Latest
  <2> QED
    BY <1>3, <2>1, <2>2, SpentFacts
<1>9. ASSUME NEW t \in Nat, t \in Latest', MaxCalls > 0
      PROVE  Bounded(OneEach, t, MaxCalls, 1)'
  <2>1. Bounded(OneEach, t, MaxCalls, 1)
    BY <1>7, <1>9 DEF OvershootInv
  <2>2. \A p \in Processes : proc[p].live /\ Budget!Guard(proc[p].start) => Spent(OneEach, t) < MaxCalls
    BY <1>4, <1>6, <1>8, <1>9 DEF Measures
  <2>3. t <= t
    OBVIOUS
  <2>4. Spent(OneEach, t)' + Cardinality(InFlight') * 1 < MaxCalls + Budget!Crowd' * 1
    BY <1>1, <1>4, <2>1, <2>2, <2>3, BoundedNext
  <2> QED
    BY <2>4 DEF Bounded
<1>10. ASSUME NEW t \in Nat, t \in Latest'
       PROVE  Bounded(TokensOf, t, NightTokens, Budget!Largest)'
  <2>1. Bounded(TokensOf, t, NightTokens, Budget!Largest)
    BY <1>7, <1>10 DEF OvershootInv
  <2>2. \A p \in Processes : proc[p].live /\ Budget!Guard(proc[p].start) => Spent(TokensOf, t) < NightTokens
    BY <1>4, <1>6, <1>8, <1>10 DEF Measures
  <2>3. t <= t
    OBVIOUS
  <2>4. Spent(TokensOf, t)' + Cardinality(InFlight') * Budget!Largest
           < NightTokens + Budget!Crowd' * Budget!Largest
    BY <1>1, <1>4, <2>1, <2>2, <2>3, BoundedNext
  <2> QED
    BY <2>4 DEF Bounded, Budget!Largest
<1>11. Bounded(TokensOf, Budget!WeekStart, WeekNights * NightTokens, Budget!Largest)'
  <2>1. Bounded(TokensOf, Budget!WeekStart, WeekNights * NightTokens, Budget!Largest)
    BY DEF OvershootInv
  <2>2. PICK t \in Nat : t = Budget!WeekStart
    BY <1>5
  <2>3. PICK u \in Nat : u = Budget!WeekStart'
    BY <1>5
  <2>4. PICK limit \in Nat : limit = WeekNights * NightTokens
    BY <1>4
  <2>5. t <= u /\ Bounded(TokensOf, t, limit, Budget!Largest)
    BY <1>5, <2>1, <2>2, <2>3, <2>4 DEF Bounded
  <2>6. \A p \in Processes : proc[p].live /\ Budget!Guard(proc[p].start) => Spent(TokensOf, t) < limit
    BY <1>6, <2>2, <2>4
  <2>7. Spent(TokensOf, u)' + Cardinality(InFlight') * Budget!Largest < limit + Budget!Crowd' * Budget!Largest
    BY <1>1, <1>4, <2>5, <2>6, BoundedNext
  <2>8. Spent(TokensOf, Budget!WeekStart)' = Spent(TokensOf, u)'
    BY <2>3 DEF Spent, Amounts
  <2> QED
    BY <2>4, <2>7, <2>8 DEF Bounded, Budget!Largest
<1>12. ASSUME Budget!Accounted'
       PROVE  kept' = None /\ (MaxCalls > 0 => \A p \in Processes : Capped(p)')
  <2>1. Budget!Accounted /\ kept = None
    BY <1>2, <1>12 DEF Budget!Accounted, OvershootInv
  <2>2. CASE MaxCalls > 0
    BY <1>1, <2>1, <2>2, CappedNext DEF OvershootInv
  <2>3. kept' = None
    BY <2>1 DEF Budget!Accounted, Budget!Next, Budget!vars, Budget!SetSessionStart, Budget!EndSession,
                Budget!Pick, Budget!AppendEntry, Budget!CallFails, Budget!PrepareBrainGit,
                Budget!CommitBrainGit, Budget!RollbackBrainGit, Budget!Clock
  <2> QED
    BY <2>2, <2>3
<1>13. Latest' \subseteq Nat
  BY DEF Latest
<1> QED
  BY <1>1, <1>2, <1>9, <1>10, <1>11, <1>12, <1>13 DEF OvershootInv

\* The newest session is one that no session began after.
LEMMA NewestIs ==
    ASSUME OvershootSane, SplitInv, Steady
    PROVE  Budget!Newest \in Latest
<1> DEFINE S == {0} \cup {proc[p].start : p \in {q \in Processes : proc[q].start # None}}
<1>1. \A p \in Processes : proc[p].start # None => proc[p].start \in Nat /\ proc[p].start <= instant
  BY DEF SplitInv, Steady, Routers, Router, Budget!Times
<1>2. instant \in Nat /\ S \subseteq Nat /\ \A s \in S : s <= instant
  BY <1>1 DEF SplitInv, Budget!Times
<1>3. IsFiniteSet(S) /\ S # {}
  <2>1. IsFiniteSet(S)
    <3> HIDE DEF S
    <3> QED
      BY <1>2, FS_BoundedSetOfNaturals
  <2> QED
    BY <2>1
<1>4. Max(S) \in S /\ \A s \in S : s <= Max(S)
  <2> HIDE DEF S
  <2> QED
    BY <1>2, <1>3, LargestIs
<1>5. Budget!Newest = Max(S)
  BY DEF Budget!Newest, Budget!Max, Max
<1>6. \A p \in Processes : proc[p].start # None => proc[p].start \in S
  OBVIOUS
<1> HIDE DEF S
<1> QED
  BY <1>2, <1>4, <1>5, <1>6 DEF Latest

\* Without failures and rollbacks no session makes more paid calls than its cap. For any number
\* of processes and any ledger, the calls and the tokens that the gate lets through exceed the
\* budget of the night, and those of the rolling week, by less than a call of every process.
THEOREM OvershootIsBounded ==
    ASSUME OvershootSane
    PROVE  Budget!Spec => []OvershootBounded
<1>1. ASSUME Budget!Init
      PROVE  OvershootInv
  BY <1>1, OvershootInit
<1>2. ASSUME OvershootInv, [Budget!Next]_(Budget!vars)
      PROVE  OvershootInv'
  BY <1>2, OvershootNext
<1>3. ASSUME OvershootInv
      PROVE  OvershootBounded
  <2>1. SplitInv /\ Steady
    BY <1>3 DEF OvershootInv
  <2>2. Budget!Newest \in Latest /\ Budget!Newest \in Nat
    BY <2>1, NewestIs DEF Latest
  <2>3. ledger \in Seq(Budget!Entries) /\ instant \in Nat
    BY <2>1 DEF Steady, SplitInv, Budget!Times
  <2>4. Budget!WeekStart \in Nat
    BY <2>3 DEF Budget!WeekStart, OvershootSane
  <2>5. /\ Measures(OneEach, 1) /\ Measures(TokensOf, Budget!Largest)
        /\ WeekNights * NightTokens \in Nat /\ NightTokens \in Nat /\ MaxCalls \in Nat
    BY TheMeasures DEF OvershootSane
  <2>6. Budget!Crowd \in Nat /\ Cardinality(InFlight) \in Nat
    BY <2>1, CrowdFacts
  <2>7. ASSUME NEW use, NEW most, Measures(use, most), NEW t \in Nat, NEW limit \in Nat,
               Bounded(use, t, limit, most)
        PROVE  Spent(use, t) < limit + Budget!Crowd * most
    <3>1. Spent(use, t) \in Nat /\ most \in Nat
      BY <2>3, <2>7, SpentFacts DEF Measures
    <3>2. Cardinality(InFlight) * most \in Nat /\ Budget!Crowd * most \in Nat
      BY <2>6, <3>1
    <3> QED
      BY <2>7, <3>1, <3>2 DEF Bounded
  <2>8. MaxCalls > 0 => Budget!CountCalls(Budget!Newest) < MaxCalls + Budget!Crowd
    <3>1. MaxCalls > 0 => Spent(OneEach, Budget!Newest) < MaxCalls + Budget!Crowd * 1
      BY <1>3, <2>2, <2>5, <2>7 DEF OvershootInv
    <3> QED
      BY <2>1, <2>6, <3>1, Counts
  <2>9. Budget!Tokens(Budget!Newest) < NightTokens + Budget!Crowd * Budget!Largest
    BY <1>3, <2>1, <2>2, <2>5, <2>7, Counts DEF OvershootInv
  <2>10. Budget!Tokens(Budget!WeekStart) < WeekNights * NightTokens + Budget!Crowd * Budget!Largest
    BY <1>3, <2>1, <2>4, <2>5, <2>7, Counts DEF OvershootInv
  <2>11. Budget!Accounted /\ MaxCalls > 0 => \A p \in Processes : proc[p].made <= MaxCalls
    BY <1>3 DEF OvershootInv, Capped
  <2> QED
    BY <2>8, <2>9, <2>10, <2>11 DEF OvershootBounded, Budget!OvershootBounded
<1> QED
  BY <1>1, <1>2, <1>3, PTL DEF Budget!Spec

---------------------------------------------------------------------------
(* What the scout stage remembers (ScoutRun).                                  *)

\* None is no report, no claim and no run.
ScoutSane == /\ ScoutSettings \subseteq Scout!SettingRecords /\ MaxScoutDay \in Nat
             /\ None \notin Scout!Reports /\ None \notin Scout!Claims /\ None \notin Scout!RunRecords

\* Nothing was written about n within the cooldown, but for reports about notes of its slug.
New(n) == LET last == report[Scout!Slug(n)]
          IN  last = None \/ last.note # n \/ ~Scout!Lately(last.day)

\* The note in hand has a report of today, which is the one of this run if it is the only one; the
\* notes that it will look at have none.
Scouting(w) ==
    /\ w.at # "next" => /\ w.note \in Notes \ scouting.sparse /\ w.note \notin w.todo
                        /\ report[Scout!Slug(w.note)] # None
                        /\ report[Scout!Slug(w.note)].day = scoutDay
    /\ w.at = "next" => w.by = Scout!bulk
    /\ w.at = "resolve" => w.left \in 1 .. Scout!Passes
    /\ Scout!Alone =>
          /\ w.at # "next" => /\ report[Scout!Slug(w.note)].note = w.note
                              /\ report[Scout!Slug(w.note)].by \in {w.by, Scout!escalated}
          /\ \A n \in w.todo : New(n)

\* The claims of a report are in the log, or its note is in hand.
Flying(w, n) == w # None /\ w.at # "next" /\ w.note = n
Tells(c, x) == c # None /\ c.day = x.day /\ (Scout!Alone /\ x.by # Scout!escalated => c.by = x.by)
Told == \A s \in Notes : report[s] # None =>
           \/ \E r \in Nights : Flying(run[r], report[s].note)
           \/ Tells(evidence[report[s].note], report[s])

ScoutInv == /\ Scout!TypeOK
            /\ \A r \in Nights : run[r] # None => r \in scouting.nights /\ Scouting(run[r])
            /\ \A s \in Notes : report[s] # None =>
                  Scout!Slug(report[s].note) = s /\ report[s].note \notin scouting.sparse
            /\ ~scouting.killed => Told

LEMMA ScoutFacts ==
    ASSUME ScoutSane, Scout!TypeOK
    PROVE  /\ scouting \in Scout!SettingRecords /\ scouting.nights \subseteq Nights
           /\ scouting.notes \subseteq Notes /\ scouting.cooldown \in Nat
           /\ Scout!Passes \in 1 .. 3 /\ scoutDay \in Scout!Days /\ scoutDay \in Nat
           /\ Scout!Days \subseteq Nat
           /\ \A n \in Notes : Scout!Slug(n) \in Notes
           /\ Scout!Writers = 0 .. 4 /\ Scout!bulk = 0 /\ Scout!escalated = 4
<1>1. scouting \in Scout!SettingRecords
  BY DEF ScoutSane, Scout!TypeOK
<1>2. /\ scouting.nights \subseteq Nights /\ scouting.notes \subseteq Notes
      /\ scouting.cooldown \in Nat
      /\ scouting.slug \in [Notes -> Notes] /\ scouting.passes \in Nat
  BY <1>1 DEF Scout!SettingRecords
<1>3. Scout!Passes \in 1 .. 3
  BY <1>2 DEF Scout!Passes
<1>4. scoutDay \in Scout!Days /\ scoutDay \in Nat /\ Scout!Days \subseteq Nat
  BY DEF ScoutSane, Scout!TypeOK, Scout!Days
<1>5. \A n \in Notes : Scout!Slug(n) \in Notes
  BY <1>2 DEF Scout!Slug
<1>6. Scout!Writers = 0 .. 4 /\ Scout!bulk = 0 /\ Scout!escalated = 4
  BY DEF Scout!Writers, Scout!bulk, Scout!escalated
<1> QED
  BY <1>1, <1>2, <1>3, <1>4, <1>5, <1>6

\* A step of run r that writes no report and no claims: a note that was in hand stays in hand.
LEMMA RunMoves ==
    ASSUME ScoutSane, ScoutInv, NEW r \in scouting.nights, NEW w \in Scout!RunRecords \cup {None},
           run' = [run EXCEPT ![r] = w], UNCHANGED <<scouting, scoutDay, report, evidence>>,
           ended' \in BOOLEAN, processed' \in [Notes -> Scout!Days \cup {None}],
           w # None => Scouting(w),
           ~scouting.killed /\ run[r] # None /\ run[r].at # "next" => Flying(w, run[r].note)
    PROVE  ScoutInv'
<1>1. r \in Nights /\ run \in [Nights -> Scout!RunRecords \cup {None}]
  BY ScoutFacts DEF ScoutInv, Scout!TypeOK
<1>2. run'[r] = w /\ \A q \in Nights : q # r => run'[q] = run[q]
  BY <1>1
<1>3. Scout!TypeOK'
  BY <1>1 DEF ScoutInv, Scout!TypeOK, Scout!Days, Scout!Reports, Scout!Claims, Scout!RunRecords
<1>4. ASSUME NEW q \in Nights, run'[q] # None
      PROVE  q \in scouting'.nights /\ Scouting(run[q])'
  <2>1. PICK v : v = run'[q]
    OBVIOUS
  <2>2. q \in scouting.nights /\ Scouting(v)
    BY <1>2, <1>4, <2>1 DEF ScoutInv
  <2>3. Scouting(v)'
    BY <2>2 DEF Scouting, New, Scout!Slug, Scout!Lately, Scout!Passes, Scout!Alone, Scout!bulk,
       Scout!escalated
  <2> QED
    BY <2>1, <2>2, <2>3 DEF Scouting
<1>5. ASSUME ~scouting.killed
      PROVE  Told'
  <2>1. ASSUME NEW s \in Notes, report[s] # None
        PROVE  \/ \E q \in Nights : Flying(run'[q], report[s].note)
               \/ Tells(evidence[report[s].note], report[s])
    <3>1. CASE Tells(evidence[report[s].note], report[s])
      BY <3>1
    <3>2. CASE \E q \in Nights : Flying(run[q], report[s].note)
      <4>1. PICK q \in Nights : Flying(run[q], report[s].note)
        BY <3>2
      <4>2. Flying(run'[q], report[s].note)
        BY <1>2, <1>5, <4>1 DEF Flying
      <4> QED
        BY <4>2
    <3> QED
      BY <1>5, <2>1, <3>1, <3>2 DEF ScoutInv, Told
  <2> QED
    BY <2>1 DEF Told, Flying, Tells, Scout!Alone, Scout!escalated
<1>6. \A s \in Notes : report'[s] # None =>
          Scout!Slug(report[s].note)' = s /\ report'[s].note \notin scouting'.sparse
  BY DEF ScoutInv, Scout!Slug
<1> QED
  BY <1>3, <1>4, <1>5, <1>6 DEF ScoutInv

\* A step of run r that writes the report of the note m, which it has in hand then.
LEMMA RunWrites ==
    ASSUME ScoutSane, ScoutInv, NEW r \in scouting.nights, NEW w \in Scout!RunRecords,
           NEW m \in Notes \ scouting.sparse, NEW b \in Scout!Writers, NEW x,
           x = [note |-> m, day |-> scoutDay, by |-> b],
           run' = [run EXCEPT ![r] = w], report' = [report EXCEPT ![Scout!Slug(m)] = x],
           UNCHANGED <<scouting, scoutDay, ended, processed, evidence>>,
           w.at # "next", w.note = m, m \notin w.todo, b \in {w.by, Scout!escalated},
           w.at = "resolve" => w.left \in 1 .. Scout!Passes,
           run[r] # None, w.todo \subseteq run[r].todo, run[r].at = "next" \/ run[r].note = m
    PROVE  ScoutInv'
<1>1. /\ r \in Nights /\ run \in [Nights -> Scout!RunRecords \cup {None}] /\ Scout!Slug(m) \in Notes
      /\ report \in [Notes -> Scout!Reports \cup {None}] /\ scoutDay \in Scout!Days
  BY ScoutFacts DEF ScoutInv, Scout!TypeOK
<1>2. run'[r] = w /\ \A q \in Nights : q # r => run'[q] = run[q]
  BY <1>1
<1>3. /\ x \in Scout!Reports /\ x.note = m /\ x.day = scoutDay /\ x.by = b /\ x # None /\ w # None
      /\ report'[Scout!Slug(m)] = x /\ \A s \in Notes : s # Scout!Slug(m) => report'[s] = report[s]
  BY <1>1 DEF Scout!Reports, ScoutSane
<1>4. Scout!TypeOK'
  <2>1. report' \in [Notes -> Scout!Reports \cup {None}] /\ run' \in [Nights -> Scout!RunRecords \cup {None}]
    BY <1>1, <1>3
  <2> QED
    BY <2>1 DEF ScoutInv, Scout!TypeOK, Scout!Days, Scout!Reports, Scout!Claims, Scout!RunRecords
<1>5. ASSUME NEW n \in Notes
      PROVE  Scout!Slug(n) \in Notes /\ Scout!Slug(n)' = Scout!Slug(n)
  BY ScoutFacts DEF ScoutInv, Scout!Slug
<1>6. w.todo \subseteq Notes
  BY DEF Scout!RunRecords
<1>7. ASSUME NEW q \in Nights, run'[q] # None
      PROVE  q \in scouting'.nights /\ Scouting(run[q])'
  <2>1. PICK v : v = run'[q]
    OBVIOUS
  <2>2. CASE q = r
    <3>1. v = w
      BY <1>2, <2>1, <2>2
    <3>2. ASSUME Scout!Alone, NEW n \in w.todo
          PROVE  New(n)'
      <4>0. Scouting(run[r]) /\ n \in run[r].todo
        BY <1>1, <3>2 DEF ScoutInv
      <4>1. n \in Notes /\ n # m /\ New(n)
        BY <1>6, <3>2, <4>0 DEF Scouting
      <4>2. CASE Scout!Slug(n) = Scout!Slug(m)
        BY <1>3, <1>5, <4>1, <4>2 DEF New
      <4>3. CASE Scout!Slug(n) # Scout!Slug(m)
        BY <1>3, <1>5, <4>1, <4>3 DEF New, Scout!Lately
      <4> QED
        BY <4>2, <4>3
    <3>3. Scouting(w)'
      BY <1>3, <1>5, <3>2 DEF Scouting, Scout!Passes, Scout!Alone, Scout!bulk, Scout!escalated
    <3> QED
      BY <2>1, <2>2, <3>1, <3>3 DEF Scouting
  <2>3. CASE q # r
    <3>1. v = run[q] /\ q \in scouting.nights /\ Scouting(v) /\ ~Scout!Alone
      BY <1>2, <1>7, <2>1, <2>3 DEF ScoutInv, Scout!Alone
    <3>2. Scouting(v)'
      BY <1>3, <1>5, <3>1 DEF Scouting, Scout!Passes, Scout!Alone, Scout!bulk
    <3> QED
      BY <2>1, <3>1, <3>2 DEF Scouting
  <2> QED
    BY <2>2, <2>3
<1>8. \A s \in Notes : report'[s] # None =>
          Scout!Slug(report[s].note)' = s /\ report'[s].note \notin scouting'.sparse
  <2>1. ASSUME NEW s \in Notes, report'[s] # None
        PROVE  Scout!Slug(report[s].note)' = s /\ report'[s].note \notin scouting'.sparse
    <3>1. CASE s = Scout!Slug(m)
      BY <1>3, <1>5, <3>1 DEF Scout!Slug
    <3>2. CASE s # Scout!Slug(m)
      BY <1>3, <2>1, <3>2 DEF ScoutInv, Scout!Slug
    <3> QED
      BY <3>1, <3>2
  <2> QED
    BY <2>1
<1>9. ASSUME ~scouting.killed
      PROVE  Told'
  <2>1. ASSUME NEW s \in Notes, report'[s] # None
        PROVE  \/ \E q \in Nights : Flying(run'[q], report'[s].note)
               \/ Tells(evidence[report'[s].note], report'[s])
    <3>1. CASE s = Scout!Slug(m)
      <4>1. Flying(run'[r], report'[s].note)
        BY <1>2, <1>3, <3>1 DEF Flying
      <4> QED
        BY <1>1, <4>1
    <3>2. CASE s # Scout!Slug(m)
      <4>1. report'[s] = report[s]
        BY <1>3, <3>2
      <4>2. CASE Tells(evidence[report[s].note], report[s])
        BY <4>1, <4>2
      <4>3. CASE \E q \in Nights : Flying(run[q], report[s].note)
        <5>1. PICK q \in Nights : Flying(run[q], report[s].note)
          BY <4>3
        <5>2. Flying(run'[q], report[s].note)
          BY <1>2, <1>3, <5>1 DEF Flying
        <5> QED
          BY <4>1, <5>2
      <4> QED
        BY <1>9, <2>1, <4>1, <4>2, <4>3 DEF ScoutInv, Told
    <3> QED
      BY <3>1, <3>2
  <2> QED
    BY <2>1 DEF Told, Flying, Tells, Scout!Alone, Scout!escalated
<1> QED
  BY <1>4, <1>7, <1>8, <1>9 DEF ScoutInv

LEMMA RunFacts ==
    ASSUME ScoutSane, ScoutInv, NEW r \in scouting.nights, run[r] # None
    PROVE  r \in Nights /\ run[r] \in Scout!RunRecords /\ Scouting(run[r])
<1>1. r \in Nights /\ run \in [Nights -> Scout!RunRecords \cup {None}]
  BY ScoutFacts DEF ScoutInv, Scout!TypeOK
<1> QED
  BY <1>1 DEF ScoutInv

\* The claims about the note m are written over, with such as tell of every report about it; or
\* the run that had it in hand leaves it for them.
LEMMA ClaimsWritten ==
    ASSUME ScoutSane, ScoutInv, NEW r \in scouting.nights, NEW w \in Scout!RunRecords,
           NEW m \in Notes, NEW c \in Scout!Claims,
           run' = [run EXCEPT ![r] = w], evidence' = [evidence EXCEPT ![m] = c],
           UNCHANGED <<scouting, scoutDay, ended, report, processed>>,
           Scouting(w), run[r] # None, run[r].at # "next" => run[r].note = m,
           \A s \in Notes : report[s] # None /\ report[s].note = m => Tells(c, report[s])
    PROVE  ScoutInv'
<1>1. /\ r \in Nights /\ run \in [Nights -> Scout!RunRecords \cup {None}]
      /\ evidence \in [Notes -> Scout!Claims \cup {None}] /\ c # None /\ w # None
  BY ScoutFacts DEF ScoutInv, Scout!TypeOK, ScoutSane
<1>2. run'[r] = w /\ \A q \in Nights : q # r => run'[q] = run[q]
  BY <1>1
<1>3. evidence'[m] = c /\ \A n \in Notes : n # m => evidence'[n] = evidence[n]
  BY <1>1
<1>4. Scout!TypeOK'
  <2>1. /\ evidence' \in [Notes -> Scout!Claims \cup {None}]
        /\ run' \in [Nights -> Scout!RunRecords \cup {None}]
    BY <1>1
  <2> QED
    BY <2>1 DEF ScoutInv, Scout!TypeOK, Scout!Days, Scout!Reports, Scout!Claims, Scout!RunRecords
<1>5. ASSUME NEW q \in Nights, run'[q] # None
      PROVE  q \in scouting'.nights /\ Scouting(run[q])'
  <2>1. PICK v : v = run'[q]
    OBVIOUS
  <2>2. q \in scouting.nights /\ Scouting(v)
    BY <1>2, <1>5, <2>1 DEF ScoutInv
  <2>3. Scouting(v)'
    BY <2>2 DEF Scouting, New, Scout!Slug, Scout!Lately, Scout!Passes, Scout!Alone, Scout!bulk,
       Scout!escalated
  <2> QED
    BY <2>1, <2>2, <2>3 DEF Scouting
<1>6. ASSUME ~scouting.killed
      PROVE  Told'
  <2>1. ASSUME NEW s \in Notes, report[s] # None
        PROVE  \/ \E q \in Nights : Flying(run'[q], report[s].note)
               \/ Tells(evidence'[report[s].note], report[s])
    <3>1. CASE report[s].note = m
      BY <1>3, <2>1, <3>1
    <3>2. CASE report[s].note # m
      <4>1. report[s].note \in Notes
        BY <2>1 DEF ScoutInv, Scout!TypeOK, Scout!Reports
      <4>2. CASE Tells(evidence[report[s].note], report[s])
        BY <1>3, <3>2, <4>1, <4>2
      <4>3. CASE \E q \in Nights : Flying(run[q], report[s].note)
        <5>1. PICK q \in Nights : Flying(run[q], report[s].note)
          BY <4>3
        <5>2. q # r
          BY <3>2, <5>1 DEF Flying
        <5> QED
          BY <1>2, <5>1, <5>2
      <4> QED
        BY <1>6, <2>1, <4>2, <4>3 DEF ScoutInv, Told
    <3> QED
      BY <3>1, <3>2
  <2> QED
    BY <2>1 DEF Told, Flying, Tells, Scout!Alone, Scout!escalated
<1>7. \A s \in Notes : report'[s] # None =>
          Scout!Slug(report[s].note)' = s /\ report'[s].note \notin scouting'.sparse
  BY DEF ScoutInv, Scout!Slug
<1> QED
  BY <1>4, <1>5, <1>6, <1>7 DEF ScoutInv

LEMMA RunScoutStage ==
    ASSUME ScoutSane, ScoutInv, NEW r \in scouting.nights, Scout!runScoutStage(r)
    PROVE  ScoutInv'
<1>1. run[r] = None /\ UNCHANGED <<scouting, scoutDay, report, processed, evidence>>
  BY DEF Scout!runScoutStage
<1>2. PICK picks \in Scout!Picks :
          IF picks = {} THEN ended' = TRUE /\ UNCHANGED run
          ELSE /\ Scout!Goes(r, [at |-> "next", cursor |-> Scout!loadScoutCursor, todo |-> picks,
                             done |-> {}, note |-> None, by |-> Scout!bulk, left |-> 0])
               /\ UNCHANGED ended
  BY DEF Scout!runScoutStage
<1>3. r \in Nights /\ processed' \in [Notes -> Scout!Days \cup {None}] /\ ended \in BOOLEAN
      /\ run \in [Nights -> Scout!RunRecords \cup {None}]
  BY <1>1, ScoutFacts DEF ScoutInv, Scout!TypeOK
<1>4. CASE picks = {}
  <2>1. run' = [run EXCEPT ![r] = None]
    BY <1>1, <1>2, <1>3, <1>4
  <2> QED
    BY <1>1, <1>2, <1>3, <1>4, <2>1, RunMoves
<1>5. CASE picks # {}
  <2> DEFINE w == [at |-> "next", cursor |-> Scout!loadScoutCursor, todo |-> picks, done |-> {},
                   note |-> None, by |-> Scout!bulk, left |-> 0]
  <2>1. picks \subseteq Scout!Eligible
    BY DEF Scout!Picks, Scout!Cropped
  <2>2. picks \subseteq Notes /\ \A n \in picks : New(n)
    BY <2>1, ScoutFacts DEF Scout!Eligible, Scout!loadCooldown, New, ScoutInv
  <2>3. Scout!loadScoutCursor \in [Notes -> Scout!Days \cup {None}]
    BY DEF Scout!loadScoutCursor, ScoutInv, Scout!TypeOK
  <2>4. Scout!bulk \in Scout!Writers
    BY DEF Scout!bulk, Scout!Writers, Scout!escalated
  <2>5. w \in Scout!RunRecords /\ w.at = "next" /\ w.todo = picks /\ w.by = Scout!bulk
    BY <2>2, <2>3, <2>4 DEF Scout!RunRecords
  <2>6. run' = [run EXCEPT ![r] = w] /\ ended' \in BOOLEAN
    BY <1>2, <1>3, <1>5 DEF Scout!Goes
  <2> HIDE DEF w
  <2>7. Scouting(w)
    BY <2>2, <2>5 DEF Scouting
  <2> QED
    BY <1>1, <1>3, <2>5, <2>6, <2>7, RunMoves
<1> QED
  BY <1>4, <1>5

LEMMA SkipSparse ==
    ASSUME ScoutSane, ScoutInv, NEW r \in scouting.nights, NEW n \in Notes, Scout!skipSparse(r, n)
    PROVE  ScoutInv'
<1> DEFINE w == [run[r] EXCEPT !.todo = @ \ {n}]
           c == [day |-> scoutDay, by |-> Scout!skipped]
<1>1. /\ run[r] # None /\ run[r].at = "next" /\ n \in scouting.sparse
      /\ UNCHANGED <<scouting, scoutDay, ended, report, processed>>
      /\ evidence' = [evidence EXCEPT ![n] = c] /\ run' = [run EXCEPT ![r] = w]
  BY DEF Scout!skipSparse, Scout!At, Scout!Goes
<1>2. run[r] \in Scout!RunRecords /\ Scouting(run[r])
  BY <1>1, RunFacts
<1>3. w \in Scout!RunRecords /\ w.at = "next" /\ w.todo \subseteq run[r].todo /\ w.by = run[r].by
  BY <1>1, <1>2 DEF Scout!RunRecords
<1>4. c \in Scout!Claims
  BY ScoutFacts DEF Scout!Claims, ScoutInv
<1> HIDE DEF w, c
<1>5. Scouting(w)
  BY <1>1, <1>2, <1>3 DEF Scouting
<1>6. \A s \in Notes : report[s] # None /\ report[s].note = n => Tells(c, report[s])
  BY <1>1 DEF ScoutInv
<1> QED
  BY <1>1, <1>3, <1>4, <1>5, <1>6, ClaimsWritten

LEMMA RunOnePick ==
    ASSUME ScoutSane, ScoutInv, NEW r \in scouting.nights, NEW n \in Notes, Scout!runOnePick(r, n)
    PROVE  ScoutInv'
<1>1. /\ run[r] # None /\ run[r].at = "next" /\ n \in run[r].todo /\ n \notin scouting.sparse
      /\ UNCHANGED <<scouting, scoutDay, ended, processed, evidence>>
  BY DEF Scout!runOnePick, Scout!At
<1>2. r \in Nights /\ run[r] \in Scout!RunRecords /\ Scouting(run[r])
  BY <1>1, RunFacts
<1>3. ended' \in BOOLEAN /\ processed' \in [Notes -> Scout!Days \cup {None}]
  BY <1>1 DEF ScoutInv, Scout!TypeOK
<1>4. PICK outcome \in scouting.outcomes :
          IF outcome = "failed"
          THEN Scout!Goes(r, [run[r] EXCEPT !.todo = @ \ {n}]) /\ UNCHANGED report
          ELSE /\ Scout!writeReport(n, Scout!bulk)
               /\ Scout!Goes(r, [run[r] EXCEPT !.todo = @ \ {n}, !.note = n, !.left = Scout!Passes,
                                !.at = IF outcome = "flagged" THEN "resolve" ELSE "evidence"])
  BY DEF Scout!runOnePick
<1>5. CASE outcome = "failed"
  <2> DEFINE w == [run[r] EXCEPT !.todo = @ \ {n}]
  <2>1. w \in Scout!RunRecords /\ w.at = "next" /\ w.todo \subseteq run[r].todo /\ w.by = run[r].by
    BY <1>1, <1>2 DEF Scout!RunRecords
  <2>2. run' = [run EXCEPT ![r] = w] /\ UNCHANGED report
    BY <1>4, <1>5 DEF Scout!Goes
  <2> HIDE DEF w
  <2>3. Scouting(w)
    BY <1>1, <1>2, <2>1 DEF Scouting
  <2> QED
    BY <1>1, <1>3, <2>1, <2>2, <2>3, RunMoves
<1>6. CASE outcome # "failed"
  <2> DEFINE w == [run[r] EXCEPT !.todo = @ \ {n}, !.note = n, !.left = Scout!Passes,
                      !.at = IF outcome = "flagged" THEN "resolve" ELSE "evidence"]
             x == [note |-> n, day |-> scoutDay, by |-> Scout!bulk]
  <2>0. PICK at \in {"resolve", "evidence"} :
            w = [run[r] EXCEPT !.todo = @ \ {n}, !.note = n, !.left = Scout!Passes, !.at = at]
    OBVIOUS
  <2>1. Scout!Passes \in 1 .. 3 /\ Scout!Passes \in 0 .. 3 /\ Scout!Passes \in 1 .. Scout!Passes
    BY ScoutFacts DEF ScoutInv
  <2>2. /\ w.note = n /\ w.left = Scout!Passes /\ w.at # "next"
        /\ w.todo = run[r].todo \ {n} /\ w.by = run[r].by
    BY <1>2, <2>0 DEF Scout!RunRecords
  <2>3. w \in Scout!RunRecords
    BY <1>2, <2>0, <2>1 DEF Scout!RunRecords
  <2>4. run' = [run EXCEPT ![r] = w] /\ report' = [report EXCEPT ![Scout!Slug(n)] = x]
    BY <1>4, <1>6 DEF Scout!Goes, Scout!writeReport
  <2>5. PICK y : y = [note |-> n, day |-> scoutDay, by |-> Scout!bulk]
    OBVIOUS
  <2>6. report' = [report EXCEPT ![Scout!Slug(n)] = y]
    BY <2>4, <2>5
  <2> HIDE DEF w, x
  <2>7. Scout!bulk \in Scout!Writers
    BY DEF Scout!Writers, Scout!bulk, Scout!escalated
  <2>8. Scout!bulk \in {w.by, Scout!escalated}
    BY <1>1, <1>2, <2>2 DEF Scouting
  <2>9. n \in Notes \ scouting.sparse /\ n \notin w.todo /\ w.todo \subseteq run[r].todo
    BY <1>1, <2>2
  <2>10. w.at = "resolve" => w.left \in 1 .. Scout!Passes
    BY <2>1, <2>2
  <2> QED
    BY <1>1, <2>2, <2>3, <2>4, <2>5, <2>6, <2>7, <2>8, <2>9, <2>10, RunWrites
<1> QED
  BY <1>5, <1>6

LEMMA SelfResolveOne ==
    ASSUME ScoutSane, ScoutInv, NEW r \in scouting.nights, Scout!selfResolveOne(r)
    PROVE  ScoutInv'
<1>1. /\ run[r] # None /\ run[r].at = "resolve"
      /\ UNCHANGED <<scouting, scoutDay, ended, processed, evidence>>
  BY DEF Scout!selfResolveOne, Scout!At
<1>2. r \in Nights /\ run[r] \in Scout!RunRecords /\ Scouting(run[r])
  BY <1>1, RunFacts
<1>3. ended' \in BOOLEAN /\ processed' \in [Notes -> Scout!Days \cup {None}]
  BY <1>1 DEF ScoutInv, Scout!TypeOK
<1>4. /\ run[r].left \in 1 .. Scout!Passes /\ Scout!Passes \in 1 .. 3
      /\ run[r].note \in Notes \ scouting.sparse /\ run[r].note \notin run[r].todo
  BY <1>1, <1>2, ScoutFacts DEF ScoutInv, Scouting
<1>5. PICK outcome \in scouting.outcomes :
          IF outcome = "failed"
          THEN Scout!Goes(r, [run[r] EXCEPT !.at = "escalate"]) /\ UNCHANGED report
          ELSE LET by == Scout!Passes - run[r].left + 1
               IN  /\ Scout!writeReport(run[r].note, by)
                   /\ Scout!Goes(r, [run[r] EXCEPT !.by = by, !.left = @ - 1,
                                    !.at = IF outcome = "clean" THEN "evidence"
                                           ELSE IF run[r].left > 1 THEN "resolve" ELSE "escalate"])
  BY DEF Scout!selfResolveOne
<1>6. CASE outcome = "failed"
  <2> DEFINE w == [run[r] EXCEPT !.at = "escalate"]
  <2>1. /\ w \in Scout!RunRecords /\ w.at = "escalate" /\ w.todo = run[r].todo
        /\ w.note = run[r].note /\ w.by = run[r].by
    BY <1>2 DEF Scout!RunRecords
  <2>2. run' = [run EXCEPT ![r] = w] /\ UNCHANGED report
    BY <1>5, <1>6 DEF Scout!Goes
  <2> HIDE DEF w
  <2>3. Scouting(w)
    BY <1>1, <1>2, <2>1 DEF Scouting
  <2>4. Flying(w, run[r].note)
    BY <2>1 DEF Flying, Scout!RunRecords, ScoutSane
  <2> QED
    BY <1>1, <1>3, <2>1, <2>2, <2>3, <2>4, RunMoves
<1>7. CASE outcome # "failed"
  <2> DEFINE by == Scout!Passes - run[r].left + 1
             at == IF outcome = "clean" THEN "evidence"
                   ELSE IF run[r].left > 1 THEN "resolve" ELSE "escalate"
             w == [run[r] EXCEPT !.by = by, !.left = @ - 1, !.at = at]
             x == [note |-> run[r].note, day |-> scoutDay, by |-> by]
  <2>1. by \in 1 .. 3 /\ by \in Scout!Writers /\ run[r].left - 1 \in 0 .. 3
    BY <1>4 DEF Scout!Writers, Scout!bulk, Scout!escalated
  <2>2. at \in {"evidence", "resolve", "escalate"} /\ (at = "resolve" => run[r].left > 1)
    OBVIOUS
  <2>3. /\ w \in Scout!RunRecords /\ w.note = run[r].note /\ w.left = run[r].left - 1 /\ w.at = at
        /\ w.todo = run[r].todo /\ w.by = by
    BY <1>2, <2>1, <2>2 DEF Scout!RunRecords
  <2>4. run' = [run EXCEPT ![r] = w] /\ report' = [report EXCEPT ![Scout!Slug(run[r].note)] = x]
    BY <1>5, <1>7 DEF Scout!Goes, Scout!writeReport
  <2>5. PICK y : y = x
    OBVIOUS
  <2>6. w.at = "resolve" => w.left \in 1 .. Scout!Passes
    BY <1>4, <2>2, <2>3
  <2>7. PICK m : m = run[r].note
    OBVIOUS
  <2>8. PICK b : b = by
    OBVIOUS
  <2>9. PICK v : v = w
    OBVIOUS
  <2>10. /\ v \in Scout!RunRecords /\ v.note = m /\ v.todo = run[r].todo /\ v.by = b
         /\ v.at # "next" /\ (v.at = "resolve" => v.left \in 1 .. Scout!Passes)
         /\ m \in Notes \ scouting.sparse /\ m \notin v.todo /\ b \in Scout!Writers
         /\ y = [note |-> m, day |-> scoutDay, by |-> b] /\ run' = [run EXCEPT ![r] = v]
         /\ report' = [report EXCEPT ![Scout!Slug(m)] = y]
    BY <1>4, <2>1, <2>2, <2>3, <2>4, <2>5, <2>6, <2>7, <2>8, <2>9
  <2> HIDE DEF by, at, w, x
  <2> QED
    BY <1>1, <2>7, <2>10, RunWrites
<1> QED
  BY <1>6, <1>7

LEMMA EscalateOne ==
    ASSUME ScoutSane, ScoutInv, NEW r \in scouting.nights, Scout!escalateOne(r)
    PROVE  ScoutInv'
<1> DEFINE w == [run[r] EXCEPT !.at = "evidence"]
<1>1. /\ run[r] # None /\ run[r].at = "escalate" /\ run' = [run EXCEPT ![r] = w]
      /\ UNCHANGED <<scouting, scoutDay, ended, processed, evidence>>
      /\ UNCHANGED report \/ Scout!writeReport(run[r].note, Scout!escalated)
  BY DEF Scout!escalateOne, Scout!At, Scout!Goes
<1>2. r \in Nights /\ run[r] \in Scout!RunRecords /\ Scouting(run[r])
  BY <1>1, RunFacts
<1>3. ended' \in BOOLEAN /\ processed' \in [Notes -> Scout!Days \cup {None}]
  BY <1>1 DEF ScoutInv, Scout!TypeOK
<1>4. /\ w \in Scout!RunRecords /\ w.at = "evidence" /\ w.todo = run[r].todo
      /\ w.note = run[r].note /\ w.by = run[r].by
  BY <1>2 DEF Scout!RunRecords
<1> HIDE DEF w
<1>5. CASE UNCHANGED report
  <2>1. Scouting(w)
    BY <1>1, <1>2, <1>4 DEF Scouting
  <2>2. Flying(w, run[r].note)
    BY <1>4 DEF Flying, Scout!RunRecords, ScoutSane
  <2> QED
    BY <1>1, <1>3, <1>4, <1>5, <2>1, <2>2, RunMoves
<1>6. CASE Scout!writeReport(run[r].note, Scout!escalated)
  <2>1. run[r].note \in Notes \ scouting.sparse /\ run[r].note \notin run[r].todo
    BY <1>1, <1>2 DEF Scouting
  <2>2. PICK m : m = run[r].note
    OBVIOUS
  <2>3. PICK y : y = [note |-> m, day |-> scoutDay, by |-> Scout!escalated]
    OBVIOUS
  <2>4. report' = [report EXCEPT ![Scout!Slug(m)] = y]
    BY <1>6, <2>2, <2>3 DEF Scout!writeReport
  <2>5. Scout!escalated \in Scout!Writers
    BY DEF Scout!Writers, Scout!bulk, Scout!escalated
  <2>6. /\ m \in Notes \ scouting.sparse /\ m \notin w.todo /\ w.note = m /\ w.at # "next"
        /\ (w.at = "resolve" => w.left \in 1 .. Scout!Passes) /\ w.todo \subseteq run[r].todo
    BY <1>4, <2>1, <2>2
  <2> QED
    BY <1>1, <1>4, <2>2, <2>3, <2>4, <2>5, <2>6, RunWrites
<1> QED
  BY <1>1, <1>5, <1>6

LEMMA AppendEvidence ==
    ASSUME ScoutSane, ScoutInv, NEW r \in scouting.nights, Scout!appendEvidence(r)
    PROVE  ScoutInv'
<1> DEFINE m == run[r].note
           c == [day |-> scoutDay, by |-> run[r].by]
           w == [Scout!NextPick(r) EXCEPT !.done = @ \cup {m}]
<1>1. /\ run[r] # None /\ run[r].at = "evidence"
      /\ UNCHANGED <<scouting, scoutDay, ended, report, processed>>
      /\ evidence' = [evidence EXCEPT ![m] = c] /\ run' = [run EXCEPT ![r] = w]
  BY DEF Scout!appendEvidence, Scout!At, Scout!Goes
<1>2. r \in Nights /\ run[r] \in Scout!RunRecords /\ Scouting(run[r])
  BY <1>1, RunFacts
<1>3. m \in Notes \ scouting.sparse /\ scoutDay \in Scout!Days /\ Scout!bulk \in Scout!Writers
  BY <1>1, <1>2, ScoutFacts DEF Scouting, ScoutInv, Scout!bulk, Scout!Writers, Scout!escalated
<1>4. c \in Scout!Claims /\ c.day = scoutDay /\ c.by = run[r].by
  BY <1>2, <1>3 DEF Scout!Claims, Scout!RunRecords
<1>5. w \in Scout!RunRecords /\ w.at = "next" /\ w.todo = run[r].todo /\ w.by = Scout!bulk
  <2>1. PICK u : u = [[run[r] EXCEPT !.at = "next"] EXCEPT !.note = None]
    OBVIOUS
  <2>2. u \in Scout!RunRecords /\ u.at = "next" /\ u.todo = run[r].todo
    BY <1>2, <2>1 DEF Scout!RunRecords
  <2>3. PICK v : v = [[u EXCEPT !.by = Scout!bulk] EXCEPT !.left = 0]
    OBVIOUS
  <2>4. 0 \in 0 .. 3
    OBVIOUS
  <2>5. v \in Scout!RunRecords /\ v.at = "next" /\ v.todo = run[r].todo /\ v.by = Scout!bulk
    BY <1>3, <2>2, <2>3, <2>4 DEF Scout!RunRecords
  <2>6. v = Scout!NextPick(r)
    BY <2>1, <2>3 DEF Scout!NextPick
  <2>7. w = [v EXCEPT !.done = @ \cup {m}] /\ m \in Notes
    BY <1>3, <2>6
  <2> HIDE DEF w, m
  <2> QED
    BY <2>5, <2>7 DEF Scout!RunRecords
<1>6. report[Scout!Slug(m)] # None /\ report[Scout!Slug(m)].day = scoutDay
  BY <1>1, <1>2 DEF Scouting
<1>7. Scout!Alone => report[Scout!Slug(m)].by \in {run[r].by, Scout!escalated}
  BY <1>1, <1>2 DEF Scouting
<1>8. ASSUME NEW s \in Notes, report[s] # None, report[s].note = m
      PROVE  Tells(c, report[s])
  <2>1. s = Scout!Slug(m)
    BY <1>8 DEF ScoutInv
  <2>2. c # None
    BY <1>4 DEF ScoutSane
  <2> HIDE DEF c, m
  <2> QED
    BY <1>4, <1>6, <1>7, <2>1, <2>2 DEF Tells
<1>9. Scouting(w)
  <2> HIDE DEF w
  <2> QED
    BY <1>1, <1>2, <1>5 DEF Scouting
<1> HIDE DEF m, c, w
<1>10. run[r].note = m
  BY DEF m
<1> QED
  BY <1>1, <1>3, <1>4, <1>5, <1>8, <1>9, <1>10, ClaimsWritten

LEMMA SaveScoutCursor ==
    ASSUME ScoutSane, ScoutInv, NEW r \in scouting.nights, Scout!saveScoutCursor(r)
    PROVE  ScoutInv'
<1>1. /\ run[r] # None /\ run[r].at = "next" /\ ended' = TRUE /\ run' = [run EXCEPT ![r] = None]
      /\ processed' = [n \in Notes |-> IF n \in run[r].done THEN scoutDay ELSE run[r].cursor[n]]
      /\ UNCHANGED <<scouting, scoutDay, report, evidence>>
  BY DEF Scout!saveScoutCursor, Scout!At
<1>2. run[r] \in Scout!RunRecords /\ scoutDay \in Scout!Days
  BY <1>1, RunFacts, ScoutFacts DEF ScoutInv
<1>3. processed' \in [Notes -> Scout!Days \cup {None}]
  BY <1>1, <1>2 DEF Scout!RunRecords
<1> QED
  BY <1>1, <1>3, RunMoves

LEMMA KillRun ==
    ASSUME ScoutSane, ScoutInv, NEW r \in scouting.nights, Scout!Kill(r)
    PROVE  ScoutInv'
<1>1. /\ scouting.killed /\ run' = [run EXCEPT ![r] = None]
      /\ UNCHANGED <<scouting, scoutDay, ended, report, processed, evidence>>
  BY DEF Scout!Kill
<1>2. ended' \in BOOLEAN /\ processed' \in [Notes -> Scout!Days \cup {None}]
  BY <1>1 DEF ScoutInv, Scout!TypeOK
<1> QED
  BY <1>1, <1>2, RunMoves

LEMMA Tomorrow ==
    ASSUME ScoutSane, ScoutInv, Scout!Tomorrow
    PROVE  ScoutInv'
<1>1. /\ scoutDay < scouting.until /\ (\A r \in Nights : run[r] = None) /\ scoutDay' = scoutDay + 1
      /\ ended' = FALSE /\ UNCHANGED <<scouting, report, processed, evidence, run>>
  BY DEF Scout!Tomorrow
<1>2. scouting.until \in Scout!Days /\ scoutDay \in Scout!Days /\ MaxScoutDay \in Nat
  BY ScoutFacts DEF ScoutInv, ScoutSane, Scout!SettingRecords
<1>3. scoutDay' \in Scout!Days
  BY <1>1, <1>2 DEF Scout!Days
<1>4. Scout!TypeOK'
  BY <1>1, <1>3 DEF ScoutInv, Scout!TypeOK, Scout!Days, Scout!Reports, Scout!Claims,
     Scout!RunRecords
<1>5. \A r \in Nights : run'[r] = None
  BY <1>1
<1>6. ~scouting'.killed => Told'
  BY <1>1 DEF ScoutInv, Told, Tells, Flying, Scout!Alone, Scout!escalated
<1>7. \A s \in Notes : report'[s] # None =>
          Scout!Slug(report[s].note)' = s /\ report'[s].note \notin scouting'.sparse
  BY <1>1 DEF ScoutInv, Scout!Slug
<1> QED
  BY <1>4, <1>5, <1>6, <1>7 DEF ScoutInv

LEMMA ScoutStep ==
    ASSUME ScoutSane, ScoutInv, [Scout!Next]_(Scout!vars)
    PROVE  ScoutInv'
<1>1. CASE UNCHANGED Scout!vars
  <2>1. UNCHANGED <<scouting, scoutDay, ended, report, processed, evidence, run>>
    BY <1>1 DEF Scout!vars
  <2>2. Scout!TypeOK'
    BY <2>1 DEF ScoutInv, Scout!TypeOK, Scout!Days, Scout!Reports, Scout!Claims, Scout!RunRecords
  <2>3. ASSUME NEW r \in Nights, run'[r] # None
        PROVE  r \in scouting'.nights /\ Scouting(run[r])'
    BY <2>1, <2>3 DEF ScoutInv, Scouting, New, Scout!Slug, Scout!Lately, Scout!Passes,
       Scout!Alone, Scout!bulk, Scout!escalated
  <2>4. (~scouting.killed => Told)'
    BY <2>1 DEF ScoutInv, Told, Flying, Tells, Scout!Alone, Scout!escalated
  <2>5. \A s \in Notes : report'[s] # None =>
            Scout!Slug(report[s].note)' = s /\ report'[s].note \notin scouting'.sparse
    BY <2>1 DEF ScoutInv, Scout!Slug
  <2> QED
    BY <2>2, <2>3, <2>4, <2>5 DEF ScoutInv
<1>2. CASE Scout!Tomorrow
  BY <1>2, Tomorrow
<1>3. CASE \E r \in scouting.nights :
              \/ \E n \in Notes : Scout!skipSparse(r, n) \/ Scout!runOnePick(r, n)
              \/ Scout!runScoutStage(r) \/ Scout!selfResolveOne(r) \/ Scout!escalateOne(r)
              \/ Scout!appendEvidence(r) \/ Scout!saveScoutCursor(r) \/ Scout!Kill(r)
  <2>1. PICK r \in scouting.nights :
              \/ \E n \in Notes : Scout!skipSparse(r, n) \/ Scout!runOnePick(r, n)
              \/ Scout!runScoutStage(r) \/ Scout!selfResolveOne(r) \/ Scout!escalateOne(r)
              \/ Scout!appendEvidence(r) \/ Scout!saveScoutCursor(r) \/ Scout!Kill(r)
    BY <1>3
  <2> QED
    BY <2>1, RunScoutStage, SkipSparse, RunOnePick, SelfResolveOne, EscalateOne, AppendEvidence,
       SaveScoutCursor, KillRun
<1> QED
  BY <1>1, <1>2, <1>3 DEF Scout!Next

LEMMA ScoutStarts ==
    ASSUME ScoutSane, Scout!Init
    PROVE  ScoutInv
<1>1. \A s \in Notes : report[s] = None /\ processed[s] = None /\ evidence[s] = None
  BY DEF Scout!Init
<1>2. \A r \in Nights : run[r] = None
  BY DEF Scout!Init
<1>3. Scout!TypeOK
  <2>0. scoutDay = 0 /\ scouting \in ScoutSettings /\ ended = FALSE
    BY DEF Scout!Init
  <2>1. scoutDay \in Scout!Days
    <3>1. MaxScoutDay \in Nat
      BY DEF ScoutSane
    <3> QED
      BY <2>0, <3>1 DEF Scout!Days
  <2>2. /\ report \in [Notes -> Scout!Reports \cup {None}]
        /\ processed \in [Notes -> Scout!Days \cup {None}]
        /\ evidence \in [Notes -> Scout!Claims \cup {None}]
        /\ run \in [Nights -> Scout!RunRecords \cup {None}]
    BY DEF Scout!Init
  <2> QED
    BY <2>0, <2>1, <2>2 DEF Scout!TypeOK
<1> QED
  BY <1>1, <1>2, <1>3 DEF ScoutInv, Told

\* A report of the bulk model is about a note that has none from within the cooldown.
LEMMA StepAfresh ==
    ASSUME ScoutSane, ScoutInv, Scout!Next, Scout!Alone, NEW s \in Notes,
           report'[s] # report[s], report'[s].by = Scout!bulk
    PROVE  report[s] = None \/ report[s].note # report'[s].note \/ ~Scout!Lately(report[s].day)
<1>1. report \in [Notes -> Scout!Reports \cup {None}]
  BY DEF ScoutInv, Scout!TypeOK
<1>2. ASSUME NEW m \in Notes, NEW b, Scout!writeReport(m, b)
      PROVE  s = Scout!Slug(m) /\ report'[s].note = m /\ report'[s].by = b
  BY <1>1, <1>2 DEF Scout!writeReport
<1>3. PICK r \in scouting.nights :
          \/ \E n \in Notes : Scout!runOnePick(r, n)
          \/ Scout!selfResolveOne(r) \/ Scout!escalateOne(r)
  BY DEF Scout!Next, Scout!skipSparse, Scout!runScoutStage, Scout!appendEvidence,
     Scout!saveScoutCursor, Scout!Kill, Scout!Tomorrow
<1>4. ASSUME NEW n \in Notes, Scout!runOnePick(r, n)
      PROVE  report[s] = None \/ report[s].note # report'[s].note \/ ~Scout!Lately(report[s].day)
  <2>1. run[r] # None /\ n \in run[r].todo /\ Scout!writeReport(n, Scout!bulk)
    BY <1>4 DEF Scout!runOnePick, Scout!At
  <2>2. New(n)
    BY <2>1, RunFacts DEF Scouting
  <2> QED
    BY <1>2, <2>1, <2>2 DEF New
<1>5. CASE Scout!selfResolveOne(r)
  <2>1. /\ run[r] # None /\ run[r].at = "resolve"
        /\ Scout!writeReport(run[r].note, Scout!Passes - run[r].left + 1)
    BY <1>5 DEF Scout!selfResolveOne, Scout!At
  <2>2. run[r].note \in Notes /\ run[r].left \in 1 .. Scout!Passes /\ Scout!Passes \in 1 .. 3
    BY <2>1, RunFacts, ScoutFacts DEF Scouting, ScoutInv
  <2>3. report'[s].by = Scout!Passes - run[r].left + 1
    BY <1>2, <2>1, <2>2
  <2> QED
    BY <2>2, <2>3 DEF Scout!bulk
<1>6. CASE Scout!escalateOne(r)
  <2>1. run[r] # None /\ run[r].at = "escalate" /\ Scout!writeReport(run[r].note, Scout!escalated)
    BY <1>6 DEF Scout!escalateOne, Scout!At
  <2>2. run[r].note \in Notes
    BY <2>1, RunFacts DEF Scouting
  <2> QED
    BY <1>2, <2>1, <2>2 DEF Scout!bulk, Scout!escalated
<1> QED
  BY <1>3, <1>4, <1>5, <1>6

\* Whatever happens, when no night is under way and none was killed, every report has its claims
\* in the log, of the pass that wrote it where nights are one at a time.
THEOREM ReportsHaveEvidence ==
    ASSUME ScoutSane
    PROVE  Scout!Spec => []EvidenceOfReports
<1>1. Scout!Init => ScoutInv
  BY ScoutStarts
<1>2. ASSUME ScoutInv, [Scout!Next]_(Scout!vars)
      PROVE  ScoutInv'
  BY <1>2, ScoutStep
<1>3. ScoutInv => EvidenceOfReports
  <2>1. SUFFICES ASSUME ScoutInv, ~scouting.killed, \A r \in Nights : run[r] = None,
                        NEW s \in Notes, report[s] # None
                 PROVE  Tells(evidence[report[s].note], report[s])
    BY DEF EvidenceOfReports, Scout!EvidenceOfReports, Tells
  <2>2. \/ \E r \in Nights : Flying(run[r], report[s].note)
        \/ Tells(evidence[report[s].note], report[s])
    BY <2>1 DEF ScoutInv, Told
  <2> QED
    BY <2>1, <2>2 DEF Flying
<1> QED
  BY <1>1, <1>2, <1>3, PTL DEF Scout!Spec

\* With one night at a time, killed wherever it may be, the bulk model is not asked about a note
\* that has a report from within the cooldown.
THEOREM ScoutsAfresh ==
    ASSUME ScoutSane
    PROVE  Scout!Spec => ScoutedAfresh
<1>1. Scout!Init => ScoutInv
  BY ScoutStarts
<1>2. ASSUME ScoutInv, [Scout!Next]_(Scout!vars)
      PROVE  ScoutInv'
  BY <1>2, ScoutStep
<1> DEFINE Afresh == Scout!Alone => \A s \in Notes : LET old == report[s] new == report'[s] IN
              (new # old /\ new.by = Scout!bulk) =>
                  old = None \/ old.note # new.note \/ ~Scout!Lately(old.day)
<1>3. ASSUME ScoutInv, [Scout!Next]_(Scout!vars)
      PROVE  [Afresh]_(Scout!vars)
  <2>1. CASE UNCHANGED Scout!vars
    BY <2>1
  <2>2. CASE Scout!Next
    BY <1>3, <2>2, StepAfresh
  <2> QED
    BY <1>3, <2>1, <2>2
<1> QED
  BY <1>1, <1>2, <1>3, PTL DEF Scout!Spec, ScoutedAfresh, Scout!ScoutedAfresh

---------------------------------------------------------------------------
(* Whose turn it is at the scout stage.                                        *)

\* The days of the reports of the notes' slugs.
Lasts == [n \in Notes |-> LET x == report[Scout!Slug(n)] IN IF x = None THEN None ELSE x.day]

\* The first day that n is due, by the reports; the notes with a report of a day, and those with
\* one of the days from i on and before j.
Due(last, n, cooldown) == IF last[n] = None THEN 0 ELSE last[n] + cooldown + 1
On(last, ns, today) == {m \in ns : last[m] = today}
Between(last, ns, i, j) == {m \in ns : last[m] # None /\ i <= last[m] /\ last[m] < j}

\* Every day that a note is due and is not looked at, as many others are as a night may take, none
\* of them twice; and no note is due for longer than a cooldown.
Turns(last, s, today) ==
    \A n \in s.notes : LET due == Due(last, n, s.cooldown) IN
        due < today => /\ s.maxItems > 0 /\ today <= due + s.cooldown
                       /\ Cardinality(Between(last, s.notes, due, today))
                            >= s.maxItems * (today - due)

\* When those in left are looked at, no note is due any more, or as many as a night may take have
\* been looked at today.
Looked(last, s, today, left) ==
    \/ \A n \in s.notes : n \in left \/ (last[n] # None /\ last[n] + s.cooldown >= today)
    \/ s.maxItems > 0 /\ Cardinality(left \cup On(last, s.notes, today)) >= s.maxItems

\* Notes in a cursor have a report that is no older.
Remembers(last, cursor) ==
    \A n \in Notes : cursor[n] # None => last[n] # None /\ cursor[n] <= last[n]

\* What a run looks at was due when the night began, or is in another run's reports of today.
Taking(last, s, today, w) ==
    /\ w.todo \subseteq s.notes /\ Remembers(last, w.cursor) /\ Looked(last, s, today, w.todo)
    /\ \A p \in w.todo : last[p] = None \/ last[p] = today \/ last[p] + s.cooldown < today
    /\ \A p \in w.done : last[p] = today

TurnInv == /\ Turns(Lasts, scouting, scoutDay) /\ Remembers(Lasts, processed)
           /\ ended => Looked(Lasts, scouting, scoutDay, {})
           /\ \A r \in Nights : run[r] # None => Taking(Lasts, scouting, scoutDay, run[r])

Turning == ScoutSane /\ IsFiniteSet(Notes) /\ ScoutInv /\ Scout!Rotating /\ TurnInv

\* Every slug has a report of some day, or none.
Times(last) == \A n \in Notes : last[n] = None \/ last[n] \in Nat

\* ScoutRun counts with the same operator.
LEMMA SameCount == \A S : Scout!Cardinality(S) = Cardinality(S)
  BY DEF Scout!Cardinality, Cardinality

LEMMA Sizes ==
    ASSUME NEW S, IsFiniteSet(S), NEW A, NEW B, A \subseteq B, B \subseteq S
    PROVE  /\ Cardinality(A) \in Nat /\ Cardinality(B) \in Nat
           /\ Cardinality(A) <= Cardinality(B)
           /\ Cardinality(A) = Cardinality(B) => A = B
<1>1. IsFiniteSet(B)
  BY FS_Subset
<1> QED
  BY <1>1, FS_Subset, FS_CardinalityType

\* The first few of the notes that may be looked at: all, or as many as the night may take.
LEMMA PicksLook ==
    ASSUME NEW s, s.maxItems \in Nat, NEW last, NEW today, NEW ns, ns \subseteq s.notes,
           IsFiniteSet(s.notes), NEW picks \in SUBSET ns,
           picks = ns \/ (s.maxItems > 0 /\ Cardinality(picks) = s.maxItems),
           \A n \in s.notes \ ns : last[n] # None /\ last[n] + s.cooldown >= today
    PROVE  Looked(last, s, today, picks)
<1>1. CASE picks = ns
  BY <1>1 DEF Looked
<1>2. CASE s.maxItems > 0 /\ Cardinality(picks) = s.maxItems
  <2> PICK both : both = picks \cup On(last, s.notes, today)
    OBVIOUS
  <2>1. picks \subseteq both /\ both \subseteq s.notes
    BY DEF On
  <2>2. Cardinality(picks) <= Cardinality(both) /\ Cardinality(both) \in Nat
    BY <2>1, Sizes
  <2> QED
    BY <1>2, <2>2 DEF Looked
<1> QED
  BY <1>1, <1>2

\* More reports of today leave no less to be looked at.
LEMMA StillLooked ==
    ASSUME NEW s, s.maxItems \in Nat, s.cooldown \in Nat, IsFiniteSet(s.notes),
           NEW today \in Nat, NEW last, NEW new,
           NEW left \in SUBSET s.notes, NEW rest \in SUBSET s.notes,
           None \notin Nat, \A n \in s.notes : new[n] = last[n] \/ new[n] = today,
           \A n \in left \ rest : new[n] = today,
           Looked(last, s, today, left)
    PROVE  Looked(new, s, today, rest)
<1>1. CASE \A n \in s.notes : n \in left \/ (last[n] # None /\ last[n] + s.cooldown >= today)
  <2>1. ASSUME NEW n \in s.notes, n \notin rest
        PROVE  new[n] # None /\ new[n] + s.cooldown >= today
    <3>1. CASE new[n] = today
      BY <3>1
    <3>2. CASE new[n] # today
      BY <1>1, <2>1, <3>2
    <3> QED
      BY <3>1, <3>2
  <2> QED
    BY <2>1 DEF Looked
<1>2. CASE s.maxItems > 0 /\ Cardinality(left \cup On(last, s.notes, today)) >= s.maxItems
  <2> PICK old : old = left \cup On(last, s.notes, today)
    OBVIOUS
  <2> PICK both : both = rest \cup On(new, s.notes, today)
    OBVIOUS
  <2>1. old \subseteq both /\ both \subseteq s.notes
    BY DEF On
  <2>2. /\ Cardinality(old) <= Cardinality(both)
        /\ Cardinality(old) \in Nat /\ Cardinality(both) \in Nat
    BY <2>1, Sizes
  <2> QED
    BY <1>2, <2>2 DEF Looked
<1> QED
  BY <1>1, <1>2 DEF Looked

\* A report about notes that were not due takes nobody out of the turn of another.
LEMMA StillTurns ==
    ASSUME NEW s, s.maxItems \in Nat, s.cooldown \in Nat,
           s.notes \subseteq Notes, IsFiniteSet(s.notes),
           NEW today \in Nat, NEW last, NEW new, Times(last), None \notin Nat,
           \A n \in s.notes : \/ new[n] = last[n]
                              \/ /\ new[n] = today
                                 /\ last[n] = None \/ last[n] = today \/ last[n] + s.cooldown < today,
           Turns(last, s, today)
    PROVE  Turns(new, s, today)
<1>1. ASSUME NEW n \in s.notes, Due(new, n, s.cooldown) < today
      PROVE  /\ s.maxItems > 0 /\ today <= Due(new, n, s.cooldown) + s.cooldown
             /\ Cardinality(Between(new, s.notes, Due(new, n, s.cooldown), today))
                  >= s.maxItems * (today - Due(new, n, s.cooldown))
  <2>1. new[n] = last[n]
    BY <1>1 DEF Due
  <2> PICK due : due = Due(last, n, s.cooldown)
    OBVIOUS
  <2>2. due = Due(new, n, s.cooldown) /\ due \in Nat
    BY <2>1 DEF Due, Times
  <2>3. /\ s.maxItems > 0 /\ today <= due + s.cooldown
        /\ Cardinality(Between(last, s.notes, due, today)) >= s.maxItems * (today - due)
    BY <1>1, <2>2 DEF Turns
  <2> PICK old : old = Between(last, s.notes, due, today)
    OBVIOUS
  <2> PICK both : both = Between(new, s.notes, due, today)
    OBVIOUS
  <2>4. ASSUME NEW m \in old
        PROVE  m \in both
    <3>1. m \in s.notes /\ last[m] \in Nat /\ due <= last[m] /\ last[m] < today
      BY DEF Between, Times
    <3>2. ~(last[m] = None \/ last[m] = today \/ last[m] + s.cooldown < today)
      BY <2>2, <2>3, <3>1
    <3>3. new[m] = last[m]
      BY <3>1, <3>2
    <3> QED
      BY <3>1, <3>3 DEF Between
  <2>5. old \subseteq both /\ both \subseteq s.notes
    BY <2>4 DEF Between
  <2>6. /\ Cardinality(old) <= Cardinality(both)
        /\ Cardinality(old) \in Nat /\ Cardinality(both) \in Nat
    BY <2>5, Sizes
  <2> PICK c : c = s.maxItems * (today - due)
    OBVIOUS
  <2>7. today - due \in Nat /\ c \in Nat
    BY <1>1, <2>2
  <2> QED
    BY <2>2, <2>3, <2>6, <2>7
<1> QED
  BY <1>1 DEF Turns

\* A day that ends adds as many notes as a night may take to those that were looked at since a
\* note was due; so it had its turn before there were more of them than there are notes.
LEMMA DayTurns ==
    ASSUME NEW s, s.maxItems \in Nat, s.cooldown \in Nat,
           s.notes \subseteq Notes, IsFiniteSet(s.notes),
           NEW today \in Nat, NEW last, Times(last), None \notin Nat,
           s.maxItems = 0 \/ Cardinality(s.notes) <= s.maxItems * (s.cooldown + 1),
           Turns(last, s, today), Looked(last, s, today, {})
    PROVE  Turns(last, s, today + 1)
<1>1. ASSUME NEW n \in s.notes, NEW due, due = Due(last, n, s.cooldown), due < today + 1
      PROVE  /\ s.maxItems > 0 /\ today + 1 <= due + s.cooldown
             /\ Cardinality(Between(last, s.notes, due, today + 1))
                  >= s.maxItems * ((today + 1) - due)
  <2>1. due \in Nat /\ due <= today
    BY <1>1 DEF Due, Times
  <2>2. ~(last[n] # None /\ last[n] + s.cooldown >= today)
    BY <1>1, <2>1 DEF Due, Times
  <2>3. s.maxItems > 0 /\ Cardinality(On(last, s.notes, today)) >= s.maxItems
    <3>1. {} \cup On(last, s.notes, today) = On(last, s.notes, today)
      OBVIOUS
    <3> QED
      BY <1>1, <2>2, <3>1 DEF Looked
  <2> PICK old : old = Between(last, s.notes, due, today)
    OBVIOUS
  <2> PICK on : on = On(last, s.notes, today)
    OBVIOUS
  <2> PICK both : both = Between(last, s.notes, due, today + 1)
    OBVIOUS
  <2>4. both = old \cup on /\ old \cap on = {} /\ both \subseteq s.notes \ {n}
    <3>1. ASSUME NEW m \in s.notes
          PROVE  m \in both <=> m \in old \/ m \in on
      <4>1. last[m] = None \/ last[m] \in Nat
        BY DEF Times
      <4>2. m \in both <=> last[m] # None /\ due <= last[m] /\ last[m] < today + 1
        BY DEF Between
      <4>3. m \in old <=> last[m] # None /\ due <= last[m] /\ last[m] < today
        BY DEF Between
      <4>4. m \in on <=> last[m] = today
        BY DEF On
      <4>5. CASE last[m] = None
        BY <4>2, <4>3, <4>4, <4>5
      <4>6. CASE last[m] \in Nat
        BY <2>1, <4>2, <4>3, <4>4, <4>6
      <4> QED
        BY <4>1, <4>5, <4>6
    <3>2. old \subseteq s.notes /\ on \subseteq s.notes /\ both \subseteq s.notes
      BY DEF Between, On
    <3>3. old \cap on = {}
      BY DEF Between, On
    <3>4. n \notin both
      BY <1>1, <2>1, <2>2 DEF Between, Due, Times
    <3> QED
      BY <3>1, <3>2, <3>3, <3>4
  <2>5. /\ IsFiniteSet(old) /\ IsFiniteSet(on) /\ IsFiniteSet(both)
        /\ Cardinality(old) \in Nat /\ Cardinality(on) \in Nat /\ Cardinality(both) \in Nat
        /\ Cardinality(s.notes) \in Nat
    <3>1. old \subseteq s.notes /\ on \subseteq s.notes /\ both \subseteq s.notes
      BY <2>4
    <3> QED
      BY <3>1, FS_Subset, FS_CardinalityType
  <2>6. Cardinality(both) = Cardinality(old) + Cardinality(on)
    <3>1. Cardinality(old \cap on) = 0
      BY <2>4, FS_EmptySet
    <3>2. Cardinality(old \cup on) = Cardinality(old) + Cardinality(on) - Cardinality(old \cap on)
      BY <2>5, FS_Union
    <3>3. Cardinality(both) = Cardinality(old) + Cardinality(on) - Cardinality(old \cap on)
      BY <2>4, <3>2
    <3> QED
      BY <2>5, <3>1, <3>3
  <2>7. Cardinality(both) < Cardinality(s.notes)
    BY <2>4, Sizes
  <2> PICK k : k = today - due
    OBVIOUS
  <2>8. k \in Nat /\ Cardinality(old) >= s.maxItems * k /\ k <= s.cooldown
    <3>1. CASE due < today
      <4>1. /\ today <= due + s.cooldown
            /\ Cardinality(Between(last, s.notes, due, today)) >= s.maxItems * (today - due)
        BY <1>1, <3>1 DEF Turns
      <4>2. today - due = k /\ k \in Nat /\ k <= s.cooldown
        BY <2>1, <3>1, <4>1
      <4>3. Cardinality(old) >= s.maxItems * (today - due)
        BY <4>1
      <4>4. Cardinality(old) >= s.maxItems * k
        BY <4>2, <4>3
      <4> QED
        BY <4>2, <4>4
    <3>2. CASE due = today
      <4>1. k = 0 /\ s.maxItems * 0 = 0
        BY <2>1, <3>2
      <4> QED
        BY <2>5, <4>1
    <3> QED
      BY <2>1, <3>1, <3>2
  <2> PICK c : c = s.maxItems * k
    OBVIOUS
  <2>9. c \in Nat /\ s.maxItems * (k + 1) = c + s.maxItems /\ (today + 1) - due = k + 1
    BY <2>1, <2>8
  <2>10. Cardinality(both) >= s.maxItems * (k + 1)
    BY <2>3, <2>5, <2>6, <2>8, <2>9
  <2>11. k + 1 <= s.cooldown
    <3>1. SUFFICES ASSUME k = s.cooldown
                   PROVE  FALSE
      BY <2>8
    <3>2. Cardinality(s.notes) <= s.maxItems * (k + 1)
      BY <2>3, <3>1
    <3>3. c + s.maxItems \in Nat
      BY <2>9
    <3> QED
      BY <2>5, <2>7, <2>9, <2>10, <3>2, <3>3
  <2>12. Cardinality(both) >= s.maxItems * ((today + 1) - due)
    BY <2>9, <2>10
  <2>13. today + 1 <= due + s.cooldown
    BY <2>1, <2>8, <2>11
  <2> QED
    BY <2>3, <2>12, <2>13
<1> QED
  BY <1>1 DEF Turns

LEMMA TurnFacts ==
    ASSUME ScoutSane, IsFiniteSet(Notes), ScoutInv
    PROVE  /\ scouting.notes \subseteq Notes /\ IsFiniteSet(scouting.notes)
           /\ scouting.maxItems \in Nat /\ scouting.cooldown \in Nat /\ scoutDay \in Nat
           /\ None \notin Nat /\ Times(Lasts)
           /\ \A n \in Notes : /\ report[Scout!Slug(n)] = None => Lasts[n] = None
                               /\ report[Scout!Slug(n)] # None => /\ Lasts[n] = report[Scout!Slug(n)].day
                                                                  /\ Lasts[n] # None
<1>1. /\ scouting \in Scout!SettingRecords /\ scouting.notes \subseteq Notes
      /\ scouting.cooldown \in Nat /\ scoutDay \in Nat /\ Scout!Days \subseteq Nat
      /\ \A n \in Notes : Scout!Slug(n) \in Notes
  BY ScoutFacts DEF ScoutInv
<1>2. scouting.maxItems \in Nat
  BY <1>1 DEF Scout!SettingRecords
<1>3. IsFiniteSet(scouting.notes)
  BY <1>1, FS_Subset
<1>4. None \notin Nat
  BY ConstantsAssumption
<1>5. report \in [Notes -> Scout!Reports \cup {None}]
  BY DEF ScoutInv, Scout!TypeOK
<1>6. ASSUME NEW n \in Notes
      PROVE  /\ report[Scout!Slug(n)] = None => Lasts[n] = None
             /\ report[Scout!Slug(n)] # None => /\ Lasts[n] = report[Scout!Slug(n)].day
                                                /\ Lasts[n] \in Nat
  <2> PICK x : x = report[Scout!Slug(n)]
    OBVIOUS
  <2>1. x = None \/ (x \in Scout!Reports /\ x.day \in Nat)
    BY <1>1, <1>5 DEF Scout!Reports
  <2>2. Lasts[n] = IF x = None THEN None ELSE x.day
    BY DEF Lasts
  <2> QED
    BY <2>1, <2>2
<1>7. Times(Lasts)
  BY <1>6 DEF Times
<1> QED
  BY <1>1, <1>2, <1>3, <1>4, <1>6, <1>7

\* A step of run r after which every slug has a report of the day it had one of.
LEMMA TurnMoves ==
    ASSUME Turning, NEW r \in scouting.nights, NEW w,
           run' = [run EXCEPT ![r] = w], UNCHANGED <<scouting, scoutDay>>, Lasts' = Lasts,
           NEW p, processed' = p, Remembers(Lasts, p),
           ended' => Looked(Lasts, scouting, scoutDay, {}),
           w # None => Taking(Lasts, scouting, scoutDay, w)
    PROVE  TurnInv'
<1>1. run \in [Nights -> Scout!RunRecords \cup {None}] /\ r \in Nights
  BY ScoutFacts DEF Turning, ScoutInv, Scout!TypeOK
<1>2. run'[r] = w /\ \A q \in Nights : q # r => run'[q] = run[q]
  BY <1>1
<1> PICK last : last = Lasts
  OBVIOUS
<1>3. Turns(last, scouting, scoutDay)
  BY DEF Turning, TurnInv
<1>4. ASSUME NEW q \in Nights, run'[q] # None
      PROVE  Taking(last, scouting, scoutDay, run'[q])
  BY <1>1, <1>2, <1>4 DEF Turning, TurnInv
<1> QED
  BY <1>3, <1>4 DEF TurnInv

\* All notes that are due, or as many as the night may take.
LEMMA CroppedNotes ==
    ASSUME NEW ns, NEW picks \in Scout!Cropped(ns)
    PROVE  /\ picks \in SUBSET ns
           /\ picks = ns \/ (scouting.maxItems # 0 /\ Cardinality(picks) = scouting.maxItems)
<1>1. CASE scouting.maxItems = 0 \/ Scout!Cardinality(ns) <= scouting.maxItems
  <2>1. Scout!Cropped(ns) = {ns}
    BY <1>1, Zenon DEF Scout!Cropped
  <2> QED
    BY <2>1
<1>2. CASE ~(scouting.maxItems = 0 \/ Scout!Cardinality(ns) <= scouting.maxItems)
  <2>1. Scout!Cropped(ns) = {some \in SUBSET ns : Scout!Cardinality(some) = scouting.maxItems}
    BY <1>2, Zenon DEF Scout!Cropped
  <2>2. picks \in SUBSET ns /\ Scout!Cardinality(picks) = scouting.maxItems
    BY <2>1
  <2> QED
    BY <1>2, <2>2, SameCount
<1> QED
  BY <1>1, <1>2

\* A night picks of the notes that are due.
LEMMA StageTurns ==
    ASSUME Turning, NEW r \in scouting.nights, Scout!runScoutStage(r)
    PROVE  TurnInv'
<1>1. run[r] = None /\ UNCHANGED <<scouting, scoutDay, report, processed, evidence>>
  BY DEF Scout!runScoutStage
<1>2. PICK picks \in Scout!Picks :
          IF picks = {} THEN ended' = TRUE /\ UNCHANGED run
          ELSE /\ Scout!Goes(r, [at |-> "next", cursor |-> Scout!loadScoutCursor, todo |-> picks,
                             done |-> {}, note |-> None, by |-> Scout!bulk, left |-> 0])
               /\ UNCHANGED ended
  BY DEF Scout!runScoutStage
<1>3. r \in Nights /\ run \in [Nights -> Scout!RunRecords \cup {None}] /\ Lasts' = Lasts
  BY <1>1, ScoutFacts DEF Turning, ScoutInv, Scout!TypeOK, Lasts, Scout!Slug
<1> PICK last : last = Lasts
  OBVIOUS
<1> PICK due : due = Scout!Eligible
  OBVIOUS
<1>4. /\ due \subseteq scouting.notes /\ picks \in SUBSET due
      /\ picks = due \/ (scouting.maxItems > 0 /\ Cardinality(picks) = scouting.maxItems)
  <2>1. due \subseteq scouting.notes /\ scouting.maxItems \in Nat
    BY TurnFacts DEF Turning, Scout!Eligible
  <2>2. /\ picks \in SUBSET due
        /\ picks = due \/ (scouting.maxItems # 0 /\ Cardinality(picks) = scouting.maxItems)
    BY CroppedNotes DEF Scout!Picks
  <2> QED
    BY <2>1, <2>2
<1> PICK cursor : cursor = Scout!loadScoutCursor
  OBVIOUS
<1>5. ASSUME NEW n \in Notes
      PROVE  /\ cursor[n] = IF Scout!Lately(processed[n]) THEN processed[n] ELSE None
             /\ Scout!Lately(processed[n]) =>
                   processed[n] # None /\ processed[n] + scouting.cooldown >= scoutDay
             /\ processed[n] = None \/ processed[n] \in Nat
  <2>1. processed[n] = None \/ processed[n] \in Nat
    BY ScoutFacts DEF Turning, ScoutInv, Scout!TypeOK
  <2> QED
    BY <2>1 DEF Scout!loadScoutCursor, Scout!Lately
<1>6. Remembers(last, cursor) /\ Remembers(last, processed)
  <2>1. Remembers(last, processed)
    BY DEF Turning, TurnInv
  <2>2. ASSUME NEW n \in Notes, cursor[n] # None
        PROVE  cursor[n] = processed[n] /\ processed[n] # None
    BY <1>5, <2>2
  <2>3. ASSUME NEW n \in Notes, cursor[n] # None
        PROVE  last[n] # None /\ cursor[n] <= last[n]
    BY <2>1, <2>2, <2>3 DEF Remembers
  <2> QED
    BY <2>1, <2>3 DEF Remembers
<1>7. ASSUME NEW n \in scouting.notes, n \notin due
      PROVE  last[n] # None /\ last[n] + scouting.cooldown >= scoutDay
  <2>1. /\ n \in Notes /\ (last[n] = None \/ last[n] \in Nat)
        /\ scouting.cooldown \in Nat /\ scoutDay \in Nat
    BY TurnFacts DEF Turning, Times
  <2>2. CASE Scout!loadCooldown(n)
    BY <2>1, <2>2, TurnFacts DEF Turning, Scout!loadCooldown, Scout!Lately
  <2>3. CASE cursor[n] # None
    BY <1>5, <1>6, <2>1, <2>3 DEF Remembers
  <2> QED
    BY <1>7, <2>2, <2>3 DEF Scout!Eligible
<1>8. Looked(last, scouting, scoutDay, picks)
  BY <1>4, <1>7, TurnFacts, PicksLook DEF Turning
<1>9. CASE picks = {}
  <2>1. run' = [run EXCEPT ![r] = None]
    BY <1>1, <1>2, <1>3, <1>9
  <2> QED
    BY <1>1, <1>3, <1>6, <1>8, <1>9, <2>1, TurnMoves
<1>10. CASE picks # {}
  <2> PICK w : w = [at |-> "next", cursor |-> cursor, todo |-> picks, done |-> {},
                    note |-> None, by |-> Scout!bulk, left |-> 0]
    OBVIOUS
  <2>1. run' = [run EXCEPT ![r] = w] /\ UNCHANGED ended
    BY <1>2, <1>10 DEF Scout!Goes
  <2>2. w.cursor = cursor /\ w.todo = picks /\ w.done = {}
    OBVIOUS
  <2>3. \A n \in picks :
           last[n] = None \/ last[n] = scoutDay \/ last[n] + scouting.cooldown < scoutDay
    <3>1. ASSUME NEW n \in picks
          PROVE  last[n] = None \/ last[n] + scouting.cooldown < scoutDay
      <4>1. /\ n \in Notes /\ (last[n] = None \/ last[n] \in Nat)
            /\ scouting.cooldown \in Nat /\ scoutDay \in Nat
        BY <1>4, TurnFacts DEF Turning, Times
      <4>2. ~Scout!loadCooldown(n)
        BY <1>4 DEF Scout!Eligible
      <4> QED
        BY <4>1, <4>2, TurnFacts DEF Turning, Scout!loadCooldown, Scout!Lately
    <3> QED
      BY <3>1
  <2>4. Taking(last, scouting, scoutDay, w)
    BY <1>4, <1>6, <1>8, <2>2, <2>3 DEF Taking
  <2>5. ended' => Looked(last, scouting, scoutDay, {})
    BY <2>1 DEF Turning, TurnInv
  <2> QED
    BY <1>1, <1>3, <1>6, <2>1, <2>4, <2>5, TurnMoves
<1> QED
  BY <1>9, <1>10

\* A report about the pick at hand is one of today, whichever report its slug had.
LEMMA TurnWrites ==
    ASSUME Turning, NEW r \in scouting.nights, run[r] # None, NEW m \in scouting.notes,
           NEW w, w.cursor = run[r].cursor, w.done = run[r].done,
           w.todo \in SUBSET run[r].todo, run[r].todo \subseteq w.todo \cup {m},
           Lasts[m] = None \/ Lasts[m] = scoutDay \/ Lasts[m] + scouting.cooldown < scoutDay,
           NEW b \in Scout!Writers, Scout!writeReport(m, b),
           run' = [run EXCEPT ![r] = w], UNCHANGED <<scouting, scoutDay, ended, processed>>
    PROVE  TurnInv'
<1>1. /\ run \in [Nights -> Scout!RunRecords \cup {None}] /\ r \in Nights /\ m \in Notes
      /\ report \in [Notes -> Scout!Reports \cup {None}]
      /\ \A n \in Notes : Scout!Slug(n) \in Notes
  BY ScoutFacts DEF Turning, ScoutInv, Scout!TypeOK
<1>2. run'[r] = w /\ \A q \in Nights : q # r => run'[q] = run[q]
  BY <1>1
<1> PICK last : last = Lasts
  OBVIOUS
<1> PICK new : new = Lasts'
  OBVIOUS
<1>3. /\ scouting.notes \subseteq Notes /\ IsFiniteSet(scouting.notes)
      /\ scouting.maxItems \in Nat /\ scouting.cooldown \in Nat /\ scoutDay \in Nat
      /\ None \notin Nat /\ Times(last)
  BY TurnFacts DEF Turning
<1>4. ASSUME NEW n \in Notes
      PROVE  /\ Scout!Slug(n) = Scout!Slug(m) => new[n] = scoutDay /\ last[n] = last[m]
             /\ Scout!Slug(n) # Scout!Slug(m) => new[n] = last[n]
  <2> PICK x : x = [note |-> m, day |-> scoutDay, by |-> b]
    OBVIOUS
  <2> PICK fresh : fresh = report'
    OBVIOUS
  <2>1. fresh = [report EXCEPT ![Scout!Slug(m)] = x] /\ x.day = scoutDay
    BY DEF Scout!writeReport
  <2>4. x \in Scout!Reports /\ x # None
    BY <1>1, ScoutFacts DEF Scout!Reports, Turning, ScoutSane, ScoutInv
  <2>2. /\ last[n] = IF report[Scout!Slug(n)] = None THEN None ELSE report[Scout!Slug(n)].day
        /\ last[m] = IF report[Scout!Slug(m)] = None THEN None ELSE report[Scout!Slug(m)].day
    BY <1>1 DEF Lasts
  <2>3. new[n] = IF fresh[Scout!Slug(n)] = None THEN None ELSE fresh[Scout!Slug(n)].day
    BY DEF Lasts, Scout!Slug
  <2> QED
    BY <1>1, <2>1, <2>2, <2>3, <2>4
<1>5. \A n \in scouting.notes :
         \/ new[n] = last[n]
         \/ /\ new[n] = scoutDay
            /\ last[n] = None \/ last[n] = scoutDay \/ last[n] + scouting.cooldown < scoutDay
  BY <1>3, <1>4
<1>6. Turns(new, scouting, scoutDay)
  <2>1. Turns(last, scouting, scoutDay)
    BY DEF Turning, TurnInv
  <2> QED
    BY <1>3, <1>5, <2>1, StillTurns
<1>7. ASSUME NEW left \in SUBSET scouting.notes, NEW rest \in SUBSET scouting.notes,
             left \subseteq rest \cup {m}, Looked(last, scouting, scoutDay, left)
      PROVE  Looked(new, scouting, scoutDay, rest)
  <2>1. \A n \in scouting.notes : new[n] = last[n] \/ new[n] = scoutDay
    BY <1>5
  <2>2. \A n \in left \ rest : new[n] = scoutDay
    BY <1>1, <1>4, <1>7
  <2> QED
    BY <1>3, <1>7, <2>1, <2>2, StillLooked
<1>8. ASSUME NEW c, Remembers(last, c), \A n \in Notes : c[n] = None \/ c[n] \in Nat
      PROVE  Remembers(new, c)
  <2>1. ASSUME NEW n \in Notes, c[n] # None
        PROVE  new[n] # None /\ c[n] <= new[n]
    <3>1. c[n] \in Nat /\ last[n] # None /\ last[n] \in Nat /\ c[n] <= last[n]
      BY <1>3, <1>8, <2>1 DEF Remembers, Times
    <3>2. CASE Scout!Slug(n) # Scout!Slug(m)
      BY <1>4, <3>1, <3>2
    <3>3. CASE Scout!Slug(n) = Scout!Slug(m)
      <4>1. new[n] = scoutDay /\ last[n] = last[m]
        BY <1>4, <3>3
      <4> QED
        BY <1>3, <3>1, <4>1
    <3> QED
      BY <3>2, <3>3
  <2> QED
    BY <2>1 DEF Remembers
<1>9. ASSUME NEW q \in Nights, run[q] # None
      PROVE  /\ run[q].todo \subseteq scouting.notes /\ Remembers(new, run[q].cursor)
             /\ \A p \in run[q].todo :
                   new[p] = None \/ new[p] = scoutDay \/ new[p] + scouting.cooldown < scoutDay
             /\ \A p \in run[q].done : new[p] = scoutDay
             /\ Looked(last, scouting, scoutDay, run[q].todo)
  <2> PICK v : v = run[q]
    OBVIOUS
  <2>1. v \in Scout!RunRecords
    BY <1>1, <1>9
  <2>2. /\ v.todo \subseteq Notes /\ v.done \subseteq Notes
        /\ \A n \in Notes : v.cursor[n] = None \/ v.cursor[n] \in Nat
    BY <2>1, ScoutFacts DEF Scout!RunRecords, Turning, ScoutInv
  <2>3. Taking(last, scouting, scoutDay, v)
    BY <1>9 DEF Turning, TurnInv
  <2>4. Remembers(new, v.cursor)
    BY <1>8, <2>2, <2>3 DEF Taking
  <2>5. ASSUME NEW p \in Notes,
               last[p] = None \/ last[p] = scoutDay \/ last[p] + scouting.cooldown < scoutDay
        PROVE  new[p] = None \/ new[p] = scoutDay \/ new[p] + scouting.cooldown < scoutDay
    BY <1>4, <2>5
  <2>6. ASSUME NEW p \in Notes, last[p] = scoutDay
        PROVE  new[p] = scoutDay
    BY <1>4, <2>6
  <2> QED
    BY <2>2, <2>3, <2>4, <2>5, <2>6 DEF Taking
<1>10. ASSUME NEW q \in Nights, run'[q] # None
       PROVE  Taking(new, scouting, scoutDay, run'[q])
  <2>1. CASE q = r
    <3> PICK v : v = run[r]
      OBVIOUS
    <3>1. /\ w.cursor = v.cursor /\ w.done = v.done /\ w.todo \subseteq v.todo
          /\ v.todo \subseteq w.todo \cup {m} /\ v # None
      OBVIOUS
    <3>2. /\ v.todo \subseteq scouting.notes /\ Remembers(new, v.cursor)
          /\ \A p \in v.todo :
                new[p] = None \/ new[p] = scoutDay \/ new[p] + scouting.cooldown < scoutDay
          /\ \A p \in v.done : new[p] = scoutDay
          /\ Looked(last, scouting, scoutDay, v.todo)
      BY <1>1, <1>9, <3>1
    <3>3. Looked(new, scouting, scoutDay, w.todo)
      <4> PICK left : left = v.todo
        OBVIOUS
      <4> PICK rest : rest = w.todo
        OBVIOUS
      <4>1. /\ left \in SUBSET scouting.notes /\ rest \in SUBSET scouting.notes
            /\ left \subseteq rest \cup {m} /\ Looked(last, scouting, scoutDay, left)
        BY <3>1, <3>2
      <4> QED
        BY <1>7, <4>1
    <3>4. Taking(new, scouting, scoutDay, w)
      BY <3>1, <3>2, <3>3 DEF Taking
    <3> QED
      BY <1>2, <2>1, <3>4
  <2>2. CASE q # r
    <3> PICK v : v = run[q]
      OBVIOUS
    <3>1. v # None /\ run'[q] = v
      BY <1>2, <1>10, <2>2
    <3>2. /\ v.todo \subseteq scouting.notes /\ Remembers(new, v.cursor)
          /\ \A p \in v.todo :
                new[p] = None \/ new[p] = scoutDay \/ new[p] + scouting.cooldown < scoutDay
          /\ \A p \in v.done : new[p] = scoutDay
          /\ Looked(last, scouting, scoutDay, v.todo)
      BY <1>9, <3>1
    <3>3. Looked(new, scouting, scoutDay, v.todo)
      BY <1>7, <3>2
    <3> QED
      BY <3>1, <3>2, <3>3 DEF Taking
  <2> QED
    BY <2>1, <2>2
<1>11. ended' => Looked(new, scouting, scoutDay, {})
  <2>1. ended => Looked(last, scouting, scoutDay, {})
    BY DEF Turning, TurnInv
  <2> QED
    BY <1>7, <2>1
<1>12. Remembers(new, processed)
  <2>1. Remembers(last, processed) /\ \A n \in Notes : processed[n] = None \/ processed[n] \in Nat
    BY ScoutFacts DEF Turning, TurnInv, ScoutInv, Scout!TypeOK
  <2> QED
    BY <1>8, <2>1
<1> QED
  BY <1>6, <1>10, <1>11, <1>12 DEF TurnInv

\* The bulk model writes a report about a pick, for no call fails and no note has too little text.
LEMMA PickTurns ==
    ASSUME Turning, NEW r \in scouting.nights, NEW n \in Notes, Scout!runOnePick(r, n)
    PROVE  TurnInv'
<1>1. /\ run[r] # None /\ n \in run[r].todo /\ "failed" \notin scouting.outcomes
      /\ UNCHANGED <<scouting, scoutDay, ended, processed, evidence>>
  BY DEF Scout!runOnePick, Scout!At, Turning, Scout!Rotating
<1>2. PICK outcome \in scouting.outcomes :
         /\ Scout!writeReport(n, Scout!bulk)
         /\ Scout!Goes(r, [run[r] EXCEPT !.todo = @ \ {n}, !.note = n, !.left = Scout!Passes,
                          !.at = IF outcome = "flagged" THEN "resolve" ELSE "evidence"])
  BY <1>1 DEF Scout!runOnePick
<1>3. r \in Nights /\ run[r] \in Scout!RunRecords
  BY <1>1, RunFacts DEF Turning
<1>4. Taking(Lasts, scouting, scoutDay, run[r])
  BY <1>1, <1>3 DEF Turning, TurnInv
<1> PICK v : v = run[r]
  OBVIOUS
<1>5. PICK at, passes : run' = [run EXCEPT ![r] = [v EXCEPT !.todo = v.todo \ {n}, !.note = n,
                                                            !.left = passes, !.at = at]]
  BY <1>2 DEF Scout!Goes
<1> PICK w : w = [v EXCEPT !.todo = v.todo \ {n}, !.note = n, !.left = passes, !.at = at]
  OBVIOUS
<1>6. w.todo = v.todo \ {n} /\ w.cursor = v.cursor /\ w.done = v.done
  BY <1>3 DEF Scout!RunRecords
<1>7. w.todo \in SUBSET v.todo /\ v.todo \subseteq w.todo \cup {n} /\ run' = [run EXCEPT ![r] = w]
  BY <1>5, <1>6
<1>8. /\ n \in scouting.notes
      /\ Lasts[n] = None \/ Lasts[n] = scoutDay \/ Lasts[n] + scouting.cooldown < scoutDay
  BY <1>1, <1>4 DEF Taking
<1>9. Scout!bulk \in Scout!Writers
  BY DEF Scout!bulk, Scout!Writers, Scout!escalated
<1>10. Scout!writeReport(n, Scout!bulk)
  BY <1>2
<1> QED
  BY <1>1, <1>6, <1>7, <1>8, <1>9, <1>10, TurnWrites

\* The report in hand is of today, and one that is written over it is.
LEMMA HandTurns ==
    ASSUME Turning, NEW r \in scouting.nights, run[r] # None, run[r].at # "next",
           NEW w, w.cursor = run[r].cursor, w.done = run[r].done, w.todo = run[r].todo,
           run' = [run EXCEPT ![r] = w], UNCHANGED <<scouting, scoutDay, ended, processed>>,
           UNCHANGED report \/ \E b \in Scout!Writers : Scout!writeReport(run[r].note, b)
    PROVE  TurnInv'
<1> PICK v : v = run[r]
  OBVIOUS
<1>1. /\ r \in Nights /\ v.note \in Notes /\ Taking(Lasts, scouting, scoutDay, v)
      /\ report[Scout!Slug(v.note)] # None /\ report[Scout!Slug(v.note)].day = scoutDay
  BY RunFacts DEF Turning, TurnInv, Scouting
<1> PICK m : m = v.note
  OBVIOUS
<1>2. \A n \in Notes : Scout!Slug(n)' = Scout!Slug(n)
  BY DEF Scout!Slug
<1>3. Lasts' = Lasts
  <2>1. CASE UNCHANGED report
    BY <1>2, <2>1 DEF Lasts
  <2>2. CASE \E b \in Scout!Writers : Scout!writeReport(m, b)
    <3>1. PICK b \in Scout!Writers : Scout!writeReport(m, b)
      BY <2>2
    <3> PICK x : x = [note |-> m, day |-> scoutDay, by |-> b]
      OBVIOUS
    <3> PICK fresh : fresh = report'
      OBVIOUS
    <3>2. /\ fresh = [report EXCEPT ![Scout!Slug(m)] = x] /\ x.day = scoutDay
          /\ report \in [Notes -> Scout!Reports \cup {None}]
      BY <3>1 DEF Scout!writeReport, Turning, ScoutInv, Scout!TypeOK
    <3>3. x \in Scout!Reports /\ x # None
      BY <1>1, ScoutFacts DEF Scout!Reports, Turning, ScoutSane, ScoutInv
    <3>4. ASSUME NEW n \in Notes
          PROVE  (IF fresh[Scout!Slug(n)] = None THEN None ELSE fresh[Scout!Slug(n)].day) = Lasts[n]
      <4>1. Scout!Slug(n) \in Notes
        BY ScoutFacts DEF Turning, ScoutInv
      <4>2. Lasts[n] = IF report[Scout!Slug(n)] = None THEN None ELSE report[Scout!Slug(n)].day
        BY DEF Lasts
      <4> QED
        BY <1>1, <3>2, <3>3, <4>1, <4>2
    <3> PICK new : new = Lasts'
      OBVIOUS
    <3>5. new = [n \in Notes |-> IF fresh[Scout!Slug(n)] = None THEN None
                                 ELSE fresh[Scout!Slug(n)].day]
      BY <1>2 DEF Lasts
    <3> QED
      BY <3>4, <3>5 DEF Lasts
  <2> QED
    BY <2>1, <2>2
<1>4. Taking(Lasts, scouting, scoutDay, w)
  BY <1>1 DEF Taking
<1>5. Remembers(Lasts, processed) /\ (ended => Looked(Lasts, scouting, scoutDay, {}))
  BY DEF Turning, TurnInv
<1> QED
  BY <1>3, <1>4, <1>5, TurnMoves

LEMMA PassTurns ==
    ASSUME Turning, NEW r \in scouting.nights, Scout!selfResolveOne(r)
    PROVE  TurnInv'
<1>1. /\ run[r] # None /\ run[r].at = "resolve" /\ "failed" \notin scouting.outcomes
      /\ UNCHANGED <<scouting, scoutDay, ended, processed, evidence>>
  BY DEF Scout!selfResolveOne, Scout!At, Turning, Scout!Rotating
<1>2. run[r] \in Scout!RunRecords /\ Scouting(run[r])
  BY <1>1, RunFacts DEF Turning
<1> PICK v : v = run[r]
  OBVIOUS
<1> PICK by : by = Scout!Passes - v.left + 1
  OBVIOUS
<1>3. PICK at : /\ Scout!writeReport(v.note, by)
                /\ run' = [run EXCEPT ![r] = [v EXCEPT !.by = by, !.left = v.left - 1, !.at = at]]
  BY <1>1 DEF Scout!selfResolveOne, Scout!Goes
<1>4. by \in Scout!Writers
  <2>1. v.left \in 1 .. Scout!Passes /\ Scout!Passes \in 1 .. 3 /\ Scout!Writers = 0 .. 4
    BY <1>1, <1>2, ScoutFacts DEF Turning, Scouting, ScoutInv
  <2> QED
    BY <2>1
<1> PICK w : w = [v EXCEPT !.by = by, !.left = v.left - 1, !.at = at]
  OBVIOUS
<1>5. w.cursor = v.cursor /\ w.done = v.done /\ w.todo = v.todo
  BY <1>2 DEF Scout!RunRecords
<1> QED
  BY <1>1, <1>3, <1>4, <1>5, HandTurns

LEMMA ReviewTurns ==
    ASSUME Turning, NEW r \in scouting.nights, Scout!escalateOne(r)
    PROVE  TurnInv'
<1>1. /\ run[r] # None /\ run[r].at = "escalate"
      /\ UNCHANGED <<scouting, scoutDay, ended, processed, evidence>>
      /\ UNCHANGED report \/ Scout!writeReport(run[r].note, Scout!escalated)
      /\ run' = [run EXCEPT ![r] = [run[r] EXCEPT !.at = "evidence"]]
  BY DEF Scout!escalateOne, Scout!At, Scout!Goes
<1>2. run[r] \in Scout!RunRecords /\ Scout!escalated \in Scout!Writers
  BY <1>1, RunFacts DEF Turning, Scout!escalated, Scout!Writers, Scout!bulk
<1> PICK v : v = run[r]
  OBVIOUS
<1> PICK w : w = [v EXCEPT !.at = "evidence"]
  OBVIOUS
<1>3. w.cursor = v.cursor /\ w.done = v.done /\ w.todo = v.todo
  BY <1>2 DEF Scout!RunRecords
<1> QED
  BY <1>1, <1>2, <1>3, HandTurns

\* The note that was in hand is done, and has a report of today.
LEMMA ClaimTurns ==
    ASSUME Turning, NEW r \in scouting.nights, Scout!appendEvidence(r)
    PROVE  TurnInv'
<1>1. /\ run[r] # None /\ run[r].at = "evidence"
      /\ UNCHANGED <<scouting, scoutDay, ended, report, processed>>
      /\ run' = [run EXCEPT ![r] = [Scout!NextPick(r) EXCEPT !.done = @ \cup {run[r].note}]]
  BY DEF Scout!appendEvidence, Scout!At, Scout!Goes
<1> PICK v : v = run[r]
  OBVIOUS
<1>2. /\ r \in Nights /\ v \in Scout!RunRecords /\ v.note \in Notes
      /\ report[Scout!Slug(v.note)] # None /\ report[Scout!Slug(v.note)].day = scoutDay
  BY <1>1, RunFacts DEF Turning, Scouting
<1>3. Taking(Lasts, scouting, scoutDay, v) /\ Lasts[v.note] = scoutDay
  BY <1>1, <1>2, TurnFacts DEF Turning, TurnInv
<1>4. PICK w : /\ run' = [run EXCEPT ![r] = w]
               /\ w.cursor = v.cursor /\ w.done = v.done \cup {v.note} /\ w.todo = v.todo
  <2> PICK u : u = Scout!NextPick(r)
    OBVIOUS
  <2>1. u = [v EXCEPT !.at = "next", !.note = None, !.by = Scout!bulk, !.left = 0]
    BY DEF Scout!NextPick
  <2>2. u.done = v.done /\ u.cursor = v.cursor /\ u.todo = v.todo
    BY <1>2, <2>1 DEF Scout!RunRecords
  <2> PICK w : w = [u EXCEPT !.done = v.done \cup {v.note}]
    OBVIOUS
  <2>3. w.cursor = v.cursor /\ w.done = v.done \cup {v.note} /\ w.todo = v.todo
    BY <1>2, <2>1, <2>2 DEF Scout!RunRecords
  <2> QED
    BY <1>1, <2>2, <2>3
<1>5. Taking(Lasts, scouting, scoutDay, w)
  BY <1>3, <1>4 DEF Taking
<1>6. Lasts' = Lasts
  BY <1>1 DEF Lasts, Scout!Slug
<1>7. Remembers(Lasts, processed) /\ (ended => Looked(Lasts, scouting, scoutDay, {}))
  BY DEF Turning, TurnInv
<1> QED
  BY <1>1, <1>4, <1>5, <1>6, <1>7, TurnMoves

\* What is done has reports of today, which the cursor then says, and nothing is left.
LEMMA SaveTurns ==
    ASSUME Turning, NEW r \in scouting.nights, Scout!saveScoutCursor(r)
    PROVE  TurnInv'
<1> PICK v : v = run[r]
  OBVIOUS
<1>1. /\ v # None /\ v.todo = {} /\ ended' = TRUE /\ run' = [run EXCEPT ![r] = None]
      /\ processed' = [n \in Notes |-> IF n \in v.done THEN scoutDay ELSE v.cursor[n]]
      /\ UNCHANGED <<scouting, scoutDay, report, evidence>>
  BY DEF Scout!saveScoutCursor, Scout!At
<1>2. r \in Nights /\ Taking(Lasts, scouting, scoutDay, v) /\ scoutDay \in Nat /\ None \notin Nat
  BY <1>1, RunFacts, TurnFacts DEF Turning, TurnInv
<1>3. Lasts' = Lasts
  BY <1>1 DEF Lasts, Scout!Slug
<1> PICK p : p = processed'
  OBVIOUS
<1>4. Remembers(Lasts, p)
  <2>1. ASSUME NEW n \in Notes, p[n] # None
        PROVE  Lasts[n] # None /\ p[n] <= Lasts[n]
    <3>1. CASE n \in v.done
      BY <1>1, <1>2, <3>1 DEF Taking
    <3>2. CASE n \notin v.done
      BY <1>1, <1>2, <2>1, <3>2 DEF Taking, Remembers
    <3> QED
      BY <3>1, <3>2
  <2> QED
    BY <2>1 DEF Remembers
<1>5. Looked(Lasts, scouting, scoutDay, {})
  BY <1>1, <1>2 DEF Taking
<1> QED
  BY <1>1, <1>3, <1>4, <1>5, TurnMoves

LEMMA DayEnds ==
    ASSUME Turning, Scout!Tomorrow
    PROVE  TurnInv'
<1>1. /\ (\A r \in Nights : run[r] = None) /\ scoutDay' = scoutDay + 1 /\ ended
      /\ ended' = FALSE /\ UNCHANGED <<scouting, report, processed, evidence, run>>
      /\ scouting.maxItems = 0
           \/ Cardinality(scouting.notes) <= scouting.maxItems * (scouting.cooldown + 1)
  <2>1. /\ scouting.daily
        /\ \/ scouting.maxItems = 0
           \/ Cardinality(scouting.notes) <= scouting.maxItems * (scouting.cooldown + 1)
    BY SameCount DEF Turning, Scout!Rotating
  <2>2. /\ (\A r \in Nights : run[r] = None) /\ scoutDay' = scoutDay + 1
        /\ ended' = FALSE /\ UNCHANGED <<scouting, report, processed, evidence, run>>
    BY DEF Scout!Tomorrow
  <2>3. ended
    BY <2>1, Zenon DEF Scout!Tomorrow
  <2> QED
    BY <2>1, <2>2, <2>3
<1> PICK last : last = Lasts
  OBVIOUS
<1>2. Lasts' = last
  BY <1>1 DEF Lasts, Scout!Slug
<1>3. /\ Turns(last, scouting, scoutDay) /\ Looked(last, scouting, scoutDay, {})
      /\ Remembers(last, processed)
  BY <1>1 DEF Turning, TurnInv
<1>4. Turns(last, scouting, scoutDay + 1)
  BY <1>1, <1>3, TurnFacts, DayTurns DEF Turning
<1> QED
  BY <1>1, <1>2, <1>3, <1>4 DEF TurnInv

LEMMA TurnStarts ==
    ASSUME ScoutSane, IsFiniteSet(Notes), Scout!Init
    PROVE  TurnInv
<1>1. ScoutInv
  BY ScoutStarts
<1>2. /\ \A n \in Notes : Lasts[n] = None /\ processed[n] = None
      /\ \A r \in Nights : run[r] = None
      /\ scoutDay = 0 /\ ended = FALSE
  <2>1. ASSUME NEW n \in Notes
        PROVE  Lasts[n] = None
    <3>1. Scout!Slug(n) \in Notes
      BY <1>1, ScoutFacts DEF ScoutInv
    <3>2. report[Scout!Slug(n)] = None
      BY <3>1 DEF Scout!Init
    <3> QED
      BY <1>1, <3>2, TurnFacts
  <2> QED
    BY <2>1 DEF Scout!Init
<1>3. scouting.notes \subseteq Notes
  BY <1>1, TurnFacts
<1>4. Turns(Lasts, scouting, scoutDay)
  BY <1>2, <1>3 DEF Turns, Due
<1> QED
  BY <1>2, <1>4 DEF TurnInv, Remembers

LEMMA TurnStep ==
    ASSUME Turning, [Scout!Next]_(Scout!vars)
    PROVE  TurnInv'
<1>1. CASE UNCHANGED Scout!vars
  <2>1. UNCHANGED <<scouting, scoutDay, ended, report, processed, evidence, run>>
    BY <1>1 DEF Scout!vars
  <2>2. Lasts' = Lasts
    BY <2>1 DEF Lasts, Scout!Slug
  <2> QED
    BY <2>1, <2>2 DEF Turning, TurnInv
<1>2. CASE Scout!Tomorrow
  BY <1>2, DayEnds
<1>3. ASSUME NEW r \in scouting.nights, NEW n \in Notes, Scout!skipSparse(r, n)
      PROVE  FALSE
  BY <1>3 DEF Scout!skipSparse, Turning, Scout!Rotating
<1>4. ASSUME NEW r \in scouting.nights, Scout!Kill(r)
      PROVE  FALSE
  BY <1>4 DEF Scout!Kill, Turning, Scout!Rotating
<1>5. ASSUME NEW r \in scouting.nights,
             \/ \E n \in Notes : Scout!skipSparse(r, n) \/ Scout!runOnePick(r, n)
             \/ Scout!runScoutStage(r) \/ Scout!selfResolveOne(r) \/ Scout!escalateOne(r)
             \/ Scout!appendEvidence(r) \/ Scout!saveScoutCursor(r) \/ Scout!Kill(r)
      PROVE  TurnInv'
  BY <1>3, <1>4, <1>5, StageTurns, PickTurns, PassTurns, ReviewTurns, ClaimTurns, SaveTurns
<1> QED
  BY <1>1, <1>2, <1>5 DEF Scout!Next

\* In a vault of which a night may take a cooldown's share, where a night runs every day and no
\* call fails, every note gets its turn, or one that shares its slug, within a cooldown of the
\* first day it is due: whatever the notes are ranked by, and with as many nights at once as
\* there may be.
THEOREM EveryNoteHasItsTurn ==
    ASSUME ScoutSane, IsFiniteSet(Notes)
    PROVE  Scout!Spec => []EveryNoteInTurn
<1> DEFINE Inv == ScoutInv /\ (Scout!Rotating => TurnInv)
<1>1. ASSUME Scout!Init
      PROVE  Inv
  BY <1>1, ScoutStarts, TurnStarts
<1>2. ASSUME Inv, [Scout!Next]_(Scout!vars)
      PROVE  Inv'
  <2>1. ScoutInv'
    BY <1>2, ScoutStep
  <2>2. scouting' = scouting
    BY <1>2 DEF Scout!vars, Scout!Next, Scout!Tomorrow, Scout!skipSparse, Scout!runOnePick,
       Scout!runScoutStage, Scout!selfResolveOne, Scout!escalateOne, Scout!appendEvidence,
       Scout!saveScoutCursor, Scout!Kill
  <2>3. Scout!Rotating' => Scout!Rotating
    BY <2>2 DEF Scout!Rotating
  <2>4. Scout!Rotating => TurnInv'
    BY <1>2, TurnStep DEF Turning
  <2> QED
    BY <2>1, <2>3, <2>4
<1>3. ASSUME Inv
      PROVE  EveryNoteInTurn
  <2>1. SUFFICES ASSUME Scout!Rotating, NEW n \in scouting.notes
                 PROVE  LET last == report[Scout!Slug(n)]
                        IN  IF last = None THEN scoutDay <= scouting.cooldown
                            ELSE last.day + 2 * scouting.cooldown + 1 >= scoutDay
    BY DEF EveryNoteInTurn, Scout!EveryNoteInTurn
  <2> PICK x : x = report[Scout!Slug(n)]
    OBVIOUS
  <2> PICK due : due = Due(Lasts, n, scouting.cooldown)
    OBVIOUS
  <2>2. /\ n \in Notes /\ scouting.cooldown \in Nat /\ scoutDay \in Nat /\ None \notin Nat
        /\ x = None => Lasts[n] = None
        /\ x # None => Lasts[n] = x.day /\ Lasts[n] # None
        /\ Lasts[n] = None \/ Lasts[n] \in Nat
    BY <1>3, <2>1, TurnFacts DEF Times
  <2>3. due < scoutDay => scoutDay <= due + scouting.cooldown
    BY <1>3, <2>1 DEF TurnInv, Turns
  <2>4. CASE x = None
    BY <2>2, <2>3, <2>4 DEF Due
  <2>5. CASE x # None
    <3>1. due = x.day + scouting.cooldown + 1 /\ x.day \in Nat
      BY <2>2, <2>5 DEF Due
    <3>2. x.day + 2 * scouting.cooldown + 1 >= scoutDay
      BY <2>2, <2>3, <3>1
    <3> QED
      BY <2>5, <3>2
  <2> QED
    BY <2>4, <2>5
<1> QED
  BY <1>1, <1>2, <1>3, PTL DEF Scout!Spec

---------------------------------------------------------------------------
(* All of a night.                                                             *)

\* A night is one of each side, so that what is proved of the evidence log, the budget, the scout
\* stage and the windows by themselves is true of a night that has all four.
THEOREM SidesOfANight == NightSpec => Spec /\ Budget!Spec /\ Scout!Spec /\ Windows!Spec
<1>1. NightInit => Init /\ Budget!Init /\ Scout!Init /\ Windows!Init
  BY DEF NightInit
<1>2. ASSUME [NightNext]_nightVars
      PROVE  /\ [Next]_vars /\ [Budget!Next]_(Budget!vars)
             /\ [Scout!Next]_(Scout!vars) /\ [Windows!Next]_(Windows!vars)
  BY <1>2 DEF NightNext, nightVars, budgetVars, scoutVars, windowVars, vars, Budget!vars,
              Scout!vars, Windows!vars
<1> QED
  BY <1>1, <1>2, PTL DEF NightSpec, Spec, Budget!Spec, Scout!Spec, Windows!Spec

=============================================================================
