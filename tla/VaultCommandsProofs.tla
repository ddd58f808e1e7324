-------------------------- MODULE VaultCommandsProofs -------------------------
(* Proofs about the commands of a vault: that the watcher of recordings        *)
(* (MeetingMemos) loses nothing that was said and overlooks nothing; that the  *)
(* tools for commitments (GtdSync) touch no file but theirs, merge safely,     *)
(* sync with reason and group what is connected; that the moves of notes       *)
(* (NoteMoves) leave the links to what they mean; and that the programs do not *)
(* depend on one another.                                                      *)
EXTENDS VaultCommands, FiniteSetTheorems, SequenceTheorems, TLAPS

---------------------------------------------------------------------------
(* The watcher of recordings.                                                  *)

\* None is no recording, no name, no note, no state of a commitment and no watcher.
MemoSane == /\ MemoSettings \subseteq Memos!SettingRecords
            /\ None \notin Recordings /\ None \notin Names /\ None \notin Memos!Notes
            /\ None \notin {"inbox", "closed"} /\ None \notin Memos!Watchers

MemoTypes == /\ memo \in MemoSettings /\ inbox \in [Names -> Recordings \cup {None}]
             /\ taken \subseteq Recordings /\ work \in Memos!Repos /\ pushed \in Memos!Repos
             /\ watcher \in Memos!Watchers \cup {None}

\* A task of r has a commitment, or was checked.
Said(commitment, r) == \E k \in {0, 1} : commitment[<<r, k>>] # None \/ <<r, k>> \in checked

DoneChecked(notes) == \A n \in Names : notes[n] # None /\ notes[n].done => notes[n].task \in checked

Covers(new, old) == \A t \in Memos!Tasks : old[t] # None => new[t] # None

\* What is in files and in git: who is done was checked by the owner, and the files have every
\* commitment that git has.
FilesSound == /\ DoneChecked(work.note) /\ DoneChecked(pushed.note)
              /\ Covers(work.commitment, pushed.commitment)

Resting == {"files", "discover", "notes", "subscribe", "wait"}

\* The recording in hand is in the inbox, and from the step that puts its task into the files
\* to its deletion the task is in what the next step reads: in the notes, in what was read of
\* them, in the commitments, in the commitments of git.
InHand(w) ==
    /\ w.at \in {"transcribe", "render", "quick", "remove"} => w.rec # None
    /\ w.at \in Resting => w.rec = None
    /\ w.at \notin Resting => w.name \in Names
    /\ w.rec # None => inbox[w.name] = w.rec /\ w.name \notin w.todo
    /\ w.rec # None \/ w.at = "files" => \A n \in w.todo : inbox[n] # None
    /\ w.rec # None /\ (w.at = "read" \/ (w.at = "prepare" /\ w.rec \in memo.long)) =>
          work.note[w.name] # None /\ work.note[w.name].task[1] = w.rec
    /\ w.at = "stamp" => /\ w.read # None /\ (w.read.done => w.read.task \in checked)
                         /\ w.rec # None => w.read.task[1] = w.rec
    /\ w.at = "commit" /\ w.rec # None => Said(work.commitment, w.rec)
    /\ w.at = "remove" => Said(pushed.commitment, w.rec)

MemoInv == /\ MemoTypes /\ FilesSound /\ Memos!RecordingsKept
           /\ watcher # None => InHand(watcher)

LEMMA RepoParts ==
    ASSUME NEW v \in Memos!Repos
    PROVE  /\ v.note \in [Names -> Memos!Notes \cup {None}]
           /\ v.commitment \in [Memos!Tasks -> {"inbox", "closed"} \cup {None}]
  BY DEF Memos!Repos

Noted(u, v, n, x) == u = [v EXCEPT !.note[n] = x]

LEMMA NoteWritten ==
    ASSUME NEW v \in Memos!Repos, NEW n \in Names, NEW x \in Memos!Notes, NEW u, Noted(u, v, n, x)
    PROVE  /\ u \in Memos!Repos /\ u.commitment = v.commitment /\ u.note[n] = x
           /\ \A m \in Names : m # n => u.note[m] = v.note[m]
<1>1. PICK noted : noted = [v.note EXCEPT ![n] = x]
  OBVIOUS
<1>2. u = [v EXCEPT !.note = noted]
  BY <1>1 DEF Noted
<1>3. noted \in [Names -> Memos!Notes \cup {None}] /\ noted[n] = x /\ \A m \in Names : m # n => noted[m] = v.note[m]
  BY <1>1, RepoParts
<1>4. u \in Memos!Repos /\ u.commitment = v.commitment /\ u.note = noted
  BY <1>2, <1>3 DEF Memos!Repos
<1> QED
  BY <1>3, <1>4

LEMMA CommitmentWritten ==
    ASSUME NEW v \in Memos!Repos, NEW c \in [Memos!Tasks -> {"inbox", "closed"} \cup {None}], NEW u,
           u = [v EXCEPT !.commitment = c]
    PROVE  u \in Memos!Repos /\ u.commitment = c /\ u.note = v.note
  BY DEF Memos!Repos

\* A step that leaves the files and git alone.
LEMMA WatcherMoves ==
    ASSUME MemoInv, NEW w \in Memos!Watchers, InHand(w), watcher' = w,
           UNCHANGED <<memo, inbox, taken, checked, work, pushed>>
    PROVE  MemoInv'
<1>1. MemoTypes' /\ FilesSound' /\ Memos!RecordingsKept'
  BY DEF MemoInv, MemoTypes, FilesSound, DoneChecked, Covers, Memos!RecordingsKept
<1>2. InHand(w)'
  BY DEF InHand, Said
<1> QED
  BY <1>1, <1>2 DEF MemoInv

\* Something is written, or committed, after which the files cover what git has.
LEMMA FilesWritten ==
    ASSUME MemoSane, MemoInv, UNCHANGED <<memo, inbox, taken>>, checked \subseteq checked',
           NEW v \in Memos!Repos, NEW g \in Memos!Repos, work' = v, pushed' = g,
           \A n \in Names : v.note[n] # None /\ v.note[n].done => v.note[n].task \in checked',
           \A n \in Names : g.note[n] # None /\ g.note[n].done => g.note[n].task \in checked',
           Covers(v.commitment, g.commitment), Covers(g.commitment, pushed.commitment),
           watcher' \in Memos!Watchers \cup {None}
    PROVE  MemoTypes' /\ FilesSound' /\ Memos!RecordingsKept'
<1>1. MemoTypes'
  BY DEF MemoInv, MemoTypes
<1>2. FilesSound'
  BY DEF FilesSound, DoneChecked, Covers
<1>3. ASSUME NEW r \in taken
      PROVE  \E k \in {0, 1} : g.commitment[<<r, k>>] # None \/ <<r, k>> \in checked'
  <2>1. PICK k \in {0, 1} : pushed.commitment[<<r, k>>] # None \/ <<r, k>> \in checked
    BY DEF MemoInv, Memos!RecordingsKept
  <2>2. <<r, k>> \in Memos!Tasks
    BY DEF MemoInv, MemoTypes, Memos!Tasks
  <2>3. g.commitment[<<r, k>>] # None \/ <<r, k>> \in checked'
    BY <2>1, <2>2 DEF Covers
  <2> QED
    BY <2>3
<1>4. Memos!RecordingsKept'
  BY <1>3 DEF Memos!RecordingsKept
<1> QED
  BY <1>1, <1>2, <1>4

LEMMA RolledBackRepo ==
    ASSUME MemoSane, MemoInv, NEW v, v = Memos!RolledBack
    PROVE  /\ v \in Memos!Repos /\ v.commitment = pushed.commitment
           /\ \A n \in Names : v.note[n] # None /\ v.note[n].done => v.note[n].task \in checked
<1>1. CASE memo.tracked
  BY <1>1 DEF Memos!RolledBack, MemoInv, MemoTypes, FilesSound, DoneChecked
<1>2. CASE ~memo.tracked
  <2>1. v = [work EXCEPT !.commitment = pushed.commitment] /\ work \in Memos!Repos /\ pushed \in Memos!Repos
    BY <1>2 DEF Memos!RolledBack, MemoInv, MemoTypes
  <2>2. v \in Memos!Repos /\ v.commitment = pushed.commitment /\ v.note = work.note
    BY <2>1, RepoParts, CommitmentWritten
  <2> QED
    BY <2>2 DEF MemoInv, FilesSound, DoneChecked
<1> QED
  BY <1>1, <1>2

\* What a step that fails leaves behind.
LEMMA Failing ==
    ASSUME MemoSane, MemoInv, watcher # None, watcher.name \in Names, NEW repo, NEW commit,
           Memos!Fails(repo, commit),
           \/ repo = work /\ commit = pushed
           \/ repo = Memos!RolledBack /\ commit = pushed
           \/ repo = work /\ commit = work
    PROVE  MemoInv'
<1>1. /\ watcher \in Memos!Watchers /\ InHand(watcher) /\ UNCHANGED <<memo, inbox, taken, checked>>
      /\ work' = repo /\ pushed' = commit /\ watcher' = Memos!NextFile
  BY DEF Memos!Fails, Memos!Writes, Memos!Goes, MemoInv, MemoTypes
<1>2. /\ work \in Memos!Repos /\ pushed \in Memos!Repos /\ DoneChecked(work.note)
      /\ DoneChecked(pushed.note)
      /\ Covers(work.commitment, pushed.commitment)
  BY DEF MemoInv, MemoTypes, FilesSound
<1>3. /\ repo \in Memos!Repos /\ commit \in Memos!Repos
      /\ \A n \in Names : repo.note[n] # None /\ repo.note[n].done => repo.note[n].task \in checked
      /\ \A n \in Names : commit.note[n] # None /\ commit.note[n].done => commit.note[n].task \in checked
      /\ Covers(repo.commitment, commit.commitment) /\ Covers(commit.commitment, pushed.commitment)
  <2>1. CASE repo = work /\ commit = pushed
    BY <1>2, <2>1 DEF Covers, DoneChecked
  <2>2. CASE repo = Memos!RolledBack /\ commit = pushed
    BY <1>2, <2>2, RolledBackRepo DEF Covers, DoneChecked
  <2>3. CASE repo = work /\ commit = work
    BY <1>2, <2>3 DEF Covers, DoneChecked
  <2> QED
    BY <2>1, <2>2, <2>3
<1>4. PICK w : w = Memos!NextFile
  OBVIOUS
<1>5. /\ w \in Memos!Watchers /\ w.todo = watcher.todo /\ w.rec = None
      /\ w.at = IF watcher.rec = None THEN "notes" ELSE "files"
  BY <1>1, <1>4 DEF Memos!NextFile, Memos!Watchers, Memos!Steps
<1>6. InHand(w)'
  BY <1>1, <1>5 DEF InHand, Resting
<1>7. MemoTypes' /\ FilesSound' /\ Memos!RecordingsKept'
  BY <1>1, <1>3, <1>4, <1>5, FilesWritten
<1> QED
  BY <1>1, <1>4, <1>6, <1>7 DEF MemoInv

LEMMA MemoFacts ==
    ASSUME MemoSane, MemoInv
    PROVE  /\ memo \in MemoSettings /\ inbox \in [Names -> Recordings \cup {None}]
           /\ taken \subseteq Recordings /\ work \in Memos!Repos /\ pushed \in Memos!Repos
           /\ DoneChecked(work.note) /\ DoneChecked(pushed.note)
           /\ Covers(work.commitment, pushed.commitment)
           /\ watcher # None =>
                 /\ watcher \in Memos!Watchers /\ InHand(watcher)
                 /\ watcher.at \in Memos!Steps /\ watcher.todo \subseteq Names
                 /\ watcher.name \in Names \cup {None} /\ watcher.rec \in Recordings \cup {None}
                 /\ watcher.at \notin Resting => watcher.name \in Names
  BY DEF MemoInv, MemoTypes, FilesSound, Memos!Watchers, InHand

\* The steps of the watcher that write no notes and no commitments.
LEMMA ReadingSteps ==
    ASSUME MemoSane, MemoInv,
           \/ Memos!Start \/ Memos!NextRecording \/ Memos!Discover \/ Memos!NextNote
           \/ Memos!Subscribe \/ Memos!HandleEvent
    PROVE  MemoInv'
<1>1. UNCHANGED <<memo, inbox, taken, checked, work, pushed>>
  BY DEF Memos!Start, Memos!NextRecording, Memos!Discover, Memos!NextNote, Memos!Subscribe,
     Memos!HandleEvent, Memos!files
<1>2. PICK w : w = watcher'
  OBVIOUS
<1>3. w \in Memos!Watchers /\ InHand(w)
  <2>1. Memos!Scanned \subseteq Names /\ \A n \in Memos!Scanned : inbox[n] # None
    BY DEF Memos!Scanned
  <2>2. CASE Memos!Start
    <3>1. w = [at |-> "files", first |-> TRUE, todo |-> Memos!Scanned, name |-> None, rec |-> None,
               read |-> None]
      BY <1>2, <2>2 DEF Memos!Start, Memos!Goes, Memos!Idle
    <3> QED
      BY <2>1, <3>1 DEF Memos!Watchers, Memos!Steps, InHand, Resting
  <2>3. CASE Memos!NextRecording
    <3>1. watcher # None /\ watcher.at = "files" /\ watcher \in Memos!Watchers /\ InHand(watcher)
      BY <2>3, MemoFacts DEF Memos!NextRecording, Memos!At
    <3>2. CASE /\ watcher.todo = {}
               /\ w = [watcher EXCEPT !.at = IF watcher.first THEN "discover" ELSE "wait"]
      <4>1. w \in Memos!Watchers /\ w.at \in {"discover", "wait"} /\ w.rec = watcher.rec
        BY <3>1, <3>2 DEF Memos!Watchers, Memos!Steps
      <4> QED
        BY <3>1, <4>1 DEF InHand, Resting
    <3>3. CASE \E n \in watcher.todo :
                  w = [watcher EXCEPT !.at = "transcribe", !.name = n, !.rec = inbox[n],
                       !.todo = @ \ {n}]
      <4>1. PICK n \in watcher.todo :
                  w = [watcher EXCEPT !.at = "transcribe", !.name = n, !.rec = inbox[n],
                       !.todo = @ \ {n}]
        BY <3>3
      <4>2. n \in Names /\ inbox[n] # None /\ inbox[n] \in Recordings
        BY <3>1, MemoFacts DEF InHand
      <4>3. /\ w \in Memos!Watchers /\ w.at = "transcribe" /\ w.name = n /\ w.rec = inbox[n]
            /\ w.todo = watcher.todo \ {n}
        BY <3>1, <4>1, <4>2 DEF Memos!Watchers, Memos!Steps
      <4> QED
        BY <3>1, <4>2, <4>3 DEF InHand, Resting
    <3> QED
      BY <1>2, <2>3, <3>2, <3>3 DEF Memos!NextRecording, Memos!Goes
  <2>4. CASE Memos!Discover
    <3>1. watcher # None /\ watcher.at = "discover" /\ watcher \in Memos!Watchers /\ InHand(watcher)
      BY <2>4, MemoFacts DEF Memos!Discover, Memos!At
    <3>2. w = [watcher EXCEPT !.at = "notes", !.todo = {n \in Names : work.note[n] # None}]
      BY <1>2, <2>4 DEF Memos!Discover, Memos!Goes
    <3>3. w \in Memos!Watchers /\ w.at = "notes" /\ w.rec = watcher.rec
      BY <3>1, <3>2 DEF Memos!Watchers, Memos!Steps
    <3> QED
      BY <3>1, <3>3 DEF InHand, Resting
  <2>5. CASE Memos!NextNote
    <3>1. watcher # None /\ watcher.at = "notes" /\ watcher \in Memos!Watchers /\ InHand(watcher)
      BY <2>5, MemoFacts DEF Memos!NextNote, Memos!At
    <3>2. CASE w = [watcher EXCEPT !.at = IF watcher.first THEN "subscribe" ELSE "wait"]
      <4>1. w \in Memos!Watchers /\ w.at \in {"subscribe", "wait"} /\ w.rec = watcher.rec
        BY <3>1, <3>2 DEF Memos!Watchers, Memos!Steps
      <4> QED
        BY <3>1, <4>1 DEF InHand, Resting
    <3>3. CASE \E n \in watcher.todo : w = [watcher EXCEPT !.todo = @ \ {n}]
      <4>1. w \in Memos!Watchers /\ w.at = "notes" /\ w.rec = watcher.rec
        BY <3>1, <3>3 DEF Memos!Watchers
      <4> QED
        BY <3>1, <4>1 DEF InHand, Resting
    <3>4. CASE \E n \in watcher.todo : w = [watcher EXCEPT !.at = "prepare", !.name = n,
                                            !.todo = @ \ {n}]
      <4>1. PICK n \in watcher.todo : w = [watcher EXCEPT !.at = "prepare", !.name = n,
                                           !.todo = @ \ {n}]
        BY <3>4
      <4>2. n \in Names
        BY <3>1 DEF Memos!Watchers
      <4>3. w \in Memos!Watchers /\ w.at = "prepare" /\ w.rec = watcher.rec /\ w.name \in Names
        BY <3>1, <4>1, <4>2 DEF Memos!Watchers, Memos!Steps
      <4>4. w.rec = None
        BY <3>1, <4>3 DEF InHand, Resting
      <4> QED
        BY <4>3, <4>4 DEF InHand, Resting
    <3> QED
      BY <1>2, <2>5, <3>2, <3>3, <3>4 DEF Memos!NextNote, Memos!Goes
  <2>6. CASE Memos!Subscribe
    <3>1. watcher # None /\ watcher.at = "subscribe" /\ watcher \in Memos!Watchers /\ InHand(watcher)
      BY <2>6, MemoFacts DEF Memos!Subscribe, Memos!At
    <3>2. CASE w = watcher
      BY <3>1, <3>2
    <3>3. CASE w = [watcher EXCEPT !.at = "wait", !.first = FALSE]
      <4>1. w \in Memos!Watchers /\ w.at = "wait" /\ w.rec = watcher.rec
        BY <3>1, <3>3 DEF Memos!Watchers, Memos!Steps
      <4> QED
        BY <3>1, <4>1 DEF InHand, Resting
    <3> QED
      BY <1>2, <2>6, <3>2, <3>3 DEF Memos!Subscribe, Memos!Goes
  <2>7. CASE Memos!HandleEvent
    <3>1. watcher # None /\ watcher.at = "wait" /\ watcher \in Memos!Watchers /\ InHand(watcher)
      BY <2>7, MemoFacts DEF Memos!HandleEvent, Memos!At
    <3>2. CASE w = [watcher EXCEPT !.at = "files", !.todo = Memos!Scanned]
      <4>1. w \in Memos!Watchers /\ w.at = "files" /\ w.rec = watcher.rec /\ w.todo = Memos!Scanned
        BY <2>1, <3>1, <3>2 DEF Memos!Watchers, Memos!Steps
      <4> QED
        BY <2>1, <3>1, <4>1 DEF InHand, Resting
    <3>3. CASE w = [watcher EXCEPT !.at = "discover"]
      <4>1. w \in Memos!Watchers /\ w.at = "discover" /\ w.rec = watcher.rec
        BY <3>1, <3>3 DEF Memos!Watchers, Memos!Steps
      <4> QED
        BY <3>1, <4>1 DEF InHand, Resting
    <3> QED
      BY <1>2, <2>7, <3>2, <3>3 DEF Memos!HandleEvent, Memos!Goes
  <2> QED
    BY <2>2, <2>3, <2>4, <2>5, <2>6, <2>7
<1> QED
  BY <1>1, <1>2, <1>3, WatcherMoves

\* Transcribe and ReadNote change nothing but the watcher, if they succeed.
LEMMA TranscribeKeeps ==
    ASSUME MemoSane, MemoInv, Memos!Transcribe
    PROVE  MemoInv'
<1>1. watcher # None /\ watcher.at = "transcribe" /\ watcher \in Memos!Watchers /\ InHand(watcher)
      /\ watcher.name \in Names
  BY MemoFacts DEF Memos!Transcribe, Memos!At, Resting
<1>2. CASE Memos!Fails(work, pushed)
  BY <1>1, <1>2, Failing
<1>3. CASE ~Memos!Fails(work, pushed)
  <2>1. UNCHANGED <<memo, inbox, taken, checked, work, pushed>>
    BY <1>3 DEF Memos!Transcribe, Memos!files
  <2>2. PICK w : w = [watcher EXCEPT !.at = IF watcher.rec \in memo.long THEN "render" ELSE "prepare"]
    OBVIOUS
  <2>3. watcher' = w
    BY <1>3, <2>2 DEF Memos!Transcribe, Memos!Goes
  <2>4. /\ w \in Memos!Watchers /\ w.name = watcher.name /\ w.rec = watcher.rec
        /\ w.todo = watcher.todo
        /\ w.at = IF watcher.rec \in memo.long THEN "render" ELSE "prepare"
    BY <1>1, <2>2 DEF Memos!Watchers, Memos!Steps
  <2>5. InHand(w)
    BY <1>1, <2>4 DEF InHand, Resting
  <2> QED
    BY <2>1, <2>3, <2>4, <2>5, WatcherMoves
<1> QED
  BY <1>2, <1>3

LEMMA ReadNoteKeeps ==
    ASSUME MemoSane, MemoInv, Memos!ReadNote
    PROVE  MemoInv'
<1>1. watcher # None /\ watcher.at = "read" /\ watcher \in Memos!Watchers /\ InHand(watcher)
      /\ watcher.name \in Names
  BY MemoFacts DEF Memos!ReadNote, Memos!At, Resting
<1>2. CASE Memos!Fails(Memos!RolledBack, pushed)
  BY <1>1, <1>2, Failing
<1>3. CASE ~Memos!Fails(Memos!RolledBack, pushed)
  <2>1. UNCHANGED <<memo, inbox, taken, checked, work, pushed>> /\ work.note[watcher.name] # None
    BY <1>3 DEF Memos!ReadNote, Memos!files
  <2>2. PICK x : x = work.note[watcher.name]
    OBVIOUS
  <2>3. x \in Memos!Notes /\ (x.done => x.task \in checked) /\ x # None
    BY <1>1, <2>1, <2>2, MemoFacts, RepoParts DEF DoneChecked
  <2>4. PICK w : w = [watcher EXCEPT !.at = "stamp", !.read = x]
    OBVIOUS
  <2>5. watcher' = w
    BY <1>3, <2>2, <2>4 DEF Memos!ReadNote, Memos!Goes
  <2>6. /\ w \in Memos!Watchers /\ w.name = watcher.name /\ w.rec = watcher.rec
        /\ w.todo = watcher.todo
        /\ w.at = "stamp" /\ w.read = x
    BY <1>1, <2>3, <2>4 DEF Memos!Watchers, Memos!Steps
  <2>7. InHand(w)
    BY <1>1, <2>2, <2>3, <2>6 DEF InHand, Resting
  <2> QED
    BY <2>1, <2>5, <2>6, <2>7, WatcherMoves
<1> QED
  BY <1>2, <1>3

\* Only the files change, and no commitment is lost.
LEMMA CommitmentsKept ==
    ASSUME MemoSane, MemoInv, NEW v \in Memos!Repos, Covers(v.commitment, work.commitment),
           \A n \in Names : v.note[n] # None /\ v.note[n].done => v.note[n].task \in checked,
           work' = v, UNCHANGED <<memo, inbox, taken, checked, pushed>>,
           watcher' \in Memos!Watchers \cup {None}
    PROVE  MemoTypes' /\ FilesSound' /\ Memos!RecordingsKept'
<1>1. Covers(v.commitment, pushed.commitment) /\ Covers(pushed.commitment, pushed.commitment)
  BY MemoFacts DEF Covers
<1> QED
  BY <1>1, MemoFacts, FilesWritten DEF DoneChecked

\* The notes of a meeting have its task.
LEMMA RenderKeeps ==
    ASSUME MemoSane, MemoInv, Memos!Render
    PROVE  MemoInv'
<1>1. watcher # None /\ watcher.at = "render" /\ watcher \in Memos!Watchers /\ InHand(watcher)
      /\ watcher.name \in Names /\ watcher.rec # None /\ watcher.rec \in Recordings
  BY MemoFacts DEF Memos!Render, Memos!At, Resting, InHand
<1>2. CASE Memos!Fails(work, pushed)
  BY <1>1, <1>2, Failing
<1>3. CASE ~Memos!Fails(work, pushed)
  <2> PICK n : n = watcher.name
    OBVIOUS
  <2>1. PICK k \in {0, 1} :
           /\ work' = [work EXCEPT !.note[n] = Memos!Written(<<watcher.rec, k>>)]
           /\ watcher' = [watcher EXCEPT !.at = "prepare"]
           /\ UNCHANGED <<memo, inbox, taken, checked, pushed>>
    BY <1>3 DEF Memos!Render, Memos!Writes, Memos!Goes, Memos!files
  <2>2. PICK x : x = Memos!Written(<<watcher.rec, k>>)
    OBVIOUS
  <2>3. x \in Memos!Notes /\ x.task[1] = watcher.rec /\ x.done = FALSE /\ x # None
    <3>1. PICK t : t = <<watcher.rec, k>>
      OBVIOUS
    <3>2. t \in Memos!Tasks /\ t[1] = watcher.rec
      BY <1>1, <3>1 DEF Memos!Tasks
    <3>3. x = [task |-> t, done |-> FALSE, id |-> FALSE]
      BY <2>2, <3>1 DEF Memos!Written
    <3>4. x \in Memos!Notes /\ x.task = t /\ x.done = FALSE
      BY <3>2, <3>3 DEF Memos!Notes
    <3> QED
      BY <3>2, <3>4 DEF MemoSane
  <2>4. PICK v : v = work'
    OBVIOUS
  <2>5. /\ v \in Memos!Repos /\ v.commitment = work.commitment /\ v.note[n] = x
        /\ \A m \in Names : m # n => v.note[m] = work.note[m]
    <3>1. Noted(v, work, n, x) /\ work \in Memos!Repos /\ n \in Names
      BY <1>1, <2>1, <2>2, <2>4, MemoFacts DEF Noted
    <3> QED
      BY <2>3, <3>1, NoteWritten
  <2>6. PICK w : w = watcher'
    OBVIOUS
  <2>7. /\ w \in Memos!Watchers /\ w.name = n /\ w.rec = watcher.rec /\ w.todo = watcher.todo
        /\ w.at = "prepare"
    BY <1>1, <2>1, <2>6 DEF Memos!Watchers, Memos!Steps
  <2>8. InHand(w)'
    BY <1>1, <2>1, <2>3, <2>4, <2>5, <2>7 DEF InHand, Resting
  <2>9. \A m \in Names : v.note[m] # None /\ v.note[m].done => v.note[m].task \in checked
    BY <2>3, <2>5, MemoFacts DEF DoneChecked
  <2>10. MemoTypes' /\ FilesSound' /\ Memos!RecordingsKept'
    <3>1. Covers(v.commitment, work.commitment)
      BY <2>5 DEF Covers
    <3> QED
      BY <2>1, <2>4, <2>5, <2>6, <2>7, <2>9, <3>1, CommitmentsKept
  <2> QED
    BY <2>6, <2>8, <2>10 DEF MemoInv
<1> QED
  BY <1>2, <1>3

\* What is in the files is committed.
LEMMA PrepareKeeps ==
    ASSUME MemoSane, MemoInv, Memos!Prepare
    PROVE  MemoInv'
<1>1. watcher # None /\ watcher.at = "prepare" /\ watcher \in Memos!Watchers /\ InHand(watcher)
      /\ watcher.name \in Names
  BY MemoFacts DEF Memos!Prepare, Memos!At, Resting
<1>2. CASE Memos!Fails(work, pushed) \/ Memos!Fails(Memos!RolledBack, pushed) \/ Memos!Fails(work, work)
  BY <1>1, <1>2, Failing
<1>3. CASE ~(Memos!Fails(work, pushed) \/ Memos!Fails(Memos!RolledBack, pushed)
               \/ Memos!Fails(work, work))
  <2>1. /\ pushed' = work /\ UNCHANGED <<memo, inbox, taken, checked, work>>
        /\ watcher' = [watcher EXCEPT !.at = IF watcher.rec = None \/ watcher.rec \in memo.long
                                             THEN "read" ELSE "quick"]
    BY <1>3 DEF Memos!Prepare, Memos!Goes, Memos!files
  <2>2. PICK w : w = watcher'
    OBVIOUS
  <2>3. /\ w \in Memos!Watchers /\ w.name = watcher.name /\ w.rec = watcher.rec
        /\ w.todo = watcher.todo
        /\ w.at = IF watcher.rec = None \/ watcher.rec \in memo.long THEN "read" ELSE "quick"
    BY <1>1, <2>1, <2>2 DEF Memos!Watchers, Memos!Steps
  <2>4. InHand(w)'
    BY <1>1, <2>1, <2>3 DEF InHand, Resting
  <2>5. MemoTypes' /\ FilesSound' /\ Memos!RecordingsKept'
    BY <2>1, <2>2, <2>3, MemoFacts, FilesWritten DEF DoneChecked, Covers
  <2> QED
    BY <2>2, <2>4, <2>5 DEF MemoInv
<1> QED
  BY <1>2, <1>3

LEMMA WriteQuickKeeps ==
    ASSUME MemoSane, MemoInv, Memos!WriteQuick
    PROVE  MemoInv'
<1>1. watcher # None /\ watcher.at = "quick" /\ watcher \in Memos!Watchers /\ InHand(watcher)
      /\ watcher.name \in Names /\ watcher.rec # None /\ watcher.rec \in Recordings
  BY MemoFacts DEF Memos!WriteQuick, Memos!At, Resting, InHand
<1>2. CASE Memos!Fails(Memos!RolledBack, pushed)
  BY <1>1, <1>2, Failing
<1>3. CASE ~Memos!Fails(Memos!RolledBack, pushed)
  <2>1. /\ work' = [work EXCEPT !.commitment[<<watcher.rec, 0>>] = "inbox"]
        /\ watcher' = [watcher EXCEPT !.at = "commit"]
        /\ UNCHANGED <<memo, inbox, taken, checked, pushed>>
    BY <1>3 DEF Memos!WriteQuick, Memos!Writes, Memos!Goes, Memos!files
  <2>2. PICK c : c = [work.commitment EXCEPT ![<<watcher.rec, 0>>] = "inbox"]
    OBVIOUS
  <2>3. <<watcher.rec, 0>> \in Memos!Tasks /\ "inbox" # None
    BY <1>1 DEF Memos!Tasks, MemoSane
  <2>4. /\ c \in [Memos!Tasks -> {"inbox", "closed"} \cup {None}] /\ c[<<watcher.rec, 0>>] = "inbox"
        /\ \A t \in Memos!Tasks : t # <<watcher.rec, 0>> => c[t] = work.commitment[t]
    BY <2>2, <2>3, MemoFacts, RepoParts
  <2>5. PICK v : v = work'
    OBVIOUS
  <2>6. v \in Memos!Repos /\ v.commitment = c /\ v.note = work.note
    <3>1. v = [work EXCEPT !.commitment = c]
      BY <2>1, <2>2, <2>5
    <3>2. work \in Memos!Repos /\ c \in [Memos!Tasks -> {"inbox", "closed"} \cup {None}]
      BY <2>4, MemoFacts
    <3> QED
      BY <3>1, <3>2, CommitmentWritten
  <2>7. PICK w : w = watcher'
    OBVIOUS
  <2>8. /\ w \in Memos!Watchers /\ w.name = watcher.name /\ w.rec = watcher.rec
        /\ w.todo = watcher.todo
        /\ w.at = "commit"
    BY <1>1, <2>1, <2>7 DEF Memos!Watchers, Memos!Steps
  <2>9. Said(work.commitment, w.rec)'
    BY <2>3, <2>4, <2>5, <2>6, <2>8 DEF Said
  <2>10. InHand(w)'
    BY <1>1, <2>1, <2>8, <2>9 DEF InHand, Resting
  <2>11. Covers(c, work.commitment)
    BY <2>3, <2>4 DEF Covers
  <2>12. MemoTypes' /\ FilesSound' /\ Memos!RecordingsKept'
    BY <2>1, <2>5, <2>6, <2>7, <2>8, <2>11, MemoFacts, CommitmentsKept DEF DoneChecked
  <2> QED
    BY <2>7, <2>10, <2>12 DEF MemoInv
<1> QED
  BY <1>2, <1>3

\* A task has a commitment after it is processed, unless it was done before it had one.
LEMMA IngestedFacts ==
    ASSUME MemoSane, NEW old \in [Memos!Tasks -> {"inbox", "closed"} \cup {None}],
           NEW task \in Memos!Tasks,
           NEW done \in BOOLEAN, NEW c, c = Memos!Ingested(old, task, done)
    PROVE  /\ c \in [Memos!Tasks -> {"inbox", "closed"} \cup {None}] /\ Covers(c, old)
           /\ c[task] # None \/ done
<1>1. "inbox" # None /\ "closed" # None
  BY DEF MemoSane
<1>2. CASE c = old
  BY <1>1, <1>2 DEF Memos!Ingested, Covers
<1>3. CASE c = [old EXCEPT ![task] = "inbox"]
  BY <1>1, <1>3 DEF Covers
<1>4. CASE c = [old EXCEPT ![task] = "closed"]
  BY <1>1, <1>4 DEF Covers
<1> QED
  BY <1>2, <1>3, <1>4 DEF Memos!Ingested

LEMMA StampKeeps ==
    ASSUME MemoSane, MemoInv, Memos!Stamp
    PROVE  MemoInv'
<1>1. watcher # None /\ watcher.at = "stamp" /\ watcher \in Memos!Watchers /\ InHand(watcher)
      /\ watcher.name \in Names
  BY MemoFacts DEF Memos!Stamp, Memos!At, Resting
<1>2. CASE Memos!Fails(Memos!RolledBack, pushed)
  BY <1>1, <1>2, Failing
<1>3. CASE ~Memos!Fails(Memos!RolledBack, pushed)
  <2> PICK n : n = watcher.name
    OBVIOUS
  <2> PICK x : x = watcher.read
    OBVIOUS
  <2>1. /\ x \in Memos!Notes /\ x.task \in Memos!Tasks /\ x.done \in BOOLEAN /\ x.id \in BOOLEAN
        /\ x.done => x.task \in checked
        /\ watcher.rec # None => x.task[1] = watcher.rec
    BY <1>1 DEF InHand, Memos!Watchers, Memos!Notes
  <2>2. PICK u : u = IF x.id THEN work ELSE [work EXCEPT !.note[n] = [x EXCEPT !.id = TRUE]]
    OBVIOUS
  <2>3. PICK c : c = Memos!Ingested(u.commitment, x.task, x.done)
    OBVIOUS
  <2>4. PICK v : v = work'
    OBVIOUS
  <2>5. PICK w : w = watcher'
    OBVIOUS
  <2>6. /\ v = [u EXCEPT !.commitment = c] /\ w = [watcher EXCEPT !.at = "commit", !.read = None]
        /\ UNCHANGED <<memo, inbox, taken, checked, pushed>>
    BY <1>3, <2>2, <2>3, <2>4, <2>5 DEF Memos!Stamp, Memos!Writes, Memos!Goes, Memos!files
  <2>7. /\ u \in Memos!Repos /\ u.commitment = work.commitment
        /\ \A m \in Names : u.note[m] # None /\ u.note[m].done => u.note[m].task \in checked
    <3>1. CASE x.id
      BY <2>2, <3>1, MemoFacts DEF DoneChecked
    <3>2. CASE ~x.id
      <4>1. PICK y : y = [x EXCEPT !.id = TRUE]
        OBVIOUS
      <4>2. y \in Memos!Notes /\ y.task = x.task /\ y.done = x.done
        BY <2>1, <4>1 DEF Memos!Notes
      <4>3. /\ u \in Memos!Repos /\ u.commitment = work.commitment /\ u.note[n] = y
            /\ \A m \in Names : m # n => u.note[m] = work.note[m]
        <5>1. Noted(u, work, n, y) /\ work \in Memos!Repos /\ n \in Names
          BY <1>1, <2>2, <3>2, <4>1, MemoFacts DEF Noted
        <5> QED
          BY <4>2, <5>1, NoteWritten
      <4> QED
        BY <2>1, <4>2, <4>3, MemoFacts DEF DoneChecked
    <3> QED
      BY <3>1, <3>2
  <2>8. /\ c \in [Memos!Tasks -> {"inbox", "closed"} \cup {None}] /\ Covers(c, work.commitment)
        /\ c[x.task] # None \/ x.done
    BY <2>1, <2>3, <2>7, RepoParts, IngestedFacts
  <2>9. v \in Memos!Repos /\ v.commitment = c /\ v.note = u.note
    BY <2>6, <2>7, <2>8, CommitmentWritten
  <2>10. /\ w \in Memos!Watchers /\ w.name = watcher.name /\ w.rec = watcher.rec
         /\ w.todo = watcher.todo
         /\ w.at = "commit"
    BY <1>1, <2>6 DEF Memos!Watchers, Memos!Steps
  <2>11. w.rec # None => Said(work.commitment, w.rec)'
    <3>1. SUFFICES ASSUME w.rec # None
                   PROVE  \E k \in {0, 1} : c[<<w.rec, k>>] # None \/ <<w.rec, k>> \in checked
      BY <2>4, <2>6, <2>9 DEF Said
    <3>2. PICK k \in {0, 1} : x.task = <<w.rec, k>>
      BY <2>1, <2>10, <3>1 DEF Memos!Tasks
    <3> QED
      BY <2>1, <2>8, <3>2
  <2>12. InHand(w)'
    BY <1>1, <2>6, <2>10, <2>11 DEF InHand, Resting
  <2>13. MemoTypes' /\ FilesSound' /\ Memos!RecordingsKept'
    BY <2>4, <2>5, <2>6, <2>7, <2>8, <2>9, <2>10, CommitmentsKept
  <2> QED
    BY <2>5, <2>12, <2>13 DEF MemoInv
<1> QED
  BY <1>2, <1>3

LEMMA CommitKeeps ==
    ASSUME MemoSane, MemoInv, Memos!Commit
    PROVE  MemoInv'
<1>1. watcher # None /\ watcher.at = "commit" /\ watcher \in Memos!Watchers /\ InHand(watcher)
      /\ watcher.name \in Names
  BY MemoFacts DEF Memos!Commit, Memos!At, Resting
<1>2. CASE Memos!Fails(Memos!RolledBack, pushed) \/ Memos!Fails(work, work)
  BY <1>1, <1>2, Failing
<1>3. CASE ~(Memos!Fails(Memos!RolledBack, pushed) \/ Memos!Fails(work, work))
  <2>1. pushed' = work /\ watcher' = Memos!AfterCommit /\ UNCHANGED <<memo, inbox, taken, checked, work>>
    BY <1>3 DEF Memos!Commit, Memos!Goes, Memos!files
  <2>2. PICK w : w = Memos!AfterCommit
    OBVIOUS
  <2>3. /\ w \in Memos!Watchers /\ w.rec = watcher.rec /\ w.todo = watcher.todo
        /\ w.at = IF watcher.rec = None THEN "notes" ELSE "remove"
        /\ watcher.rec # None => w.name = watcher.name
    <3>1. CASE watcher.rec = None
      BY <1>1, <2>2, <3>1 DEF Memos!AfterCommit, Memos!NextFile, Memos!Watchers, Memos!Steps
    <3>2. CASE watcher.rec # None
      BY <1>1, <2>2, <3>2 DEF Memos!AfterCommit, Memos!Watchers, Memos!Steps
    <3> QED
      BY <3>1, <3>2
  <2>4. w.at = "remove" => Said(pushed.commitment, w.rec)'
    BY <1>1, <2>1, <2>3 DEF InHand, Said
  <2>5. InHand(w)'
    BY <1>1, <2>1, <2>3, <2>4 DEF InHand, Resting
  <2>6. MemoTypes' /\ FilesSound' /\ Memos!RecordingsKept'
    BY <2>1, <2>2, <2>3, MemoFacts, FilesWritten DEF DoneChecked, Covers
  <2> QED
    BY <2>1, <2>2, <2>5, <2>6 DEF MemoInv
<1> QED
  BY <1>2, <1>3

\* The recording that is deleted is the one in hand, and git has what was said in it.
LEMMA RemoveKeeps ==
    ASSUME MemoSane, MemoInv, Memos!Remove
    PROVE  MemoInv'
<1>1. watcher # None /\ watcher.at = "remove" /\ watcher \in Memos!Watchers /\ InHand(watcher)
      /\ watcher.name \in Names /\ watcher.rec # None /\ watcher.rec \in Recordings
  BY MemoFacts DEF Memos!Remove, Memos!At, Resting, InHand
<1>2. CASE Memos!Fails(work, pushed)
  BY <1>1, <1>2, Failing
<1>3. CASE ~Memos!Fails(work, pushed)
  <2>1. inbox[watcher.name] = watcher.rec /\ watcher.name \notin watcher.todo
        /\ Said(pushed.commitment, watcher.rec)
    BY <1>1 DEF InHand
  <2>2. /\ inbox' = [inbox EXCEPT ![watcher.name] = None] /\ taken' = taken \cup {watcher.rec}
        /\ watcher' = Memos!NextFile /\ UNCHANGED <<memo, checked, work, pushed>>
    BY <1>3, <2>1 DEF Memos!Remove, Memos!Goes
  <2>3. PICK w : w = Memos!NextFile
    OBVIOUS
  <2>4. w \in Memos!Watchers /\ w.todo = watcher.todo /\ w.rec = None /\ w.at = "files"
    BY <1>1, <2>3 DEF Memos!NextFile, Memos!Watchers, Memos!Steps
  <2>5. InHand(w)'
    <3>1. \A m \in w.todo : m \in Names /\ inbox'[m] = inbox[m] /\ inbox[m] # None
      BY <1>1, <2>1, <2>2, <2>4, MemoFacts DEF InHand
    <3> QED
      BY <2>4, <3>1 DEF InHand, Resting
  <2>6. MemoTypes'
    BY <1>1, <2>2, <2>3, <2>4 DEF MemoInv, MemoTypes
  <2>7. FilesSound'
    BY <2>2 DEF MemoInv, FilesSound, DoneChecked, Covers
  <2>8. Memos!RecordingsKept'
    BY <2>1, <2>2 DEF MemoInv, Memos!RecordingsKept, Said
  <2> QED
    BY <2>2, <2>3, <2>5, <2>6, <2>7, <2>8 DEF MemoInv
<1> QED
  BY <1>2, <1>3

\* The watcher may be killed at any step: nothing is said of one that does not run.
LEMMA KillKeeps ==
    ASSUME MemoInv, Memos!Kill
    PROVE  MemoInv'
  BY DEF Memos!Kill, Memos!Goes, Memos!files, MemoInv, MemoTypes, FilesSound, DoneChecked,
     Covers, Memos!RecordingsKept

\* A recording does not take the place of the one in hand.
LEMMA RecordKeeps ==
    ASSUME MemoSane, MemoInv, NEW r \in Recordings, Memos!Record(r)
    PROVE  MemoInv'
<1>1. PICK n : n = memo.name[r]
  OBVIOUS
<1>2. n \in Names /\ inbox[n] = None /\ r # None
  BY <1>1, MemoFacts DEF Memos!Record, MemoSane, Memos!SettingRecords
<1>3. /\ inbox' = [inbox EXCEPT ![n] = r]
      /\ UNCHANGED <<memo, taken, checked, work, pushed, watcher>>
  BY <1>1 DEF Memos!Record
<1>4. MemoTypes' /\ FilesSound' /\ Memos!RecordingsKept'
  BY <1>2, <1>3 DEF MemoInv, MemoTypes, FilesSound, DoneChecked, Covers, Memos!RecordingsKept
<1>5. ASSUME watcher # None
      PROVE  InHand(watcher)'
  <2>1. watcher \in Memos!Watchers /\ InHand(watcher) /\ watcher.todo \subseteq Names
        /\ (watcher.rec # None => watcher.name \in Names)
    BY <1>5, MemoFacts DEF InHand
  <2>2. \A m \in Names : inbox[m] # None => inbox'[m] = inbox[m]
    BY <1>2, <1>3, MemoFacts
  <2>3. watcher.rec # None => inbox'[watcher.name] = watcher.rec
    BY <2>1, <2>2 DEF InHand
  <2>4. watcher.rec # None \/ watcher.at = "files" => \A m \in watcher.todo : inbox'[m] # None
    BY <2>1, <2>2 DEF InHand
  <2> QED
    BY <1>3, <2>1, <2>3, <2>4 DEF InHand, Said
<1> QED
  BY <1>3, <1>4, <1>5 DEF MemoInv

\* A task that is checked stays the one it was.
LEMMA CheckKeeps ==
    ASSUME MemoSane, MemoInv, NEW n \in Names, Memos!Check(n)
    PROVE  MemoInv'
<1>1. /\ work.note[n] # None /\ work' = [work EXCEPT !.note[n].done = TRUE]
      /\ checked' = checked \cup {work.note[n].task}
      /\ UNCHANGED <<memo, inbox, taken, pushed, watcher>>
  BY DEF Memos!Check, Memos!Writes
<1>2. PICK x : x = work.note[n]
  OBVIOUS
<1>3. x \in Memos!Notes
  BY <1>1, <1>2, MemoFacts, RepoParts
<1>4. PICK y : y = [x EXCEPT !.done = TRUE]
  OBVIOUS
<1>5. y \in Memos!Notes /\ y.task = x.task /\ y # None
  BY <1>3, <1>4 DEF Memos!Notes, MemoSane
<1>6. PICK v : v = work'
  OBVIOUS
<1>7. /\ v \in Memos!Repos /\ v.commitment = work.commitment /\ v.note[n] = y
      /\ \A m \in Names : m # n => v.note[m] = work.note[m]
  <2>1. Noted(v, work, n, y) /\ work \in Memos!Repos
    BY <1>1, <1>2, <1>4, <1>6, MemoFacts DEF Noted
  <2> QED
    BY <1>5, <2>1, NoteWritten
<1>8. MemoTypes' /\ FilesSound' /\ Memos!RecordingsKept'
  <2>1. \A m \in Names : v.note[m] # None /\ v.note[m].done => v.note[m].task \in checked'
    BY <1>1, <1>2, <1>5, <1>7, MemoFacts DEF DoneChecked
  <2>2. \A m \in Names : pushed.note[m] # None /\ pushed.note[m].done => pushed.note[m].task \in checked'
    BY <1>1, MemoFacts DEF DoneChecked
  <2>3. Covers(v.commitment, pushed.commitment) /\ Covers(pushed.commitment, pushed.commitment)
    BY <1>7, MemoFacts DEF Covers
  <2>4. pushed \in Memos!Repos /\ pushed' = pushed /\ work' = v /\ watcher' \in Memos!Watchers \cup {None}
        /\ checked \subseteq checked' /\ UNCHANGED <<memo, inbox, taken>>
    BY <1>1, <1>6, MemoFacts
  <2> QED
    BY <1>7, <2>1, <2>2, <2>3, <2>4, FilesWritten
<1>9. ASSUME watcher # None
      PROVE  InHand(watcher)'
  <2>1. InHand(watcher) /\ watcher.name \in Names \cup {None}
    BY <1>9, MemoFacts
  <2>2. watcher.rec # None /\ (watcher.at = "read" \/ (watcher.at = "prepare" /\ watcher.rec \in memo.long)) =>
            v.note[watcher.name] # None /\ v.note[watcher.name].task[1] = watcher.rec
    BY <1>2, <1>5, <1>7, <2>1 DEF InHand, Resting
  <2>3. watcher.at = "commit" /\ watcher.rec # None => Said(v.commitment, watcher.rec)'
    BY <1>1, <1>6, <1>7, <2>1 DEF InHand, Said
  <2>4. watcher.at = "remove" => Said(pushed.commitment, watcher.rec)'
    BY <1>1, <2>1 DEF InHand, Said
  <2> QED
    BY <1>1, <1>6, <2>1, <2>2, <2>3, <2>4 DEF InHand, Said
<1> QED
  BY <1>1, <1>8, <1>9 DEF MemoInv

LEMMA SidecarKeeps ==
    ASSUME MemoInv, NEW n \in Names, Memos!RemoveSidecar(n)
    PROVE  MemoInv'
  BY DEF Memos!RemoveSidecar, MemoInv, MemoTypes, FilesSound, DoneChecked, Covers,
     Memos!RecordingsKept, InHand, Said

LEMMA InitMemo ==
    ASSUME MemoSane, Memos!Init
    PROVE  MemoInv
<1>1. memo \in Memos!SettingRecords /\ memo.typed \in [Names -> Memos!Tasks \cup {None}]
  BY DEF Memos!Init, MemoSane, Memos!SettingRecords
<1>2. PICK noted : noted = [n \in Names |-> IF memo.typed[n] = None THEN None ELSE Memos!Written(memo.typed[n])]
  OBVIOUS
<1>3. /\ noted \in [Names -> Memos!Notes \cup {None}]
      /\ \A n \in Names : noted[n] # None => noted[n].done = FALSE
  BY <1>1, <1>2 DEF Memos!Written, Memos!Notes
<1>4. work = [note |-> noted, commitment |-> [t \in Memos!Tasks |-> None]] /\ pushed = work
  BY <1>2 DEF Memos!Init
<1>5. work \in Memos!Repos /\ work.note = noted
  BY <1>3, <1>4 DEF Memos!Repos
<1>6. MemoTypes
  BY <1>4, <1>5 DEF Memos!Init, MemoTypes
<1>7. FilesSound
  BY <1>3, <1>4, <1>5 DEF FilesSound, DoneChecked, Covers
<1> QED
  BY <1>6, <1>7 DEF Memos!Init, MemoInv, Memos!RecordingsKept

LEMMA NextMemo ==
    ASSUME MemoSane, MemoInv, [Memos!Next]_(Memos!vars)
    PROVE  MemoInv'
<1>1. CASE UNCHANGED Memos!vars
  BY <1>1 DEF Memos!vars, Memos!files, MemoInv, MemoTypes, FilesSound, DoneChecked, Covers,
     Memos!RecordingsKept, InHand, Said
<1>2. CASE Memos!Next
  <2>1. CASE Memos!Start \/ Memos!NextRecording \/ Memos!Discover \/ Memos!NextNote \/ Memos!Subscribe \/ Memos!HandleEvent
    BY <2>1, ReadingSteps
  <2>2. CASE Memos!Transcribe \/ Memos!Render \/ Memos!Prepare \/ Memos!WriteQuick
    BY <2>2, TranscribeKeeps, RenderKeeps, PrepareKeeps, WriteQuickKeeps
  <2>3. CASE Memos!ReadNote \/ Memos!Stamp \/ Memos!Commit \/ Memos!Remove \/ Memos!Kill
    BY <2>3, ReadNoteKeeps, StampKeeps, CommitKeeps, RemoveKeeps, KillKeeps
  <2>4. CASE \E r \in Recordings : Memos!Record(r)
    BY <2>4, RecordKeeps
  <2>5. CASE \E n \in Names : Memos!Check(n) \/ Memos!RemoveSidecar(n)
    BY <2>5, CheckKeeps, SidecarKeeps
  <2> QED
    BY <1>2, <2>1, <2>2, <2>3, <2>4, <2>5 DEF Memos!Next
<1> QED
  BY <1>1, <1>2

\* A recording is deleted only when git has a commitment of it, or when the owner checked its
\* task before there was one: whichever steps of processing, ingesting, committing and rolling
\* back fail, wherever the watcher is killed, however often a recording is tried again and
\* whatever memos of one name do to each other's notes.
THEOREM RecordingsAreKept ==
    ASSUME MemoSane
    PROVE  Memos!Spec => []RecordingsKept
<1>1. ASSUME Memos!Init
      PROVE  MemoInv
  BY <1>1, InitMemo
<1>2. ASSUME MemoInv, [Memos!Next]_(Memos!vars)
      PROVE  MemoInv'
  BY <1>2, NextMemo
<1>3. ASSUME MemoInv
      PROVE  RecordingsKept
  BY <1>3 DEF MemoInv, RecordingsKept
<1> QED
  BY <1>1, <1>2, <1>3, PTL DEF Memos!Spec

---------------------------------------------------------------------------
(* What the watcher overlooks.                                                 *)

\* Typed notes have tasks of their own: none that another note has, and none of a recording
\* that is made. (Of two notes with one task, either may open and close its commitment.)
OwnTasks(s) ==
    \A n \in Names : s.typed[n] # None =>
        /\ s.typed[n][1] \notin s.recordings
        /\ \A m \in Names : s.typed[m] = s.typed[n] => m = n

MemosApart == None \notin BOOLEAN /\ \A s \in MemoSettings : OwnTasks(s)

\* The tasks that the notes n may hold: the typed one, and those of meetings of that name.
Own(n, task) == \/ memo.typed[n] # None /\ memo.typed[n] = task
                \/ task[1] \in memo.recordings \cap memo.long /\ memo.name[task[1]] = n

\* The notes that are there hold tasks of their own, and what is in the inbox has its name.
Owned == \A n \in Names :
    /\ work.note[n] # None => Own(n, work.note[n].task)
    /\ pushed.note[n] # None => Own(n, pushed.note[n].task) /\ work.note[n] # None
    /\ inbox[n] # None => memo.name[inbox[n]] = n /\ inbox[n] \in memo.recordings

Followed(text, commitment) == IF text.done THEN commitment[text.task] # "inbox"
                              ELSE commitment[text.task] # None

\* The commitments follow the notes n, and still do if what is not committed is rolled back.
Kept(n) ==
    /\ Followed(work.note[n], work.commitment)
    /\ \/ memo.tracked /\ pushed.note[n] # work.note[n]
       \/ Followed(work.note[n], pushed.commitment)

Live(n) == n \notin noteSidecar /\ work.note[n] # None
Unread(n) == notesMtime[n] # TRUE
Pending(n) == Unread(n) /\ "notes" \in events

\* The watcher looks at notes, has those of n in hand, will list all there are, or will look
\* at those of n before it waits.
Ingesting == {"prepare", "read", "stamp", "commit"}
Handling(w, n) == w.rec = None /\ w.at \in Ingesting /\ w.name = n
Looking(w) == w.rec = None /\ w.at \in Ingesting \cup {"notes"}
ToDiscover(w) == w.at = "discover" \/ (w.first /\ (w.at = "files" \/ w.rec # None))
WillLook(w, n) == ToDiscover(w) \/ (Looking(w) /\ n \in w.todo)

\* Live notes that the commitments do not follow are in hand, or are still looked at, or there
\* is an event of them. What was read of notes is what they are, or there is an event. During
\* the first scan there are no events: notes not to be looked at again cannot be rolled back.
NoteSeen(w, n) ==
    /\ Kept(n) \/ Handling(w, n) \/ Pending(n) \/ (Unread(n) /\ WillLook(w, n))
    /\ w.at = "stamp" /\ w.name = n => w.read = work.note[n] \/ Pending(n)
    /\ w.at = "commit" /\ Handling(w, n) => Followed(work.note[n], work.commitment) \/ Pending(n)
    /\ w.first /\ memo.tracked /\ (Looking(w) \/ w.at = "subscribe")
       /\ n \notin w.todo /\ ~Handling(w, n) => pushed.note[n] = work.note[n]

\* At its first scan the watcher has seen no notes that it will look at.
FirstLook(w) == w.first => \A n \in Names : WillLook(w, n) => notesMtime[n] = None

\* It subscribes at the end of the first scan; a short memo is written as such.
Phase(w) ==
    /\ w.first => watched \subseteq {"inbox"} /\ events \subseteq {"inbox"} /\ w.at # "wait"
    /\ ~w.first => watched = Memos!Dirs /\ w.at # "subscribe"
    /\ w.at = "stamp" => Own(w.name, w.read.task)
    /\ w.at = "quick" => w.rec \notin memo.long
    /\ w.at \in {"render", "read", "stamp"} /\ w.rec # None => w.rec \in memo.long

\* Recordings without a sidecar are in hand, or to be looked at, or there is an event of them.
Filed(w) ==
    \A n \in Names : inbox[n] # None /\ n \notin sidecar =>
        \/ "inbox" \in events
        \/ w.at = "files" /\ n \in w.todo
        \/ w.rec # None /\ (n \in w.todo \/ n = w.name)

SeenTypes == /\ notesMtime \in [Names -> BOOLEAN \cup {None}]
             /\ watched \subseteq Memos!Dirs /\ events \subseteq Memos!Dirs

SeenInv ==
    /\ SeenTypes /\ Owned
    /\ watcher = None => events = {} /\ watched = {} /\ \A n \in Names : notesMtime[n] = None
    /\ watcher # None => /\ Phase(watcher) /\ Filed(watcher) /\ FirstLook(watcher)
                         /\ \A n \in Names : Live(n) => NoteSeen(watcher, n)

Premises == MemoSane /\ MemosApart /\ ~memo.gap /\ MemoInv /\ SeenInv

\* What steps write: notes with a task that is open, and the list of the files to look at.
LEMMA TypedNote ==
    ASSUME NEW t \in Memos!Tasks
    PROVE  /\ [task |-> t, done |-> FALSE, id |-> FALSE] \in Memos!Notes
           /\ [task |-> t, done |-> FALSE, id |-> FALSE].task = t
<1> HIDE DEF Memos!Tasks
<1> QED
  BY DEF Memos!Notes

Lists(v, w, at, found) == v = [w EXCEPT !.at = at, !.todo = found]

LEMMA ListsFiles ==
    ASSUME NEW w \in Memos!Watchers, NEW at \in Memos!Steps, NEW found \in SUBSET Names,
           NEW v, Lists(v, w, at, found)
    PROVE  /\ v \in Memos!Watchers /\ v.at = at /\ v.todo = found
           /\ v.first = w.first /\ v.rec = w.rec
<1> HIDE DEF Memos!Steps
<1> QED
  BY DEF Lists, Memos!Watchers

LEMMA MemoSettingFacts ==
    ASSUME Premises
    PROVE  /\ memo.recordings \subseteq Recordings /\ memo.long \subseteq Recordings
           /\ memo.name \in [Recordings -> Names] /\ memo.typed \in [Names -> Memos!Tasks \cup {None}]
           /\ OwnTasks(memo)
<1>1. memo \in Memos!SettingRecords /\ OwnTasks(memo)
  BY DEF Premises, MemoSane, MemosApart, MemoInv, MemoTypes
<1> QED
  BY <1>1 DEF Memos!SettingRecords

\* A task is of notes of one name.
LEMMA OneOwner ==
    ASSUME Premises, NEW m \in Names, NEW n \in Names, NEW task, Own(m, task), Own(n, task)
    PROVE  m = n
  BY MemoSettingFacts DEF Own, OwnTasks

\* The facts about the watcher, one by one.
LEMMA SeenFacts ==
    ASSUME Premises, watcher # None
    PROVE  /\ watcher \in Memos!Watchers /\ InHand(watcher) /\ watcher.at \in Memos!Steps
           /\ watcher.todo \subseteq Names /\ watcher.name \in Names \cup {None}
           /\ watcher.rec \in Recordings \cup {None} /\ watcher.first \in BOOLEAN
           /\ watcher.at \in Resting => watcher.rec = None
           /\ watcher.at \notin Resting => watcher.name \in Names
           /\ watcher.rec # None => inbox[watcher.name] = watcher.rec
           /\ watcher.at \in {"transcribe", "render", "quick", "remove"} => watcher.rec # None
           /\ Phase(watcher) /\ Filed(watcher) /\ FirstLook(watcher)
           /\ \A n \in Names : Live(n) => NoteSeen(watcher, n)
  BY MemoFacts DEF Premises, SeenInv, InHand, Memos!Watchers

\* A note that is written is another than the watcher has seen, and there is an event of it.
LEMMA NotesWritten ==
    ASSUME Premises, NEW v, Memos!Writes(v), NEW dirs,
           events' = events \cup ((Memos!NoteEvents(v) \cup dirs) \cap watched)
    PROVE  /\ work' = v /\ events \subseteq events' /\ notesMtime' \in [Names -> BOOLEAN \cup {None}]
           /\ events' \subseteq events \cup watched
           /\ \A n \in Names : v.note[n] = work.note[n] => (Unread(n)' <=> Unread(n))
           /\ \A n \in Names : v.note[n] # work.note[n] =>
                 Unread(n)' /\ ("notes" \in watched => "notes" \in events')
           /\ \A n \in Names : notesMtime[n] = None => notesMtime'[n] = None
<1>1. /\ work' = v /\ notesMtime \in [Names -> BOOLEAN \cup {None}]
      /\ notesMtime' = [n \in Names |-> IF n \in Memos!Changed(v) /\ notesMtime[n] # None
                                        THEN FALSE ELSE notesMtime[n]]
  BY DEF Memos!Writes, Premises, SeenInv, SeenTypes
<1>2. \A n \in Names : n \in Memos!Changed(v) <=> v.note[n] # work.note[n]
  BY DEF Memos!Changed
<1>3. notesMtime' \in [Names -> BOOLEAN \cup {None}]
  BY <1>1
<1>4. \A n \in Names : notesMtime[n] = None => notesMtime'[n] = None
  BY <1>1
<1>5. ASSUME NEW n \in Names, v.note[n] = work.note[n]
      PROVE  Unread(n)' <=> Unread(n)
  BY <1>1, <1>2, <1>5 DEF Unread
<1>6. ASSUME NEW n \in Names, v.note[n] # work.note[n]
      PROVE  Unread(n)' /\ ("notes" \in watched => "notes" \in events')
  <2>1. n \in Memos!Changed(v) /\ "notes" \in Memos!NoteEvents(v)
    BY <1>2, <1>6 DEF Memos!NoteEvents
  <2>2. notesMtime'[n] # TRUE
    BY <1>1, <2>1 DEF Premises, MemosApart
  <2> QED
    BY <2>1, <2>2 DEF Unread
<1> QED
  BY <1>1, <1>3, <1>4, <1>5, <1>6

LEMMA NoneUnread ==
    ASSUME Premises, NEW n, notesMtime[n] = None
    PROVE  Unread(n)
  BY DEF Unread, Premises, MemosApart

LEMMA RolledBackNotes ==
    ASSUME Premises, NEW v, v = Memos!RolledBack
    PROVE  /\ v \in Memos!Repos /\ v.commitment = pushed.commitment
           /\ v.note = IF memo.tracked THEN pushed.note ELSE work.note
<1>1. CASE memo.tracked
  BY <1>1, MemoFacts DEF Memos!RolledBack, Premises
<1>2. CASE ~memo.tracked
  <2>1. v = [work EXCEPT !.commitment = pushed.commitment] /\ work \in Memos!Repos /\ pushed \in Memos!Repos
    BY <1>2, MemoFacts DEF Memos!RolledBack, Premises
  <2> QED
    BY <1>2, <2>1, RepoParts, CommitmentWritten
<1> QED
  BY <1>1, <1>2

\* A step that fails leaves nothing unseen: notes in hand have a sidecar, and those that are
\* rolled back an event, or are still to be looked at.
LEMMA FailingSees ==
    ASSUME Premises, watcher # None, watcher.at \notin Resting, NEW repo, NEW commit,
           Memos!Fails(repo, commit),
           \/ repo = work /\ commit = pushed
           \/ repo = Memos!RolledBack /\ commit = pushed
           \/ repo = work /\ commit = work
    PROVE  SeenInv'
<1> PICK w : w = watcher
  OBVIOUS
<1> PICK v : v = Memos!NextFile
  OBVIOUS
<1>1. /\ w \in Memos!Watchers /\ w.name \in Names /\ w.at \in Memos!Steps /\ w.at \notin Resting
      /\ w.todo \subseteq Names /\ w.rec \in Recordings \cup {None} /\ w.first \in BOOLEAN
      /\ (w.at \in {"transcribe", "render", "quick", "remove"} => w.rec # None)
      /\ Phase(w) /\ Filed(w) /\ FirstLook(w) /\ w # None
      /\ \A n \in Names : Live(n) => NoteSeen(w, n)
  BY SeenFacts
<1>2. /\ v.at = IF w.rec = None THEN "notes" ELSE "files"
      /\ v.first = w.first /\ v.todo = w.todo /\ v.name = None /\ v.rec = None
      /\ v # None
  <2>1. v \in Memos!Watchers
    BY <1>1 DEF Memos!NextFile, Memos!Watchers, Memos!Steps
  <2> QED
    BY <1>1, <2>1 DEF Memos!NextFile, Memos!Watchers, Premises, MemoSane
<1>3. /\ watcher' = v /\ pushed' = commit /\ Memos!Writes(repo)
      /\ UNCHANGED <<memo, inbox, made, taken, checked, watched>>
      /\ Memos!Happens(Memos!NoteEvents(repo) \cup {IF watcher.rec = None THEN "notes" ELSE "inbox"})
  BY DEF Memos!Fails, Memos!Goes
<1>4. /\ w.rec = None => noteSidecar' = noteSidecar \cup {w.name} /\ sidecar' = sidecar
      /\ w.rec # None => sidecar' = sidecar \cup {w.name} /\ noteSidecar' = noteSidecar
  BY DEF Memos!Fails
<1>5. /\ work' = repo /\ events \subseteq events' /\ notesMtime' \in [Names -> BOOLEAN \cup {None}]
      /\ events' \subseteq events \cup watched
      /\ \A n \in Names : repo.note[n] = work.note[n] => (Unread(n)' <=> Unread(n))
      /\ \A n \in Names : repo.note[n] # work.note[n] =>
            Unread(n)' /\ ("notes" \in watched => "notes" \in events')
      /\ \A n \in Names : notesMtime[n] = None => notesMtime'[n] = None
  <2> PICK dirs : dirs = {IF watcher.rec = None THEN "notes" ELSE "inbox"}
    OBVIOUS
  <2>1. events' = events \cup ((Memos!NoteEvents(repo) \cup dirs) \cap watched)
    BY <1>3 DEF Memos!Happens
  <2> QED
    BY <1>3, <2>1, NotesWritten
\* what is written and committed
<1>6. /\ \A n \in Names :
            \/ repo.note[n] = work.note[n]
            \/ memo.tracked /\ repo.note[n] = pushed.note[n] /\ commit = pushed
      /\ repo.commitment = work.commitment \/ (repo.commitment = pushed.commitment /\ commit = pushed
                                             /\ (memo.tracked => repo.note = pushed.note))
      /\ commit = pushed \/ (commit = work /\ repo = work)
  BY RolledBackNotes
<1>7. Owned'
  <2>1. ASSUME NEW n \in Names
        PROVE  /\ repo.note[n] # None => Own(n, repo.note[n].task)
               /\ commit.note[n] # None => Own(n, commit.note[n].task) /\ repo.note[n] # None
               /\ inbox[n] # None => memo.name[inbox[n]] = n /\ inbox[n] \in memo.recordings
    BY <1>6 DEF Premises, SeenInv, Owned
  <2> QED
    BY <1>3, <1>5, <2>1 DEF Owned, Own
<1>8. Phase(v)'
  BY <1>1, <1>2, <1>3, <1>5 DEF Phase, Memos!Dirs
<1>9. Filed(v)'
  BY <1>1, <1>2, <1>3, <1>4, <1>5 DEF Filed, Resting
<1>10. FirstLook(v)'
  <2>1. ASSUME v.first, NEW n \in Names, WillLook(v, n)
        PROVE  WillLook(w, n)
    BY <1>1, <1>2, <2>1 DEF WillLook, ToDiscover, Looking, Memos!Steps, Resting, Ingesting
  <2> QED
    BY <1>1, <1>2, <1>5, <2>1 DEF FirstLook
<1>11. ASSUME NEW n \in Names, Live(n)'
       PROVE  NoteSeen(v, n)'
  <2>1. Live(n) /\ NoteSeen(w, n) /\ ~Handling(w, n)
    <3>1. n \notin noteSidecar /\ repo.note[n] # None /\ (w.rec = None => n # w.name)
      BY <1>4, <1>5, <1>11 DEF Live
    <3>2. work.note[n] # None
      BY <1>6, <3>1 DEF Premises, SeenInv, Owned
    <3> QED
      BY <1>1, <3>1, <3>2 DEF Live, Handling
  <2>2. CASE repo.note[n] = work.note[n]
    <3>1. Kept(n) => Kept(n)'
      <4>1. SUFFICES ASSUME Kept(n)
                     PROVE  /\ Followed(repo.note[n], repo.commitment)
                            /\ \/ memo.tracked /\ commit.note[n] # repo.note[n]
                               \/ Followed(repo.note[n], commit.commitment)
        BY <1>3, <1>5 DEF Kept
      <4> QED
        BY <1>6, <2>2, <4>1 DEF Kept
    <3>2. WillLook(w, n) => WillLook(v, n)
      BY <1>1, <1>2 DEF WillLook, ToDiscover, Looking, Memos!Steps, Resting, Ingesting
    <3>3. Pending(n) => Pending(n)'
      BY <1>5, <2>2 DEF Pending
    <3>4. Kept(n)' \/ Pending(n)' \/ (Unread(n)' /\ WillLook(v, n))
      BY <1>5, <2>1, <2>2, <3>1, <3>2, <3>3 DEF NoteSeen
    <3>5. v.first /\ memo.tracked /\ (Looking(v) \/ v.at = "subscribe") /\ n \notin v.todo =>
             commit.note[n] = repo.note[n]
      BY <1>1, <1>2, <1>6, <2>1, <2>2 DEF NoteSeen, Looking, Memos!Steps, Resting, Ingesting
    <3> QED
      BY <1>2, <1>3, <1>5, <3>4, <3>5 DEF NoteSeen, Handling, Ingesting
  <2>3. CASE repo.note[n] # work.note[n]
    <3>1. memo.tracked /\ repo.note[n] = pushed.note[n] /\ commit = pushed
      BY <1>6, <2>3
    <3>2. Unread(n)' /\ (w.first \/ Pending(n)')
      BY <1>1, <1>5, <2>3 DEF Phase, Memos!Dirs, Pending
    <3>3. w.first => WillLook(v, n)
      <4>1. w.first /\ w.rec = None => n \in w.todo
        BY <1>1, <2>1, <2>3, <3>1 DEF NoteSeen, Looking, Memos!Steps, Resting, Ingesting
      <4> QED
        BY <1>2, <4>1 DEF WillLook, ToDiscover, Looking
    <3> QED
      BY <1>2, <1>3, <1>5, <3>1, <3>2, <3>3 DEF NoteSeen, Handling, Ingesting
  <2> QED
    BY <2>2, <2>3
<1>12. SeenTypes'
  BY <1>3, <1>5 DEF SeenTypes, Premises, SeenInv
<1> QED
  BY <1>2, <1>3, <1>7, <1>8, <1>9, <1>10, <1>11, <1>12 DEF SeenInv

\* The steps of the watcher that write nothing and see nothing else than before: what it had
\* to look at, it still has.
LEMMA OnlyMoves ==
    ASSUME Premises, NEW w, NEW v, watcher = w, watcher' = v, w # None, v # None,
           UNCHANGED <<memo, inbox, sidecar, noteSidecar, work, pushed, notesMtime, watched, events>>,
           Phase(v), Filed(v), FirstLook(v), \A n \in Names : Live(n) => NoteSeen(v, n)
    PROVE  SeenInv'
<1>1. SeenTypes' /\ Owned'
  BY DEF Premises, SeenInv, SeenTypes, Owned, Own
<1>2. Phase(v)' /\ Filed(v)'
  BY DEF Phase, Filed, Own
<1>3. FirstLook(v)'
  BY DEF FirstLook
<1>4. ASSUME NEW n \in Names, Live(n)'
      PROVE  NoteSeen(v, n)'
  <2>1. NoteSeen(v, n)
    BY <1>4 DEF Live
  <2> QED
    BY <2>1 DEF NoteSeen, Kept, Pending, Unread
<1> QED
  BY <1>1, <1>2, <1>3, <1>4 DEF SeenInv

LEMMA StartSees ==
    ASSUME Premises, Memos!Start
    PROVE  SeenInv'
<1> PICK v : v = watcher'
  OBVIOUS
<1>1. /\ v.at = "files" /\ v.first = TRUE /\ v.todo = Memos!Scanned /\ v.name = None /\ v.rec = None
      /\ v.read = None /\ v # None
  <2>1. v = [at |-> "files", first |-> TRUE, todo |-> Memos!Scanned, name |-> None, rec |-> None,
             read |-> None]
    BY DEF Memos!Start, Memos!Goes, Memos!Idle
  <2>2. v \in Memos!Watchers
    BY <2>1 DEF Memos!Scanned, Memos!Watchers, Memos!Steps
  <2>3. v # None
    BY <2>2 DEF Premises, MemoSane
  <2> QED
    BY <2>1, <2>3
<1>2. /\ UNCHANGED <<memo, inbox, sidecar, noteSidecar, work, pushed, notesMtime, watched, events>>
      /\ events = {} /\ watched = {} /\ \A n \in Names : notesMtime[n] = None
  BY DEF Memos!Start, Memos!files, Premises, SeenInv
<1>3. SeenTypes' /\ Owned'
  BY <1>2 DEF Premises, SeenInv, SeenTypes, Owned, Own
<1>4. Phase(v)' /\ Filed(v)' /\ FirstLook(v)'
  BY <1>1, <1>2 DEF Phase, Filed, FirstLook, Memos!Scanned
<1>5. ASSUME NEW n \in Names
      PROVE  NoteSeen(v, n)'
  <2>1. Unread(n)'
    BY <1>2, NoneUnread DEF Unread
  <2> QED
    BY <1>1, <2>1 DEF NoteSeen, WillLook, ToDiscover, Looking, Ingesting
<1> QED
  BY <1>1, <1>3, <1>4, <1>5 DEF SeenInv

LEMMA NextRecordingSees ==
    ASSUME Premises, Memos!NextRecording
    PROVE  SeenInv'
<1> PICK w : w = watcher
  OBVIOUS
<1> PICK v : v = watcher'
  OBVIOUS
<1>1. /\ w \in Memos!Watchers /\ w.at = "files" /\ w # None /\ w.rec = None /\ w.todo \subseteq Names
      /\ w.first \in BOOLEAN
      /\ Phase(w) /\ Filed(w) /\ FirstLook(w) /\ InHand(w)
      /\ \A n \in Names : Live(n) => NoteSeen(w, n)
  BY SeenFacts DEF Memos!NextRecording, Memos!At, Resting
<1>2. UNCHANGED <<memo, inbox, sidecar, noteSidecar, work, pushed, notesMtime, watched, events>>
  BY DEF Memos!NextRecording, Memos!files
<1>3. \/ w.todo = {} /\ v = [w EXCEPT !.at = IF w.first THEN "discover" ELSE "wait"]
      \/ \E n \in w.todo : v = [w EXCEPT !.at = "transcribe", !.name = n, !.rec = inbox[n],
                                         !.todo = @ \ {n}]
  BY DEF Memos!NextRecording, Memos!Goes
<1>4. CASE w.todo = {} /\ v = [w EXCEPT !.at = IF w.first THEN "discover" ELSE "wait"]
  <2>1. /\ v.at = IF w.first THEN "discover" ELSE "wait"
        /\ v.first = w.first /\ v.todo = {} /\ v.rec = None /\ v # None
    <3>1. v \in Memos!Watchers
      BY <1>1, <1>4 DEF Memos!Watchers, Memos!Steps
    <3> QED
      BY <1>1, <1>4, <3>1 DEF Memos!Watchers, Premises, MemoSane
  <2>2. Phase(v) /\ Filed(v) /\ FirstLook(v)
    BY <1>1, <1>4, <2>1 DEF Phase, Filed, FirstLook, WillLook, ToDiscover
  <2>3. ASSUME NEW n \in Names, Live(n)
        PROVE  NoteSeen(v, n)
    BY <1>1, <2>1, <2>3 DEF NoteSeen, WillLook, ToDiscover, Looking, Handling, Ingesting
  <2> QED
    BY <1>1, <1>2, <2>1, <2>2, <2>3, OnlyMoves
<1>5. CASE \E n \in w.todo : v = [w EXCEPT !.at = "transcribe", !.name = n, !.rec = inbox[n],
                                           !.todo = @ \ {n}]
  <2>1. PICK m \in w.todo : v = [w EXCEPT !.at = "transcribe", !.name = m, !.rec = inbox[m],
                                          !.todo = @ \ {m}]
    BY <1>5
  <2> PICK r : r = inbox[m]
    OBVIOUS
  <2>2. m \in Names /\ inbox[m] # None /\ r \in Recordings /\ r # None
    BY <1>1, MemoFacts DEF InHand, Premises
  <2>3. /\ v.at = "transcribe" /\ v.first = w.first /\ v.todo = w.todo \ {m} /\ v.name = m
        /\ v.rec # None /\ v # None
    <3> PICK left : left = w.todo \ {m}
      OBVIOUS
    <3>1. v = [w EXCEPT !.at = "transcribe", !.name = m, !.rec = r, !.todo = left]
      BY <2>1
    <3>3. left \subseteq Names
      BY <1>1
    <3>2. v \in Memos!Watchers
      <4>1. w \in Memos!Watchers /\ m \in Names /\ r \in Recordings
        BY <1>1, <2>2
      <4> QED
        BY <3>1, <3>3, <4>1 DEF Memos!Watchers, Memos!Steps
    <3> QED
      BY <1>1, <2>2, <3>1, <3>2 DEF Memos!Watchers, Premises, MemoSane
  <2>4. Phase(v) /\ Filed(v) /\ FirstLook(v)
    BY <1>1, <2>3 DEF Phase, Filed, FirstLook, WillLook, ToDiscover, Looking
  <2>5. ASSUME NEW n \in Names, Live(n)
        PROVE  NoteSeen(v, n)
    BY <1>1, <2>3, <2>5 DEF NoteSeen, WillLook, ToDiscover, Looking, Handling, Ingesting
  <2> QED
    BY <1>1, <1>2, <2>3, <2>4, <2>5, OnlyMoves
<1> QED
  BY <1>3, <1>4, <1>5

LEMMA TranscribeSees ==
    ASSUME Premises, Memos!Transcribe
    PROVE  SeenInv'
<1> PICK w : w = watcher
  OBVIOUS
<1>1. /\ w \in Memos!Watchers /\ w.at = "transcribe" /\ w # None /\ w.rec # None /\ w.name \in Names
      /\ w.first \in BOOLEAN
      /\ Phase(w) /\ Filed(w) /\ FirstLook(w) /\ \A n \in Names : Live(n) => NoteSeen(w, n)
  BY SeenFacts DEF Memos!Transcribe, Memos!At, Resting
<1>2. CASE Memos!Fails(work, pushed)
  BY <1>1, <1>2, FailingSees DEF Resting
<1>3. CASE ~Memos!Fails(work, pushed)
  <2> PICK v : v = watcher'
    OBVIOUS
  <2>1. /\ UNCHANGED <<memo, inbox, sidecar, noteSidecar, work, pushed, notesMtime, watched, events>>
        /\ v = [w EXCEPT !.at = IF w.rec \in memo.long THEN "render" ELSE "prepare"]
    BY <1>3 DEF Memos!Transcribe, Memos!files, Memos!Goes
  <2>2. /\ v.at = IF w.rec \in memo.long THEN "render" ELSE "prepare"
        /\ v.first = w.first /\ v.todo = w.todo /\ v.name = w.name /\ v.rec = w.rec /\ v # None
    <3>1. v \in Memos!Watchers
      BY <1>1, <2>1 DEF Memos!Watchers, Memos!Steps
    <3> QED
      BY <1>1, <2>1, <3>1 DEF Memos!Watchers, Premises, MemoSane
  <2>3. Phase(v) /\ Filed(v) /\ FirstLook(v)
    BY <1>1, <2>2 DEF Phase, Filed, FirstLook, WillLook, ToDiscover, Looking
  <2>4. ASSUME NEW n \in Names, Live(n)
        PROVE  NoteSeen(v, n)
    BY <1>1, <2>2, <2>4 DEF NoteSeen, WillLook, ToDiscover, Looking, Handling, Ingesting
  <2> QED
    BY <1>1, <2>1, <2>2, <2>3, <2>4, OnlyMoves
<1> QED
  BY <1>2, <1>3

\* What was read of a note is what it is.
LEMMA ReadNoteSees ==
    ASSUME Premises, Memos!ReadNote
    PROVE  SeenInv'
<1> PICK w : w = watcher
  OBVIOUS
<1>1. /\ w \in Memos!Watchers /\ w.at = "read" /\ w # None /\ w.name \in Names /\ w.first \in BOOLEAN
      /\ Phase(w) /\ Filed(w) /\ FirstLook(w) /\ \A n \in Names : Live(n) => NoteSeen(w, n)
  BY SeenFacts DEF Memos!ReadNote, Memos!At, Resting
<1>2. CASE Memos!Fails(Memos!RolledBack, pushed)
  BY <1>1, <1>2, FailingSees DEF Resting
<1>3. CASE ~Memos!Fails(Memos!RolledBack, pushed)
  <2> PICK v : v = watcher'
    OBVIOUS
  <2> PICK x : x = work.note[w.name]
    OBVIOUS
  <2>1. /\ UNCHANGED <<memo, inbox, sidecar, noteSidecar, work, pushed, notesMtime, watched, events>>
        /\ v = [w EXCEPT !.at = "stamp", !.read = x] /\ x # None
    BY <1>3 DEF Memos!ReadNote, Memos!files, Memos!Goes
  <2>2. x \in Memos!Notes /\ Own(w.name, x.task)
    BY <1>1, <2>1, MemoFacts, RepoParts DEF Premises, SeenInv, Owned
  <2>3. /\ v.at = "stamp" /\ v.read = x
        /\ v.first = w.first /\ v.todo = w.todo /\ v.name = w.name /\ v.rec = w.rec /\ v # None
    <3>1. v \in Memos!Watchers
      BY <1>1, <2>1, <2>2 DEF Memos!Watchers, Memos!Steps
    <3> QED
      BY <1>1, <2>1, <3>1 DEF Memos!Watchers, Premises, MemoSane
  <2>4. Phase(v) /\ Filed(v) /\ FirstLook(v)
    BY <1>1, <2>2, <2>3 DEF Phase, Filed, FirstLook, WillLook, ToDiscover, Looking, Ingesting
  <2>5. ASSUME NEW n \in Names, Live(n)
        PROVE  NoteSeen(v, n)
    BY <1>1, <2>3, <2>5 DEF NoteSeen, WillLook, ToDiscover, Looking, Handling, Ingesting
  <2> QED
    BY <1>1, <2>1, <2>3, <2>4, <2>5, OnlyMoves
<1> QED
  BY <1>2, <1>3

LEMMA KeptStays ==
    ASSUME NEW n, work'.note[n] = work.note[n], UNCHANGED <<memo, pushed>>,
           work'.commitment[work.note[n].task] = work.commitment[work.note[n].task], Kept(n)
    PROVE  Kept(n)'
  BY DEF Kept, Followed

\* The notes of a meeting are written: there is an event, or they are looked at later.
LEMMA RenderSees ==
    ASSUME Premises, Memos!Render
    PROVE  SeenInv'
<1> PICK w : w = watcher
  OBVIOUS
<1>1. /\ w \in Memos!Watchers /\ w.at = "render" /\ w # None /\ w.name \in Names /\ w.first \in BOOLEAN
      /\ w.rec # None /\ w.rec \in Recordings /\ inbox[w.name] = w.rec
      /\ Phase(w) /\ Filed(w) /\ FirstLook(w) /\ \A n \in Names : Live(n) => NoteSeen(w, n)
  BY SeenFacts DEF Memos!Render, Memos!At, Resting
<1>2. CASE Memos!Fails(work, pushed)
  BY <1>1, <1>2, FailingSees DEF Resting
<1>3. CASE ~Memos!Fails(work, pushed)
  <2> PICK v : v = watcher'
    OBVIOUS
  <2> PICK u : u = work'
    OBVIOUS
  <2>1. PICK k \in {0, 1} :
           /\ u = [work EXCEPT !.note[w.name] = Memos!Written(<<w.rec, k>>)]
           /\ v = [w EXCEPT !.at = "prepare"] /\ Memos!Writes(u) /\ Memos!Happens(Memos!NoteEvents(u))
           /\ UNCHANGED <<memo, inbox, sidecar, noteSidecar, pushed, watched>>
    BY <1>3 DEF Memos!Render, Memos!Writes, Memos!Goes, Memos!files
  <2> PICK x : x = Memos!Written(<<w.rec, k>>)
    OBVIOUS
  <2>2. x \in Memos!Notes /\ x.task[1] = w.rec
    <3>1. PICK t : t = <<w.rec, k>>
      OBVIOUS
    <3>2. t \in Memos!Tasks /\ t[1] = w.rec
      BY <1>1, <3>1 DEF Memos!Tasks
    <3>3. x = [task |-> t, done |-> FALSE, id |-> FALSE]
      BY <3>1 DEF Memos!Written
    <3>5. x \in Memos!Notes /\ x.task = t
      BY <3>2, <3>3, TypedNote
    <3> QED
      BY <3>2, <3>5
  <2>3. /\ u.commitment = work.commitment /\ u.note[w.name] = x /\ x # None
        /\ \A m \in Names : m # w.name => u.note[m] = work.note[m]
    <3>1. Noted(u, work, w.name, x) /\ work \in Memos!Repos
      BY <2>1, MemoFacts DEF Noted, Premises
    <3> QED
      BY <1>1, <2>2, <3>1, NoteWritten DEF Premises, MemoSane
  <2>4. /\ v.at = "prepare" /\ v.first = w.first /\ v.todo = w.todo /\ v.name = w.name
        /\ v.rec = w.rec /\ v # None
    <3>1. v \in Memos!Watchers
      BY <1>1, <2>1 DEF Memos!Watchers, Memos!Steps
    <3> QED
      BY <1>1, <2>1, <3>1 DEF Memos!Watchers, Premises, MemoSane
  <2>5. /\ events \subseteq events' /\ notesMtime' \in [Names -> BOOLEAN \cup {None}]
        /\ events' \subseteq events \cup watched
        /\ \A n \in Names : u.note[n] = work.note[n] => (Unread(n)' <=> Unread(n))
        /\ \A n \in Names : u.note[n] # work.note[n] =>
              Unread(n)' /\ ("notes" \in watched => "notes" \in events')
        /\ \A n \in Names : notesMtime[n] = None => notesMtime'[n] = None
    <3>1. PICK dirs : dirs = {}
      OBVIOUS
    <3>2. events' = events \cup ((Memos!NoteEvents(u) \cup dirs) \cap watched)
      BY <2>1, <3>1 DEF Memos!Happens
    <3> QED
      BY <2>1, <3>2, NotesWritten
  <2>6. Owned'
    <3>1. Own(w.name, x.task)
      BY <1>1, <2>2 DEF Premises, SeenInv, Owned, Own, Phase
    <3>2. ASSUME NEW n \in Names
          PROVE  /\ u.note[n] # None => Own(n, u.note[n].task)
                 /\ pushed.note[n] # None => Own(n, pushed.note[n].task) /\ u.note[n] # None
                 /\ inbox[n] # None => memo.name[inbox[n]] = n /\ inbox[n] \in memo.recordings
      BY <2>3, <3>1 DEF Premises, SeenInv, Owned
    <3> QED
      BY <2>1, <3>2 DEF Owned, Own
  <2>7. Phase(v)' /\ Filed(v)' /\ FirstLook(v)'
    BY <1>1, <2>1, <2>4, <2>5 DEF Phase, Filed, FirstLook, WillLook, ToDiscover, Looking, Memos!Dirs
  <2>8. ASSUME NEW n \in Names, Live(n)'
        PROVE  NoteSeen(v, n)'
    <3>1. CASE u.note[n] = work.note[n]
      <4>1. NoteSeen(w, n) /\ ~Handling(w, n)
        BY <1>1, <2>1, <2>8, <3>1 DEF Live, Handling
      <4>2. Kept(n) => Kept(n)'
        BY <2>1, <2>3, <3>1, KeptStays
      <4>3. Pending(n) => Pending(n)'
        BY <2>5, <3>1 DEF Pending
      <4>4. Kept(n)' \/ Pending(n)' \/ (Unread(n)' /\ WillLook(v, n))
        BY <1>1, <2>4, <2>5, <3>1, <4>1, <4>2, <4>3 DEF NoteSeen, WillLook, ToDiscover, Looking
      <4> QED
        BY <1>1, <2>4, <4>4 DEF NoteSeen, Looking
    <3>2. CASE u.note[n] # work.note[n]
      <4>1. Pending(n)' \/ (Unread(n)' /\ WillLook(v, n))
        BY <1>1, <2>4, <2>5, <3>2 DEF Pending, Phase, Memos!Dirs, WillLook, ToDiscover
      <4> QED
        BY <1>1, <2>4, <4>1 DEF NoteSeen, Looking
    <3> QED
      BY <3>1, <3>2
  <2>9. SeenTypes'
    BY <2>1, <2>5 DEF SeenTypes, Premises, SeenInv
  <2> QED
    BY <2>4, <2>6, <2>7, <2>8, <2>9 DEF SeenInv
<1> QED
  BY <1>2, <1>3

\* What is committed cannot be lost any more.
LEMMA CommittedSees ==
    ASSUME Premises, NEW w, NEW v, watcher = w, watcher' = v, w # None, v # None, pushed' = work,
           UNCHANGED <<memo, inbox, sidecar, noteSidecar, work, notesMtime, watched, events>>,
           Phase(v), Filed(v), FirstLook(v), v.at \notin {"stamp", "commit"},
           \A n \in Names : Live(n) =>
               \/ Followed(work.note[n], work.commitment) \/ Handling(v, n) \/ Pending(n)
               \/ Unread(n) /\ WillLook(v, n)
    PROVE  SeenInv'
<1>1. SeenTypes'
  BY DEF Premises, SeenInv, SeenTypes
<1>2. Owned'
  BY DEF Premises, SeenInv, Owned, Own
<1>3. Phase(v)' /\ Filed(v)'
  BY DEF Phase, Filed, Own
<1>4. FirstLook(v)'
  BY DEF FirstLook
<1>5. ASSUME NEW n \in Names, Live(n)'
      PROVE  NoteSeen(v, n)'
  <2>1. Live(n)
    BY <1>5 DEF Live
  <2>2. \/ Followed(work.note[n], work.commitment) \/ Handling(v, n) \/ Pending(n)
        \/ Unread(n) /\ WillLook(v, n)
    BY <2>1
  <2>3. Kept(n)' \/ Handling(v, n) \/ Pending(n)' \/ (Unread(n)' /\ WillLook(v, n))
    BY <2>2 DEF Kept, Followed, Pending, Unread
  <2> QED
    BY <2>3 DEF NoteSeen
<1> QED
  BY <1>1, <1>2, <1>3, <1>4, <1>5 DEF SeenInv

LEMMA PrepareSees ==
    ASSUME Premises, Memos!Prepare
    PROVE  SeenInv'
<1> PICK w : w = watcher
  OBVIOUS
<1>1. /\ w \in Memos!Watchers /\ w.at = "prepare" /\ w # None /\ w.name \in Names /\ w.first \in BOOLEAN
      /\ w.rec \in Recordings \cup {None}
      /\ Phase(w) /\ Filed(w) /\ FirstLook(w) /\ \A n \in Names : Live(n) => NoteSeen(w, n)
  BY SeenFacts DEF Memos!Prepare, Memos!At, Resting
<1>2. CASE Memos!Fails(work, pushed) \/ Memos!Fails(Memos!RolledBack, pushed) \/ Memos!Fails(work, work)
  BY <1>1, <1>2, FailingSees DEF Resting
<1>3. CASE ~(Memos!Fails(work, pushed) \/ Memos!Fails(Memos!RolledBack, pushed)
               \/ Memos!Fails(work, work))
  <2> PICK v : v = watcher'
    OBVIOUS
  <2>1. /\ pushed' = work
        /\ UNCHANGED <<memo, inbox, sidecar, noteSidecar, work, notesMtime, watched, events>>
        /\ v = [w EXCEPT !.at = IF w.rec = None \/ w.rec \in memo.long THEN "read" ELSE "quick"]
    BY <1>3 DEF Memos!Prepare, Memos!Goes, Memos!files
  <2>2. /\ v.at = IF w.rec = None \/ w.rec \in memo.long THEN "read" ELSE "quick"
        /\ v.first = w.first /\ v.todo = w.todo /\ v.name = w.name /\ v.rec = w.rec /\ v # None
    <3>1. v \in Memos!Watchers
      BY <1>1, <2>1 DEF Memos!Watchers, Memos!Steps
    <3> QED
      BY <1>1, <2>1, <3>1 DEF Memos!Watchers, Premises, MemoSane
  <2>3. Phase(v) /\ Filed(v) /\ FirstLook(v)
    BY <1>1, <2>2 DEF Phase, Filed, FirstLook, WillLook, ToDiscover, Looking, Ingesting
  <2>4. ASSUME NEW n \in Names, Live(n)
        PROVE  \/ Followed(work.note[n], work.commitment) \/ Handling(v, n) \/ Pending(n)
               \/ Unread(n) /\ WillLook(v, n)
    BY <1>1, <2>2, <2>4 DEF NoteSeen, Kept, WillLook, ToDiscover, Looking, Handling, Ingesting
  <2>5. v.at \notin {"stamp", "commit"}
    BY <2>2
  <2> QED
    BY <1>1, <2>1, <2>2, <2>3, <2>4, <2>5, CommittedSees
<1> QED
  BY <1>2, <1>3

LEMMA CommitSees ==
    ASSUME Premises, Memos!Commit
    PROVE  SeenInv'
<1> PICK w : w = watcher
  OBVIOUS
<1>1. /\ w \in Memos!Watchers /\ w.at = "commit" /\ w # None /\ w.name \in Names /\ w.first \in BOOLEAN
      /\ w.rec \in Recordings \cup {None}
      /\ Phase(w) /\ Filed(w) /\ FirstLook(w) /\ \A n \in Names : Live(n) => NoteSeen(w, n)
  BY SeenFacts DEF Memos!Commit, Memos!At, Resting
<1>2. CASE Memos!Fails(Memos!RolledBack, pushed) \/ Memos!Fails(work, work)
  BY <1>1, <1>2, FailingSees DEF Resting
<1>3. CASE ~(Memos!Fails(Memos!RolledBack, pushed) \/ Memos!Fails(work, work))
  <2> PICK v : v = watcher'
    OBVIOUS
  <2>1. /\ pushed' = work /\ v = Memos!AfterCommit
        /\ UNCHANGED <<memo, inbox, sidecar, noteSidecar, work, notesMtime, watched, events>>
    BY <1>3 DEF Memos!Commit, Memos!Goes, Memos!files
  <2>2. /\ v.at = IF w.rec = None THEN "notes" ELSE "remove"
        /\ v.first = w.first /\ v.todo = w.todo /\ v.rec = w.rec
        /\ (w.rec # None => v.name = w.name) /\ v # None
    <3>1. CASE w.rec = None
      <4>1. v = [w EXCEPT !.at = "notes", !.name = None, !.rec = None, !.read = None]
        BY <2>1, <3>1 DEF Memos!AfterCommit, Memos!NextFile
      <4>2. v \in Memos!Watchers
        BY <1>1, <4>1 DEF Memos!Watchers, Memos!Steps
      <4> QED
        BY <1>1, <3>1, <4>1, <4>2 DEF Memos!Watchers, Premises, MemoSane
    <3>2. CASE w.rec # None
      <4>1. v = [w EXCEPT !.at = "remove"]
        BY <2>1, <3>2 DEF Memos!AfterCommit
      <4>2. v \in Memos!Watchers
        BY <1>1, <4>1 DEF Memos!Watchers, Memos!Steps
      <4> QED
        BY <1>1, <3>2, <4>1, <4>2 DEF Memos!Watchers, Premises, MemoSane
    <3> QED
      BY <3>1, <3>2
  <2>3. Phase(v) /\ Filed(v) /\ FirstLook(v)
    BY <1>1, <2>2 DEF Phase, Filed, FirstLook, WillLook, ToDiscover, Looking, Ingesting
  <2>4. ASSUME NEW n \in Names, Live(n)
        PROVE  \/ Followed(work.note[n], work.commitment) \/ Handling(v, n) \/ Pending(n)
               \/ Unread(n) /\ WillLook(v, n)
    BY <1>1, <2>2, <2>4 DEF NoteSeen, Kept, WillLook, ToDiscover, Looking, Handling, Ingesting
  <2>5. v.at \notin {"stamp", "commit"}
    BY <2>2
  <2> QED
    BY <1>1, <2>1, <2>2, <2>3, <2>4, <2>5, CommittedSees
<1> QED
  BY <1>2, <1>3

\* The commitment of a short memo is of none of the notes.
LEMMA WriteQuickSees ==
    ASSUME Premises, Memos!WriteQuick
    PROVE  SeenInv'
<1> PICK w : w = watcher
  OBVIOUS
<1>1. /\ w \in Memos!Watchers /\ w.at = "quick" /\ w # None /\ w.name \in Names /\ w.first \in BOOLEAN
      /\ w.rec # None /\ w.rec \in Recordings /\ inbox[w.name] = w.rec
      /\ Phase(w) /\ Filed(w) /\ FirstLook(w) /\ \A n \in Names : Live(n) => NoteSeen(w, n)
  BY SeenFacts DEF Memos!WriteQuick, Memos!At, Resting
<1>2. CASE Memos!Fails(Memos!RolledBack, pushed)
  BY <1>1, <1>2, FailingSees DEF Resting
<1>3. CASE ~Memos!Fails(Memos!RolledBack, pushed)
  <2> PICK v : v = watcher'
    OBVIOUS
  <2> PICK u : u = work'
    OBVIOUS
  <2>1. /\ u = [work EXCEPT !.commitment[<<w.rec, 0>>] = "inbox"]
        /\ v = [w EXCEPT !.at = "commit"] /\ Memos!Writes(u)
        /\ UNCHANGED <<memo, inbox, sidecar, noteSidecar, pushed, watched, events>>
    BY <1>3 DEF Memos!WriteQuick, Memos!Writes, Memos!Goes, Memos!files
  <2> PICK c : c = [work.commitment EXCEPT ![<<w.rec, 0>>] = "inbox"]
    OBVIOUS
  <2>2. /\ c \in [Memos!Tasks -> {"inbox", "closed"} \cup {None}]
        /\ \A t \in Memos!Tasks : t # <<w.rec, 0>> => c[t] = work.commitment[t]
    BY <1>1, MemoFacts, RepoParts DEF Premises
  <2>3. u.commitment = c /\ u.note = work.note
    <3>1. u = [work EXCEPT !.commitment = c]
      BY <2>1
    <3> QED
      BY <2>2, <3>1, MemoFacts, CommitmentWritten DEF Premises
  <2>4. notesMtime' = notesMtime
    <3>1. Memos!Changed(u) = {}
      BY <2>3 DEF Memos!Changed
    <3> QED
      BY <2>1, <3>1 DEF Memos!Writes, Premises, SeenInv, SeenTypes
  <2>5. /\ v.at = "commit" /\ v.first = w.first /\ v.todo = w.todo /\ v.name = w.name
        /\ v.rec = w.rec /\ v # None
    <3>1. v \in Memos!Watchers
      BY <1>1, <2>1 DEF Memos!Watchers, Memos!Steps
    <3> QED
      BY <1>1, <2>1, <3>1 DEF Memos!Watchers, Premises, MemoSane
  <2>6. Owned'
    BY <2>1, <2>3 DEF Premises, SeenInv, Owned, Own
  <2>7. Phase(v)' /\ Filed(v)' /\ FirstLook(v)'
    BY <1>1, <2>1, <2>4, <2>5 DEF Phase, Filed, FirstLook, WillLook, ToDiscover, Looking
  <2>8. ASSUME NEW n \in Names, Live(n)'
        PROVE  NoteSeen(v, n)'
    <3>1. Live(n) /\ NoteSeen(w, n) /\ ~Handling(w, n) /\ ~Handling(v, n)
      BY <1>1, <2>1, <2>3, <2>5, <2>8 DEF Live, Handling
    <3>2. work.note[n].task # <<w.rec, 0>> /\ work.note[n].task \in Memos!Tasks
      <4>1. work.note[n] \in Memos!Notes /\ Own(n, work.note[n].task)
        BY <3>1, MemoFacts, RepoParts DEF Live, Premises, SeenInv, Owned
      <4>2. w.rec \in memo.recordings \ memo.long
        BY <1>1 DEF Premises, SeenInv, Owned, Phase
      <4>3. ASSUME work.note[n].task = <<w.rec, 0>>
            PROVE  FALSE
        <5>1. PICK t : t = work.note[n].task
          OBVIOUS
        <5>2. t[1] = w.rec
          BY <4>3, <5>1
        <5>3. Own(n, t)
          BY <4>1, <5>1
        <5> QED
          BY <4>2, <5>2, <5>3, MemoSettingFacts DEF Own, OwnTasks
      <4> QED
        BY <4>1, <4>3 DEF Memos!Notes
    <3>3. Kept(n) => Kept(n)'
      BY <2>1, <2>2, <2>3, <3>2, KeptStays
    <3>4. Kept(n)' \/ Pending(n)' \/ (Unread(n)' /\ WillLook(v, n))
      BY <1>1, <2>1, <2>4, <2>5, <3>1, <3>3
         DEF NoteSeen, Pending, Unread, WillLook, ToDiscover, Looking
    <3> QED
      BY <1>1, <2>5, <3>1, <3>4 DEF NoteSeen, Looking
  <2>9. SeenTypes'
    BY <2>1, <2>4 DEF SeenTypes, Premises, SeenInv
  <2> QED
    BY <2>5, <2>6, <2>7, <2>8, <2>9 DEF SeenInv
<1> QED
  BY <1>2, <1>3

\* After a recording is deleted the scan of the inbox goes on.
LEMMA RemoveSees ==
    ASSUME Premises, Memos!Remove
    PROVE  SeenInv'
<1> PICK w : w = watcher
  OBVIOUS
<1>1. /\ w \in Memos!Watchers /\ w.at = "remove" /\ w # None /\ w.name \in Names /\ w.first \in BOOLEAN
      /\ w.rec # None /\ w.rec \in Recordings /\ inbox[w.name] = w.rec
      /\ Phase(w) /\ Filed(w) /\ FirstLook(w) /\ \A n \in Names : Live(n) => NoteSeen(w, n)
  BY SeenFacts DEF Memos!Remove, Memos!At, Resting
<1>2. CASE Memos!Fails(work, pushed)
  BY <1>1, <1>2, FailingSees DEF Resting
<1>3. CASE ~Memos!Fails(work, pushed)
  <2> PICK v : v = watcher'
    OBVIOUS
  <2>1. /\ inbox' = [inbox EXCEPT ![w.name] = None] /\ v = Memos!NextFile
        /\ events' = events \cup ({"inbox"} \cap watched)
        /\ UNCHANGED <<memo, sidecar, noteSidecar, work, pushed, notesMtime, watched>>
    BY <1>3 DEF Memos!Remove, Memos!Goes, Memos!Happens
  <2>2. /\ v.at = "files" /\ v.first = w.first /\ v.todo = w.todo /\ v.name = None
        /\ v.rec = None /\ v # None
    <3>1. v = [w EXCEPT !.at = "files", !.name = None, !.rec = None, !.read = None]
      BY <1>1, <2>1 DEF Memos!NextFile
    <3>2. v \in Memos!Watchers
      BY <1>1, <3>1 DEF Memos!Watchers, Memos!Steps
    <3> QED
      BY <1>1, <3>1, <3>2 DEF Memos!Watchers, Premises, MemoSane
  <2>3. \A n \in Names : inbox'[n] # None => n # w.name /\ inbox[n] = inbox'[n]
    BY <1>1, <2>1, MemoFacts DEF Premises
  <2>4. Owned'
    BY <2>1, <2>3 DEF Premises, SeenInv, Owned, Own
  <2>5. Phase(v)' /\ Filed(v)' /\ FirstLook(v)'
    BY <1>1, <2>1, <2>2, <2>3 DEF Phase, Filed, FirstLook, WillLook, ToDiscover, Looking, Memos!Dirs
  <2>6. ASSUME NEW n \in Names, Live(n)'
        PROVE  NoteSeen(v, n)'
    <3>1. Live(n) /\ NoteSeen(w, n) /\ ~Handling(w, n)
      BY <1>1, <2>1, <2>6 DEF Live, Handling
    <3>2. Kept(n) => Kept(n)'
      BY <2>1 DEF Kept, Followed
    <3>3. Kept(n)' \/ Pending(n)' \/ (Unread(n)' /\ WillLook(v, n))
      BY <1>1, <2>1, <2>2, <3>1, <3>2
         DEF NoteSeen, Pending, Unread, WillLook, ToDiscover, Looking
    <3> QED
      BY <1>1, <2>2, <3>1, <3>3 DEF NoteSeen, Looking, Ingesting
  <2>7. SeenTypes'
    BY <2>1 DEF SeenTypes, Premises, SeenInv
  <2> QED
    BY <2>2, <2>4, <2>5, <2>6, <2>7 DEF SeenInv
<1> QED
  BY <1>2, <1>3

\* All notes there are will be looked at.
LEMMA DiscoverSees ==
    ASSUME Premises, Memos!Discover
    PROVE  SeenInv'
<1> PICK w : w = watcher
  OBVIOUS
<1>1. /\ w \in Memos!Watchers /\ w.at = "discover" /\ w # None /\ w.rec = None /\ w.first \in BOOLEAN
      /\ Phase(w) /\ Filed(w) /\ FirstLook(w) /\ \A n \in Names : Live(n) => NoteSeen(w, n)
  BY SeenFacts DEF Memos!Discover, Memos!At, Resting
<1> PICK v : v = watcher'
  OBVIOUS
<1> PICK live : live = {n \in Names : work.note[n] # None}
  OBVIOUS
<1>2. /\ UNCHANGED <<memo, inbox, sidecar, noteSidecar, work, pushed, watched, events>>
      /\ v = [w EXCEPT !.at = "notes", !.todo = live]
      /\ notesMtime' = [n \in Names |-> IF n \in live THEN notesMtime[n] ELSE None]
  BY DEF Memos!Discover, Memos!Goes, Memos!files
<1>3. v.at = "notes" /\ v.first = w.first /\ v.todo = live /\ v.rec = None /\ v # None
  <2>1. live \subseteq Names
    OBVIOUS
  <2>2. /\ w \in Memos!Watchers /\ "notes" \in Memos!Steps /\ live \in SUBSET Names
        /\ Lists(v, w, "notes", live)
    BY <1>1, <1>2, <2>1 DEF Lists, Memos!Steps
  <2>3. /\ v \in Memos!Watchers /\ v.at = "notes" /\ v.todo = live
        /\ v.first = w.first /\ v.rec = w.rec
    BY <2>2, ListsFiles
  <2> QED
    BY <1>1, <2>3 DEF Premises, MemoSane
<1>4. SeenTypes' /\ Owned'
  BY <1>2 DEF Premises, SeenInv, SeenTypes, Owned, Own
<1>5. Phase(v)' /\ Filed(v)'
  BY <1>1, <1>2, <1>3 DEF Phase, Filed
<1>6. FirstLook(v)'
  BY <1>1, <1>2, <1>3 DEF FirstLook, WillLook, ToDiscover
<1>7. ASSUME NEW n \in Names, Live(n)'
      PROVE  NoteSeen(v, n)'
  <2>1. Live(n) /\ n \in live /\ NoteSeen(w, n) /\ ~Handling(w, n)
    BY <1>1, <1>2, <1>7 DEF Live, Handling, Ingesting
  <2>2. Kept(n) => Kept(n)'
    BY <1>2 DEF Kept, Followed
  <2>3. Unread(n)' <=> Unread(n)
    BY <1>2, <2>1 DEF Unread
  <2>4. Kept(n)' \/ (Unread(n)' /\ WillLook(v, n))
    BY <1>3, <2>1, <2>2, <2>3 DEF NoteSeen, Pending, WillLook, Looking
  <2> QED
    BY <1>3, <2>1, <2>4 DEF NoteSeen
<1> QED
  BY <1>3, <1>4, <1>5, <1>6, <1>7 DEF SeenInv

\* Notes are passed by if they are gone or as they were, or are in hand next.
LEMMA NextNoteSees ==
    ASSUME Premises, Memos!NextNote
    PROVE  SeenInv'
<1> PICK w : w = watcher
  OBVIOUS
<1>1. /\ w \in Memos!Watchers /\ w.at = "notes" /\ w # None /\ w.rec = None /\ w.first \in BOOLEAN
      /\ w.todo \subseteq Names
      /\ Phase(w) /\ Filed(w) /\ FirstLook(w) /\ \A n \in Names : Live(n) => NoteSeen(w, n)
  BY SeenFacts DEF Memos!NextNote, Memos!At, Resting
<1> PICK v : v = watcher'
  OBVIOUS
<1>2. UNCHANGED <<memo, inbox, sidecar, noteSidecar, work, pushed, watched, events>>
  BY DEF Memos!NextNote, Memos!files
<1>3. CASE /\ w.todo = {} /\ notesMtime' = notesMtime
           /\ v = [w EXCEPT !.at = IF w.first THEN "subscribe" ELSE "wait"]
  <2>1. /\ v.at = IF w.first THEN "subscribe" ELSE "wait"
        /\ v.first = w.first /\ v.todo = {} /\ v.rec = None /\ v # None
    <3>1. v \in Memos!Watchers
      BY <1>1, <1>3 DEF Memos!Watchers, Memos!Steps
    <3> QED
      BY <1>1, <1>3, <3>1 DEF Memos!Watchers, Premises, MemoSane
  <2>2. Phase(v) /\ Filed(v) /\ FirstLook(v)
    BY <1>1, <2>1 DEF Phase, Filed, FirstLook, WillLook, ToDiscover, Looking, Ingesting
  <2>3. ASSUME NEW n \in Names, Live(n)
        PROVE  NoteSeen(v, n)
    BY <1>1, <1>3, <2>1, <2>3 DEF NoteSeen, WillLook, ToDiscover, Looking, Handling, Ingesting
  <2> QED
    BY <1>1, <1>2, <1>3, <2>1, <2>2, <2>3, OnlyMoves
<1>4. ASSUME NEW m \in w.todo, work.note[m] = None \/ notesMtime[m] = TRUE, notesMtime' = notesMtime,
             v = [w EXCEPT !.todo = @ \ {m}]
      PROVE  SeenInv'
  <2>1. /\ v.at = "notes" /\ v.first = w.first /\ v.todo = w.todo \ {m} /\ v.rec = None /\ v # None
    <3>1. v \in Memos!Watchers
      BY <1>1, <1>4 DEF Memos!Watchers, Memos!Steps
    <3> QED
      BY <1>1, <1>4, <3>1 DEF Memos!Watchers, Premises, MemoSane
  <2>2. Phase(v) /\ Filed(v) /\ FirstLook(v)
    BY <1>1, <2>1 DEF Phase, Filed, FirstLook, WillLook, ToDiscover, Looking
  <2>3. ASSUME NEW n \in Names, Live(n)
        PROVE  NoteSeen(v, n)
    <3>1. NoteSeen(w, n) /\ ~Handling(w, n) /\ ~Handling(v, n)
      BY <1>1, <2>1, <2>3 DEF Handling, Ingesting
    <3>2. n = m => ~Unread(n)
      BY <1>4, <2>3 DEF Live, Unread
    <3>3. n = m => ~w.first
      BY <1>1, <1>4, <3>2, NoneUnread DEF FirstLook, WillLook, Looking
    <3> QED
      BY <1>1, <2>1, <3>1, <3>2, <3>3 DEF NoteSeen, WillLook, ToDiscover, Looking, Pending
  <2> QED
    BY <1>1, <1>2, <1>4, <2>1, <2>2, <2>3, OnlyMoves
<1>5. ASSUME NEW m \in w.todo, notesMtime' = [notesMtime EXCEPT ![m] = TRUE],
             v = [w EXCEPT !.at = "prepare", !.name = m, !.todo = @ \ {m}]
      PROVE  SeenInv'
  <2>1. /\ v.at = "prepare" /\ v.first = w.first /\ v.todo = w.todo \ {m} /\ v.name = m /\ v.rec = None
        /\ v # None
    <3> PICK left : left = w.todo \ {m}
      OBVIOUS
    <3>1. m \in Names /\ left \subseteq Names /\ w \in Memos!Watchers
      BY <1>1
    <3>2. v = [w EXCEPT !.at = "prepare", !.name = m, !.todo = left]
      BY <1>5
    <3>3. v \in Memos!Watchers
      BY <3>1, <3>2 DEF Memos!Watchers, Memos!Steps
    <3> QED
      BY <1>1, <3>2, <3>3 DEF Memos!Watchers, Premises, MemoSane
  <2>2. \A n \in Names : n # m => notesMtime'[n] = notesMtime[n]
    BY <1>5 DEF Premises, SeenInv, SeenTypes
  <2>3. SeenTypes' /\ Owned'
    BY <1>2, <1>5 DEF Premises, SeenInv, SeenTypes, Owned, Own
  <2>4. Phase(v)' /\ Filed(v)'
    BY <1>1, <1>2, <2>1 DEF Phase, Filed
  <2>5. FirstLook(v)'
    BY <1>1, <1>2, <2>1, <2>2 DEF FirstLook, WillLook, ToDiscover, Looking, Ingesting
  <2>6. ASSUME NEW n \in Names, Live(n)'
        PROVE  NoteSeen(v, n)'
    <3>1. CASE n = m
      BY <2>1, <3>1 DEF NoteSeen, Handling, Ingesting
    <3>2. CASE n # m
      <4>1. NoteSeen(w, n) /\ ~Handling(w, n) /\ (Unread(n)' <=> Unread(n))
        BY <1>1, <1>2, <2>2, <2>6, <3>2 DEF Live, Unread, Handling, Ingesting
      <4>2. Kept(n) => Kept(n)'
        BY <1>2 DEF Kept, Followed
      <4>3. Kept(n)' \/ Pending(n)' \/ (Unread(n)' /\ WillLook(v, n))
        BY <1>1, <1>2, <2>1, <3>2, <4>1, <4>2
           DEF NoteSeen, Pending, WillLook, ToDiscover, Looking, Ingesting
      <4> QED
        BY <1>1, <1>2, <2>1, <3>2, <4>1, <4>3 DEF NoteSeen, Looking, Ingesting
    <3> QED
      BY <3>1, <3>2
  <2> QED
    BY <2>1, <2>3, <2>4, <2>5, <2>6 DEF SeenInv
<1> QED
  BY <1>3, <1>4, <1>5 DEF Memos!NextNote, Memos!Goes

\* From the end of the first scan the watcher has events of what happens.
LEMMA SubscribeSees ==
    ASSUME Premises, Memos!Subscribe
    PROVE  SeenInv'
<1> PICK w : w = watcher
  OBVIOUS
<1>1. /\ w \in Memos!Watchers /\ w.at = "subscribe" /\ w # None /\ w.rec = None /\ w.first \in BOOLEAN
      /\ Phase(w) /\ Filed(w) /\ FirstLook(w) /\ \A n \in Names : Live(n) => NoteSeen(w, n)
  BY SeenFacts DEF Memos!Subscribe, Memos!At, Resting
<1> PICK v : v = watcher'
  OBVIOUS
<1>2. /\ UNCHANGED <<memo, inbox, sidecar, noteSidecar, work, pushed, notesMtime, events>>
      /\ \/ watched' = {"inbox"} /\ v = w
         \/ watched' = Memos!Dirs /\ v = [w EXCEPT !.at = "wait", !.first = FALSE]
  BY DEF Memos!Subscribe, Memos!Goes, Memos!files
<1>3. /\ \/ watched' = {"inbox"} /\ v.at = "subscribe" /\ v.first = TRUE /\ v = w
         \/ watched' = Memos!Dirs /\ v.at = "wait" /\ v.first = FALSE
      /\ v.rec = None /\ v # None
  <2>1. CASE v = w
    <3>1. v # [w EXCEPT !.at = "wait", !.first = FALSE]
      BY <1>1, <2>1 DEF Memos!Watchers
    <3> QED
      BY <1>1, <1>2, <2>1, <3>1 DEF Phase
  <2>2. CASE v # w
    <3>1. v = [w EXCEPT !.at = "wait", !.first = FALSE] /\ watched' = Memos!Dirs
      BY <1>2, <2>2
    <3>2. v \in Memos!Watchers
      BY <1>1, <3>1 DEF Memos!Watchers, Memos!Steps
    <3> QED
      BY <1>1, <3>1, <3>2 DEF Memos!Watchers, Premises, MemoSane
  <2> QED
    BY <2>1, <2>2
<1>4. SeenTypes' /\ Owned'
  BY <1>2 DEF Premises, SeenInv, SeenTypes, Owned, Own, Memos!Dirs
<1>5. Phase(v)' /\ Filed(v)' /\ FirstLook(v)'
  BY <1>1, <1>2, <1>3 DEF Phase, Filed, FirstLook, WillLook, ToDiscover, Looking, Ingesting, Own, Memos!Dirs
<1>6. ASSUME NEW n \in Names, Live(n)'
      PROVE  NoteSeen(v, n)'
  <2>1. Live(n) /\ NoteSeen(w, n)
    BY <1>1, <1>2, <1>6 DEF Live
  <2>2. Kept(n) \/ Pending(n)
    BY <1>1, <2>1 DEF NoteSeen, Handling, WillLook, ToDiscover, Looking, Ingesting
  <2>3. Kept(n)' \/ Pending(n)'
    BY <1>2, <2>2 DEF Kept, Followed, Pending, Unread
  <2>4. v = w => NoteSeen(w, n)'
    BY <1>2, <2>1, <2>3 DEF NoteSeen, Followed, Pending, Unread
  <2> QED
    BY <1>3, <2>3, <2>4 DEF NoteSeen, Handling, Looking, Ingesting
<1> QED
  BY <1>3, <1>4, <1>5, <1>6 DEF SeenInv

\* The directory of an event that is handled is scanned.
LEMMA HandleEventSees ==
    ASSUME Premises, Memos!HandleEvent
    PROVE  SeenInv'
<1> PICK w : w = watcher
  OBVIOUS
<1>1. /\ w \in Memos!Watchers /\ w.at = "wait" /\ w # None /\ w.rec = None /\ w.first = FALSE
      /\ Phase(w) /\ Filed(w) /\ \A n \in Names : Live(n) => NoteSeen(w, n)
  BY SeenFacts DEF Memos!HandleEvent, Memos!At, Resting, Phase
<1> PICK v : v = watcher'
  OBVIOUS
<1>2. PICK dir \in events :
         /\ events' = events \ {dir}
         /\ v = IF dir = "inbox" THEN [w EXCEPT !.at = "files", !.todo = Memos!Scanned]
                ELSE [w EXCEPT !.at = "discover"]
         /\ UNCHANGED <<memo, inbox, sidecar, noteSidecar, work, pushed, notesMtime, watched>>
  BY DEF Memos!HandleEvent, Memos!Goes, Memos!files
<1>3. /\ \/ dir = "inbox" /\ v.at = "files" /\ v.todo = Memos!Scanned
         \/ dir = "notes" /\ v.at = "discover"
      /\ v.first = FALSE /\ v.rec = None /\ v # None
  <2>1. dir \in {"inbox", "notes"}
    BY <1>2 DEF Premises, SeenInv, SeenTypes, Memos!Dirs
  <2>2. Memos!Scanned \subseteq Names
    BY DEF Memos!Scanned
  <2> PICK found : found = Memos!Scanned
    OBVIOUS
  <2>3. CASE dir = "inbox"
    <3>1. Lists(v, w, "files", found) /\ found \in SUBSET Names /\ "files" \in Memos!Steps
      BY <1>2, <2>2, <2>3 DEF Lists, Memos!Steps
    <3>2. w \in Memos!Watchers
      BY <1>1
    <3>3. /\ v \in Memos!Watchers /\ v.at = "files" /\ v.todo = found
          /\ v.first = w.first /\ v.rec = w.rec
      BY <3>1, <3>2, ListsFiles
    <3> QED
      BY <1>1, <2>3, <3>3 DEF Premises, MemoSane
  <2>4. CASE dir # "inbox"
    <3>1. v = [w EXCEPT !.at = "discover"]
      BY <1>2, <2>4
    <3>2. v \in Memos!Watchers
      BY <1>1, <3>1 DEF Memos!Watchers, Memos!Steps
    <3> QED
      BY <1>1, <2>1, <2>4, <3>1, <3>2 DEF Memos!Watchers, Premises, MemoSane
  <2> QED
    BY <2>3, <2>4
<1>4. SeenTypes' /\ Owned'
  BY <1>2 DEF Premises, SeenInv, SeenTypes, Owned, Own
<1>5. Phase(v)' /\ FirstLook(v)'
  BY <1>1, <1>2, <1>3 DEF Phase, FirstLook
<1>6. Filed(v)'
  BY <1>1, <1>2, <1>3 DEF Filed, Memos!Scanned
<1>7. ASSUME NEW n \in Names, Live(n)'
      PROVE  NoteSeen(v, n)'
  <2>1. Live(n) /\ NoteSeen(w, n)
    BY <1>1, <1>2, <1>7 DEF Live
  <2>2. Kept(n) \/ Pending(n)
    BY <1>1, <2>1 DEF NoteSeen, Handling, WillLook, ToDiscover, Looking, Ingesting
  <2>3. Kept(n) => Kept(n)'
    BY <1>2 DEF Kept, Followed
  <2>4. Kept(n)' \/ Pending(n)' \/ (Unread(n)' /\ WillLook(v, n))
    BY <1>2, <1>3, <2>2, <2>3 DEF Pending, Unread, WillLook, ToDiscover
  <2> QED
    BY <1>3, <2>4 DEF NoteSeen
<1> QED
  BY <1>3, <1>4, <1>5, <1>6, <1>7 DEF SeenInv

LEMMA KillSees ==
    ASSUME Premises, Memos!Kill
    PROVE  SeenInv'
<1>1. /\ watcher' = None /\ events' = {} /\ watched' = {}
      /\ notesMtime' = [n \in Names |-> None]
      /\ UNCHANGED <<memo, inbox, work, pushed>>
  BY DEF Memos!Kill, Memos!Goes, Memos!files
<1> QED
  BY <1>1 DEF SeenInv, SeenTypes, Owned, Own, Premises

---------------------------------------------------------------------------
\* The owner does nothing while the watcher is starting, so there is an event of it.
LEMMA OwnerSeen ==
    ASSUME Premises, Memos!OwnerActs, watcher # None
    PROVE  watched = Memos!Dirs /\ watcher.first = FALSE
<1>1. watched = Memos!Dirs
  BY DEF Memos!OwnerActs, Premises
<1> QED
  BY <1>1, SeenFacts DEF Phase, Memos!Dirs

LEMMA RecordSees ==
    ASSUME Premises, NEW r \in Recordings, Memos!Record(r)
    PROVE  SeenInv'
<1>1. PICK m : m = memo.name[r]
  OBVIOUS
<1>2. /\ m \in Names /\ inbox' = [inbox EXCEPT ![m] = r] /\ r \in memo.recordings
      /\ events' = events \cup ({"inbox"} \cap watched) /\ Memos!OwnerActs
      /\ UNCHANGED <<memo, sidecar, noteSidecar, work, pushed, notesMtime, watched, watcher>>
  BY <1>1, MemoSettingFacts DEF Memos!Record, Memos!Happens
<1>3. /\ inbox'[m] = r /\ \A n \in Names : n # m => inbox'[n] = inbox[n]
  BY <1>2, MemoFacts DEF Premises
<1>4. SeenTypes' /\ Owned'
  BY <1>1, <1>2, <1>3 DEF Premises, SeenInv, SeenTypes, Owned, Own
<1>5. CASE watcher = None
  BY <1>2, <1>4, <1>5 DEF Premises, SeenInv
<1>6. CASE watcher # None
  <2> PICK w : w = watcher
    OBVIOUS
  <2>1. /\ Phase(w) /\ Filed(w) /\ FirstLook(w) /\ \A n \in Names : Live(n) => NoteSeen(w, n)
        /\ w.first = FALSE /\ watched = Memos!Dirs
    BY <1>2, <1>6, SeenFacts, OwnerSeen
  <2>2. Phase(w)' /\ Filed(w)' /\ FirstLook(w)'
    BY <1>2, <2>1 DEF Phase, Filed, FirstLook, Own, Memos!Dirs
  <2>3. ASSUME NEW n \in Names, Live(n)'
        PROVE  NoteSeen(w, n)'
    <3>1. NoteSeen(w, n)
      BY <1>2, <2>1, <2>3 DEF Live
    <3>2. (Kept(n) => Kept(n)') /\ (Pending(n) => Pending(n)') /\ (Unread(n)' <=> Unread(n))
      BY <1>2 DEF Kept, Followed, Pending, Unread
    <3> QED
      BY <1>2, <3>1, <3>2 DEF NoteSeen, Followed
  <2> QED
    BY <1>2, <1>4, <1>6, <2>2, <2>3 DEF SeenInv
<1> QED
  BY <1>5, <1>6

LEMMA SidecarSees ==
    ASSUME Premises, NEW m \in Names, Memos!RemoveSidecar(m)
    PROVE  SeenInv'
<1>1. /\ sidecar' = sidecar \ {m} /\ events' = events \cup ({"inbox"} \cap watched)
      /\ Memos!OwnerActs
      /\ UNCHANGED <<memo, inbox, noteSidecar, work, pushed, notesMtime, watched, watcher>>
  BY DEF Memos!RemoveSidecar, Memos!Happens
<1>2. SeenTypes' /\ Owned'
  BY <1>1 DEF Premises, SeenInv, SeenTypes, Owned, Own
<1>3. CASE watcher = None
  BY <1>1, <1>2, <1>3 DEF Premises, SeenInv
<1>4. CASE watcher # None
  <2> PICK w : w = watcher
    OBVIOUS
  <2>1. /\ Phase(w) /\ Filed(w) /\ FirstLook(w) /\ \A n \in Names : Live(n) => NoteSeen(w, n)
        /\ w.first = FALSE /\ watched = Memos!Dirs
    BY <1>1, <1>4, SeenFacts, OwnerSeen
  <2>2. Phase(w)' /\ Filed(w)' /\ FirstLook(w)'
    BY <1>1, <2>1 DEF Phase, Filed, FirstLook, Own, Memos!Dirs
  <2>3. ASSUME NEW n \in Names, Live(n)'
        PROVE  NoteSeen(w, n)'
    <3>1. NoteSeen(w, n)
      BY <1>1, <2>1, <2>3 DEF Live
    <3>2. (Kept(n) => Kept(n)') /\ (Pending(n) => Pending(n)') /\ (Unread(n)' <=> Unread(n))
      BY <1>1 DEF Kept, Followed, Pending, Unread
    <3> QED
      BY <1>1, <3>1, <3>2 DEF NoteSeen, Followed
  <2> QED
    BY <1>1, <1>2, <1>4, <2>2, <2>3 DEF SeenInv
<1> QED
  BY <1>3, <1>4

\* There is an event of a task that is checked.
LEMMA CheckSees ==
    ASSUME Premises, NEW m \in Names, Memos!Check(m)
    PROVE  SeenInv'
<1> PICK u : u = work'
  OBVIOUS
<1>1. /\ work.note[m] # None /\ u = [work EXCEPT !.note[m].done = TRUE]
      /\ Memos!Writes(u) /\ Memos!Happens(Memos!NoteEvents(u)) /\ Memos!OwnerActs
      /\ ~work.note[m].done
      /\ UNCHANGED <<memo, inbox, sidecar, noteSidecar, pushed, watched, watcher>>
  BY DEF Memos!Check, Memos!Writes
<1> PICK x : x = work.note[m]
  OBVIOUS
<1> PICK y : y = [x EXCEPT !.done = TRUE]
  OBVIOUS
<1>2. x \in Memos!Notes
  BY <1>1, MemoFacts, RepoParts DEF Premises
<1>3. y \in Memos!Notes /\ y.task = x.task /\ y # x
  BY <1>1, <1>2 DEF Memos!Notes
<1>4. /\ u.commitment = work.commitment /\ u.note[m] = y
      /\ \A n \in Names : n # m => u.note[n] = work.note[n]
  <2>1. Noted(u, work, m, y) /\ work \in Memos!Repos
    BY <1>1, MemoFacts DEF Noted, Premises
  <2> QED
    BY <1>3, <2>1, NoteWritten
<1>5. /\ events \subseteq events' /\ notesMtime' \in [Names -> BOOLEAN \cup {None}]
      /\ events' \subseteq events \cup watched
      /\ \A n \in Names : u.note[n] = work.note[n] => (Unread(n)' <=> Unread(n))
      /\ \A n \in Names : u.note[n] # work.note[n] =>
            Unread(n)' /\ ("notes" \in watched => "notes" \in events')
      /\ \A n \in Names : notesMtime[n] = None => notesMtime'[n] = None
  <2>1. PICK dirs : dirs = {}
    OBVIOUS
  <2>2. events' = events \cup ((Memos!NoteEvents(u) \cup dirs) \cap watched)
    BY <1>1, <2>1 DEF Memos!Happens
  <2> QED
    BY <1>1, <2>2, NotesWritten
<1>6. Owned'
  <2>1. ASSUME NEW n \in Names
        PROVE  /\ u.note[n] # None => Own(n, u.note[n].task)
               /\ pushed.note[n] # None => Own(n, pushed.note[n].task) /\ u.note[n] # None
               /\ inbox[n] # None => memo.name[inbox[n]] = n /\ inbox[n] \in memo.recordings
    <3>1. /\ work.note[n] # None => Own(n, work.note[n].task)
          /\ pushed.note[n] # None => Own(n, pushed.note[n].task) /\ work.note[n] # None
          /\ inbox[n] # None => memo.name[inbox[n]] = n /\ inbox[n] \in memo.recordings
      BY DEF Premises, SeenInv, Owned
    <3>2. y # None
      BY <1>3 DEF Premises, MemoSane
    <3>3. CASE n = m
      BY <1>1, <1>3, <1>4, <3>1, <3>2, <3>3
    <3>4. CASE n # m
      BY <1>4, <3>1, <3>4
    <3> QED
      BY <3>3, <3>4
  <2> QED
    BY <1>1, <2>1 DEF Owned, Own
<1>7. SeenTypes'
  BY <1>1, <1>5 DEF SeenTypes, Premises, SeenInv
<1>8. CASE watcher = None
  BY <1>1, <1>5, <1>6, <1>7, <1>8 DEF Premises, SeenInv
<1>9. CASE watcher # None
  <2> PICK w : w = watcher
    OBVIOUS
  <2>1. /\ Phase(w) /\ Filed(w) /\ FirstLook(w) /\ \A n \in Names : Live(n) => NoteSeen(w, n)
        /\ w.first = FALSE /\ watched = Memos!Dirs
    BY <1>1, <1>9, SeenFacts, OwnerSeen
  <2>2. Phase(w)' /\ Filed(w)' /\ FirstLook(w)'
    BY <1>1, <1>5, <2>1 DEF Phase, Filed, FirstLook, Own, Memos!Dirs
  <2>3. ASSUME NEW n \in Names, Live(n)'
        PROVE  NoteSeen(w, n)'
    <3>1. CASE n = m
      <4>1. Pending(n)'
        BY <1>3, <1>4, <1>5, <2>1, <3>1 DEF Pending, Memos!Dirs
      <4> QED
        BY <2>1, <4>1 DEF NoteSeen
    <3>2. CASE n # m
      <4>1. NoteSeen(w, n)
        BY <1>1, <1>4, <2>1, <2>3, <3>2 DEF Live
      <4>2. Kept(n) => Kept(n)'
        BY <1>1, <1>4, <3>2, KeptStays
      <4>3. (Pending(n) => Pending(n)') /\ (Unread(n)' <=> Unread(n))
        BY <1>4, <1>5, <3>2 DEF Pending
      <4>4. Followed(work.note[n], work.commitment) => Followed(work.note[n], work.commitment)'
        BY <1>4, <3>2 DEF Followed
      <4>5. work'.note[n] = work.note[n] /\ memo' = memo /\ pushed' = pushed
        BY <1>1, <1>4, <3>2
      <4> QED
        BY <4>1, <4>2, <4>3, <4>4, <4>5 DEF NoteSeen
    <3> QED
      BY <3>1, <3>2
  <2> QED
    BY <1>1, <1>6, <1>7, <1>9, <2>2, <2>3 DEF SeenInv
<1> QED
  BY <1>8, <1>9

\* What a task's commitment is after its note is processed.
LEMMA IngestedFollows ==
    ASSUME MemoSane, NEW old \in [Memos!Tasks -> {"inbox", "closed"} \cup {None}],
           NEW task \in Memos!Tasks, NEW done \in BOOLEAN,
           NEW c, c = Memos!Ingested(old, task, done)
    PROVE  /\ IF done THEN c[task] # "inbox" ELSE c[task] # None
           /\ \A t \in Memos!Tasks : t # task => c[t] = old[t]
<1>1. "inbox" # None /\ "closed" # None
  BY DEF MemoSane
<1>2. CASE old[task] = None /\ ~done
  BY <1>1, <1>2 DEF Memos!Ingested
<1>3. CASE old[task] = None /\ done
  BY <1>1, <1>3 DEF Memos!Ingested
<1>4. CASE old[task] # None /\ done
  BY <1>1, <1>4 DEF Memos!Ingested
<1>5. CASE old[task] # None /\ ~done
  BY <1>1, <1>5 DEF Memos!Ingested
<1> QED
  BY <1>2, <1>3, <1>4, <1>5

Marked(u, v, n, x, y) == /\ y = [x EXCEPT !.id = TRUE]
                         /\ u = IF x.id THEN v ELSE [v EXCEPT !.note[n] = y]

LEMMA StampWrites ==
    ASSUME NEW v \in Memos!Repos, NEW n \in Names, NEW x \in Memos!Notes,
           NEW y, NEW u, Marked(u, v, n, x, y)
    PROVE  /\ u \in Memos!Repos /\ u.commitment = v.commitment
           /\ x.id => u.note[n] = v.note[n]
           /\ ~x.id => u.note[n] = y
           /\ \A m \in Names : m # n => u.note[m] = v.note[m]
<1>1. CASE x.id
  BY <1>1 DEF Marked
<1>2. CASE ~x.id
  <2>1. Noted(u, v, n, y)
    BY <1>2 DEF Noted, Marked
  <2>2. y \in Memos!Notes
    BY DEF Memos!Notes, Marked
  <2> QED
    BY <1>2, <2>1, <2>2, NoteWritten
<1> QED
  BY <1>1, <1>2

\* The commitments follow what was read of a note, and what is written to it is just that.
LEMMA StampSees ==
    ASSUME Premises, Memos!Stamp
    PROVE  SeenInv'
<1> PICK w : w = watcher
  OBVIOUS
<1>1. /\ w \in Memos!Watchers /\ w.at = "stamp" /\ w # None /\ w.name \in Names /\ w.first \in BOOLEAN
      /\ Phase(w) /\ Filed(w) /\ FirstLook(w) /\ InHand(w)
      /\ \A n \in Names : Live(n) => NoteSeen(w, n)
  BY SeenFacts DEF Memos!Stamp, Memos!At, Resting
<1>2. CASE Memos!Fails(Memos!RolledBack, pushed)
  BY <1>1, <1>2, FailingSees DEF Resting
<1>3. CASE ~Memos!Fails(Memos!RolledBack, pushed)
  <2> PICK v : v = watcher'
    OBVIOUS
  <2> PICK u : u = work'
    OBVIOUS
  <2> PICK x : x = w.read
    OBVIOUS
  <2>0. PICK y, stamped : Marked(stamped, work, w.name, x, y)
    BY DEF Marked
  <2> PICK c : c = Memos!Ingested(stamped.commitment, x.task, x.done)
    OBVIOUS
  <2>1. /\ u = [stamped EXCEPT !.commitment = c]
        /\ v = [w EXCEPT !.at = "commit", !.read = None]
        /\ Memos!Writes(u) /\ Memos!Happens(Memos!NoteEvents(u))
        /\ UNCHANGED <<memo, inbox, sidecar, noteSidecar, pushed, watched>>
    BY <1>3, <2>0 DEF Marked, Memos!Stamp, Memos!Writes, Memos!Goes, Memos!files
  <2>2. /\ x \in Memos!Notes /\ x.task \in Memos!Tasks /\ x.done \in BOOLEAN /\ x.id \in BOOLEAN
        /\ Own(w.name, x.task) /\ x # None
    BY <1>1 DEF InHand, Memos!Watchers, Memos!Notes, Phase
  <2>3. y \in Memos!Notes /\ y.task = x.task /\ y.done = x.done /\ y # None
    BY <2>0, <2>2 DEF Marked, Memos!Notes, Premises, MemoSane
  <2>4. /\ stamped \in Memos!Repos /\ stamped.commitment = work.commitment
        /\ x.id => stamped.note[w.name] = work.note[w.name]
        /\ ~x.id => stamped.note[w.name] = y
        /\ \A n \in Names : n # w.name => stamped.note[n] = work.note[n]
    <3> PICK m : m = w.name
      OBVIOUS
    <3>1. m \in Names /\ x \in Memos!Notes /\ work \in Memos!Repos
      BY <1>1, <2>2, MemoFacts DEF Premises
    <3>2. Marked(stamped, work, m, x, y)
      BY <2>0
    <3>3. /\ stamped \in Memos!Repos /\ stamped.commitment = work.commitment
          /\ x.id => stamped.note[m] = work.note[m]
          /\ ~x.id => stamped.note[m] = y
          /\ \A n \in Names : n # m => stamped.note[n] = work.note[n]
      BY <3>1, <3>2, StampWrites
    <3> QED
      BY <3>3
  <2>5. /\ c \in [Memos!Tasks -> {"inbox", "closed"} \cup {None}]
        /\ IF x.done THEN c[x.task] # "inbox" ELSE c[x.task] # None
        /\ \A t \in Memos!Tasks : t # x.task => c[t] = work.commitment[t]
    <3>1. MemoSane
      BY DEF Premises
    <3> PICK old : old = stamped.commitment
      OBVIOUS
    <3>2. /\ old \in [Memos!Tasks -> {"inbox", "closed"} \cup {None}]
          /\ old = work.commitment
      BY <2>4, RepoParts
    <3> PICK task : task = x.task
      OBVIOUS
    <3> PICK done : done = x.done
      OBVIOUS
    <3>3. task \in Memos!Tasks /\ done \in BOOLEAN /\ c = Memos!Ingested(old, task, done)
      BY <2>2
    <3>4. c \in [Memos!Tasks -> {"inbox", "closed"} \cup {None}]
      BY <3>1, <3>2, <3>3, IngestedFacts
    <3>5. /\ IF done THEN c[task] # "inbox" ELSE c[task] # None
          /\ \A t \in Memos!Tasks : t # task => c[t] = old[t]
      BY <3>1, <3>2, <3>3, IngestedFollows
    <3> QED
      BY <3>2, <3>4, <3>5
  <2>6. u.commitment = c /\ u.note = stamped.note
    BY <2>1, <2>4, <2>5, CommitmentWritten
  <2>7. /\ v.at = "commit" /\ v.first = w.first /\ v.todo = w.todo /\ v.name = w.name
        /\ v.rec = w.rec /\ v # None
    <3>1. v \in Memos!Watchers
      BY <1>1, <2>1 DEF Memos!Watchers, Memos!Steps
    <3> QED
      BY <1>1, <2>1, <3>1 DEF Memos!Watchers, Premises, MemoSane
  <2>8. /\ events \subseteq events' /\ notesMtime' \in [Names -> BOOLEAN \cup {None}]
        /\ events' \subseteq events \cup watched
        /\ \A n \in Names : u.note[n] = work.note[n] => (Unread(n)' <=> Unread(n))
        /\ \A n \in Names : u.note[n] # work.note[n] =>
              Unread(n)' /\ ("notes" \in watched => "notes" \in events')
        /\ \A n \in Names : notesMtime[n] = None => notesMtime'[n] = None
    <3>1. PICK dirs : dirs = {}
      OBVIOUS
    <3>2. events' = events \cup ((Memos!NoteEvents(u) \cup dirs) \cap watched)
      BY <2>1, <3>1 DEF Memos!Happens
    <3> QED
      BY <2>1, <3>2, NotesWritten
  <2>9. Owned'
    <3>1. ASSUME NEW n \in Names
          PROVE  /\ u.note[n] # None => Own(n, u.note[n].task)
                 /\ pushed.note[n] # None => Own(n, pushed.note[n].task) /\ u.note[n] # None
                 /\ inbox[n] # None => memo.name[inbox[n]] = n /\ inbox[n] \in memo.recordings
      BY <2>2, <2>3, <2>4, <2>6 DEF Premises, SeenInv, Owned
    <3> QED
      BY <2>1, <3>1 DEF Owned, Own
  <2>10. Phase(v)' /\ Filed(v)' /\ FirstLook(v)'
    BY <1>1, <2>1, <2>7, <2>8
       DEF Phase, Filed, FirstLook, WillLook, ToDiscover, Looking, Ingesting, Memos!Dirs
  <2>11. SeenTypes'
    BY <2>1, <2>8 DEF SeenTypes, Premises, SeenInv
\* another note than that in hand
  <2>12. ASSUME NEW n \in Names, Live(n)', n # w.name
         PROVE  NoteSeen(v, n)'
    <3>1. Live(n) /\ NoteSeen(w, n) /\ ~Handling(w, n) /\ ~Handling(v, n) /\ u.note[n] = work.note[n]
      BY <1>1, <2>1, <2>4, <2>6, <2>7, <2>12 DEF Live, Handling
    <3>2. work.note[n].task \in Memos!Tasks /\ work.note[n].task # x.task
      <4>1. work.note[n] \in Memos!Notes /\ Own(n, work.note[n].task)
        BY <3>1, MemoFacts, RepoParts DEF Live, Premises, SeenInv, Owned
      <4> QED
        BY <1>1, <2>2, <2>12, <4>1, OneOwner DEF Memos!Notes
    <3>3. Kept(n) => Kept(n)'
      <4>1. work'.commitment[work.note[n].task] = work.commitment[work.note[n].task]
        BY <2>5, <2>6, <3>2
      <4>2. work'.note[n] = work.note[n] /\ UNCHANGED <<memo, pushed>>
        BY <2>1, <3>1
      <4> QED
        BY <4>1, <4>2, KeptStays
    <3>4. (Pending(n) => Pending(n)') /\ (Unread(n)' <=> Unread(n))
      BY <2>8, <3>1 DEF Pending
    <3>5. WillLook(w, n) => WillLook(v, n)
      BY <1>1, <2>7 DEF WillLook, ToDiscover, Looking, Ingesting
    <3>6. Kept(n)' \/ Pending(n)' \/ (Unread(n)' /\ WillLook(v, n))
      BY <3>1, <3>3, <3>4, <3>5 DEF NoteSeen
    <3>7. v.first /\ memo.tracked /\ (Looking(v) \/ v.at = "subscribe") /\ n \notin v.todo =>
             pushed.note[n] = u.note[n]
      BY <1>1, <2>7, <3>1 DEF NoteSeen, Looking, Ingesting
    <3> QED
      BY <2>1, <2>7, <2>12, <3>1, <3>6, <3>7 DEF NoteSeen
\* the note in hand, which is as it was read, or there is an event of it
  <2>13. ASSUME NEW n \in Names, Live(n)', n = w.name
         PROVE  NoteSeen(v, n)'
    <3>1. Pending(n)' \/ Followed(u.note[n], c) \/ (w.rec # None /\ Unread(n)' /\ WillLook(v, n))
      <4>1. CASE ~x.id
        <5>1. u.note[n] = y
          BY <2>4, <2>6, <2>13, <4>1
        <5>2. Followed(y, c)
          BY <2>3, <2>5 DEF Followed
        <5> QED
          BY <5>1, <5>2
      <4>2. CASE x.id
        <5>1. u.note[n] = work.note[n] /\ Live(n) /\ NoteSeen(w, n)
          BY <1>1, <2>1, <2>4, <2>6, <2>13, <4>2 DEF Live
        <5>2. Pending(n) => Pending(n)'
          BY <2>8, <5>1 DEF Pending
        <5>3. Pending(n) \/ x = work.note[n]
          BY <1>1, <2>13, <5>1 DEF NoteSeen
        <5> QED
          BY <2>5, <5>1, <5>2, <5>3 DEF Followed
      <4> QED
        BY <4>1, <4>2
    <3>2. CASE w.rec = None
      <4>1. Handling(v, n)
        BY <2>7, <2>13, <3>2 DEF Handling, Ingesting
      <4> QED
        BY <2>6, <2>7, <3>1, <3>2, <4>1 DEF NoteSeen
    <3>3. CASE w.rec # None
      <4>1. ~Handling(v, n) /\ ~Looking(v)
        BY <2>7, <3>3 DEF Handling, Looking
      <4>2. Kept(n)' \/ Pending(n)' \/ (Unread(n)' /\ WillLook(v, n))
        <5>1. CASE u.note[n] # work.note[n]
          BY <1>1, <2>7, <2>8, <3>3, <5>1 DEF Pending, Phase, Memos!Dirs, WillLook, ToDiscover
        <5>2. CASE u.note[n] = work.note[n]
          <6>1. Live(n) /\ NoteSeen(w, n) /\ ~Handling(w, n)
            BY <1>1, <2>1, <2>13, <3>3, <5>2 DEF Live, Handling
          <6>2. Pending(n) => Pending(n)'
            BY <2>8, <5>2 DEF Pending
          <6>3. Unread(n) /\ WillLook(w, n) => Unread(n)' /\ WillLook(v, n)
            BY <1>1, <2>7, <2>8, <3>3, <5>2 DEF WillLook, ToDiscover, Looking
          <6>4. Kept(n) /\ Followed(u.note[n], c) => Kept(n)'
            BY <2>1, <2>6, <5>2 DEF Kept, Followed
          <6> QED
            BY <3>1, <6>1, <6>2, <6>3, <6>4 DEF NoteSeen
        <5> QED
          BY <5>1, <5>2
      <4> QED
        BY <2>7, <4>1, <4>2 DEF NoteSeen
    <3> QED
      BY <3>2, <3>3
  <2> QED
    BY <2>7, <2>9, <2>10, <2>11, <2>12, <2>13 DEF SeenInv
<1> QED
  BY <1>2, <1>3

LEMMA InitSees ==
    ASSUME MemoSane, MemosApart, Memos!Init
    PROVE  SeenInv
<1>1. memo \in Memos!SettingRecords /\ memo.typed \in [Names -> Memos!Tasks \cup {None}]
  BY DEF Memos!Init, MemoSane, Memos!SettingRecords
<1>2. PICK noted : noted = [n \in Names |-> IF memo.typed[n] = None THEN None
                                           ELSE Memos!Written(memo.typed[n])]
  OBVIOUS
<1>3. work = [note |-> noted, commitment |-> [t \in Memos!Tasks |-> None]] /\ pushed = work
  BY <1>2 DEF Memos!Init
<1>4. ASSUME NEW n \in Names, noted[n] # None
      PROVE  Own(n, noted[n].task)
  BY <1>1, <1>2, <1>4 DEF Own, Memos!Written
<1> QED
  BY <1>3, <1>4 DEF Memos!Init, SeenInv, SeenTypes, Owned

LEMMA NextSees ==
    ASSUME Premises, [Memos!Next]_(Memos!vars)
    PROVE  SeenInv'
<1>1. CASE UNCHANGED Memos!vars
  BY <1>1 DEF Memos!vars, Memos!files, Premises, SeenInv, SeenTypes, Owned, Own, Phase, Filed,
     FirstLook, NoteSeen, Kept, Followed, Pending, Unread, Live
<1>2. CASE Memos!Next
  <2>1. CASE Memos!Start \/ Memos!NextRecording \/ Memos!Transcribe \/ Memos!Render \/ Memos!Prepare
    BY <2>1, StartSees, NextRecordingSees, TranscribeSees, RenderSees, PrepareSees
  <2>2. CASE Memos!WriteQuick \/ Memos!ReadNote \/ Memos!Stamp \/ Memos!Commit \/ Memos!Remove
    BY <2>2, WriteQuickSees, ReadNoteSees, StampSees, CommitSees, RemoveSees
  <2>3. CASE Memos!Discover \/ Memos!NextNote \/ Memos!Subscribe \/ Memos!HandleEvent \/ Memos!Kill
    BY <2>3, DiscoverSees, NextNoteSees, SubscribeSees, HandleEventSees, KillSees
  <2>4. CASE \E r \in Recordings : Memos!Record(r)
    BY <2>4, RecordSees
  <2>5. CASE \E n \in Names : Memos!Check(n) \/ Memos!RemoveSidecar(n)
    BY <2>5, CheckSees, SidecarSees
  <2> QED
    BY <1>2, <2>1, <2>2, <2>3, <2>4, <2>5 DEF Memos!Next
<1> QED
  BY <1>1, <1>2

\* When the watcher waits and no event is pending, every recording in the inbox has a sidecar and
\* the commitments follow every note without one, if typed notes have tasks of their own: for any
\* number of recordings and notes, whatever was rolled back after it was seen, whichever steps
\* failed, wherever the watcher was killed and whatever the owner did while it was at work.
THEOREM NothingIsOverlooked ==
    ASSUME MemoSane, MemosApart
    PROVE  Memos!Spec => []NothingOverlooked
<1> DEFINE Inv == MemoInv /\ (~memo.gap => SeenInv)
<1>1. ASSUME Memos!Init
      PROVE  Inv
  BY <1>1, InitMemo, InitSees
<1>2. ASSUME Inv, [Memos!Next]_(Memos!vars)
      PROVE  Inv'
  <2>1. MemoInv'
    BY <1>2, NextMemo
  <2>2. memo' = memo
    BY <1>2 DEF Memos!vars, Memos!Next, Memos!Start, Memos!NextRecording, Memos!Transcribe, Memos!Render,
       Memos!Prepare, Memos!WriteQuick, Memos!ReadNote, Memos!Stamp, Memos!Commit, Memos!Remove,
       Memos!Discover, Memos!NextNote, Memos!Subscribe, Memos!HandleEvent, Memos!Kill, Memos!Record,
       Memos!Check, Memos!RemoveSidecar, Memos!Fails
  <2>3. ~memo.gap => SeenInv'
    BY <1>2, NextSees DEF Premises
  <2> QED
    BY <2>1, <2>2, <2>3
<1>3. ASSUME Inv
      PROVE  NothingOverlooked
  <2>1. SUFFICES ASSUME ~memo.gap, Memos!At("wait"), events = {}
                 PROVE  /\ \A n \in Names : inbox[n] # None => n \in sidecar
                        /\ \A n \in Names \ noteSidecar : work.note[n] # None =>
                              Followed(work.note[n], work.commitment)
    BY DEF NothingOverlooked, Memos!NothingOverlooked, Followed
  <2>2. watcher # None /\ watcher.at = "wait" /\ watcher.rec = None /\ watcher.first \in BOOLEAN
    BY <1>3, <2>1, SeenFacts DEF Memos!At, Premises, Resting
  <2>3. Phase(watcher) /\ Filed(watcher) /\ \A n \in Names : Live(n) => NoteSeen(watcher, n)
    BY <1>3, <2>1, <2>2 DEF SeenInv
  <2>4. ASSUME NEW n \in Names, Live(n)
        PROVE  Followed(work.note[n], work.commitment)
    BY <2>1, <2>2, <2>3, <2>4
       DEF Phase, NoteSeen, Kept, Handling, Pending, WillLook, ToDiscover, Looking, Ingesting
  <2> QED
    BY <2>1, <2>2, <2>3, <2>4 DEF Filed, Live
<1> QED
  BY <1>1, <1>2, <1>3, PTL DEF Memos!Spec

---------------------------------------------------------------------------
(* The tools for commitments.                                                  *)

\* None is no call.
GtdSane == None \notin Calls

\* What a call is after a step of its tool.
Skipped(c, p, error) == [c EXCEPT !.step = "next", !.todo = @ \ {p}, !.at = None,
                                  !.error = @ \/ error]
Closing(c, p) == [c EXCEPT !.step = "close", !.at = p]
Reclosing(c, p) == [c EXCEPT !.step = "prepare", !.at = p, !.mine = {p[1]},
                             !.writes = <<File(p[1], [c.read[p[1]] EXCEPT !.overlay = "closed"])>>]
Matching(c, p, error, status, order) ==
    [c EXCEPT !.todo = {}, !.at = p, !.error = error, !.mine = ToSet(order),
              !.writes = [i \in DOMAIN order |->
                             File(order[i], [c.read[order[i]] EXCEPT !.overlay = status])],
              !.step = IF order = <<>> THEN @ ELSE "prepare"]
Writing(c) == [c EXCEPT !.step = "write"]
Wrote(c) == [c EXCEPT !.writes = Tail(@), !.step = IF Len(c.writes) = 1 THEN "commit" ELSE @]
\* A set_status goes on with a push of its notes.
Repushed(c) == [Call("set_status", Bindings(c.mine \cap Closed(note), note), <<>>)
                   EXCEPT !.mine = c.mine]

\* Agent a has call d then.
Turns(a, d) == tool' = [tool EXCEPT ![a] = d]

LEMMA TurnTyped ==
    ASSUME TypeOK, NEW a \in Agents, NEW d \in Calls \cup {None}, Turns(a, d)
    PROVE  /\ tool' \in [Agents -> Calls \cup {None}] /\ tool'[a] = d
           /\ \A b \in Agents \ {a} : tool'[b] = tool[b]
  BY DEF TypeOK, Turns

LEMMA BusyTyped == ASSUME TypeOK, NEW a \in Agents, tool[a] # None PROVE tool[a] \in Calls
  BY DEF TypeOK

\* Fields of a call.
LEMMA CallParts ==
    ASSUME NEW c \in Calls
    PROVE  /\ c.step \in {"next", "close", "prepare", "write", "commit"} /\ c.name \in Tools
           /\ c.read \in [Notes -> Commitments] /\ c.todo \subseteq Notes \X Objects
           /\ c.at \in (Notes \X Objects) \cup {None} /\ c.writes \in Seq(Files)
           /\ c.mine \subseteq Notes /\ c.error \in BOOLEAN
  BY DEF Calls

LEMMA SkippedParts ==
    ASSUME NEW c \in Calls, NEW p, NEW e \in BOOLEAN
    PROVE  LET d == Skipped(c, p, e) IN
           /\ d \in Calls /\ d.step = "next" /\ d.todo = c.todo \ {p} /\ d.at = None
           /\ d.error = (c.error \/ e)
           /\ d.name = c.name /\ d.read = c.read /\ d.writes = c.writes /\ d.mine = c.mine
  BY CallParts DEF Calls, Skipped

LEMMA ClosingParts ==
    ASSUME NEW c \in Calls, NEW p \in Notes \X Objects
    PROVE  LET d == Closing(c, p) IN
           /\ d \in Calls /\ d.step = "close" /\ d.at = p
           /\ d.todo = c.todo /\ d.error = c.error
           /\ d.name = c.name /\ d.read = c.read /\ d.writes = c.writes /\ d.mine = c.mine
  BY DEF Calls, Closing

LEMMA Overlaid ==
    ASSUME NEW x \in Commitments, NEW s \in Statuses \cup {None}
    PROVE  LET y == [x EXCEPT !.overlay = s] IN
           /\ y \in Commitments /\ y.overlay = s
           /\ y.bindings = x.bindings /\ y.into = x.into /\ y.separate = x.separate
  BY DEF Commitments

\* A file whose note has another status, and nothing else.
Restated(n, x, s) == File(n, [x EXCEPT !.overlay = s])

LEMMA RestatedFile == ASSUME NEW n, NEW x, NEW s PROVE Restated(n, x, s).file = n
  BY DEF Restated, File

LEMMA RestatedParts ==
    ASSUME NEW n \in Notes, NEW x \in Commitments, NEW s \in Statuses \cup {None}
    PROVE  LET y == Restated(n, x, s).text IN
           /\ Restated(n, x, s) \in Files /\ Restated(n, x, s).file = n
           /\ y \in Commitments /\ y.overlay = s
           /\ y.bindings = x.bindings /\ y.into = x.into /\ y.separate = x.separate
<1>1. PICK y : y = [x EXCEPT !.overlay = s]
  OBVIOUS
<1>2. /\ y \in Commitments /\ y.overlay = s
      /\ y.bindings = x.bindings /\ y.into = x.into /\ y.separate = x.separate
  BY <1>1, Overlaid
<1>3. Restated(n, x, s) = File(n, y)
  BY <1>1 DEF Restated
<1> QED
  BY <1>2, <1>3 DEF File, Files

LEMMA FileParts ==
    ASSUME NEW n \in Notes, NEW x \in Commitments
    PROVE  File(n, x) \in Files /\ File(n, x).file = n /\ File(n, x).text = x
  BY DEF File, Files

LEMMA One ==
    ASSUME NEW f \in Files
    PROVE  /\ <<f>> \in Seq(Files) /\ Len(<<f>>) = 1 /\ <<f>>[1] = f /\ <<f>> # <<>>
           /\ ToSet(<<f>>) = {f}
  BY DEF ToSet

LEMMA Two ==
    ASSUME NEW f \in Files, NEW g \in Files
    PROVE  /\ <<f, g>> \in Seq(Files) /\ Len(<<f, g>>) = 2 /\ <<f, g>>[1] = f /\ <<f, g>>[2] = g
           /\ <<f, g>> # <<>> /\ ToSet(<<f, g>>) = {f, g}
  BY DEF ToSet

LEMMA ReclosingParts ==
    ASSUME NEW c \in Calls, NEW p \in Notes \X Objects
    PROVE  LET d == Reclosing(c, p)
               f == Restated(p[1], c.read[p[1]], "closed")
           IN
           /\ f \in Files
           /\ d \in Calls /\ d.step = "prepare" /\ d.at = p /\ d.mine = {p[1]} /\ d.writes = <<f>>
           /\ d.writes # <<>> /\ d.todo = c.todo /\ d.error = c.error
           /\ d.name = c.name /\ d.read = c.read
<1> DEFINE f == Restated(p[1], c.read[p[1]], "closed")
<1>1. c.read[p[1]] \in Commitments /\ p[1] \in Notes
  BY CallParts
<1>2. f \in Files
  BY <1>1, RestatedParts DEF Statuses
<1> HIDE DEF f
<1>3. PICK ws \in Seq(Files) : ws = <<f>>
  BY <1>2, One
<1>4. PICK n \in Notes : n = p[1]
  BY <1>1
<1>5. Reclosing(c, p) = [c EXCEPT !.step = "prepare", !.at = p, !.mine = {n}, !.writes = ws]
  BY <1>3, <1>4 DEF Reclosing, Restated, f
<1>6. PICK d : d = [c EXCEPT !.step = "prepare", !.at = p, !.mine = {n}, !.writes = ws]
  OBVIOUS
<1>7. /\ d \in Calls /\ d.step = "prepare" /\ d.at = p /\ d.mine = {n} /\ d.writes = ws
      /\ d.todo = c.todo /\ d.error = c.error /\ d.name = c.name /\ d.read = c.read
  BY <1>6 DEF Calls
<1> QED
  BY <1>2, <1>3, <1>4, <1>5, <1>6, <1>7, One DEF f

LEMMA NotesFinite == ASSUME NEW S \in SUBSET Notes PROVE Cardinality(S) \in Nat
<1>1. IsFiniteSet(Notes)
  BY FS_Interval, ConstantsAssumption DEF Notes
<1> QED
  BY <1>1, FS_Subset, FS_CardinalityType

LEMMA InOrderParts ==
    ASSUME NEW ns \in SUBSET Notes, NEW order \in InOrder(ns)
    PROVE  /\ order \in Seq(ns) /\ ToSet(order) = ns /\ DOMAIN order = 1 .. Len(order)
           /\ \A n \in ns : \E i \in DOMAIN order : order[i] = n
           /\ order = <<>> <=> ns = {}
<1>1. Cardinality(ns) \in Nat
  BY NotesFinite
<1>2. order \in [1 .. Cardinality(ns) -> ns] /\ ToSet(order) = ns
  BY DEF InOrder
<1>3. order \in Seq(ns)
  BY <1>1, <1>2
<1>4. \A n \in ns : \E i \in DOMAIN order : order[i] = n
  BY <1>2 DEF ToSet
<1>5. DOMAIN order = 1 .. Len(order) /\ (order = <<>> <=> DOMAIN order = {})
  BY <1>3
<1>6. ns = {} => DOMAIN order = {}
  BY <1>2, <1>5
<1>7. DOMAIN order = {} => ns = {}
  BY <1>4
<1> QED
  BY <1>2, <1>3, <1>4, <1>5, <1>6, <1>7

LEMMA MatchingParts ==
    ASSUME NEW c \in Calls, NEW p \in Notes \X Objects, NEW e \in BOOLEAN,
           NEW s \in Statuses \cup {None}, NEW ns \in SUBSET Notes, NEW order \in InOrder(ns)
    PROVE  LET d == Matching(c, p, e, s, order) IN
           /\ d \in Calls /\ d.todo = {} /\ d.at = p /\ d.error = e /\ d.mine = ns
           /\ d.name = c.name /\ d.read = c.read
           /\ ns = {} => d.step = c.step /\ d.writes = <<>>
           /\ ns # {} => d.step = "prepare" /\ d.writes # <<>>
           /\ \A i \in DOMAIN d.writes : \E n \in ns :
                 d.writes[i] = Restated(n, c.read[n], s)
           /\ \A n \in ns : \E i \in DOMAIN d.writes :
                 d.writes[i] = Restated(n, c.read[n], s)
<1> DEFINE ws == [i \in DOMAIN order |-> Restated(order[i], c.read[order[i]], s)]
<1>1. /\ order \in Seq(ns) /\ ToSet(order) = ns /\ DOMAIN order = 1 .. Len(order)
      /\ \A n \in ns : \E i \in DOMAIN order : order[i] = n
      /\ order = <<>> <=> ns = {}
  BY InOrderParts
<1>2. \A n \in ns : Restated(n, c.read[n], s) \in Files
  BY CallParts, RestatedParts
<1>3. ws \in Seq(Files) /\ DOMAIN ws = DOMAIN order /\ (ws = <<>> <=> ns = {})
  BY <1>1, <1>2
<1>4. \A i \in DOMAIN ws : ws[i] = Restated(order[i], c.read[order[i]], s)
                           /\ order[i] \in ns
  BY <1>1
<1>5. \A n \in ns : \E i \in DOMAIN ws : ws[i] = Restated(n, c.read[n], s)
  BY <1>1
<1>6. Matching(c, p, e, s, order) =
        [c EXCEPT !.todo = {}, !.at = p, !.error = e, !.mine = ToSet(order), !.writes = ws,
                  !.step = IF order = <<>> THEN @ ELSE "prepare"]
  BY DEF Matching, Restated
<1> HIDE DEF ws
<1>7. PICK d : d = Matching(c, p, e, s, order)
  OBVIOUS
<1>8. /\ d \in Calls /\ d.todo = {} /\ d.at = p /\ d.error = e /\ d.mine = ns
      /\ d.name = c.name /\ d.read = c.read /\ d.writes = ws
      /\ d.step = IF order = <<>> THEN c.step ELSE "prepare"
  BY <1>1, <1>3, <1>6, <1>7 DEF Calls
<1> QED
  BY <1>1, <1>3, <1>4, <1>5, <1>7, <1>8

LEMMA WritingParts ==
    ASSUME NEW c \in Calls
    PROVE  LET d == Writing(c) IN
           /\ d \in Calls /\ d.step = "write" /\ d.todo = c.todo /\ d.at = c.at
           /\ d.error = c.error /\ d.name = c.name /\ d.read = c.read /\ d.writes = c.writes
           /\ d.mine = c.mine
  BY DEF Calls, Writing

LEMMA SeqFromFunction ==
    ASSUME NEW k \in Nat, NEW S, NEW r \in [1 .. k -> S]
    PROVE  r \in Seq(S) /\ Len(r) = k
  OBVIOUS

LEMMA NoFilesLeft == ASSUME NEW s \in Seq(Files) PROVE Len(s) \in Nat /\ (Len(s) = 0 <=> s = <<>>)
  OBVIOUS

LEMMA WroteParts ==
    ASSUME NEW c \in Calls, c.writes # <<>>
    PROVE  LET d == Wrote(c) IN
           /\ c.writes[1] \in Files /\ Head(c.writes) = c.writes[1]
           /\ d \in Calls /\ d.todo = c.todo /\ d.at = c.at /\ d.writes \in Seq(Files)
           /\ d.error = c.error /\ d.name = c.name /\ d.read = c.read /\ d.mine = c.mine
           /\ d.writes = Tail(c.writes) /\ Len(d.writes) = Len(c.writes) - 1
           /\ \A i \in DOMAIN d.writes : d.writes[i] = c.writes[i + 1] /\ i + 1 \in DOMAIN c.writes
           /\ \A i \in DOMAIN c.writes : i # 1 => i - 1 \in DOMAIN d.writes
           /\ IF Len(c.writes) = 1 THEN d.step = "commit" /\ d.writes = <<>>
              ELSE d.step = c.step /\ d.writes # <<>>
<1>1. c.writes \in Seq(Files) /\ c.writes # <<>>
  BY CallParts
<1>2. PICK w \in Seq(Files) : w = c.writes
  BY <1>1
<1>3. /\ w[1] \in Files /\ Head(w) = w[1] /\ Tail(w) \in Seq(Files)
      /\ Len(Tail(w)) = Len(w) - 1 /\ Len(w) \in Nat
      /\ \A i \in DOMAIN Tail(w) : Tail(w)[i] = w[i + 1] /\ i + 1 \in DOMAIN w
      /\ \A i \in DOMAIN w : i # 1 => i - 1 \in DOMAIN Tail(w)
  BY <1>1, <1>2
<1>4. IF Len(w) = 1 THEN Tail(w) = <<>> ELSE Tail(w) # <<>>
  BY <1>3, NoFilesLeft
<1>5. PICK d : d = Wrote(c)
  OBVIOUS
<1>6. /\ d \in Calls /\ d.todo = c.todo /\ d.at = c.at /\ d.error = c.error /\ d.name = c.name
      /\ d.read = c.read /\ d.mine = c.mine /\ d.writes = Tail(w)
      /\ d.step = IF Len(w) = 1 THEN "commit" ELSE c.step
  BY <1>2, <1>3, <1>5 DEF Calls, Wrote
<1> QED
  BY <1>1, <1>2, <1>3, <1>4, <1>5, <1>6

\* What a call is when it starts.
CallOf(d, name, todo, ws) ==
    /\ d \in Calls /\ d.name = name /\ d.todo = todo /\ d.writes = ws /\ d.read = note
    /\ d.at = None /\ d.error = FALSE /\ d.mine = {f.file : f \in ToSet(ws)}
    /\ IF ws = <<>> THEN d.step = "next" ELSE d.step = "prepare"

LEMMA CallTyped ==
    ASSUME TypeOK, NEW name \in Tools, NEW todo \in SUBSET (Notes \X Objects),
           NEW ws \in Seq(Files)
    PROVE  CallOf(Call(name, todo, ws), name, todo, ws)
<1>1. \A f \in ToSet(ws) : f \in Files
  BY DEF ToSet
<1>2. \A f \in ToSet(ws) : f.file \in Notes
  BY <1>1 DEF Files
<1>3. {f.file : f \in ToSet(ws)} \subseteq Notes
  BY <1>2
<1> DEFINE mine == {f.file : f \in ToSet(ws)}
<1>4. mine \subseteq Notes
  BY <1>3
<1>5. Call(name, todo, ws) =
        [step |-> IF ws = <<>> THEN "next" ELSE "prepare", name |-> name, read |-> note,
         todo |-> todo, at |-> None, writes |-> ws, mine |-> mine, error |-> FALSE]
  BY DEF Call
<1> HIDE DEF mine
<1>6. PICK d : d = Call(name, todo, ws)
  OBVIOUS
<1>7. /\ d \in Calls /\ d.name = name /\ d.todo = todo /\ d.writes = ws /\ d.read = note
      /\ d.at = None /\ d.error = FALSE /\ d.mine = mine
      /\ IF ws = <<>> THEN d.step = "next" ELSE d.step = "prepare"
  BY <1>4, <1>5, <1>6 DEF Calls, TypeOK
<1> QED
  BY <1>6, <1>7 DEF CallOf, mine

LEMMA BindingsTyped ==
    ASSUME TypeOK, NEW ns \in SUBSET Notes
    PROVE  /\ Bindings(ns, note) \in SUBSET (Notes \X Objects)
           /\ \A n \in Notes, o \in Objects :
                 <<n, o>> \in Bindings(ns, note) <=> n \in ns /\ o \in note[n].bindings
<1>1. \A n \in Notes : note[n].bindings \in SUBSET Objects
  BY DEF TypeOK, Commitments
<1> QED
  BY <1>1 DEF Bindings

LEMMA SettingTyped ==
    ASSUME TypeOK
    PROVE  /\ setting.agents \subseteq Agents /\ setting.notes \subseteq Notes
           /\ setting.objects \subseteq Objects /\ setting.tools \subseteq Tools
           /\ setting.overlap \in BOOLEAN /\ setting.owner \in BOOLEAN
           /\ setting.others \in BOOLEAN /\ setting.fails \in BOOLEAN
           /\ setting.restarts \in BOOLEAN
  BY ConstantsAssumption DEF TypeOK, SettingRecords

\* What Start does: a call in its first step.
Begun(a, d, name, todo, ws) ==
    /\ tool[a] = None /\ MayStart /\ name \in setting.tools /\ Turns(a, d)
    /\ CallOf(d, name, todo, ws)

LEMMA Starts ==
    ASSUME TypeOK, NEW a \in Agents, NEW name \in Tools, NEW todo \in SUBSET (Notes \X Objects),
           NEW ws \in Seq(Files), Start(a, name, todo, ws)
    PROVE  UNCHANGED <<setting, note, head, upstream>> /\ \E d : Begun(a, d, name, todo, ws)
<1>1. Begun(a, Call(name, todo, ws), name, todo, ws)
  BY CallTyped DEF Begun, Start, Turns
<1> QED
  BY <1>1 DEF Start

LEMMA NoFiles == <<>> \in Seq(Files) /\ ToSet(<<>>) = {}
  BY DEF ToSet

LEMMA ClosedTyped ==
    ASSUME TypeOK
    PROVE  Closed(note) \subseteq setting.notes /\ Closed(note) \subseteq Notes
  BY SettingTyped DEF Closed

LEMMA PushStarts ==
    ASSUME TypeOK, NEW a \in Agents, brainGTDSyncPush(a)
    PROVE  /\ UNCHANGED <<setting, note, head, upstream>>
           /\ \E d : Begun(a, d, "push", Bindings(Closed(note), note), <<>>)
  BY Starts, NoFiles, BindingsTyped, ClosedTyped DEF brainGTDSyncPush, Tools

LEMMA PeriodicStarts ==
    ASSUME TypeOK, NEW a \in Agents, brainGTDSyncPeriodic(a)
    PROVE  /\ UNCHANGED <<setting, note, head, upstream>>
           /\ \E d : Begun(a, d, "periodic", Bindings(setting.notes, note), <<>>)
  BY Starts, NoFiles, BindingsTyped, SettingTyped DEF brainGTDSyncPeriodic, Tools

LEMMA SetStatusStarts ==
    ASSUME TypeOK, NEW a \in Agents, brainGTDSetStatus(a)
    PROVE  /\ UNCHANGED <<setting, note, head, upstream>>
           /\ \E n \in Notes, s \in Statuses \cup {None} : \E d :
                 /\ Restated(n, note[n], s) \in Files
                 /\ Begun(a, d, "set_status", {}, <<Restated(n, note[n], s)>>)
<1>1. PICK n \in setting.notes, s \in {None, "done", "dropped"} :
          Start(a, "set_status", {}, <<Restated(n, note[n], s)>>)
  BY DEF brainGTDSetStatus, Restated
<1>2. n \in Notes /\ s \in Statuses \cup {None} /\ note[n] \in Commitments
  BY <1>1, SettingTyped DEF Statuses, TypeOK
<1> DEFINE f == Restated(n, note[n], s)
<1>3. f \in Files
  BY <1>2, RestatedParts
<1> HIDE DEF f
<1>4. Start(a, "set_status", {}, <<f>>)
  BY <1>1 DEF f
<1>5. <<f>> \in Seq(Files)
  BY <1>3, One
<1>6. UNCHANGED <<setting, note, head, upstream>> /\ \E d : Begun(a, d, "set_status", {}, <<f>>)
  BY <1>4, <1>5, Starts DEF Tools
<1> QED
  BY <1>2, <1>3, <1>6 DEF f

LEMMA WinnerParts ==
    ASSUME NEW w \in Commitments, NEW c \in Commitments
    PROVE  LET y == Winner(w, c) IN
           /\ y \in Commitments /\ y.overlay = w.overlay /\ y.bindings = w.bindings \cup c.bindings
           /\ y.into = w.into /\ y.separate = w.separate
  BY DEF Commitments, Winner

LEMMA LoserParts ==
    ASSUME NEW c \in Commitments, NEW n \in Notes
    PROVE  LET y == Loser(c, n) IN
           /\ y \in Commitments /\ y.overlay = "dropped" /\ y.bindings = c.bindings
           /\ y.into = n /\ y.separate = c.separate
  BY DEF Commitments, Loser, Statuses

LEMMA MarkParts ==
    ASSUME NEW x \in Commitments, NEW n \in Notes
    PROVE  LET y == [x EXCEPT !.separate = @ \cup {n}] IN
           /\ y \in Commitments /\ y.overlay = x.overlay /\ y.bindings = x.bindings
           /\ y.into = x.into /\ y.separate = x.separate \cup {n}
  BY DEF Commitments

LEMMA MergeTyped ==
    ASSUME TypeOK, NEW w \in Notes, NEW n \in Notes
    PROVE  /\ File(w, Winner(note[w], note[n])) \in Files /\ File(n, Loser(note[n], w)) \in Files
           /\ applyDedupMerge(w, n) \in Seq(Files)
           /\ Reverse(applyDedupMerge(w, n)) \in Seq(Files)
           /\ applyDedupMerge(w, n) # <<>> /\ Reverse(applyDedupMerge(w, n)) # <<>>
<1>1. note[w] \in Commitments /\ note[n] \in Commitments
  BY DEF TypeOK
<1>2. PICK f \in Files, g \in Files :
          f = File(w, Winner(note[w], note[n])) /\ g = File(n, Loser(note[n], w))
  BY <1>1, WinnerParts, LoserParts, FileParts
<1>3. <<f, g>> \in Seq(Files) /\ Reverse(<<f, g>>) \in Seq(Files) /\ <<f, g>> # <<>>
      /\ Reverse(<<f, g>>) # <<>>
  <2>0. PICK k \in Nat : k = 2
    OBVIOUS
  <2>1. <<f, g>> \in Seq(Files) /\ Len(<<f, g>>) = k
    BY <2>0, Two
  <2>2. Reverse(<<f, g>>) = [i \in 1 .. k |-> <<f, g>>[(k - i) + 1]]
    BY <2>1 DEF Reverse
  <2>3. \A i \in 1 .. k : <<f, g>>[(k - i) + 1] \in Files
    BY <2>0
  <2>4. Reverse(<<f, g>>) \in [1 .. k -> Files]
    BY <2>2, <2>3
  <2>5. Reverse(<<f, g>>) \in Seq(Files) /\ Len(Reverse(<<f, g>>)) = k
    BY <2>4, SeqFromFunction
  <2> QED
    BY <2>0, <2>1, <2>5, Two, NoFilesLeft
<1> QED
  BY <1>2, <1>3 DEF applyDedupMerge

LEMMA MarkTyped ==
    ASSUME TypeOK, NEW m \in Notes, NEW n \in Notes
    PROVE  /\ MarkNotDuplicate(m, n) \in Seq(Files) /\ MarkDeferred(m, n) \in Seq(Files)
           /\ MarkNotDuplicate(m, n) # <<>> /\ MarkDeferred(m, n) # <<>>
<1>1. note[m] \in Commitments /\ note[n] \in Commitments
  BY DEF TypeOK
<1>2. PICK f \in Files, g \in Files : /\ f = File(m, [note[m] EXCEPT !.separate = @ \cup {n}])
                                      /\ g = File(n, [note[n] EXCEPT !.separate = @ \cup {m}])
  BY <1>1, MarkParts, FileParts
<1>3. PICK h \in Files, k \in Files : h = File(m, note[m]) /\ k = File(n, note[n])
  BY <1>1, FileParts
<1> QED
  BY <1>2, <1>3, Two DEF MarkNotDuplicate, MarkDeferred

LEMMA CandidateParts ==
    ASSUME TypeOK, NEW pair \in buildCandidates(note)
    PROVE  LET m == pair[1]
               n == pair[2]
           IN  /\ m \in Notes /\ n \in Notes /\ m # n
               /\ note[m].into = None /\ note[n].into = None
               /\ n \notin note[m].separate /\ m \notin note[n].separate
<1>1. /\ pair \in openCommitments(note) \X openCommitments(note) /\ pair[1] < pair[2]
      /\ decisionState(note[pair[1]], note[pair[2]], pair[1], pair[2]) # "not_duplicate"
  BY DEF buildCandidates
<1>2. /\ pair[1] \in setting.notes /\ pair[2] \in setting.notes
      /\ note[pair[1]].into = None /\ note[pair[2]].into = None
  BY <1>1 DEF openCommitments, isOpen
<1>3. pair[1] \in Notes /\ pair[2] \in Notes /\ pair[1] # pair[2]
  BY <1>1, <1>2, SettingTyped DEF Notes
<1>4. pair[2] \notin note[pair[1]].separate /\ pair[1] \notin note[pair[2]].separate
  BY <1>1 DEF decisionState
<1> QED
  BY <1>2, <1>3, <1>4

LEMMA ReviewStarts ==
    ASSUME TypeOK, NEW a \in Agents, brainGTDDedupReviewApply(a)
    PROVE  /\ UNCHANGED <<setting, note, head, upstream>>
           /\ \E m, n \in Notes, ws \in Seq(Files) : \E d :
                /\ m # n /\ note[m].into = None /\ note[n].into = None
                /\ n \notin note[m].separate /\ m \notin note[n].separate
                /\ ws \in {applyDedupMerge(m, n), MarkNotDuplicate(m, n), MarkDeferred(m, n)}
                /\ ws # <<>> /\ Begun(a, d, "review", {}, ws)
<1>0. PICK pair \in buildCandidates(note) :
        \E ws \in {applyDedupMerge(pair[1], pair[2]), applyDedupMerge(pair[2], pair[1]),
                   MarkNotDuplicate(pair[1], pair[2]), MarkDeferred(pair[1], pair[2])} :
          Start(a, "review", {}, ws)
  BY DEF brainGTDDedupReviewApply
<1>1. PICK ws \in {applyDedupMerge(pair[1], pair[2]), applyDedupMerge(pair[2], pair[1]),
                   MarkNotDuplicate(pair[1], pair[2]), MarkDeferred(pair[1], pair[2])} :
          Start(a, "review", {}, ws)
  BY <1>0
<1>2. PICK m \in Notes, n \in Notes :
        /\ m # n /\ note[m].into = None /\ note[n].into = None
        /\ n \notin note[m].separate /\ m \notin note[n].separate
        /\ ws \in {applyDedupMerge(m, n), MarkNotDuplicate(m, n), MarkDeferred(m, n)}
  BY <1>1, CandidateParts
<1>3. ws \in Seq(Files) /\ ws # <<>>
  BY <1>2, MergeTyped, MarkTyped
<1>4. UNCHANGED <<setting, note, head, upstream>> /\ \E d : Begun(a, d, "review", {}, ws)
  BY <1>1, <1>3, Starts DEF Tools
<1> QED
  BY <1>2, <1>3, <1>4

LEMMA BindStarts ==
    ASSUME TypeOK, NEW a \in Agents, brainGTDBind(a)
    PROVE  /\ UNCHANGED <<setting, note, head, upstream>>
           /\ \E ws \in Seq(Files) : \E d : ws # <<>> /\ Begun(a, d, "bind", {}, ws)
<1>0. PICK w \in setting.notes, n \in setting.notes :
        \E ws \in {applyDedupMerge(w, n), Reverse(applyDedupMerge(w, n))} :
          Start(a, "bind", {}, ws)
  BY DEF brainGTDBind
<1>1. PICK ws \in {applyDedupMerge(w, n), Reverse(applyDedupMerge(w, n))} :
          Start(a, "bind", {}, ws)
  BY <1>0
<1>2. ws \in Seq(Files) /\ ws # <<>>
  BY <1>1, MergeTyped, SettingTyped
<1> QED
  BY <1>1, <1>2, Starts DEF Tools

LEMMA MailStarts ==
    ASSUME TypeOK, NEW a \in Agents, mailAction(a)
    PROVE  /\ UNCHANGED <<setting, note, head>>
           /\ \E o \in Objects, status \in {"open", "closed"} : \E d :
                /\ upstream' = [upstream EXCEPT ![o] = status]
                /\ Begun(a, d, "mail", {p \in Bindings(setting.notes, note) : p[2] = o}, <<>>)
<1>1. PICK o \in setting.objects, status \in {"open", "closed"} :
        /\ a \in setting.agents /\ tool[a] = None /\ "mail" \in setting.tools /\ MayStart
        /\ upstream' = [upstream EXCEPT ![o] = status]
        /\ Turns(a, Call("mail", {p \in Bindings(setting.notes, note) : p[2] = o}, <<>>))
        /\ UNCHANGED <<setting, note, head>>
  BY DEF mailAction, Turns
<1>2. PICK todo : todo = {p \in Bindings(setting.notes, note) : p[2] = o}
  OBVIOUS
<1>3. todo \in SUBSET (Notes \X Objects)
  BY <1>2, BindingsTyped, SettingTyped
<1>4. Begun(a, Call("mail", todo, <<>>), "mail", todo, <<>>)
  BY <1>1, <1>2, <1>3, CallTyped, NoFiles DEF Begun, Tools
<1> QED
  BY <1>1, <1>2, <1>4, SettingTyped

\* What the steps after the first do with a call c.
LEMMA SkipTurns ==
    ASSUME NEW a, NEW p, NEW e, Skip(a, p, e)
    PROVE  Turns(a, Skipped(tool[a], p, e))
  BY DEF Skip, Turns, Skipped

LEMMA FailedTurns ==
    ASSUME NEW a, Failed(a)
    PROVE  \E d : /\ Turns(a, d)
                  /\ d = IF tool[a].name = "periodic"
                         THEN Skipped(tool[a], tool[a].at, TRUE) ELSE None
<1>1. CASE tool[a].name = "periodic"
  BY <1>1, SkipTurns DEF Failed
<1>2. CASE tool[a].name # "periodic"
  BY <1>2 DEF Failed, Turns
<1> QED
  BY <1>1, <1>2

LEMMA FirstParts ==
    ASSUME GtdSane, TypeOK, NEW a \in Agents, NEW p \in First(a)
    PROVE  /\ tool[a] \in Calls /\ tool[a].step = "next" /\ p \in tool[a].todo
           /\ p \in Notes \X Objects /\ p[1] \in Notes /\ p[2] \in Objects
<1>1. At(a, "next") /\ p \in tool[a].todo
  BY DEF First
<1>2. tool[a] \in Calls
  BY <1>1, BusyTyped DEF At
<1>3. p \in Notes \X Objects
  BY <1>1, <1>2, CallParts
<1> QED
  BY <1>1, <1>2, <1>3 DEF At

LEMMA ReadFails ==
    ASSUME GtdSane, TypeOK, NEW a \in Agents, readBindingStateFails(a)
    PROVE  /\ UNCHANGED <<setting, note, head, upstream>>
           /\ \E p \in First(a) : Turns(a, Skipped(tool[a], p, TRUE))
           /\ setting.fails /\ tool[a].name # "mail"
  BY SkipTurns DEF readBindingStateFails

LEMMA Pushes ==
    ASSUME GtdSane, TypeOK, NEW a \in Agents, pushClosedBinding(a)
    PROVE  /\ UNCHANGED <<setting, note, head, upstream>> /\ tool[a].name \in {"push", "set_status"}
           /\ \E p \in First(a) : IF upstream[p[2]] = "closed"
                                  THEN Turns(a, Skipped(tool[a], p, FALSE))
                                  ELSE Turns(a, Closing(tool[a], p))
<1>1. PICK p \in First(a) : IF upstream[p[2]] = "closed" THEN Skip(a, p, FALSE)
                            ELSE Turns(a, Closing(tool[a], p))
  BY DEF pushClosedBinding, Turns, Closing
<1> QED
  BY <1>1, SkipTurns DEF pushClosedBinding, Pushing

LEMMA Closes ==
    ASSUME GtdSane, TypeOK, NEW a \in Agents, closeBinding(a)
    PROVE  /\ UNCHANGED <<setting, note, head>> /\ tool[a] \in Calls /\ tool[a].step = "close"
           /\ \E done, error \in BOOLEAN :
                 /\ error \/ done
                 /\ error => setting.fails
                 /\ upstream' = IF done THEN [upstream EXCEPT ![tool[a].at[2]] = "closed"]
                                        ELSE upstream
                 /\ Turns(a, Skipped(tool[a], tool[a].at, error))
<1>1. PICK done \in BOOLEAN, error \in BOOLEAN :
        /\ error \/ done
        /\ error => setting.fails
        /\ upstream' = IF done THEN [upstream EXCEPT ![tool[a].at[2]] = "closed"] ELSE upstream
        /\ Skip(a, tool[a].at, error)
  BY DEF closeBinding
<1>2. At(a, "close") /\ UNCHANGED <<setting, note, head>>
  BY DEF closeBinding
<1>3. tool[a] \in Calls /\ tool[a].step = "close"
  BY <1>2, BusyTyped DEF At
<1> QED
  BY <1>1, <1>2, <1>3, SkipTurns

LEMMA Recloses ==
    ASSUME GtdSane, TypeOK, NEW a \in Agents, periodicSyncBinding(a)
    PROVE  /\ UNCHANGED <<setting, note, head, upstream>> /\ tool[a].name = "periodic"
           /\ \E p \in First(a) :
                 IF upstream[p[2]] = "closed" /\ ~ commitmentClosed(tool[a].read[p[1]])
                 THEN Turns(a, Reclosing(tool[a], p)) ELSE Turns(a, Skipped(tool[a], p, FALSE))
<1>1. PICK p \in First(a) :
        /\ tool[a].name = "periodic"
        /\ IF upstream[p[2]] = "closed" /\ ~ commitmentClosed(tool[a].read[p[1]])
           THEN Turns(a, Reclosing(tool[a], p)) ELSE Skip(a, p, FALSE)
        /\ UNCHANGED <<setting, note, head, upstream>>
  BY DEF periodicSyncBinding, Turns, Reclosing
<1> QED
  BY <1>1, SkipTurns

LEMMA Matches ==
    ASSUME GtdSane, TypeOK, NEW a \in Agents, walkMailBindings(a)
    PROVE  /\ UNCHANGED <<setting, note, head, upstream>> /\ tool[a].name = "mail"
           /\ \E p \in First(a), error \in BOOLEAN, status \in Statuses \cup {None} :
                \E order \in InOrder(changed(status, a)) :
                 /\ error => setting.fails
                 /\ status = IF error \/ upstream[p[2]] = "closed" THEN "closed" ELSE None
                 /\ changed(status, a) \in SUBSET Notes
                 /\ Turns(a, Matching(tool[a], p, error, status, order))
<1> DEFINE Raw(p, error, status, order) ==
        tool' = [tool EXCEPT
                     ![a].todo = {}, ![a].at = p, ![a].error = error, ![a].mine = ToSet(order),
                     ![a].writes = [i \in DOMAIN order |->
                         File(order[i], [tool[a].read[order[i]] EXCEPT !.overlay = status])],
                     ![a].step = IF order = <<>> THEN @ ELSE "prepare"]
<1>1. PICK p \in First(a), error \in BOOLEAN :
        /\ tool[a].name = "mail" /\ (error => setting.fails)
        /\ LET status == IF error \/ upstream[p[2]] = "closed" THEN "closed" ELSE None
           IN  \E order \in InOrder(changed(status, a)) : Raw(p, error, status, order)
        /\ UNCHANGED <<setting, note, head, upstream>>
  BY DEF walkMailBindings
<1>2. PICK status \in Statuses \cup {None} :
        status = IF error \/ upstream[p[2]] = "closed" THEN "closed" ELSE None
  BY DEF Statuses
<1> HIDE DEF Raw
<1>a. PICK order \in InOrder(changed(status, a)) : Raw(p, error, status, order)
  BY <1>1, <1>2
<1>3. Turns(a, Matching(tool[a], p, error, status, order))
  BY <1>a DEF Raw, Turns, Matching
<1>4. tool[a].todo \subseteq Notes \X Objects
  BY FirstParts, CallParts
<1>5. changed(status, a) \in SUBSET Notes
  BY <1>4 DEF changed
<1> QED
  BY <1>1, <1>2, <1>3, <1>5

LEMMA Prepares ==
    ASSUME GtdSane, TypeOK, NEW a \in Agents, ensureGitReady(a)
    PROVE  /\ UNCHANGED <<setting, note, upstream>> /\ head' = note
           /\ tool[a] \in Calls /\ tool[a].step = "prepare"
           /\ \/ Turns(a, Writing(tool[a]))
              \/ setting.fails /\ Failed(a)
<1>1. tool[a] \in Calls
  BY BusyTyped DEF ensureGitReady, At
<1> QED
  BY <1>1 DEF ensureGitReady, At, commitPreexistingDirtyGit, Turns, Writing

LEMMA Writes ==
    ASSUME GtdSane, TypeOK, NEW a \in Agents, writeDedupNotes(a)
    PROVE  /\ UNCHANGED <<setting, head, upstream>>
           /\ tool[a] \in Calls /\ tool[a].step = "write" /\ Turns(a, Wrote(tool[a]))
           /\ note' = [note EXCEPT ![Head(tool[a].writes).file] = Head(tool[a].writes).text]
<1>1. tool[a] \in Calls
  BY BusyTyped DEF writeDedupNotes, At
<1> QED
  BY <1>1 DEF writeDedupNotes, At, Turns, Wrote

\* A set_status goes on with a push of its notes.
LEMMA CommitTurns ==
    ASSUME GtdSane, TypeOK, NEW a \in Agents, tool[a] \in Calls, Committed(a)
    PROVE  \/ tool[a].name = "periodic" /\ Turns(a, Skipped(tool[a], tool[a].at, FALSE))
           \/ tool[a].name = "set_status" /\ Turns(a, Repushed(tool[a]))
           \/ tool[a].name = "mail" /\ Turns(a, [tool[a] EXCEPT !.step = "next"])
           \/ tool[a].name \notin {"periodic", "set_status", "mail"} /\ Turns(a, None)
<1>1. CASE tool[a].name = "periodic"
  BY <1>1, SkipTurns DEF Committed
<1>2. CASE tool[a].name = "set_status"
  BY <1>2 DEF Committed, Turns, Repushed
<1>3. CASE tool[a].name = "mail"
  BY <1>3 DEF Committed, Turns, Repushed
<1>4. CASE tool[a].name \notin {"periodic", "set_status", "mail"}
  BY <1>4 DEF Committed, Turns, Repushed
<1> QED
  BY <1>1, <1>2, <1>3, <1>4

LEMMA NextParts ==
    ASSUME NEW c \in Calls
    PROVE  LET d == [c EXCEPT !.step = "next"] IN
           /\ d \in Calls /\ d.step = "next" /\ d.todo = c.todo /\ d.at = c.at
           /\ d.error = c.error /\ d.name = c.name /\ d.read = c.read /\ d.writes = c.writes
           /\ d.mine = c.mine
  BY DEF Calls

LEMMA RepushParts ==
    ASSUME TypeOK, NEW c \in Calls
    PROVE  LET todo == Bindings(c.mine \cap Closed(note), note)
               d == Repushed(c) IN
           /\ todo \in SUBSET (Notes \X Objects)
           /\ d \in Calls /\ d.step = "next" /\ d.todo = todo /\ d.at = None
           /\ d.error = FALSE /\ d.name = "set_status" /\ d.read = note /\ d.writes = <<>>
           /\ d.mine = c.mine
<1>1. PICK todo : todo = Bindings(c.mine \cap Closed(note), note)
  OBVIOUS
<1>2. todo \in SUBSET (Notes \X Objects)
  BY <1>1, BindingsTyped, ClosedTyped
<1>3. CallOf(Call("set_status", todo, <<>>), "set_status", todo, <<>>)
  BY <1>2, CallTyped, NoFiles DEF Tools
<1>4. PICK e : e = Call("set_status", todo, <<>>)
  OBVIOUS
<1>5. PICK mine \in SUBSET Notes : mine = c.mine
  BY CallParts
<1>6. /\ e \in Calls /\ e.name = "set_status" /\ e.todo = todo /\ e.writes = <<>> /\ e.read = note
      /\ e.at = None /\ e.error = FALSE /\ e.step = "next"
  BY <1>3, <1>4 DEF CallOf
<1>7. PICK d : d = [e EXCEPT !.mine = mine]
  OBVIOUS
<1>8. /\ d \in Calls /\ d.name = "set_status" /\ d.todo = todo /\ d.writes = <<>> /\ d.read = note
      /\ d.at = None /\ d.error = FALSE /\ d.step = "next" /\ d.mine = mine
  BY <1>6, <1>7 DEF Calls
<1> QED
  BY <1>1, <1>2, <1>4, <1>5, <1>7, <1>8 DEF Repushed

LEMMA Commits ==
    ASSUME GtdSane, TypeOK, NEW a \in Agents, CommitBrainGit(a)
    PROVE  /\ UNCHANGED <<setting, note, upstream>> /\ head' = note
           /\ tool[a] \in Calls /\ tool[a].step = "commit"
           /\ Committed(a) \/ (setting.fails /\ Failed(a))
<1>1. tool[a] \in Calls
  BY BusyTyped DEF CommitBrainGit, At
<1> QED
  BY <1>1 DEF CommitBrainGit, At

LEMMA Undoes ==
    ASSUME GtdSane, TypeOK, NEW a \in Agents,
           ensureGitFails(a) \/ preflightCommitFails(a) \/ mutationFails(a)
    PROVE  /\ UNCHANGED <<setting, head, upstream>> /\ (note' = note \/ note' = head)
           /\ tool[a] \in Calls /\ tool[a].step \in {"prepare", "write", "commit"}
           /\ setting.fails /\ Failed(a)
           /\ mutationFails(a) => tool[a].step \in {"write", "commit"} /\ note' = head
           /\ ensureGitFails(a) => note' = note
           /\ preflightCommitFails(a) => tool[a].step = "prepare" /\ note' = head
<1>1. tool[a] \in Calls
  BY BusyTyped DEF ensureGitFails, preflightCommitFails, mutationFails, At
<1> QED
  BY <1>1 DEF ensureGitFails, preflightCommitFails, mutationFails, At, rollbackBrainGit

\* A call that is about to write has something to write.
HasFiles(c) == c.step \in {"prepare", "write"} => c.writes # <<>>

GtdTypes == TypeOK /\ \A a \in Agents : tool[a] # None => HasFiles(tool[a])

Texts == [Notes -> Commitments]
\* What a step of a changes is of its type; d is the call after it.
Stepped(a, d) == /\ Turns(a, d) /\ (d = None \/ (d \in Calls /\ HasFiles(d)))
                 /\ setting' = setting /\ note' \in Texts /\ head' \in Texts
                 /\ upstream' \in [Objects -> {"open", "closed"}]

LEMMA SyncSteps ==
    ASSUME GtdSane, GtdTypes, NEW a \in Agents, Sync(a)
    PROVE  \E d : Stepped(a, d)
<1> USE DEF GtdTypes
<1>0. note \in Texts /\ head \in Texts /\ upstream \in [Objects -> {"open", "closed"}]
  BY DEF TypeOK, Texts
<1>1. CASE brainGTDSyncPush(a)
  BY <1>0, <1>1, PushStarts DEF Stepped, Begun, CallOf, HasFiles
<1>2. CASE brainGTDSyncPeriodic(a)
  BY <1>0, <1>2, PeriodicStarts DEF Stepped, Begun, CallOf, HasFiles
<1>3. CASE readBindingStateFails(a)
  <2>1. PICK p \in First(a) : Turns(a, Skipped(tool[a], p, TRUE))
    BY <1>3, ReadFails
  <2>2. UNCHANGED <<setting, note, head, upstream>>
    BY <1>3, ReadFails
  <2>3. Stepped(a, Skipped(tool[a], p, TRUE))
    BY <1>0, <2>1, <2>2, FirstParts, SkippedParts DEF Stepped, HasFiles
  <2> QED
    BY <2>3
<1>4. CASE pushClosedBinding(a)
  <2>1. PICK p \in First(a) : IF upstream[p[2]] = "closed"
                              THEN Turns(a, Skipped(tool[a], p, FALSE))
                              ELSE Turns(a, Closing(tool[a], p))
    BY <1>4, Pushes
  <2>2. UNCHANGED <<setting, note, head, upstream>>
    BY <1>4, Pushes
  <2>3. \/ Stepped(a, Skipped(tool[a], p, FALSE)) \/ Stepped(a, Closing(tool[a], p))
    BY <1>0, <2>1, <2>2, FirstParts, SkippedParts, ClosingParts DEF Stepped, HasFiles
  <2> QED
    BY <2>3
<1>5. CASE closeBinding(a)
  <2>1. PICK done \in BOOLEAN, error \in BOOLEAN :
            /\ upstream' = IF done THEN [upstream EXCEPT ![tool[a].at[2]] = "closed"] ELSE upstream
            /\ Turns(a, Skipped(tool[a], tool[a].at, error))
    BY <1>5, Closes
  <2>2. UNCHANGED <<setting, note, head>> /\ tool[a] \in Calls
    BY <1>5, Closes
  <2>3. upstream' \in [Objects -> {"open", "closed"}]
    BY <1>0, <2>1
  <2>4. Stepped(a, Skipped(tool[a], tool[a].at, error))
    BY <1>0, <2>1, <2>2, <2>3, SkippedParts DEF Stepped, HasFiles
  <2> QED
    BY <2>4
<1>6. CASE periodicSyncBinding(a)
  <2>1. PICK p \in First(a) :
          Turns(a, Reclosing(tool[a], p)) \/ Turns(a, Skipped(tool[a], p, FALSE))
    BY <1>6, Recloses
  <2>2. UNCHANGED <<setting, note, head, upstream>>
    BY <1>6, Recloses
  <2>3. tool[a] \in Calls /\ p \in Notes \X Objects
    BY FirstParts
  <2>4. HasFiles(Reclosing(tool[a], p)) /\ Reclosing(tool[a], p) \in Calls
    BY <2>3, ReclosingParts DEF HasFiles
  <2>5. \/ Stepped(a, Skipped(tool[a], p, FALSE)) \/ Stepped(a, Reclosing(tool[a], p))
    BY <1>0, <2>1, <2>2, <2>3, <2>4, SkippedParts DEF Stepped, HasFiles
  <2> QED
    BY <2>5
<1>7. CASE mailAction(a)
  <2>1. PICK o \in Objects, status \in {"open", "closed"} :
          /\ upstream' = [upstream EXCEPT ![o] = status]
          /\ \E d : Begun(a, d, "mail", {p \in Bindings(setting.notes, note) : p[2] = o}, <<>>)
    BY <1>7, MailStarts
  <2>2. UNCHANGED <<setting, note, head>>
    BY <1>7, MailStarts
  <2>3. PICK d : d \in Calls /\ Turns(a, d) /\ d.step = "next"
    BY <2>1 DEF Begun, CallOf
  <2> QED
    BY <1>0, <2>1, <2>2, <2>3 DEF Stepped, HasFiles
<1>8. CASE walkMailBindings(a)
  <2>1. PICK p \in First(a), error \in BOOLEAN, status \in Statuses \cup {None} :
          /\ changed(status, a) \in SUBSET Notes
          /\ \E order \in InOrder(changed(status, a)) :
               Turns(a, Matching(tool[a], p, error, status, order))
    BY <1>8, Matches
  <2>2. PICK order \in InOrder(changed(status, a)) :
          Turns(a, Matching(tool[a], p, error, status, order))
    BY <2>1
  <2>3. UNCHANGED <<setting, note, head, upstream>>
    BY <1>8, Matches
  <2>4. PICK d : d = Matching(tool[a], p, error, status, order)
    OBVIOUS
  <2>5. tool[a] \in Calls /\ tool[a].step = "next" /\ p \in Notes \X Objects
    BY FirstParts
  <2>6. d \in Calls /\ (d.step = "next" \/ d.writes # <<>>)
    BY <2>1, <2>4, <2>5, MatchingParts
  <2> QED
    BY <1>0, <2>2, <2>3, <2>4, <2>6 DEF Stepped, HasFiles
<1>9. CASE Return(a)
  BY <1>0, <1>9 DEF Stepped, Return, Turns
<1> QED
  BY <1>1, <1>2, <1>3, <1>4, <1>5, <1>6, <1>7, <1>8, <1>9 DEF Sync

LEMMA FailsTyped ==
    ASSUME NEW a \in Agents, tool[a] \in Calls, Failed(a)
    PROVE  \E d : /\ Turns(a, d) /\ (d = None \/ (d \in Calls /\ d.step = "next"))
                  /\ d = IF tool[a].name = "periodic"
                         THEN Skipped(tool[a], tool[a].at, TRUE) ELSE None
<1>1. PICK d : /\ Turns(a, d)
               /\ d = IF tool[a].name = "periodic"
                         THEN Skipped(tool[a], tool[a].at, TRUE) ELSE None
  BY FailedTurns
<1>a. PICK c \in Calls, e \in BOOLEAN : c = tool[a] /\ e = TRUE
  OBVIOUS
<1>b. Skipped(c, c.at, e) \in Calls /\ Skipped(c, c.at, e).step = "next"
  BY SkippedParts
<1>2. d = None \/ (d \in Calls /\ d.step = "next")
  BY <1>1, <1>a, <1>b
<1> QED
  BY <1>1, <1>2

LEMMA MutateSteps ==
    ASSUME GtdSane, GtdTypes, NEW a \in Agents, Mutate(a)
    PROVE  \E d : Stepped(a, d)
<1> USE DEF GtdTypes
<1>0. note \in Texts /\ head \in Texts /\ upstream \in [Objects -> {"open", "closed"}]
  BY DEF TypeOK, Texts
<1>1. CASE brainGTDSetStatus(a)
  <2>1. UNCHANGED <<setting, note, head, upstream>>
    BY <1>1, SetStatusStarts
  <2>2. PICK f \in Files : \E d : Begun(a, d, "set_status", {}, <<f>>)
    BY <1>1, SetStatusStarts
  <2>3. PICK d : Begun(a, d, "set_status", {}, <<f>>)
    BY <2>2
  <2>4. d \in Calls /\ d.writes = <<f>>
    BY <2>3 DEF Begun, CallOf
  <2> QED
    BY <1>0, <2>1, <2>3, <2>4, One DEF Stepped, HasFiles, Begun
<1>2. CASE brainGTDDedupReviewApply(a)
  <2>1. UNCHANGED <<setting, note, head, upstream>>
    BY <1>2, ReviewStarts
  <2>2. PICK ws \in Seq(Files) : ws # <<>> /\ \E d : Begun(a, d, "review", {}, ws)
    BY <1>2, ReviewStarts
  <2> QED
    BY <1>0, <2>1, <2>2 DEF Stepped, HasFiles, Begun, CallOf
<1>3. CASE brainGTDBind(a)
  <2>1. UNCHANGED <<setting, note, head, upstream>>
    BY <1>3, BindStarts
  <2>2. PICK ws \in Seq(Files) : ws # <<>> /\ \E d : Begun(a, d, "bind", {}, ws)
    BY <1>3, BindStarts
  <2> QED
    BY <1>0, <2>1, <2>2 DEF Stepped, HasFiles, Begun, CallOf
<1>4. CASE ensureGitFails(a) \/ preflightCommitFails(a) \/ mutationFails(a)
  <2>1. UNCHANGED <<setting, head, upstream>> /\ (note' = note \/ note' = head)
        /\ tool[a] \in Calls /\ Failed(a)
    BY <1>4, Undoes
  <2> QED
    BY <1>0, <2>1, FailsTyped DEF Stepped, HasFiles
<1>5. CASE ensureGitReady(a)
  <2>1. /\ UNCHANGED <<setting, note, upstream>> /\ head' = note
        /\ tool[a] \in Calls /\ tool[a].step = "prepare"
        /\ \/ Turns(a, Writing(tool[a]))
           \/ setting.fails /\ Failed(a)
    BY <1>5, Prepares
  <2>2. CASE Turns(a, Writing(tool[a]))
    <3>1. tool[a].writes # <<>>
      BY <2>1, GtdSane DEF HasFiles, GtdSane
    <3> QED
      BY <1>0, <2>1, <2>2, <3>1, WritingParts DEF Stepped, HasFiles
  <2>3. CASE Failed(a)
    BY <1>0, <2>1, <2>3, FailsTyped DEF Stepped, HasFiles
  <2> QED
    BY <2>1, <2>2, <2>3
<1>6. CASE writeDedupNotes(a)
  <2>1. /\ UNCHANGED <<setting, head, upstream>>
        /\ tool[a] \in Calls /\ tool[a].step = "write" /\ Turns(a, Wrote(tool[a]))
        /\ note' = [note EXCEPT ![Head(tool[a].writes).file] = Head(tool[a].writes).text]
    BY <1>6, Writes
  <2>2. tool[a].writes # <<>>
    BY <2>1 DEF HasFiles, GtdSane
  <2>3. Head(tool[a].writes) \in Files
    BY <2>1, <2>2, WroteParts
  <2>4. note' \in Texts
    BY <1>0, <2>1, <2>3 DEF Texts, Files
  <2>5. Wrote(tool[a]) \in Calls /\ HasFiles(Wrote(tool[a]))
    BY <2>1, <2>2, WroteParts DEF HasFiles
  <2> QED
    BY <1>0, <2>1, <2>4, <2>5 DEF Stepped
<1>7. CASE CommitBrainGit(a)
  <2>1. /\ UNCHANGED <<setting, note, upstream>> /\ head' = note
        /\ tool[a] \in Calls /\ tool[a].step = "commit"
        /\ Committed(a) \/ (setting.fails /\ Failed(a))
    BY <1>7, Commits
  <2>2. CASE Failed(a)
    BY <1>0, <2>1, <2>2, FailsTyped DEF Stepped, HasFiles
  <2>3. CASE Committed(a)
    <3>1. CASE Turns(a, Skipped(tool[a], tool[a].at, FALSE))
      BY <1>0, <2>1, <3>1, SkippedParts DEF Stepped, HasFiles
    <3>2. CASE Turns(a, Repushed(tool[a]))
      <4>1. PICK d : d = Repushed(tool[a])
        OBVIOUS
      <4>2. d \in Calls /\ d.step = "next"
        BY <2>1, <4>1, RepushParts
      <4> QED
        BY <1>0, <2>1, <3>2, <4>1, <4>2 DEF Stepped, HasFiles
    <3>3. CASE Turns(a, [tool[a] EXCEPT !.step = "next"])
      BY <1>0, <2>1, <3>3, NextParts DEF Stepped, HasFiles
    <3>4. CASE Turns(a, None)
      BY <1>0, <2>1, <3>4 DEF Stepped
    <3> QED
      BY <2>1, <2>3, <3>1, <3>2, <3>3, <3>4, CommitTurns
  <2> QED
    BY <2>1, <2>2, <2>3
<1> QED
  BY <1>1, <1>2, <1>3, <1>4, <1>5, <1>6, <1>7 DEF Mutate

LEMMA AgentSteps ==
    ASSUME GtdSane, GtdTypes, NEW a \in Agents, Sync(a) \/ Mutate(a) \/ Stop(a)
    PROVE  \E d : Stepped(a, d)
<1>1. CASE Stop(a)
  BY <1>1 DEF Stop, Stepped, Turns, GtdTypes, TypeOK, Texts
<1> QED
  BY <1>1, SyncSteps, MutateSteps

LEMMA SteppedTypes ==
    ASSUME GtdTypes, NEW a \in Agents, NEW d, Stepped(a, d)
    PROVE  /\ GtdTypes' /\ tool'[a] = d
           /\ \A b \in Agents \ {a} : tool'[b] = tool[b]
<1>1. d \in Calls \cup {None}
  BY DEF Stepped
<1>2. /\ tool' \in [Agents -> Calls \cup {None}] /\ tool'[a] = d
      /\ \A b \in Agents \ {a} : tool'[b] = tool[b]
  BY <1>1, TurnTyped DEF Stepped, GtdTypes
<1>3. TypeOK'
  BY <1>2 DEF Stepped, GtdTypes, TypeOK, Texts
<1>4. ASSUME NEW b \in Agents, tool'[b] # None
      PROVE  HasFiles(tool'[b])
  BY <1>2, <1>4 DEF Stepped, GtdTypes
<1> QED
  BY <1>2, <1>3, <1>4 DEF GtdTypes

LEMMA EditParts ==
    ASSUME TypeOK, EditNote
    PROVE  /\ UNCHANGED <<setting, head, upstream, tool>> /\ setting.owner /\ MayStart
           /\ \E n \in Notes, s \in Statuses \cup {None} : note' = [note EXCEPT ![n].overlay = s]
           /\ note' \in Texts
<1>1. PICK n \in setting.notes, s \in {None, "done"} :
         /\ setting.owner /\ MayStart
         /\ note' = [note EXCEPT ![n].overlay = s]
         /\ UNCHANGED <<setting, head, upstream, tool>>
  BY DEF EditNote
<1>2. n \in Notes /\ s \in Statuses \cup {None}
  BY SettingTyped DEF Statuses
<1>3. [note[n] EXCEPT !.overlay = s] \in Commitments
  BY <1>2, Overlaid DEF TypeOK
<1>4. note' \in Texts
  BY <1>1, <1>2, <1>3 DEF TypeOK, Texts
<1> QED
  BY <1>1, <1>2, <1>4

LEMMA ChangeParts ==
    ASSUME TypeOK, ChangeUpstream
    PROVE  /\ UNCHANGED <<setting, note, head, tool>> /\ setting.others /\ MayStart
           /\ upstream' \in [Objects -> {"open", "closed"}]
<1>1. PICK o \in setting.objects :
         /\ setting.others /\ MayStart
         /\ upstream' = [upstream EXCEPT ![o] = IF @ = "open" THEN "closed" ELSE "open"]
         /\ UNCHANGED <<setting, note, head, tool>>
  BY DEF ChangeUpstream
<1> QED
  BY <1>1 DEF TypeOK

LEMMA GtdTypesKept ==
    ASSUME GtdSane, GtdTypes, [Next]_vars
    PROVE  GtdTypes' /\ setting' = setting
<1>1. ASSUME NEW a \in Agents, Sync(a) \/ Mutate(a) \/ Stop(a)
      PROVE  GtdTypes' /\ setting' = setting
  BY <1>1, AgentSteps, SteppedTypes DEF Stepped
<1>2. CASE EditNote
  BY <1>2, EditParts DEF GtdTypes, TypeOK, Texts
<1>3. CASE ChangeUpstream
  BY <1>3, ChangeParts DEF GtdTypes, TypeOK
<1>4. CASE UNCHANGED vars
  BY <1>4 DEF GtdTypes, TypeOK, vars, HasFiles
<1> QED
  BY <1>1, <1>2, <1>3, <1>4 DEF Next

LEMMA GtdTypesInit == ASSUME Init PROVE GtdTypes
<1>1. setting \in Settings /\ tool = [a \in Agents |-> None] /\ head = note
      /\ upstream \in [Objects -> {"open", "closed"}]
  BY DEF Init
<1>2. PICK bound \in [setting.notes -> SUBSET setting.objects], done \in SUBSET setting.notes :
         note = [n \in Notes |->
                   [overlay |-> IF n \in done THEN "done" ELSE None,
                    bindings |-> IF n \in setting.notes THEN bound[n] ELSE {},
                    into |-> None, separate |-> {}]]
  BY DEF Init
<1>3. setting.objects \subseteq Objects
  BY <1>1, ConstantsAssumption DEF SettingRecords
<1>4. note \in [Notes -> Commitments]
  BY <1>2, <1>3 DEF Commitments, Statuses
<1> QED
  BY <1>1, <1>4 DEF GtdTypes, TypeOK

---------------------------------------------------------------------------
(* One tool at a time.                                                         *)

Acts(a) == Sync(a) \/ Mutate(a) \/ Stop(a)

LEMMA ActsWhen ==
    ASSUME GtdSane, GtdTypes, NEW a \in Agents, Acts(a)
    PROVE  tool[a] # None \/ MayStart
<1>1. CASE Stop(a)
  BY <1>1 DEF Stop
<1>2. CASE Sync(a)
  <2>1. CASE brainGTDSyncPush(a) \/ brainGTDSyncPeriodic(a) \/ mailAction(a)
    BY <2>1 DEF brainGTDSyncPush, brainGTDSyncPeriodic, mailAction, Start
  <2>2. CASE \/ readBindingStateFails(a) \/ pushClosedBinding(a)
             \/ periodicSyncBinding(a) \/ walkMailBindings(a)
    <3>1. PICK p : p \in First(a)
      BY <2>2 DEF readBindingStateFails, pushClosedBinding, periodicSyncBinding, walkMailBindings
    <3> QED
      BY <3>1 DEF First, At
  <2>3. CASE closeBinding(a) \/ Return(a)
    BY <2>3 DEF closeBinding, Return, Done, At
  <2> QED
    BY <1>2, <2>1, <2>2, <2>3 DEF Sync
<1>3. CASE Mutate(a)
  <2>1. CASE brainGTDSetStatus(a) \/ brainGTDDedupReviewApply(a) \/ brainGTDBind(a)
    BY <2>1 DEF brainGTDSetStatus, brainGTDDedupReviewApply, brainGTDBind, Start
  <2>2. CASE ~ (brainGTDSetStatus(a) \/ brainGTDDedupReviewApply(a) \/ brainGTDBind(a))
    BY <1>3, <2>2 DEF Mutate, ensureGitFails, ensureGitReady, preflightCommitFails,
                      writeDedupNotes, mutationFails, CommitBrainGit, At
  <2> QED
    BY <2>1, <2>2
<1> QED
  BY <1>1, <1>2, <1>3 DEF Acts

\* Only writes and rollbacks change notes.
LEMMA NoteChanges ==
    ASSUME GtdSane, GtdTypes, NEW a \in Agents, Acts(a)
    PROVE  note' = note \/ writeDedupNotes(a) \/ mutationFails(a) \/ preflightCommitFails(a)
<1>1. TypeOK
  BY DEF GtdTypes
<1>2. CASE Sync(a)
  BY <1>1, <1>2, PushStarts, PeriodicStarts, ReadFails, Pushes, Closes, Recloses,
     MailStarts, Matches DEF Sync, Return
<1>3. CASE Mutate(a)
  BY <1>1, <1>3, SetStatusStarts, ReviewStarts, BindStarts, Undoes, Prepares, Commits DEF Mutate
<1> QED
  BY <1>2, <1>3 DEF Acts, Stop

Single == \A a, b \in Agents : tool[a] # None /\ tool[b] # None => a = b

LEMMA AloneActs ==
    ASSUME GtdSane, GtdTypes, AloneAtWork, Single, NEW a \in Agents, Acts(a)
    PROVE  \A b \in Agents \ {a} : tool[b] = None /\ tool'[b] = None
<1>1. \A b \in Agents \ {a} : tool[b] = None
  BY ActsWhen DEF MayStart, Busy, Single, AloneAtWork
<1>2. \A b \in Agents \ {a} : tool'[b] = tool[b]
  BY AgentSteps, SteppedTypes DEF Acts
<1> QED
  BY <1>1, <1>2

LEMMA SingleKept ==
    ASSUME GtdSane, GtdTypes, AloneAtWork, Single, [Next]_vars
    PROVE  Single'
<1>1. ASSUME NEW a \in Agents, Acts(a)
      PROVE  Single'
  BY <1>1, AloneActs DEF Single
<1>2. CASE EditNote \/ ChangeUpstream
  BY <1>2 DEF EditNote, ChangeUpstream, Single
<1>3. CASE UNCHANGED vars
  BY <1>3 DEF vars, Single
<1> QED
  BY <1>1, <1>2, <1>3 DEF Next, Acts

---------------------------------------------------------------------------
(* What a rollback undoes.                                                     *)

\* What is left to write is of the files of the mutation; all others are as they are committed.
Mine(c, v, h) ==
    /\ c.step \in {"prepare", "write"} => \A i \in DOMAIN c.writes : c.writes[i].file \in c.mine
    /\ c.step \in {"write", "commit"} => \A n \in Notes \ c.mine : v[n] = h[n]

OwnFiles == AloneAtWork => Single /\ \A a \in Agents : tool[a] # None => Mine(tool[a], note, head)

LEMMA CalmIsMine ==
    ASSUME NEW d, NEW v, NEW h, d.step \in {"next", "close"}
    PROVE  Mine(d, v, h)
  BY DEF Mine

LEMMA BegunIsMine ==
    ASSUME NEW d, NEW name, NEW todo, NEW ws, CallOf(d, name, todo, ws), NEW v, NEW h
    PROVE  Mine(d, v, h)
<1>1. \A i \in DOMAIN d.writes : d.writes[i] \in ToSet(ws)
  BY DEF CallOf, ToSet
<1>2. \A i \in DOMAIN d.writes : d.writes[i].file \in d.mine
  BY <1>1 DEF CallOf
<1> QED
  BY <1>2 DEF Mine, CallOf

LEMMA SkippedNext ==
    ASSUME NEW c \in Calls, NEW p, NEW e
    PROVE  Skipped(c, p, e).step = "next"
  BY DEF Calls, Skipped

LEMMA SyncIsMine ==
    ASSUME GtdSane, GtdTypes, NEW a \in Agents, Sync(a)
    PROVE  tool'[a] # None => Mine(tool'[a], note', head')
<1>0. TypeOK /\ \A d : Turns(a, d) => tool'[a] = d
  BY DEF GtdTypes, TypeOK, Turns
<1>1. CASE brainGTDSyncPush(a)
  BY <1>0, <1>1, PushStarts, BegunIsMine DEF Begun
<1>2. CASE brainGTDSyncPeriodic(a)
  BY <1>0, <1>2, PeriodicStarts, BegunIsMine DEF Begun
<1>3. CASE readBindingStateFails(a)
  <2>1. PICK e, p : p \in First(a) /\ Turns(a, Skipped(tool[a], p, e))
    BY <1>0, <1>3, ReadFails
  <2> QED
    BY <1>0, <2>1, FirstParts, SkippedNext, CalmIsMine
<1>4. CASE pushClosedBinding(a)
  <2>1. PICK p, e : /\ p \in First(a)
                    /\ Turns(a, Skipped(tool[a], p, e)) \/ Turns(a, Closing(tool[a], p))
    BY <1>0, <1>4, Pushes
  <2> QED
    BY <1>0, <2>1, FirstParts, SkippedNext, ClosingParts, CalmIsMine
<1>5. CASE closeBinding(a)
  <2>1. tool[a] \in Calls /\ \E error \in BOOLEAN : Turns(a, Skipped(tool[a], tool[a].at, error))
    BY <1>0, <1>5, Closes
  <2> QED
    BY <1>0, <2>1, SkippedParts, CalmIsMine
<1>6. CASE periodicSyncBinding(a)
  <2>1. PICK p, e : /\ p \in First(a)
                    /\ Turns(a, Reclosing(tool[a], p)) \/ Turns(a, Skipped(tool[a], p, e))
    BY <1>0, <1>6, Recloses
  <2>2. tool[a] \in Calls /\ p \in Notes \X Objects
    BY <1>0, <2>1, FirstParts
  <2>3. CASE Turns(a, Skipped(tool[a], p, e))
    BY <1>0, <2>2, <2>3, SkippedNext, CalmIsMine
  <2>4. CASE Turns(a, Reclosing(tool[a], p))
    <3>1. PICK d : d = Reclosing(tool[a], p)
      OBVIOUS
    <3>2. PICK c, f : /\ c = tool[a] /\ c \in Calls
                      /\ f = Restated(p[1], c.read[p[1]], "closed")
      BY <2>2
    <3>3. d.writes = <<f>> /\ d.mine = {p[1]} /\ d.step = "prepare"
      BY <2>2, <3>1, <3>2, ReclosingParts
    <3>4. f.file = p[1] /\ f \in Files
      BY <2>2, <3>2, ReclosingParts DEF Restated, File
    <3>5. \A i \in DOMAIN d.writes : d.writes[i].file \in d.mine
      BY <3>3, <3>4, One
    <3> QED
      BY <1>0, <2>4, <3>1, <3>3, <3>5 DEF Mine
  <2> QED
    BY <2>1, <2>3, <2>4
<1>7. CASE mailAction(a)
  <2>1. PICK d, todo : Begun(a, d, "mail", todo, <<>>)
    BY <1>0, <1>7, MailStarts
  <2> QED
    BY <1>0, <2>1, BegunIsMine DEF Begun
<1>8. CASE walkMailBindings(a)
  <2>1. PICK p \in First(a), error \in BOOLEAN, status \in Statuses \cup {None} :
          /\ changed(status, a) \in SUBSET Notes
          /\ \E order \in InOrder(changed(status, a)) :
               Turns(a, Matching(tool[a], p, error, status, order))
    BY <1>0, <1>8, Matches
  <2>2. PICK ns \in SUBSET Notes : ns = changed(status, a)
    BY <2>1
  <2>3. PICK order \in InOrder(ns) : Turns(a, Matching(tool[a], p, error, status, order))
    BY <2>1, <2>2
  <2>4. PICK c, d : c = tool[a] /\ d = Matching(c, p, error, status, order)
    OBVIOUS
  <2>5. c \in Calls /\ c.step = "next" /\ p \in Notes \X Objects
    BY <1>0, <2>4, FirstParts
  <2>6. /\ d.mine = ns /\ d.step \in {"next", "prepare"}
        /\ \A i \in DOMAIN d.writes : \E n \in ns :
              d.writes[i] = Restated(n, c.read[n], status)
    BY <2>4, <2>5, MatchingParts
  <2>7. \A i \in DOMAIN d.writes : d.writes[i].file \in d.mine
    BY <2>6, RestatedFile
  <2> QED
    BY <1>0, <2>3, <2>4, <2>6, <2>7 DEF Mine
<1>9. CASE Return(a)
  BY <1>0, <1>9 DEF Return, Turns
<1> QED
  BY <1>1, <1>2, <1>3, <1>4, <1>5, <1>6, <1>7, <1>8, <1>9 DEF Sync

LEMMA FailedIsCalm ==
    ASSUME GtdTypes, NEW a \in Agents, tool[a] \in Calls, Failed(a)
    PROVE  tool'[a] = None \/ tool'[a].step = "next"
  BY FailsTyped DEF GtdTypes, TypeOK, Turns

LEMMA CommittedIsCalm ==
    ASSUME GtdSane, GtdTypes, NEW a \in Agents, tool[a] \in Calls, Committed(a)
    PROVE  tool'[a] = None \/ tool'[a].step = "next"
<1>0. TypeOK /\ \A d : Turns(a, d) => tool'[a] = d
  BY DEF GtdTypes, TypeOK, Turns
<1> PICK c \in Calls, e \in BOOLEAN : c = tool[a] /\ e = FALSE
  OBVIOUS
<1>1. Skipped(c, c.at, e).step = "next" /\ [c EXCEPT !.step = "next"].step = "next"
  BY SkippedParts, NextParts
<1>2. Repushed(c).step = "next"
  BY <1>0, RepushParts
<1> QED
  BY <1>0, <1>1, <1>2, CommitTurns

LEMMA MutateIsMine ==
    ASSUME GtdSane, GtdTypes, NEW a \in Agents, Mutate(a),
           tool[a] # None => Mine(tool[a], note, head)
    PROVE  tool'[a] # None => Mine(tool'[a], note', head')
<1>0. TypeOK /\ \A d : Turns(a, d) => tool'[a] = d
  BY DEF GtdTypes, TypeOK, Turns
<1>1. CASE brainGTDSetStatus(a)
  <2>1. PICK d, ws : Begun(a, d, "set_status", {}, ws)
    BY <1>0, <1>1, SetStatusStarts
  <2> QED
    BY <1>0, <2>1, BegunIsMine DEF Begun
<1>2. CASE brainGTDDedupReviewApply(a)
  BY <1>0, <1>2, ReviewStarts, BegunIsMine DEF Begun
<1>3. CASE brainGTDBind(a)
  BY <1>0, <1>3, BindStarts, BegunIsMine DEF Begun
<1>4. CASE ensureGitFails(a) \/ preflightCommitFails(a) \/ mutationFails(a)
  BY <1>0, <1>4, Undoes, FailedIsCalm, CalmIsMine
<1>5. CASE ensureGitReady(a)
  <2>1. /\ note' = note /\ head' = note /\ tool[a] \in Calls /\ tool[a].step = "prepare"
        /\ Turns(a, Writing(tool[a])) \/ Failed(a)
    BY <1>0, <1>5, Prepares
  <2>2. CASE Failed(a)
    BY <2>1, <2>2, FailedIsCalm, CalmIsMine
  <2>3. CASE Turns(a, Writing(tool[a]))
    <3>1. PICK d : d = Writing(tool[a])
      OBVIOUS
    <3>2. d.step = "write" /\ d.writes = tool[a].writes /\ d.mine = tool[a].mine
      BY <2>1, <3>1, WritingParts
    <3>3. Mine(tool[a], note, head)
      BY <2>1 DEF GtdSane
    <3> QED
      BY <1>0, <2>1, <2>3, <3>1, <3>2, <3>3 DEF Mine
  <2> QED
    BY <2>1, <2>2, <2>3
<1>6. CASE writeDedupNotes(a)
  <2>1. /\ head' = head
        /\ tool[a] \in Calls /\ tool[a].step = "write" /\ Turns(a, Wrote(tool[a]))
        /\ note' = [note EXCEPT ![Head(tool[a].writes).file] = Head(tool[a].writes).text]
    BY <1>0, <1>6, Writes
  <2>2. tool[a].writes # <<>> /\ tool[a].writes \in Seq(Files)
    BY <2>1, CallParts DEF GtdTypes, HasFiles, GtdSane
  <2>3. Mine(tool[a], note, head)
    BY <2>1 DEF GtdSane
  <2>4. PICK d, f : d = Wrote(tool[a]) /\ f = Head(tool[a].writes)
    OBVIOUS
  <2>5. /\ f = tool[a].writes[1] /\ d.mine = tool[a].mine
        /\ \A i \in DOMAIN d.writes : d.writes[i] = tool[a].writes[i + 1]
                                      /\ i + 1 \in DOMAIN tool[a].writes
    BY <2>1, <2>2, <2>4, WroteParts
  <2>6. 1 \in DOMAIN tool[a].writes
    BY <2>2
  <2>7. f.file \in d.mine /\ \A i \in DOMAIN d.writes : d.writes[i].file \in d.mine
    BY <2>1, <2>3, <2>5, <2>6 DEF Mine
  <2>8. \A n \in Notes \ d.mine : note'[n] = head'[n]
    BY <1>0, <2>1, <2>3, <2>4, <2>5, <2>7 DEF Mine, TypeOK
  <2> QED
    BY <1>0, <2>1, <2>4, <2>7, <2>8 DEF Mine
<1>7. CASE CommitBrainGit(a)
  BY <1>0, <1>7, Commits, FailedIsCalm, CommittedIsCalm, CalmIsMine
<1> QED
  BY <1>1, <1>2, <1>3, <1>4, <1>5, <1>6, <1>7 DEF Mutate

LEMMA OwnFilesKept ==
    ASSUME GtdSane, GtdTypes, OwnFiles, [Next]_vars
    PROVE  OwnFiles'
<1> SUFFICES ASSUME AloneAtWork
             PROVE  Single' /\ \A a \in Agents : tool'[a] # None => Mine(tool'[a], note', head')
  BY GtdTypesKept DEF OwnFiles, AloneAtWork
<1>1. Single /\ \A a \in Agents : tool[a] # None => Mine(tool[a], note, head)
  BY DEF OwnFiles
<1>2. Single'
  BY <1>1, SingleKept
<1>3. ASSUME NEW b \in Agents, tool'[b] # None
      PROVE  Mine(tool'[b], note', head')
  <2>1. CASE EditNote
    <3>1. tool' = tool /\ Busy = {}
      BY <2>1 DEF EditNote, MayStart, AloneAtWork
    <3> QED
      BY <1>3, <3>1 DEF Busy
  <2>2. CASE ChangeUpstream \/ UNCHANGED vars
    <3>1. tool' = tool /\ note' = note /\ head' = head
      BY <2>2 DEF ChangeUpstream, vars
    <3> QED
      BY <1>1, <1>3, <3>1
  <2>3. ASSUME NEW a \in Agents, Acts(a)
        PROVE  Mine(tool'[b], note', head')
    <3>1. b = a
      BY <1>1, <1>3, <2>3, AloneActs
    <3>2. CASE Sync(a)
      BY <1>3, <3>1, <3>2, SyncIsMine
    <3>3. CASE Mutate(a)
      BY <1>1, <1>3, <3>1, <3>3, MutateIsMine
    <3>4. CASE Stop(a)
      BY <1>3, <3>1, <3>4 DEF Stop, GtdTypes, TypeOK
    <3> QED
      BY <2>3, <3>2, <3>3, <3>4 DEF Acts
  <2> QED
    BY <2>1, <2>2, <2>3 DEF Next, Acts
<1> QED
  BY <1>2, <1>3

LEMMA KeepsOthers ==
    ASSUME GtdSane, GtdTypes, OwnFiles, [Next]_vars, AloneAtWork,
           NEW a \in Busy, tool'[a] # tool[a], ~ At(a, "prepare")
    PROVE  ChangesOnlyMine(a)
<1>0. a \in Agents /\ tool[a] # None /\ tool[a] \in Calls
  BY DEF Busy, GtdTypes, TypeOK
<1>1. Acts(a)
  <2>1. PICK b \in Agents : Acts(b)
    BY DEF Next, Acts, EditNote, ChangeUpstream, vars
  <2>2. \A e \in Agents \ {b} : tool'[e] = tool[e]
    BY <2>1, AgentSteps, SteppedTypes DEF Acts
  <2> QED
    BY <1>0, <2>1, <2>2
<1>2. Mine(tool[a], note, head)
  BY <1>0 DEF OwnFiles
<1>3. CASE writeDedupNotes(a)
  <2>1. /\ tool[a].step = "write"
        /\ note' = [note EXCEPT ![Head(tool[a].writes).file] = Head(tool[a].writes).text]
    BY <1>0, <1>3, Writes DEF GtdTypes
  <2>2. tool[a].writes # <<>> /\ tool[a].writes \in Seq(Files)
    BY <1>0, <2>1, CallParts DEF GtdTypes, HasFiles
  <2>3. Head(tool[a].writes) = tool[a].writes[1] /\ 1 \in DOMAIN tool[a].writes
    BY <2>2
  <2>4. Head(tool[a].writes).file \in tool[a].mine
    BY <1>2, <2>1, <2>3 DEF Mine
  <2> QED
    BY <2>1, <2>4 DEF ChangesOnlyMine, GtdTypes, TypeOK
<1>4. CASE mutationFails(a)
  <2>1. tool[a].step \in {"write", "commit"} /\ note' = head
    BY <1>0, <1>4, Undoes DEF GtdTypes
  <2> QED
    BY <1>2, <2>1 DEF Mine, ChangesOnlyMine
<1>5. ~ preflightCommitFails(a)
  BY DEF preflightCommitFails
<1> QED
  BY <1>0, <1>1, <1>3, <1>4, <1>5, NoteChanges DEF ChangesOnlyMine

\* A tool that got through its preflight changes the files of its mutation only, when tools, the
\* owner and others take turns.
THEOREM RollbacksAreOwn == ASSUME GtdSane PROVE Spec => RollbacksKeepOthers
<1> DEFINE I == GtdTypes /\ OwnFiles
<1>1. Init => I
  <2>1. Init => tool = [a \in Agents |-> None]
    BY DEF Init
  <2> QED
    BY <2>1, GtdTypesInit DEF OwnFiles, Single
<1>2. I /\ [Next]_vars => I'
  BY GtdTypesKept, OwnFilesKept
<1>3. I /\ [Next]_vars =>
        [AloneAtWork => \A a \in Busy :
            tool'[a] # tool[a] /\ ~ At(a, "prepare") => ChangesOnlyMine(a)]_vars
  BY KeepsOthers
<1> HIDE DEF I
<1> QED
  BY <1>1, <1>2, <1>3, PTL DEF Spec, RollbacksKeepOthers

---------------------------------------------------------------------------
(* What merges keep.                                                           *)

\* The claims of MergesAreSafe, for the notes or for those of the last commit.
Safe(v) == \A n \in Notes :
    /\ \A m \in Notes : v[m].into = n => n \notin v[m].separate /\ m \notin v[n].separate
    /\ \A o \in v[n].bindings : \E w \in Notes : v[w].into = None /\ o \in v[w].bindings

\* c may take the place of note n: it is merged into the same, it has at least its bindings, and
\* nothing is kept apart from it that is merged.
Fine(c, n, v) == /\ c.into = v[n].into /\ v[n].bindings \subseteq c.bindings
                 /\ c.into # None => c.bindings = v[n].bindings
                 /\ \A k \in c.separate \ v[n].separate : v[n].into = None /\ v[k].into = None

AllFine(u, v) == \A n \in Notes : Fine(u[n], n, v)
FineFiles(ws, v) == \A i \in DOMAIN ws : Fine(ws[i].text, ws[i].file, v)

\* They differ in their status only.
Same(c, d) == c.into = d.into /\ c.bindings = d.bindings /\ c.separate = d.separate

\* Note n is being merged into w: u is v with the files that are written, ws are those left.
Merge(w, n, ws, u, v) ==
    LET W == Winner(v[w], v[n])
        L == Loser(v[n], w) IN
    /\ w # n /\ v[w].into = None /\ v[n].into = None
    /\ n \notin v[w].separate /\ w \notin v[n].separate
    /\ \/ ws = <<File(w, W), File(n, L)>> /\ u = v
       \/ ws = <<File(n, L)>> /\ u = [v EXCEPT ![w] = W]
       \/ ws = <<>> /\ u = [v EXCEPT ![w] = W, ![n] = L]

\* What is to be written may be, in place of what is committed, all of it or a part.
Sound(c, v, h) ==
    c.step \in {"prepare", "write", "commit"} =>
      LET b == IF c.step = "prepare" THEN v ELSE h IN
      \/ AllFine(v, b) /\ FineFiles(c.writes, b)
      \/ c.name = "review" /\ \E w, n \in Notes : Merge(w, n, c.writes, v, b)

\* So may be what a periodic sync has read, as long as that is open, and it writes nothing else.
Rereads(c, v, h) == \A n \in Notes : c.read[n].overlay \notin Statuses =>
    Fine(c.read[n], n, v) /\ (setting.fails => Fine(c.read[n], n, h))
Rewrites(c) == \A i \in DOMAIN c.writes : \E n \in Notes :
    /\ c.writes[i].file = n /\ c.read[n].overlay \notin Statuses
    /\ Same(c.writes[i].text, c.read[n])
Keeps(c, v, h) == c.name = "periodic" => /\ Rereads(c, v, h)
                                         /\ c.step \in {"prepare", "write"} => Rewrites(c)

\* A mail tool has read the notes as they are.
Fresh(c, v) == c.name = "mail" /\ c.todo # {} => c.step = "next" /\ c.read = v

Merging(c, v, h) == Sound(c, v, h) /\ Keeps(c, v, h) /\ Fresh(c, v)

\* Without the owner, an open note may be committed as it is.
Unbroken(v, h) == ~ setting.owner =>
    \A n \in Notes : v[n].overlay \notin Statuses => Fine(v[n], n, h)

MergeInv == Reviewed => /\ Single /\ Safe(note) /\ Safe(head) /\ Unbroken(note, head)
                        /\ \A a \in Agents : tool[a] # None => Merging(tool[a], note, head)

LEMMA NoneApart == None \notin Notes /\ None \notin Statuses
  BY ConstantsAssumption DEF Notes, Statuses

LEMMA FineSelf == ASSUME NEW v, NEW n PROVE Fine(v[n], n, v)
  BY DEF Fine

LEMMA AllFineSelf == ASSUME NEW v PROVE AllFine(v, v)
  BY FineSelf DEF AllFine

LEMMA SameFine ==
    ASSUME NEW c, NEW d, NEW n, NEW v, Same(c, d), Fine(d, n, v)
    PROVE  Fine(c, n, v)
  BY DEF Same, Fine

LEMMA FineSafe ==
    ASSUME NEW u \in Texts, NEW v \in Texts, Safe(v), AllFine(u, v)
    PROVE  Safe(u)
<1>0. \A n \in Notes : /\ u[n] \in Commitments /\ v[n] \in Commitments
                       /\ u[n].separate \subseteq Notes /\ v[n].separate \subseteq Notes
  BY DEF Texts, Commitments
<1>1. ASSUME NEW n \in Notes, NEW m \in Notes, u[m].into = n
      PROVE  n \notin u[m].separate /\ m \notin u[n].separate
  <2>1. v[m].into = n /\ n # None
    BY <1>1, NoneApart DEF AllFine, Fine
  <2>2. n \notin v[m].separate /\ m \notin v[n].separate
    BY <2>1 DEF Safe
  <2> QED
    BY <2>1, <2>2 DEF AllFine, Fine
<1>2. ASSUME NEW n \in Notes, NEW o \in u[n].bindings
      PROVE  \E w \in Notes : u[w].into = None /\ o \in u[w].bindings
  <2>1. CASE u[n].into = None
    BY <1>2, <2>1
  <2>2. CASE u[n].into # None
    <3>1. o \in v[n].bindings
      BY <1>2, <2>2 DEF AllFine, Fine
    <3>2. PICK w \in Notes : v[w].into = None /\ o \in v[w].bindings
      BY <3>1 DEF Safe
    <3> QED
      BY <3>2 DEF AllFine, Fine
  <2> QED
    BY <2>1, <2>2
<1> QED
  BY <1>1, <1>2 DEF Safe

LEMMA FineWritten ==
    ASSUME NEW u \in Texts, NEW v, NEW n \in Notes, NEW x, AllFine(u, v), Fine(x, n, v)
    PROVE  AllFine([u EXCEPT ![n] = x], v)
<1>1. PICK w : w = [u EXCEPT ![n] = x]
  OBVIOUS
<1>2. \A k \in Notes : w[k] = IF k = n THEN x ELSE u[k]
  BY <1>1 DEF Texts
<1> QED
  BY <1>1, <1>2 DEF AllFine

\* What may take the place of a note still may when another is written.
LEMMA FineStill ==
    ASSUME NEW v \in Texts, NEW h \in Texts, NEW n \in Notes, NEW x \in Commitments,
           AllFine(v, h), Fine(x, n, h), NEW k \in Notes, NEW c \in Commitments,
           Fine(c, k, v), k = n => Same(x, c)
    PROVE  Fine(c, k, [v EXCEPT ![n] = x])
<1>1. PICK w : w = [v EXCEPT ![n] = x]
  OBVIOUS
<1>2. \A i \in Notes : w[i] = IF i = n THEN x ELSE v[i]
  BY <1>1 DEF Texts
<1>3. x.into = v[n].into
  BY DEF AllFine, Fine
<1>4. c.separate \subseteq Notes
  BY DEF Commitments
<1>5. CASE k = n
  <2>1. c.into = w[k].into /\ c.bindings = w[k].bindings /\ c.separate = w[k].separate
    BY <1>2, <1>5 DEF Same
  <2> QED
    BY <1>1, <2>1 DEF Fine
<1>6. CASE k # n
  <2>1. w[k] = v[k] /\ \A i \in Notes : w[i].into = v[i].into
    BY <1>2, <1>3, <1>6
  <2> QED
    BY <1>1, <1>4, <2>1 DEF Fine
<1> QED
  BY <1>5, <1>6

LEMMA FineTyped ==
    ASSUME NEW v \in Texts, NEW n \in Notes
    PROVE  v[n] \in Commitments /\ v[n].bindings \subseteq Objects /\ v[n].separate \subseteq Notes
  BY DEF Texts, Commitments

\* The notes of a merge, of which all, some or none are written.
LEMMA MergeParts ==
    ASSUME NEW v \in Texts, NEW w \in Notes, NEW n \in Notes, NEW ws, NEW u, Merge(w, n, ws, u, v)
    PROVE  LET W == Winner(v[w], v[n])
               L == Loser(v[n], w) IN
           /\ W \in Commitments /\ L \in Commitments /\ u \in Texts
           /\ W.into = None /\ W.bindings = v[w].bindings \cup v[n].bindings
           /\ W.separate = v[w].separate
           /\ L.overlay = "dropped" /\ L.into = w /\ L.bindings = v[n].bindings
           /\ L.separate = v[n].separate
           /\ \A k \in Notes \ {w, n} : u[k] = v[k]
           /\ \/ u[w] = v[w] /\ u[n] = v[n]
              \/ u[w] = W /\ u[n] = v[n]
              \/ u[w] = W /\ u[n] = L
<1>1. PICK W, L : W = Winner(v[w], v[n]) /\ L = Loser(v[n], w)
  OBVIOUS
<1>2. /\ W \in Commitments /\ L \in Commitments
      /\ W.into = v[w].into /\ W.bindings = v[w].bindings \cup v[n].bindings
      /\ W.separate = v[w].separate
      /\ L.overlay = "dropped" /\ L.into = w /\ L.bindings = v[n].bindings
      /\ L.separate = v[n].separate
  BY <1>1, FineTyped, WinnerParts, LoserParts
<1>3. w # n /\ v[w].into = None
  BY DEF Merge
<1>4. u = v \/ u = [v EXCEPT ![w] = W] \/ u = [v EXCEPT ![w] = W, ![n] = L]
  BY <1>1 DEF Merge
<1>5. u \in Texts /\ \A k \in Notes \ {w, n} : u[k] = v[k]
  BY <1>2, <1>4 DEF Texts
<1>6. \/ u[w] = v[w] /\ u[n] = v[n]
      \/ u[w] = W /\ u[n] = v[n]
      \/ u[w] = W /\ u[n] = L
  BY <1>3, <1>4 DEF Texts
<1> QED
  BY <1>1, <1>2, <1>3, <1>5, <1>6

LEMMA MergeSafe ==
    ASSUME NEW v \in Texts, NEW w \in Notes, NEW n \in Notes, NEW ws, NEW u,
           Merge(w, n, ws, u, v), Safe(v)
    PROVE  u \in Texts /\ Safe(u)
<1>1. PICK W, L : W = Winner(v[w], v[n]) /\ L = Loser(v[n], w)
  OBVIOUS
<1>2. /\ u \in Texts
      /\ W.into = None /\ W.bindings = v[w].bindings \cup v[n].bindings
      /\ W.separate = v[w].separate
      /\ L.into = w /\ L.bindings = v[n].bindings
      /\ L.separate = v[n].separate
      /\ \A k \in Notes \ {w, n} : u[k] = v[k]
      /\ \/ u[w] = v[w] /\ u[n] = v[n]
         \/ u[w] = W /\ u[n] = v[n]
         \/ u[w] = W /\ u[n] = L
  BY <1>1, MergeParts
<1>3. /\ w # n /\ v[w].into = None /\ v[n].into = None
      /\ n \notin v[w].separate /\ w \notin v[n].separate
  BY DEF Merge
<1>4. \A k \in Notes : u[k].separate = v[k].separate /\ v[k].bindings \subseteq u[k].bindings
  BY <1>2
<1>5. \A k \in Notes : u[k].into = v[k].into \/ (k = n /\ u[k].into = w)
  BY <1>2, <1>3
<1>6. ASSUME NEW k \in Notes, NEW m \in Notes, u[m].into = k
      PROVE  k \notin u[m].separate /\ m \notin u[k].separate
  BY <1>3, <1>4, <1>5, <1>6 DEF Safe
<1>7. u[w].into = None
  BY <1>2, <1>3
<1>8. ASSUME NEW o, NEW y \in Notes, v[y].into = None, o \in v[y].bindings
      PROVE  \E x \in Notes : u[x].into = None /\ o \in u[x].bindings
  <2>1. CASE u[y].into = None
    BY <1>4, <1>8, <2>1
  <2>2. CASE u[y].into # None
    <3>1. y = n /\ u[w] = W
      BY <1>2, <1>3, <1>5, <1>8, <2>2
    <3> QED
      BY <1>2, <1>7, <1>8, <3>1
  <2> QED
    BY <2>1, <2>2
<1>9. ASSUME NEW k \in Notes, NEW o \in u[k].bindings
      PROVE  \E x \in Notes : u[x].into = None /\ o \in u[x].bindings
  <2>1. CASE \E y \in Notes : o \in v[y].bindings
    <3>1. PICK y \in Notes : v[y].into = None /\ o \in v[y].bindings
      BY <2>1 DEF Safe
    <3> QED
      BY <1>8, <3>1
  <2>2. \E y \in Notes : o \in v[y].bindings
    BY <1>2, <1>9
  <2> QED
    BY <2>1, <2>2
<1> QED
  BY <1>2, <1>6, <1>9 DEF Safe

\* Whichever of its files are written, an open note may be committed as it is.
LEMMA MergeUnbroken ==
    ASSUME NEW v \in Texts, NEW w \in Notes, NEW n \in Notes, NEW ws, NEW u,
           Merge(w, n, ws, u, v), NEW k \in Notes, u[k].overlay \notin Statuses
    PROVE  Fine(u[k], k, v)
<1>1. PICK W, L : W = Winner(v[w], v[n]) /\ L = Loser(v[n], w)
  OBVIOUS
<1>2. /\ W.into = None /\ W.bindings = v[w].bindings \cup v[n].bindings
      /\ W.separate = v[w].separate /\ L.overlay = "dropped"
      /\ \A i \in Notes \ {w, n} : u[i] = v[i]
      /\ \/ u[w] = v[w] /\ u[n] = v[n]
         \/ u[w] = W /\ u[n] = v[n]
         \/ u[w] = W /\ u[n] = L
  BY <1>1, MergeParts
<1>3. v[w].into = None
  BY DEF Merge
<1>4. Fine(W, w, v)
  BY <1>2, <1>3 DEF Fine
<1>5. u[k] = v[k] \/ (k = w /\ u[k] = W)
  BY <1>2 DEF Statuses
<1> QED
  BY <1>4, <1>5, FineSelf

LEMMA MergeGoesOn ==
    ASSUME NEW v \in Texts, NEW w \in Notes, NEW n \in Notes, NEW ws \in Seq(Files), NEW u,
           Merge(w, n, ws, u, v), ws # <<>>
    PROVE  Merge(w, n, Tail(ws), [u EXCEPT ![Head(ws).file] = Head(ws).text], v)
<1>1. PICK W, L : W = Winner(v[w], v[n]) /\ L = Loser(v[n], w)
  OBVIOUS
<1>2. W \in Commitments /\ L \in Commitments
  BY <1>1, MergeParts
<1>3. PICK f \in Files, g \in Files : f = File(w, W) /\ g = File(n, L)
  BY <1>2, FileParts
<1>4. f.file = w /\ f.text = W /\ g.file = n /\ g.text = L
  BY <1>2, <1>3, FileParts
<1>5. CASE ws = <<f, g>> /\ u = v
  <2>1. Tail(ws) = <<g>> /\ Head(ws) = f
    BY <1>5
  <2> QED
    BY <1>1, <1>3, <1>4, <1>5, <2>1 DEF Merge
<1>6. CASE ws = <<g>> /\ u = [v EXCEPT ![w] = W]
  <2>1. Tail(ws) = <<>> /\ Head(ws) = g
    BY <1>6
  <2> QED
    BY <1>1, <1>3, <1>4, <1>6, <2>1 DEF Merge
<1> QED
  BY <1>1, <1>3, <1>5, <1>6 DEF Merge

LEMMA SkippedKeeps ==
    ASSUME NEW c \in Calls, NEW p, NEW e
    PROVE  LET d == Skipped(c, p, e) IN
           d.step = "next" /\ d.name = c.name /\ d.read = c.read /\ d.todo = c.todo \ {p}
  BY DEF Calls, Skipped

\* A call that goes on with its next binding.
LEMMA SkipMerges ==
    ASSUME NEW c \in Calls, NEW p, NEW e, NEW v, NEW h, c.name # "mail" \/ c.todo = {},
           c.name = "periodic" => Rereads(c, v, h)
    PROVE  Merging(Skipped(c, p, e), v, h)
<1>1. PICK d : d = Skipped(c, p, e)
  OBVIOUS
<1>2. d.step = "next" /\ d.name = c.name /\ d.read = c.read /\ d.todo = c.todo \ {p}
  BY <1>1, SkippedKeeps
<1> QED
  BY <1>1, <1>2 DEF Merging, Sound, Keeps, Rereads, Fresh

LEMMA CloseMerges ==
    ASSUME NEW c \in Calls, NEW p \in Notes \X Objects, NEW v, NEW h,
           c.name \in {"push", "set_status"}
    PROVE  Merging(Closing(c, p), v, h)
<1>1. PICK d : d = Closing(c, p)
  OBVIOUS
<1>2. d.step = "close" /\ d.name = c.name
  BY <1>1, ClosingParts
<1> QED
  BY <1>1, <1>2 DEF Merging, Sound, Keeps, Fresh

LEMMA RecloseMerges ==
    ASSUME NEW c \in Calls, NEW p \in Notes \X Objects, NEW v, NEW h, c.name = "periodic",
           Rereads(c, v, h), c.read[p[1]].overlay \notin Statuses
    PROVE  Merging(Reclosing(c, p), v, h)
<1>1. PICK d, f : d = Reclosing(c, p) /\ f = Restated(p[1], c.read[p[1]], "closed")
  OBVIOUS
<1>2. f \in Files /\ d.step = "prepare" /\ d.writes = <<f>> /\ d.name = c.name /\ d.read = c.read
  BY <1>1, ReclosingParts
<1>3. c.read[p[1]] \in Commitments /\ p[1] \in Notes
  BY CallParts
<1>4. f.file = p[1] /\ Same(f.text, c.read[p[1]])
  BY <1>1, <1>3, RestatedParts DEF Same, Statuses
<1>5. DOMAIN d.writes = {1} /\ d.writes[1] = f
  BY <1>2, One
<1>6. Fine(f.text, f.file, v)
  BY <1>3, <1>4, SameFine DEF Rereads
<1>7. FineFiles(d.writes, v)
  BY <1>5, <1>6 DEF FineFiles
<1>8. Rewrites(d)
  BY <1>2, <1>3, <1>4, <1>5 DEF Rewrites
<1>9. Rereads(d, v, h)
  BY <1>2 DEF Rereads
<1> QED
  BY <1>1, <1>2, <1>7, <1>8, <1>9, AllFineSelf DEF Merging, Sound, Keeps, Fresh

LEMMA MatchMerges ==
    ASSUME NEW c \in Calls, NEW p \in Notes \X Objects, NEW e \in BOOLEAN,
           NEW s \in Statuses \cup {None}, NEW ns \in SUBSET Notes, NEW order \in InOrder(ns),
           NEW h, c.name = "mail", c.step = "next"
    PROVE  Merging(Matching(c, p, e, s, order), c.read, h)
<1>1. PICK d : d = Matching(c, p, e, s, order)
  OBVIOUS
<1>2. /\ d.todo = {} /\ d.name = "mail" /\ d.step \in {"next", "prepare"}
      /\ \A i \in DOMAIN d.writes : \E n \in ns : d.writes[i] = Restated(n, c.read[n], s)
  BY <1>1, MatchingParts
<1>3. ASSUME NEW i \in DOMAIN d.writes
      PROVE  Fine(d.writes[i].text, d.writes[i].file, c.read)
  <2>1. PICK n \in ns : d.writes[i] = Restated(n, c.read[n], s)
    BY <1>2
  <2>2. n \in Notes /\ c.read[n] \in Commitments
    BY CallParts
  <2>3. Restated(n, c.read[n], s).file = n /\ Same(Restated(n, c.read[n], s).text, c.read[n])
    BY <2>2, RestatedParts DEF Same
  <2> QED
    BY <2>1, <2>3, SameFine, FineSelf
<1>4. FineFiles(d.writes, c.read)
  BY <1>3 DEF FineFiles
<1> QED
  BY <1>1, <1>2, <1>4, AllFineSelf DEF Merging, Sound, Keeps, Fresh

\* A call that starts.
LEMMA BeginMerges ==
    ASSUME NEW d, NEW name, NEW todo, NEW ws, CallOf(d, name, todo, ws), NEW h,
           \/ ws = <<>>
           \/ name \notin {"periodic", "mail"} /\ FineFiles(ws, note)
           \/ name = "review" /\ \E w, n \in Notes : Merge(w, n, ws, note, note),
           name = "periodic" /\ setting.fails =>
              \A n \in Notes : note[n].overlay \notin Statuses => Fine(note[n], n, h)
    PROVE  Merging(d, note, h)
<1>1. d.name = name /\ d.writes = ws /\ d.read = note
      /\ IF ws = <<>> THEN d.step = "next" ELSE d.step = "prepare"
  BY DEF CallOf
<1>2. Sound(d, note, h)
  BY <1>1, AllFineSelf DEF Sound
<1>3. Keeps(d, note, h)
  BY <1>1, FineSelf DEF Keeps, Rereads
<1>4. Fresh(d, note)
  BY <1>1 DEF Fresh
<1> QED
  BY <1>2, <1>3, <1>4 DEF Merging

LEMMA SetStatusMerges ==
    ASSUME GtdSane, TypeOK, NEW a \in Agents, brainGTDSetStatus(a)
    PROVE  Merging(tool'[a], note, head)
<1>0. PICK n \in Notes, s \in Statuses \cup {None} :
          \E d : /\ Restated(n, note[n], s) \in Files
                 /\ Begun(a, d, "set_status", {}, <<Restated(n, note[n], s)>>)
  BY SetStatusStarts
<1>1. PICK d : /\ Restated(n, note[n], s) \in Files
               /\ Begun(a, d, "set_status", {}, <<Restated(n, note[n], s)>>)
  BY <1>0
<1>2. note[n] \in Commitments
  BY DEF TypeOK
<1>3. PICK f \in Files : f = Restated(n, note[n], s)
  BY <1>1
<1>4. f.file = n /\ Same(f.text, note[n])
  BY <1>2, <1>3, RestatedParts DEF Same
<1>5. Fine(f.text, f.file, note)
  BY <1>4, SameFine, FineSelf
<1>6. DOMAIN <<f>> = {1} /\ <<f>>[1] = f
  OBVIOUS
<1>7. FineFiles(<<f>>, note)
  BY <1>5, <1>6 DEF FineFiles
<1>8. CallOf(d, "set_status", {}, <<f>>) /\ tool'[a] = d
  BY <1>1, <1>3 DEF Begun, TypeOK, Turns
<1> QED
  BY <1>7, <1>8, BeginMerges

LEMMA ReviewMerges ==
    ASSUME GtdSane, TypeOK, NEW a \in Agents, brainGTDDedupReviewApply(a)
    PROVE  Merging(tool'[a], note, head)
<1>1. PICK m \in Notes, n \in Notes, ws \in Seq(Files) : \E d :
          /\ m # n /\ note[m].into = None /\ note[n].into = None
          /\ n \notin note[m].separate /\ m \notin note[n].separate
          /\ ws \in {applyDedupMerge(m, n), MarkNotDuplicate(m, n), MarkDeferred(m, n)}
          /\ ws # <<>> /\ Begun(a, d, "review", {}, ws)
  BY ReviewStarts
<1>2. PICK d : Begun(a, d, "review", {}, ws)
  BY <1>1
<1>3. CallOf(d, "review", {}, ws) /\ tool'[a] = d
  BY <1>2 DEF Begun, TypeOK, Turns
<1>0. note[m] \in Commitments /\ note[n] \in Commitments
  BY DEF TypeOK
<1>4. CASE ws = applyDedupMerge(m, n)
  <2>1. Merge(m, n, ws, note, note)
    BY <1>1, <1>4 DEF Merge, applyDedupMerge
  <2> QED
    BY <1>3, <2>1, BeginMerges
<1>5. ASSUME NEW f \in Files, NEW g \in Files, ws = <<f, g>>,
             Fine(f.text, f.file, note), Fine(g.text, g.file, note)
      PROVE  Merging(d, note, head)
  <2>1. FineFiles(ws, note)
    BY <1>5 DEF FineFiles
  <2> QED
    BY <1>3, <2>1, BeginMerges
<1>6. CASE ws = MarkNotDuplicate(m, n)
  <2>1. PICK x, y : /\ x = [note[m] EXCEPT !.separate = @ \cup {n}]
                    /\ y = [note[n] EXCEPT !.separate = @ \cup {m}]
    OBVIOUS
  <2>2. /\ x \in Commitments /\ x.bindings = note[m].bindings /\ x.into = note[m].into
        /\ x.separate = note[m].separate \cup {n}
        /\ y \in Commitments /\ y.bindings = note[n].bindings /\ y.into = note[n].into
        /\ y.separate = note[n].separate \cup {m}
    BY <1>0, <2>1, MarkParts
  <2>3. Fine(x, m, note) /\ Fine(y, n, note)
    BY <1>1, <2>2 DEF Fine
  <2>4. PICK f \in Files, g \in Files : f = File(m, x) /\ g = File(n, y)
    BY <2>2, FileParts
  <2>5. f.file = m /\ f.text = x /\ g.file = n /\ g.text = y
    BY <2>2, <2>4, FileParts
  <2>6. ws = <<f, g>>
    BY <1>6, <2>1, <2>4 DEF MarkNotDuplicate
  <2> QED
    BY <1>3, <1>5, <2>3, <2>5, <2>6
<1>7. CASE ws = MarkDeferred(m, n)
  <2>1. PICK f \in Files, g \in Files : f = File(m, note[m]) /\ g = File(n, note[n])
    BY <1>0, FileParts
  <2>2. f.file = m /\ f.text = note[m] /\ g.file = n /\ g.text = note[n]
    BY <1>0, <2>1, FileParts
  <2>3. ws = <<f, g>>
    BY <1>7, <2>1 DEF MarkDeferred
  <2> QED
    BY <1>3, <1>5, <2>2, <2>3, FineSelf
<1> QED
  BY <1>1, <1>4, <1>6, <1>7, <1>3

LEMMA PrepareMerges ==
    ASSUME NEW c \in Calls, NEW v, NEW h, c.step = "prepare", Merging(c, v, h)
    PROVE  Merging(Writing(c), v, v)
<1>1. PICK d : d = Writing(c)
  OBVIOUS
<1>2. /\ d.step = "write" /\ d.todo = c.todo /\ d.name = c.name /\ d.read = c.read
      /\ d.writes = c.writes
  BY <1>1, WritingParts
<1>3. Sound(d, v, v)
  BY <1>2 DEF Merging, Sound
<1>4. Keeps(d, v, v)
  BY <1>2 DEF Merging, Keeps, Rereads, Rewrites
<1>5. Fresh(d, v)
  BY <1>2 DEF Merging, Fresh
<1> QED
  BY <1>1, <1>3, <1>4, <1>5 DEF Merging

\* What is to be written when the first file is.
LEMMA RestFine ==
    ASSUME NEW c \in Calls, c.writes # <<>>, NEW h, FineFiles(c.writes, h)
    PROVE  FineFiles(Wrote(c).writes, h) /\ Fine(Head(c.writes).text, Head(c.writes).file, h)
<1>1. PICK d : d = Wrote(c)
  OBVIOUS
<1>2. /\ Head(c.writes) = c.writes[1]
      /\ \A i \in DOMAIN d.writes : d.writes[i] = c.writes[i + 1] /\ i + 1 \in DOMAIN c.writes
  BY <1>1, WroteParts
<1>3. 1 \in DOMAIN c.writes
  BY CallParts
<1> QED
  BY <1>1, <1>2, <1>3 DEF FineFiles

LEMMA RestRewrites ==
    ASSUME NEW c \in Calls, c.writes # <<>>, Rewrites(c)
    PROVE  /\ Rewrites(Wrote(c))
           /\ Head(c.writes).file \in Notes
           /\ Same(Head(c.writes).text, c.read[Head(c.writes).file])
<1>1. PICK d : d = Wrote(c)
  OBVIOUS
<1>2. /\ Head(c.writes) = c.writes[1] /\ d.read = c.read
      /\ \A i \in DOMAIN d.writes : d.writes[i] = c.writes[i + 1] /\ i + 1 \in DOMAIN c.writes
  BY <1>1, WroteParts
<1>3. 1 \in DOMAIN c.writes
  BY CallParts
<1>4. Rewrites(d)
  BY <1>2 DEF Rewrites
<1> QED
  BY <1>1, <1>2, <1>3, <1>4 DEF Rewrites

LEMMA WriteMerges ==
    ASSUME NEW c \in Calls, NEW v \in Texts, NEW h \in Texts, c.step = "write", c.writes # <<>>,
           Safe(h), Merging(c, v, h)
    PROVE  LET u == [v EXCEPT ![Head(c.writes).file] = Head(c.writes).text] IN
           Merging(Wrote(c), u, h) /\ Safe(u) /\ Unbroken(u, h)
<1>1. PICK d, f, u : /\ d = Wrote(c) /\ f = Head(c.writes) /\ u = [v EXCEPT ![f.file] = f.text]
  OBVIOUS
<1>2. /\ d.todo = c.todo /\ d.name = c.name /\ d.read = c.read /\ f \in Files
      /\ d.writes = Tail(c.writes) /\ c.writes \in Seq(Files)
      /\ d.step \in {"write", "commit"}
  BY <1>1, WroteParts, CallParts
<1>3. f.file \in Notes /\ f.text \in Commitments /\ u \in Texts
  BY <1>1, <1>2 DEF Files, Texts
<1>4. Fresh(d, u)
  BY <1>2 DEF Merging, Fresh
<1>5. CASE AllFine(v, h) /\ FineFiles(c.writes, h)
  <2>1. FineFiles(d.writes, h) /\ Fine(f.text, f.file, h)
    BY <1>1, <1>5, RestFine
  <2>2. AllFine(u, h)
    BY <1>1, <1>3, <1>5, <2>1, FineWritten
  <2>3. Sound(d, u, h)
    BY <1>2, <2>1, <2>2 DEF Sound
  <2>4. Safe(u)
    BY <1>3, <2>2, FineSafe
  <2>5. Unbroken(u, h)
    BY <2>2 DEF Unbroken, AllFine
  <2>6. ASSUME c.name = "periodic"
        PROVE  Rereads(d, u, h) /\ Rewrites(d)
    <3>1. Rereads(c, v, h) /\ Rewrites(c)
      BY <2>6 DEF Merging, Keeps
    <3>2. Rewrites(d) /\ Same(f.text, c.read[f.file])
      BY <1>1, <3>1, RestRewrites
    <3>3. ASSUME NEW k \in Notes, c.read[k].overlay \notin Statuses
          PROVE  Fine(c.read[k], k, u)
      <4>1. PICK r \in Commitments : r = c.read[k]
        BY CallParts
      <4>2. Fine(r, k, v) /\ (k = f.file => Same(f.text, r))
        BY <3>1, <3>2, <3>3, <4>1 DEF Rereads
      <4>3. Fine(r, k, [v EXCEPT ![f.file] = f.text])
        BY <1>3, <1>5, <2>1, <4>2, FineStill
      <4> QED
        BY <1>1, <4>1, <4>3
    <3> QED
      BY <1>2, <3>1, <3>2, <3>3 DEF Rereads
  <2> QED
    BY <1>1, <1>2, <1>4, <2>3, <2>4, <2>5, <2>6 DEF Merging, Keeps
<1>6. ASSUME c.name = "review", NEW w \in Notes, NEW n \in Notes, Merge(w, n, c.writes, v, h)
      PROVE  Merging(d, u, h) /\ Safe(u) /\ Unbroken(u, h)
  <2>1. Merge(w, n, d.writes, u, h)
    BY <1>1, <1>2, <1>6, MergeGoesOn
  <2>2. Safe(u)
    BY <2>1, MergeSafe
  <2>3. Unbroken(u, h)
    BY <2>1, MergeUnbroken DEF Unbroken
  <2>4. Sound(d, u, h)
    BY <1>2, <1>6, <2>1 DEF Sound
  <2> QED
    BY <1>2, <1>4, <1>6, <2>2, <2>3, <2>4 DEF Merging, Keeps
<1>7. \/ AllFine(v, h) /\ FineFiles(c.writes, h)
      \/ c.name = "review" /\ \E w, n \in Notes : Merge(w, n, c.writes, v, h)
  BY DEF Merging, Sound
<1> QED
  BY <1>1, <1>5, <1>6, <1>7

LEMMA FailMerges ==
    ASSUME GtdTypes, NEW a \in Agents, tool[a] \in Calls, Failed(a), NEW v, NEW h,
           tool[a].name = "periodic" => Rereads(tool[a], v, h)
    PROVE  tool'[a] = None \/ Merging(tool'[a], v, h)
<1>1. PICK d : /\ Turns(a, d)
               /\ d = IF tool[a].name = "periodic" THEN Skipped(tool[a], tool[a].at, TRUE) ELSE None
  BY FailedTurns
<1>2. tool'[a] = d
  BY <1>1 DEF Turns, GtdTypes, TypeOK
<1>3. CASE tool[a].name = "periodic"
  <2>1. PICK e : e = TRUE
    OBVIOUS
  <2>2. Merging(Skipped(tool[a], tool[a].at, e), v, h)
    BY <1>3, SkipMerges
  <2> QED
    BY <1>1, <1>2, <1>3, <2>1, <2>2
<1> QED
  BY <1>1, <1>2, <1>3

LEMMA CommitMerges ==
    ASSUME GtdSane, GtdTypes, NEW a \in Agents, tool[a] \in Calls, tool[a].step = "commit",
           Committed(a),
           Merging(tool[a], note, head)
    PROVE  tool'[a] = None \/ Merging(tool'[a], note, note)
<1>0. \A d : Turns(a, d) => tool'[a] = d
  BY DEF GtdTypes, TypeOK, Turns
<1>1. PICK c, e : c = tool[a] /\ c \in Calls /\ e = FALSE
  OBVIOUS
<1>2. TypeOK /\ (c.name = "periodic" => Rereads(c, note, note))
  BY <1>1 DEF Merging, Keeps, Rereads, GtdTypes
<1>3. CASE c.name = "periodic" /\ Turns(a, Skipped(c, c.at, e))
  BY <1>0, <1>1, <1>2, <1>3, SkipMerges
<1>4. CASE c.name = "set_status" /\ Turns(a, Repushed(c))
  <2>1. PICK d : d = Repushed(c)
    OBVIOUS
  <2>2. d.step = "next" /\ d.name = "set_status"
    BY <1>1, <1>2, <2>1, RepushParts
  <2> QED
    BY <1>0, <1>4, <2>1, <2>2 DEF Merging, Sound, Keeps, Fresh
<1>5. CASE c.name = "mail" /\ Turns(a, [c EXCEPT !.step = "next"])
  <2>1. PICK d : d = [c EXCEPT !.step = "next"]
    OBVIOUS
  <2>2. d.step = "next" /\ d.name = c.name /\ d.todo = c.todo
    BY <2>1, NextParts
  <2>3. c.todo = {}
    BY <1>1, <1>5 DEF Merging, Fresh
  <2> QED
    BY <1>0, <1>5, <2>1, <2>2, <2>3 DEF Merging, Sound, Keeps, Fresh
<1>6. CASE Turns(a, None)
  BY <1>0, <1>6
<1> QED
  BY <1>1, <1>2, <1>3, <1>4, <1>5, <1>6, CommitTurns

LEMMA SyncMerges ==
    ASSUME GtdSane, GtdTypes, Reviewed, Unbroken(note, head), NEW a \in Agents, Sync(a),
           tool[a] # None => Merging(tool[a], note, head)
    PROVE  tool'[a] # None => Merging(tool'[a], note, head)
<1>0. TypeOK /\ \A d : Turns(a, d) => tool'[a] = d
  BY DEF GtdTypes, TypeOK, Turns
<1>1. CASE brainGTDSyncPush(a)
  BY <1>0, <1>1, PushStarts, BeginMerges DEF Begun
<1>2. CASE brainGTDSyncPeriodic(a)
  <2>1. PICK d : Begun(a, d, "periodic", Bindings(setting.notes, note), <<>>)
    BY <1>0, <1>2, PeriodicStarts
  <2>2. setting.fails => ~ setting.owner
    BY <2>1 DEF Begun, Reviewed, KeepsUp
  <2> QED
    BY <1>0, <2>1, <2>2, BeginMerges DEF Begun, Unbroken
<1>3. CASE readBindingStateFails(a)
  <2>1. PICK e, p : p \in First(a) /\ Turns(a, Skipped(tool[a], p, e))
    BY <1>0, <1>3, ReadFails
  <2>2. tool[a] \in Calls /\ tool[a].name # "mail" /\ Merging(tool[a], note, head)
    BY <1>0, <1>3, <2>1, ReadFails, FirstParts DEF GtdSane
  <2> QED
    BY <1>0, <2>1, <2>2, SkipMerges DEF Merging, Keeps
<1>4. CASE pushClosedBinding(a)
  <2>1. PICK p, e : /\ p \in First(a)
                    /\ Turns(a, Skipped(tool[a], p, e)) \/ Turns(a, Closing(tool[a], p))
    BY <1>0, <1>4, Pushes
  <2>2. tool[a] \in Calls /\ tool[a].name \in {"push", "set_status"} /\ p \in Notes \X Objects
    BY <1>0, <1>4, <2>1, Pushes, FirstParts
  <2> QED
    BY <1>0, <2>1, <2>2, SkipMerges, CloseMerges
<1>5. CASE closeBinding(a)
  <2>1. tool[a] \in Calls /\ tool[a].step = "close"
        /\ \E error \in BOOLEAN : Turns(a, Skipped(tool[a], tool[a].at, error))
    BY <1>0, <1>5, Closes
  <2>2. Merging(tool[a], note, head)
    BY <2>1 DEF GtdSane
  <2> QED
    BY <1>0, <2>1, <2>2, SkipMerges DEF Merging, Keeps, Fresh
<1>6. CASE periodicSyncBinding(a)
  <2>1. PICK p, e : /\ p \in First(a)
                    /\ \/ ~ commitmentClosed(tool[a].read[p[1]]) /\ Turns(a, Reclosing(tool[a], p))
                       \/ Turns(a, Skipped(tool[a], p, e))
    BY <1>0, <1>6, Recloses
  <2>2. tool[a] \in Calls /\ tool[a].name = "periodic" /\ p \in Notes \X Objects
        /\ Merging(tool[a], note, head)
    BY <1>0, <1>6, <2>1, Recloses, FirstParts DEF GtdSane
  <2>3. Rereads(tool[a], note, head)
    BY <2>2 DEF Merging, Keeps
  <2> QED
    BY <1>0, <2>1, <2>2, <2>3, SkipMerges, RecloseMerges DEF commitmentClosed
<1>7. CASE mailAction(a)
  <2>1. PICK d, todo : Begun(a, d, "mail", todo, <<>>)
    BY <1>0, <1>7, MailStarts
  <2> QED
    BY <1>0, <2>1, BeginMerges DEF Begun
<1>8. CASE walkMailBindings(a)
  <2>1. PICK p \in First(a), error \in BOOLEAN, status \in Statuses \cup {None} :
          /\ changed(status, a) \in SUBSET Notes
          /\ \E order \in InOrder(changed(status, a)) :
               Turns(a, Matching(tool[a], p, error, status, order))
    BY <1>0, <1>8, Matches
  <2>2. PICK ns \in SUBSET Notes : ns = changed(status, a)
    BY <2>1
  <2>3. PICK order \in InOrder(ns) : Turns(a, Matching(tool[a], p, error, status, order))
    BY <2>1, <2>2
  <2>4. tool[a] \in Calls /\ tool[a].step = "next" /\ p \in Notes \X Objects /\ p \in tool[a].todo
        /\ tool[a].name = "mail"
    BY <1>0, <1>8, FirstParts, Matches
  <2>5. tool[a].read = note
    BY <2>4 DEF Merging, Fresh, GtdSane
  <2>6. Merging(Matching(tool[a], p, error, status, order), tool[a].read, head)
    BY <2>4, MatchMerges
  <2> QED
    BY <1>0, <2>3, <2>5, <2>6
<1>9. CASE Return(a)
  BY <1>0, <1>9 DEF Return, Turns
<1> QED
  BY <1>1, <1>2, <1>3, <1>4, <1>5, <1>6, <1>7, <1>8, <1>9 DEF Sync

LEMMA SyncLeaves ==
    ASSUME GtdSane, GtdTypes, NEW a \in Agents, Sync(a)
    PROVE  note' = note /\ head' = head
<1>1. TypeOK
  BY DEF GtdTypes
<1> QED
  BY <1>1, PushStarts, PeriodicStarts, ReadFails, Pushes, Closes, Recloses, MailStarts, Matches
     DEF Sync, Return

Merged(v, h) == Safe(v) /\ Safe(h) /\ Unbroken(v, h)

LEMMA MutateMerges ==
    ASSUME GtdSane, GtdTypes, Reviewed, NEW a \in Agents, Mutate(a), Merged(note, head),
           tool[a] # None => Merging(tool[a], note, head)
    PROVE  /\ Merged(note', head')
           /\ tool'[a] # None => Merging(tool'[a], note', head')
<1>0. TypeOK /\ (\A d : Turns(a, d) => tool'[a] = d) /\ note \in Texts /\ head \in Texts
  BY DEF GtdTypes, TypeOK, Turns, Texts
<1>a. \A v : Safe(v) => Merged(v, v)
  BY FineSelf DEF Merged, Unbroken
<1>1. CASE brainGTDSetStatus(a)
  BY <1>0, <1>1, SetStatusStarts, SetStatusMerges
<1>2. CASE brainGTDDedupReviewApply(a)
  BY <1>0, <1>2, ReviewStarts, ReviewMerges
<1>3. CASE brainGTDBind(a)
  <2>1. "bind" \in setting.tools
    BY <1>3 DEF brainGTDBind, Start
  <2> QED
    BY <2>1 DEF Reviewed
<1>4. CASE ensureGitFails(a) \/ preflightCommitFails(a) \/ mutationFails(a)
  <2>1. /\ head' = head /\ (note' = note \/ note' = head)
        /\ tool[a] \in Calls /\ setting.fails /\ Failed(a)
    BY <1>0, <1>4, Undoes
  <2>2. Merged(note', head')
    BY <1>a, <2>1 DEF Merged
  <2>3. tool[a].name = "periodic" => Rereads(tool[a], note', head')
    BY <2>1 DEF Merging, Keeps, Rereads, GtdSane
  <2> QED
    BY <2>1, <2>2, <2>3, FailMerges
<1>5. CASE ensureGitReady(a)
  <2>1. /\ note' = note /\ head' = note /\ tool[a] \in Calls /\ tool[a].step = "prepare"
        /\ Turns(a, Writing(tool[a])) \/ Failed(a)
    BY <1>0, <1>5, Prepares
  <2>2. Merging(tool[a], note, head)
    BY <2>1 DEF GtdSane
  <2>3. Merged(note', head')
    BY <1>a, <2>1 DEF Merged
  <2>4. CASE Failed(a)
    <3>1. tool[a].name = "periodic" => Rereads(tool[a], note, note)
      BY <2>2 DEF Merging, Keeps, Rereads
    <3> QED
      BY <2>1, <2>3, <2>4, <3>1, FailMerges
  <2>5. CASE Turns(a, Writing(tool[a]))
    BY <1>0, <2>1, <2>2, <2>3, <2>5, PrepareMerges
  <2> QED
    BY <2>1, <2>4, <2>5
<1>6. CASE writeDedupNotes(a)
  <2>1. /\ head' = head
        /\ tool[a] \in Calls /\ tool[a].step = "write" /\ Turns(a, Wrote(tool[a]))
        /\ note' = [note EXCEPT ![Head(tool[a].writes).file] = Head(tool[a].writes).text]
    BY <1>0, <1>6, Writes
  <2>2. tool[a].writes # <<>> /\ Merging(tool[a], note, head)
    BY <2>1 DEF GtdTypes, HasFiles, GtdSane
  <2>3. Merging(Wrote(tool[a]), note', head) /\ Safe(note') /\ Unbroken(note', head)
    BY <1>0, <2>1, <2>2, WriteMerges DEF Merged
  <2> QED
    BY <1>0, <2>1, <2>3 DEF Merged
<1>7. CASE CommitBrainGit(a)
  <2>1. /\ note' = note /\ head' = note /\ tool[a] \in Calls /\ tool[a].step = "commit"
        /\ Committed(a) \/ Failed(a)
    BY <1>0, <1>7, Commits
  <2>2. Merging(tool[a], note, head)
    BY <2>1 DEF GtdSane
  <2>3. Merged(note', head')
    BY <1>a, <2>1 DEF Merged
  <2>4. tool[a].name = "periodic" => Rereads(tool[a], note, note)
    BY <2>2 DEF Merging, Keeps, Rereads
  <2> QED
    BY <2>1, <2>2, <2>3, <2>4, FailMerges, CommitMerges
<1> QED
  BY <1>1, <1>2, <1>3, <1>4, <1>5, <1>6, <1>7 DEF Mutate

LEMMA EditMerges ==
    ASSUME GtdTypes, EditNote, Merged(note, head)
    PROVE  Merged(note', head')
<1>1. TypeOK
  BY DEF GtdTypes
<1>2. PICK n \in Notes, s \in Statuses \cup {None} : note' = [note EXCEPT ![n].overlay = s]
  BY <1>1, EditParts
<1>3. head' = head /\ setting.owner /\ note' \in Texts
  BY <1>1, EditParts
<1>4. PICK x : x = [note[n] EXCEPT !.overlay = s]
  OBVIOUS
<1>5. Same(x, note[n]) /\ note \in Texts
  BY <1>1, <1>4, Overlaid DEF TypeOK, Same, Texts
<1>6. note' = [note EXCEPT ![n] = x]
  BY <1>2, <1>4
<1>7. AllFine(note', note)
  BY <1>5, <1>6, AllFineSelf, SameFine, FineSelf, FineWritten
<1> QED
  BY <1>3, <1>5, <1>7, FineSafe DEF Merged, Unbroken

LEMMA MergeInvKept ==
    ASSUME GtdSane, GtdTypes, MergeInv, [Next]_vars
    PROVE  MergeInv'
<1>0. setting' = setting
  BY GtdTypesKept
<1> SUFFICES ASSUME Reviewed
             PROVE  /\ Single' /\ Merged(note', head')
                    /\ \A a \in Agents : tool'[a] # None => Merging(tool'[a], note', head')
  BY <1>0 DEF MergeInv, Reviewed, AloneAtWork, KeepsUp, Merged, Unbroken, Safe, Merging, Sound,
              Keeps, Rereads, Rewrites, Fresh
<1>1. /\ Single /\ Merged(note, head)
      /\ \A a \in Agents : tool[a] # None => Merging(tool[a], note, head)
  BY DEF MergeInv, Merged
<1>2. Single'
  BY <1>1, SingleKept DEF Reviewed
<1>3. ASSUME NEW a \in Agents, Acts(a)
      PROVE  Merged(note', head') /\ (tool'[a] # None => Merging(tool'[a], note', head'))
  <2>1. CASE Sync(a)
    BY <1>1, <2>1, SyncMerges, SyncLeaves DEF Merged
  <2>2. CASE Mutate(a)
    BY <1>1, <2>2, MutateMerges
  <2>3. CASE Stop(a)
    BY <1>1, <2>3 DEF Stop, GtdTypes, TypeOK
  <2> QED
    BY <1>3, <2>1, <2>2, <2>3 DEF Acts
<1>4. CASE \E a \in Agents : Acts(a)
  <2>1. PICK a \in Agents : Acts(a)
    BY <1>4
  <2>2. \A b \in Agents \ {a} : tool'[b] = None
    BY <1>1, <2>1, AloneActs DEF Reviewed
  <2> QED
    BY <1>2, <1>3, <2>1, <2>2
<1>5. CASE EditNote
  <2>1. Busy = {} /\ tool' = tool
    BY <1>5 DEF EditNote, MayStart, Reviewed, AloneAtWork
  <2> QED
    BY <1>1, <1>2, <1>5, <2>1, EditMerges DEF Busy
<1>6. CASE ChangeUpstream \/ UNCHANGED vars
  <2>1. tool' = tool /\ note' = note /\ head' = head
    BY <1>6 DEF ChangeUpstream, vars
  <2> QED
    BY <1>1, <1>2, <2>1
<1> QED
  BY <1>4, <1>5, <1>6 DEF Next, Acts

LEMMA MergeInvInit == ASSUME Init PROVE MergeInv
<1>1. head = note /\ tool = [a \in Agents |-> None]
  BY DEF Init
<1>2. \A n \in Notes : note[n].into = None /\ note[n].separate = {}
  BY DEF Init
<1>3. Safe(note)
  BY <1>2, NoneApart DEF Safe
<1>4. Unbroken(note, head)
  BY <1>1, FineSelf DEF Unbroken
<1> QED
  BY <1>1, <1>3, <1>4 DEF MergeInv, Single

\* Notes that the owner keeps apart are never merged, and a merge loses no binding: with one
\* tool at a time, and unless the owner edits notes while a periodic sync can fail.
THEOREM MergesStaySafe == ASSUME GtdSane PROVE Spec => []MergesAreSafe
<1> DEFINE I == GtdTypes /\ MergeInv
<1>1. Init => I
  BY GtdTypesInit, MergeInvInit
<1>2. I /\ [Next]_vars => I'
  BY GtdTypesKept, MergeInvKept
<1>3. I => MergesAreSafe
  BY DEF MergeInv, MergesAreSafe, Safe
<1> HIDE DEF I
<1> QED
  BY <1>1, <1>2, <1>3, PTL DEF Spec

\* All variables have their types.
THEOREM GtdTyped == ASSUME GtdSane PROVE Spec => []TypeOK
<1>1. Init => GtdTypes
  BY GtdTypesInit
<1>2. GtdTypes /\ [Next]_vars => GtdTypes'
  BY GtdTypesKept
<1>3. GtdTypes => TypeOK
  BY DEF GtdTypes
<1> QED
  BY <1>1, <1>2, <1>3, PTL DEF Spec

---------------------------------------------------------------------------
(* What syncs do: nothing is bound to anything else than before.               *)

SameBindings(u, v) == \A n \in Notes : u[n].bindings = v[n].bindings

NoMerges == setting.tools \cap {"review", "bind"} = {}

\* What the call has read and will write is bound to what it is bound to now.
Bound(c, v) == /\ SameBindings(c.read, v)
               /\ \A i \in DOMAIN c.writes :
                     c.writes[i].text.bindings = v[c.writes[i].file].bindings

BoundInv == NoMerges => /\ SameBindings(head, note)
                        /\ \A a \in Agents : tool[a] # None => Bound(tool[a], note)

LEMMA WriteTyped ==
    ASSUME NEW c \in Calls, NEW i \in DOMAIN c.writes
    PROVE  c.writes[i] \in Files /\ c.writes[i].file \in Notes /\ c.writes[i].text \in Commitments
<1>1. c.writes[i] \in Files
  BY CallParts
<1> QED
  BY <1>1 DEF Files

LEMMA BoundStill ==
    ASSUME NEW c \in Calls, NEW v, NEW u, Bound(c, v), SameBindings(u, v)
    PROVE  Bound(c, u)
  BY WriteTyped DEF Bound, SameBindings

LEMMA BoundKeeps ==
    ASSUME NEW c, NEW d, NEW v, Bound(c, v), d.read = c.read, d.writes = c.writes
    PROVE  Bound(d, v)
  BY DEF Bound

LEMMA SkippedWrites ==
    ASSUME NEW c \in Calls, NEW p, NEW e
    PROVE  Skipped(c, p, e).read = c.read /\ Skipped(c, p, e).writes = c.writes
  BY DEF Calls, Skipped

LEMMA RecloseBound ==
    ASSUME NEW c \in Calls, NEW p \in Notes \X Objects, NEW v, Bound(c, v)
    PROVE  Bound(Reclosing(c, p), v)
<1>1. PICK d, f : d = Reclosing(c, p) /\ f = Restated(p[1], c.read[p[1]], "closed")
  OBVIOUS
<1>2. f \in Files /\ d.writes = <<f>> /\ d.read = c.read
  BY <1>1, ReclosingParts
<1>3. c.read[p[1]] \in Commitments /\ p[1] \in Notes
  BY CallParts
<1>4. f.file = p[1] /\ f.text.bindings = c.read[p[1]].bindings
  BY <1>1, <1>3, RestatedParts DEF Statuses
<1>5. DOMAIN d.writes = {1} /\ d.writes[1] = f
  BY <1>2, One
<1> QED
  BY <1>1, <1>2, <1>3, <1>4, <1>5 DEF Bound, SameBindings

LEMMA MatchBound ==
    ASSUME NEW c \in Calls, NEW p \in Notes \X Objects, NEW e \in BOOLEAN,
           NEW s \in Statuses \cup {None}, NEW ns \in SUBSET Notes, NEW order \in InOrder(ns),
           NEW v, Bound(c, v)
    PROVE  Bound(Matching(c, p, e, s, order), v)
<1>1. PICK d : d = Matching(c, p, e, s, order)
  OBVIOUS
<1>2. /\ d.read = c.read
      /\ \A i \in DOMAIN d.writes : \E n \in ns : d.writes[i] = Restated(n, c.read[n], s)
  BY <1>1, MatchingParts
<1>3. ASSUME NEW i \in DOMAIN d.writes
      PROVE  d.writes[i].text.bindings = v[d.writes[i].file].bindings
  <2>1. PICK n \in ns : d.writes[i] = Restated(n, c.read[n], s)
    BY <1>2
  <2>2. n \in Notes /\ c.read[n] \in Commitments
    BY CallParts
  <2>3. Restated(n, c.read[n], s).file = n
        /\ Restated(n, c.read[n], s).text.bindings = c.read[n].bindings
    BY <2>2, RestatedParts
  <2> QED
    BY <2>1, <2>2, <2>3 DEF Bound, SameBindings
<1> QED
  BY <1>1, <1>2, <1>3 DEF Bound

LEMMA WroteBound ==
    ASSUME NEW c \in Calls, c.writes # <<>>, NEW v \in Texts, Bound(c, v)
    PROVE  /\ Bound(Wrote(c), v)
           /\ SameBindings([v EXCEPT ![Head(c.writes).file] = Head(c.writes).text], v)
<1>1. PICK d, f, u : /\ d = Wrote(c) /\ f = Head(c.writes) /\ u = [v EXCEPT ![f.file] = f.text]
  OBVIOUS
<1>2. /\ f = c.writes[1] /\ d.read = c.read
      /\ \A i \in DOMAIN d.writes : d.writes[i] = c.writes[i + 1] /\ i + 1 \in DOMAIN c.writes
  BY <1>1, WroteParts
<1>3. 1 \in DOMAIN c.writes
  BY CallParts
<1>4. f.file \in Notes /\ f.text.bindings = v[f.file].bindings
  BY <1>2, <1>3, WriteTyped DEF Bound
<1>5. SameBindings(u, v)
  BY <1>1, <1>4 DEF SameBindings, Texts
<1>6. Bound(d, v)
  BY <1>2 DEF Bound
<1> QED
  BY <1>1, <1>5, <1>6

LEMMA BeginBound ==
    ASSUME NEW d, NEW name, NEW todo, CallOf(d, name, todo, <<>>)
    PROVE  Bound(d, note)
  BY DEF CallOf, Bound, SameBindings

LEMMA SetStatusBound ==
    ASSUME GtdSane, TypeOK, NEW a \in Agents, brainGTDSetStatus(a)
    PROVE  Bound(tool'[a], note)
<1>0. PICK n \in Notes, s \in Statuses \cup {None} :
          \E d : /\ Restated(n, note[n], s) \in Files
                 /\ Begun(a, d, "set_status", {}, <<Restated(n, note[n], s)>>)
  BY SetStatusStarts
<1>1. PICK d : /\ Restated(n, note[n], s) \in Files
               /\ Begun(a, d, "set_status", {}, <<Restated(n, note[n], s)>>)
  BY <1>0
<1>2. note[n] \in Commitments
  BY DEF TypeOK
<1>3. PICK f \in Files : f = Restated(n, note[n], s)
  BY <1>1
<1>4. f.file = n /\ f.text.bindings = note[n].bindings
  BY <1>2, <1>3, RestatedParts
<1>5. DOMAIN <<f>> = {1} /\ <<f>>[1] = f
  OBVIOUS
<1>6. d.writes = <<f>> /\ d.read = note /\ tool'[a] = d
  BY <1>1, <1>3 DEF Begun, CallOf, TypeOK, Turns
<1> QED
  BY <1>4, <1>5, <1>6 DEF Bound, SameBindings

LEMMA SyncBound ==
    ASSUME GtdSane, GtdTypes, NEW a \in Agents, Sync(a),
           tool[a] # None => Bound(tool[a], note)
    PROVE  tool'[a] # None => Bound(tool'[a], note)
<1>0. TypeOK /\ \A d : Turns(a, d) => tool'[a] = d
  BY DEF GtdTypes, TypeOK, Turns
<1>1. CASE brainGTDSyncPush(a)
  BY <1>0, <1>1, PushStarts, BeginBound DEF Begun
<1>2. CASE brainGTDSyncPeriodic(a)
  BY <1>0, <1>2, PeriodicStarts, BeginBound DEF Begun
<1>a. ASSUME NEW p, NEW e, tool[a] \in Calls, Turns(a, Skipped(tool[a], p, e))
      PROVE  Bound(tool'[a], note)
  <2>1. Bound(tool[a], note)
    BY <1>a DEF GtdSane
  <2> QED
    BY <1>0, <1>a, <2>1, SkippedWrites, BoundKeeps
<1>3. CASE readBindingStateFails(a)
  <2>1. PICK e, p : p \in First(a) /\ Turns(a, Skipped(tool[a], p, e))
    BY <1>0, <1>3, ReadFails
  <2> QED
    BY <1>0, <1>a, <2>1, FirstParts
<1>4. CASE pushClosedBinding(a)
  <2>1. PICK p, e : /\ p \in First(a)
                    /\ Turns(a, Skipped(tool[a], p, e)) \/ Turns(a, Closing(tool[a], p))
    BY <1>0, <1>4, Pushes
  <2>2. tool[a] \in Calls /\ p \in Notes \X Objects /\ Bound(tool[a], note)
    BY <1>0, <2>1, FirstParts DEF GtdSane
  <2>3. Bound(Closing(tool[a], p), note)
    BY <2>2, ClosingParts, BoundKeeps
  <2> QED
    BY <1>0, <1>a, <2>1, <2>2, <2>3
<1>5. CASE closeBinding(a)
  BY <1>0, <1>a, <1>5, Closes
<1>6. CASE periodicSyncBinding(a)
  <2>1. PICK p, e : /\ p \in First(a)
                    /\ Turns(a, Reclosing(tool[a], p)) \/ Turns(a, Skipped(tool[a], p, e))
    BY <1>0, <1>6, Recloses
  <2>2. tool[a] \in Calls /\ p \in Notes \X Objects /\ Bound(tool[a], note)
    BY <1>0, <2>1, FirstParts DEF GtdSane
  <2> QED
    BY <1>0, <1>a, <2>1, <2>2, RecloseBound
<1>7. CASE mailAction(a)
  <2>1. PICK d, todo : Begun(a, d, "mail", todo, <<>>)
    BY <1>0, <1>7, MailStarts
  <2> QED
    BY <1>0, <2>1, BeginBound DEF Begun
<1>8. CASE walkMailBindings(a)
  <2>1. PICK p \in First(a), error \in BOOLEAN, status \in Statuses \cup {None} :
          /\ changed(status, a) \in SUBSET Notes
          /\ \E order \in InOrder(changed(status, a)) :
               Turns(a, Matching(tool[a], p, error, status, order))
    BY <1>0, <1>8, Matches
  <2>2. PICK ns \in SUBSET Notes : ns = changed(status, a)
    BY <2>1
  <2>3. PICK order \in InOrder(ns) : Turns(a, Matching(tool[a], p, error, status, order))
    BY <2>1, <2>2
  <2>4. tool[a] \in Calls /\ p \in Notes \X Objects /\ Bound(tool[a], note)
    BY <1>0, FirstParts DEF GtdSane
  <2>5. Bound(Matching(tool[a], p, error, status, order), note)
    BY <2>4, MatchBound
  <2> QED
    BY <1>0, <2>3, <2>5
<1>9. CASE Return(a)
  BY <1>0, <1>9 DEF Return, Turns
<1> QED
  BY <1>1, <1>2, <1>3, <1>4, <1>5, <1>6, <1>7, <1>8, <1>9 DEF Sync

LEMMA FailedBound ==
    ASSUME GtdTypes, NEW a \in Agents, tool[a] \in Calls, Failed(a), Bound(tool[a], note)
    PROVE  tool'[a] # None => Bound(tool'[a], note)
<1>1. PICK d : /\ Turns(a, d)
               /\ d = IF tool[a].name = "periodic" THEN Skipped(tool[a], tool[a].at, TRUE) ELSE None
  BY FailedTurns
<1>2. tool'[a] = d
  BY <1>1 DEF Turns, GtdTypes, TypeOK
<1>3. PICK e : e = TRUE
  OBVIOUS
<1>4. Bound(Skipped(tool[a], tool[a].at, e), note)
  BY SkippedWrites, BoundKeeps
<1> QED
  BY <1>1, <1>2, <1>3, <1>4

LEMMA CommittedBound ==
    ASSUME GtdSane, GtdTypes, NEW a \in Agents, tool[a] \in Calls, Committed(a),
           Bound(tool[a], note)
    PROVE  tool'[a] # None => Bound(tool'[a], note)
<1>0. TypeOK /\ \A d : Turns(a, d) => tool'[a] = d
  BY DEF GtdTypes, TypeOK, Turns
<1>1. PICK c, e : c = tool[a] /\ c \in Calls /\ e = FALSE
  OBVIOUS
<1>2. Bound(Skipped(c, c.at, e), note)
  BY <1>1, SkippedWrites, BoundKeeps
<1>3. Bound([c EXCEPT !.step = "next"], note)
  <2>1. PICK d : d = [c EXCEPT !.step = "next"]
    OBVIOUS
  <2>2. d.read = c.read /\ d.writes = c.writes
    BY <1>1, <2>1, NextParts
  <2> QED
    BY <1>1, <2>1, <2>2, BoundKeeps
<1>4. Bound(Repushed(c), note)
  <2>1. PICK d : d = Repushed(c)
    OBVIOUS
  <2>2. d.read = note /\ d.writes = <<>>
    BY <1>0, <1>1, <2>1, RepushParts
  <2> QED
    BY <2>1, <2>2 DEF Bound, SameBindings
<1> QED
  BY <1>0, <1>1, <1>2, <1>3, <1>4, CommitTurns

LEMMA MutateBound ==
    ASSUME GtdSane, GtdTypes, NoMerges, NEW a \in Agents, Mutate(a), SameBindings(head, note),
           tool[a] # None => Bound(tool[a], note)
    PROVE  /\ SameBindings(note', note) /\ SameBindings(head', note)
           /\ tool'[a] # None => Bound(tool'[a], note)
<1>0. TypeOK /\ (\A d : Turns(a, d) => tool'[a] = d) /\ note \in Texts
  BY DEF GtdTypes, TypeOK, Turns, Texts
<1>a. SameBindings(note, note)
  BY DEF SameBindings
<1>1. CASE brainGTDSetStatus(a)
  BY <1>0, <1>1, <1>a, SetStatusStarts, SetStatusBound
<1>2. CASE brainGTDDedupReviewApply(a) \/ brainGTDBind(a)
  <2>1. \E name \in {"review", "bind"} : name \in setting.tools
    BY <1>2 DEF brainGTDDedupReviewApply, brainGTDBind, Start
  <2> QED
    BY <2>1 DEF NoMerges
<1>4. CASE ensureGitFails(a) \/ preflightCommitFails(a) \/ mutationFails(a)
  <2>1. /\ head' = head /\ (note' = note \/ note' = head) /\ tool[a] \in Calls /\ Failed(a)
    BY <1>0, <1>4, Undoes
  <2>2. Bound(tool[a], note)
    BY <2>1 DEF GtdSane
  <2>3. SameBindings(note', note) /\ SameBindings(head', note)
    BY <1>a, <2>1
  <2> QED
    BY <2>1, <2>2, <2>3, FailedBound
<1>5. CASE ensureGitReady(a)
  <2>1. /\ note' = note /\ head' = note /\ tool[a] \in Calls /\ tool[a].step = "prepare"
        /\ Turns(a, Writing(tool[a])) \/ Failed(a)
    BY <1>0, <1>5, Prepares
  <2>2. Bound(tool[a], note)
    BY <2>1 DEF GtdSane
  <2>3. Bound(Writing(tool[a]), note)
    BY <2>1, <2>2, WritingParts, BoundKeeps
  <2> QED
    BY <1>0, <1>a, <2>1, <2>2, <2>3, FailedBound
<1>6. CASE writeDedupNotes(a)
  <2>1. /\ head' = head
        /\ tool[a] \in Calls /\ tool[a].step = "write" /\ Turns(a, Wrote(tool[a]))
        /\ note' = [note EXCEPT ![Head(tool[a].writes).file] = Head(tool[a].writes).text]
    BY <1>0, <1>6, Writes
  <2>2. tool[a].writes # <<>> /\ Bound(tool[a], note)
    BY <2>1 DEF GtdTypes, HasFiles, GtdSane
  <2> QED
    BY <1>0, <2>1, <2>2, WroteBound
<1>7. CASE CommitBrainGit(a)
  <2>1. /\ note' = note /\ head' = note /\ tool[a] \in Calls /\ tool[a].step = "commit"
        /\ Committed(a) \/ Failed(a)
    BY <1>0, <1>7, Commits
  <2>2. Bound(tool[a], note)
    BY <2>1 DEF GtdSane
  <2> QED
    BY <1>a, <2>1, <2>2, FailedBound, CommittedBound
<1> QED
  BY <1>1, <1>2, <1>4, <1>5, <1>6, <1>7 DEF Mutate

LEMMA BoundInvInit == ASSUME Init PROVE BoundInv
  BY DEF Init, BoundInv, SameBindings

LEMMA BoundKept ==
    ASSUME GtdSane, GtdTypes, BoundInv, [Next]_vars
    PROVE  BoundInv' /\ (NoMerges => SameBindings(note', note))
<1>0. setting' = setting /\ GtdTypes'
  BY GtdTypesKept
<1> SUFFICES ASSUME NoMerges
             PROVE  /\ SameBindings(note', note) /\ SameBindings(head', note)
                    /\ \A b \in Agents : tool'[b] # None => Bound(tool'[b], note)
  <2>1. ASSUME SameBindings(note', note), NEW b \in Agents, tool'[b] # None, Bound(tool'[b], note)
        PROVE  Bound(tool'[b], note')
    BY <1>0, <2>1, BoundStill DEF GtdTypes, TypeOK
  <2>2. SameBindings(note', note) /\ SameBindings(head', note) => SameBindings(head', note')
    BY DEF SameBindings
  <2> QED
    BY <1>0, <2>1, <2>2 DEF BoundInv, NoMerges, Bound, SameBindings
<1>1. SameBindings(head, note) /\ \A b \in Agents : tool[b] # None => Bound(tool[b], note)
  BY DEF BoundInv
<1>2. SameBindings(note, note)
  BY DEF SameBindings
<1>3. ASSUME NEW a \in Agents, Acts(a)
      PROVE  /\ SameBindings(note', note) /\ SameBindings(head', note)
             /\ \A b \in Agents : tool'[b] # None => Bound(tool'[b], note)
  <2>1. /\ SameBindings(note', note) /\ SameBindings(head', note)
        /\ tool'[a] # None => Bound(tool'[a], note)
    <3>1. CASE Sync(a)
      BY <1>1, <1>2, <3>1, SyncLeaves, SyncBound
    <3>2. CASE Mutate(a)
      BY <1>1, <3>2, MutateBound
    <3>3. CASE Stop(a)
      BY <1>1, <1>2, <3>3 DEF Stop, GtdTypes, TypeOK
    <3> QED
      BY <1>3, <3>1, <3>2, <3>3 DEF Acts
  <2>2. \A b \in Agents \ {a} : tool'[b] = tool[b]
    BY <1>3, AgentSteps, SteppedTypes DEF Acts
  <2> QED
    BY <1>1, <2>1, <2>2
<1>4. CASE EditNote
  <2>1. PICK n \in Notes, s \in Statuses \cup {None} : note' = [note EXCEPT ![n].overlay = s]
    BY <1>4, EditParts DEF GtdTypes
  <2>2. UNCHANGED <<head, tool>> /\ note \in Texts
    BY <1>4 DEF EditNote, GtdTypes, TypeOK, Texts
  <2>3. PICK x : x = [note[n] EXCEPT !.overlay = s]
    OBVIOUS
  <2>4. note[n] \in Commitments /\ x.bindings = note[n].bindings
    BY <2>2, <2>3, Overlaid DEF Texts
  <2>5. note' = [note EXCEPT ![n] = x]
    BY <2>1, <2>3
  <2>6. SameBindings(note', note)
    BY <2>2, <2>4, <2>5 DEF SameBindings, Texts
  <2> QED
    BY <1>1, <2>2, <2>6
<1>5. CASE ChangeUpstream \/ UNCHANGED vars
  <2>1. tool' = tool /\ note' = note /\ head' = head
    BY <1>5 DEF ChangeUpstream, vars
  <2> QED
    BY <1>1, <1>2, <2>1
<1> QED
  BY <1>3, <1>4, <1>5 DEF Next, Acts


\* Pair p of a note and an object is bound; a push owes it, as the note is closed.
Tied(p, v) == p \in Notes \X Objects /\ p[2] \in v[p[1]].bindings
Owed(p, v) == Tied(p, v) /\ p[1] \in Closed(v)

\* The note in hand is rewritten, closed.
Rewriting(c) == \A i \in DOMAIN c.writes :
    /\ c.writes[i].file = c.at[1] /\ c.writes[i].text.overlay = "closed"
    /\ c.writes[i].text.bindings = c.read[c.at[1]].bindings

\* Why a sync does what it is about to do, with notes v and objects up.
PushReasons(c, v) == c.name = "push" =>
    /\ c.step \in {"next", "close"} /\ \A p \in c.todo : Owed(p, v)
    /\ c.step = "close" => Owed(c.at, v)
PeriodicReasons(c, v, up) == c.name = "periodic" =>
    /\ c.step # "close" /\ \A p \in c.todo : Tied(p, v)
    /\ c.step \in {"prepare", "write"} =>
         Tied(c.at, v) /\ up[c.at[2]] = "closed" /\ c.mine = {c.at[1]} /\ Rewriting(c)
Reasons(c, v, up) == /\ ~ AloneAtWork => c.name \in {"push", "periodic"}
                     /\ PushReasons(c, v) /\ PeriodicReasons(c, v, up)

ReasonsInv == SyncsOnly => \A a \in Agents : tool[a] # None => Reasons(tool[a], note, upstream)

\* What is closed stays so.
ClosedStay(up, upp) == \A o \in Objects : up[o] = "closed" => upp[o] = "closed"

LEMMA TiedStill ==
    ASSUME NEW p, NEW v, NEW u, SameBindings(u, v), Tied(p, v)
    PROVE  Tied(p, u)
<1>1. p[1] \in Notes
  BY DEF Tied
<1> QED
  BY <1>1 DEF Tied, SameBindings

LEMMA ReasonsStill ==
    ASSUME NEW c \in Calls, NEW v, NEW u, NEW up, NEW upp, Reasons(c, v, up), SameBindings(u, v),
           c.name = "push" => Closed(v) \subseteq Closed(u),
           c.name = "periodic" => ClosedStay(up, upp)
    PROVE  Reasons(c, u, upp)
<1>1. PushReasons(c, u)
  BY TiedStill DEF Reasons, PushReasons, Owed
<1>2. PeriodicReasons(c, u, upp)
  <2>1. CASE c.name = "periodic"
    <3>1. \A p \in c.todo : Tied(p, u)
      BY <2>1, TiedStill DEF Reasons, PeriodicReasons
    <3>2. ASSUME c.step \in {"prepare", "write"}
          PROVE  Tied(c.at, u) /\ upp[c.at[2]] = "closed"
      <4>1. Tied(c.at, v) /\ up[c.at[2]] = "closed"
        BY <2>1, <3>2 DEF Reasons, PeriodicReasons
      <4>2. c.at[2] \in Objects
        BY <4>1 DEF Tied
      <4> QED
        BY <2>1, <4>1, <4>2, TiedStill DEF ClosedStay
    <3> QED
      BY <2>1, <3>1, <3>2 DEF Reasons, PeriodicReasons
  <2> QED
    BY <2>1 DEF PeriodicReasons
<1> QED
  BY <1>1, <1>2 DEF Reasons

LEMMA SkipReasons ==
    ASSUME NEW c \in Calls, NEW p, NEW e, NEW v, NEW up, Reasons(c, v, up)
    PROVE  Reasons(Skipped(c, p, e), v, up)
<1>1. PICK d : d = Skipped(c, p, e)
  OBVIOUS
<1>2. d.step = "next" /\ d.name = c.name /\ d.todo \subseteq c.todo
  BY <1>1, SkippedKeeps
<1> QED
  BY <1>1, <1>2 DEF Reasons, PushReasons, PeriodicReasons

LEMMA CloseReasons ==
    ASSUME NEW c \in Calls, NEW p \in c.todo, NEW v, NEW up, Reasons(c, v, up),
           c.name \in {"push", "set_status"}
    PROVE  Reasons(Closing(c, p), v, up)
<1>1. PICK d : d = Closing(c, p)
  OBVIOUS
<1>2. d.step = "close" /\ d.name = c.name /\ d.todo = c.todo /\ d.at = p
  BY <1>1, CallParts, ClosingParts
<1> QED
  BY <1>1, <1>2 DEF Reasons, PushReasons, PeriodicReasons

LEMMA RecloseRewrites ==
    ASSUME NEW c \in Calls, NEW p \in Notes \X Objects
    PROVE  Rewriting(Reclosing(c, p))
<1>1. PICK d, f : d = Reclosing(c, p) /\ f = Restated(p[1], c.read[p[1]], "closed")
  OBVIOUS
<1>2. f \in Files /\ d.writes = <<f>> /\ d.read = c.read /\ d.at = p
  BY <1>1, ReclosingParts
<1>3. c.read[p[1]] \in Commitments /\ p[1] \in Notes
  BY CallParts
<1>4. f.file = p[1] /\ f.text.overlay = "closed" /\ f.text.bindings = c.read[p[1]].bindings
  BY <1>1, <1>3, RestatedParts DEF Statuses
<1>5. DOMAIN d.writes = {1} /\ d.writes[1] = f
  BY <1>2, One
<1> QED
  BY <1>1, <1>2, <1>4, <1>5 DEF Rewriting

LEMMA RecloseReasons ==
    ASSUME NEW c \in Calls, NEW p \in c.todo, NEW v, NEW up, Reasons(c, v, up),
           c.name = "periodic", up[p[2]] = "closed"
    PROVE  Reasons(Reclosing(c, p), v, up)
<1>1. PICK d : d = Reclosing(c, p)
  OBVIOUS
<1>2. /\ d.step = "prepare" /\ d.name = c.name /\ d.todo = c.todo /\ d.at = p /\ d.mine = {p[1]}
      /\ Rewriting(d)
  BY <1>1, CallParts, ReclosingParts, RecloseRewrites
<1>3. Tied(p, v)
  BY DEF Reasons, PeriodicReasons
<1> QED
  BY <1>1, <1>2, <1>3 DEF Reasons, PushReasons, PeriodicReasons

LEMMA OtherReasons ==
    ASSUME NEW d, NEW v, NEW up, AloneAtWork, d.name \notin {"push", "periodic"}
    PROVE  Reasons(d, v, up)
  BY DEF Reasons, PushReasons, PeriodicReasons

LEMMA WrittenRewrites ==
    ASSUME NEW c \in Calls, c.writes # <<>>, Rewriting(c)
    PROVE  /\ Rewriting(Wrote(c))
           /\ Head(c.writes).file = c.at[1] /\ Head(c.writes).text.overlay = "closed"
           /\ Head(c.writes).text.bindings = c.read[c.at[1]].bindings
<1>1. PICK d, f : d = Wrote(c) /\ f = Head(c.writes)
  OBVIOUS
<1>2. /\ f = c.writes[1] /\ d.read = c.read /\ d.at = c.at
      /\ \A i \in DOMAIN d.writes : d.writes[i] = c.writes[i + 1] /\ i + 1 \in DOMAIN c.writes
  BY <1>1, WroteParts
<1>3. 1 \in DOMAIN c.writes
  BY CallParts
<1>4. Rewriting(d)
  BY <1>2 DEF Rewriting
<1> QED
  BY <1>1, <1>2, <1>3, <1>4 DEF Rewriting


LEMMA SyncReasons ==
    ASSUME GtdSane, GtdTypes, SyncsOnly, NEW a \in Agents, Sync(a),
           tool[a] # None => Reasons(tool[a], note, upstream)
    PROVE  tool'[a] # None => Reasons(tool'[a], note, upstream')
<1>0. TypeOK /\ (\A d : Turns(a, d) => tool'[a] = d) /\ setting.notes \subseteq Notes
  BY SettingTyped DEF GtdTypes, TypeOK, Turns
<1>a. ASSUME NEW p, NEW e, tool[a] \in Calls, Turns(a, Skipped(tool[a], p, e)), upstream' = upstream
      PROVE  Reasons(tool'[a], note, upstream')
  <2>1. Reasons(tool[a], note, upstream)
    BY <1>a DEF GtdSane
  <2> QED
    BY <1>0, <1>a, <2>1, SkipReasons
<1>1. CASE brainGTDSyncPush(a)
  <2>1. PICK d : Begun(a, d, "push", Bindings(Closed(note), note), <<>>)
    BY <1>0, <1>1, PushStarts
  <2>2. /\ d.name = "push" /\ d.step = "next" /\ d.todo = Bindings(Closed(note), note)
        /\ tool'[a] = d
    BY <1>0, <2>1 DEF Begun, CallOf
  <2>3. \A p \in Bindings(Closed(note), note) : Owed(p, note)
    BY <1>0, BindingsTyped, ClosedTyped DEF Owed, Tied
  <2> QED
    BY <2>2, <2>3 DEF Reasons, PushReasons, PeriodicReasons
<1>2. CASE brainGTDSyncPeriodic(a)
  <2>1. PICK d : Begun(a, d, "periodic", Bindings(setting.notes, note), <<>>)
    BY <1>0, <1>2, PeriodicStarts
  <2>2. /\ d.name = "periodic" /\ d.step = "next" /\ d.todo = Bindings(setting.notes, note)
        /\ tool'[a] = d
    BY <1>0, <2>1 DEF Begun, CallOf
  <2>3. \A p \in Bindings(setting.notes, note) : Tied(p, note)
    BY <1>0, BindingsTyped DEF Tied
  <2> QED
    BY <2>2, <2>3 DEF Reasons, PushReasons, PeriodicReasons
<1>3. CASE readBindingStateFails(a)
  <2>1. PICK e, p : p \in First(a) /\ Turns(a, Skipped(tool[a], p, e)) /\ upstream' = upstream
    BY <1>0, <1>3, ReadFails
  <2> QED
    BY <1>0, <1>a, <2>1, FirstParts
<1>4. CASE pushClosedBinding(a)
  <2>1. PICK p, e : /\ p \in First(a) /\ upstream' = upstream
                    /\ tool[a].name \in {"push", "set_status"}
                    /\ Turns(a, Skipped(tool[a], p, e)) \/ Turns(a, Closing(tool[a], p))
    BY <1>0, <1>4, Pushes
  <2>2. tool[a] \in Calls /\ p \in tool[a].todo /\ Reasons(tool[a], note, upstream)
    BY <1>0, <2>1, FirstParts DEF GtdSane
  <2>3. Reasons(Closing(tool[a], p), note, upstream)
    BY <2>1, <2>2, CloseReasons
  <2> QED
    BY <1>0, <1>a, <2>1, <2>2, <2>3
<1>5. CASE closeBinding(a)
  <2>1. PICK done, error \in BOOLEAN :
          /\ tool[a] \in Calls /\ tool[a].step = "close"
          /\ Turns(a, Skipped(tool[a], tool[a].at, error))
    BY <1>0, <1>5, Closes
  <2>2. Reasons(tool[a], note, upstream) /\ tool[a].name # "periodic"
    BY <2>1 DEF GtdSane, Reasons, PeriodicReasons
  <2>3. SameBindings(note, note)
    BY DEF SameBindings
  <2>4. Reasons(tool[a], note, upstream')
    BY <2>1, <2>2, <2>3, ReasonsStill
  <2> QED
    BY <1>0, <2>1, <2>4, SkipReasons
<1>6. CASE periodicSyncBinding(a)
  <2>1. PICK p, e : /\ p \in First(a) /\ upstream' = upstream /\ tool[a].name = "periodic"
                    /\ \/ upstream[p[2]] = "closed" /\ Turns(a, Reclosing(tool[a], p))
                       \/ Turns(a, Skipped(tool[a], p, e))
    BY <1>0, <1>6, Recloses
  <2>2. tool[a] \in Calls /\ p \in tool[a].todo /\ Reasons(tool[a], note, upstream)
    BY <1>0, <2>1, FirstParts DEF GtdSane
  <2> QED
    BY <1>0, <1>a, <2>1, <2>2, RecloseReasons
<1>7. CASE mailAction(a)
  <2>1. PICK d, todo : Begun(a, d, "mail", todo, <<>>)
    BY <1>0, <1>7, MailStarts
  <2>2. d.name = "mail" /\ "mail" \in setting.tools /\ tool'[a] = d
    BY <1>0, <2>1 DEF Begun, CallOf
  <2>3. AloneAtWork
    BY <2>2 DEF SyncsOnly
  <2> QED
    BY <2>2, <2>3, OtherReasons
<1>8. CASE walkMailBindings(a)
  <2>1. PICK p \in First(a), error \in BOOLEAN, status \in Statuses \cup {None} :
          /\ changed(status, a) \in SUBSET Notes /\ tool[a].name = "mail"
          /\ \E order \in InOrder(changed(status, a)) :
               Turns(a, Matching(tool[a], p, error, status, order))
    BY <1>0, <1>8, Matches
  <2>2. PICK ns \in SUBSET Notes : ns = changed(status, a)
    BY <2>1
  <2>3. PICK order \in InOrder(ns) : Turns(a, Matching(tool[a], p, error, status, order))
    BY <2>1, <2>2
  <2>4. tool[a] \in Calls /\ p \in Notes \X Objects /\ Reasons(tool[a], note, upstream)
    BY <1>0, FirstParts DEF GtdSane
  <2>5. PICK d : d = Matching(tool[a], p, error, status, order)
    OBVIOUS
  <2>6. tool'[a] = d
    BY <1>0, <2>3, <2>5
  <2>a. PICK c, q : /\ c = tool[a] /\ c \in Calls /\ q = p /\ q \in Notes \X Objects
                   /\ d = Matching(c, q, error, status, order)
    BY <2>4, <2>5
  <2>b. d.name = c.name
    BY <2>a, MatchingParts
  <2>7. AloneAtWork
    BY <2>1, <2>4 DEF Reasons
  <2> QED
    BY <2>1, <2>6, <2>a, <2>b, <2>7, OtherReasons
<1>9. CASE Return(a)
  BY <1>0, <1>9 DEF Return, Turns
<1> QED
  BY <1>1, <1>2, <1>3, <1>4, <1>5, <1>6, <1>7, <1>8, <1>9 DEF Sync

LEMMA FailedReasons ==
    ASSUME GtdTypes, NEW a \in Agents, tool[a] \in Calls, Failed(a),
           Reasons(tool[a], note, upstream), SameBindings(note', note)
    PROVE  tool'[a] # None => Reasons(tool'[a], note', upstream)
<1>1. PICK d, e : /\ Turns(a, d)
                  /\ d = IF tool[a].name = "periodic" THEN Skipped(tool[a], tool[a].at, e) ELSE None
  BY FailedTurns
<1>2. tool'[a] = d
  BY <1>1 DEF Turns, GtdTypes, TypeOK
<1>3. CASE tool[a].name = "periodic"
  <2>1. ClosedStay(upstream, upstream)
    BY DEF ClosedStay
  <2>2. Reasons(tool[a], note', upstream)
    BY <1>3, <2>1, ReasonsStill
  <2> QED
    BY <1>1, <1>2, <1>3, <2>2, SkipReasons
<1> QED
  BY <1>1, <1>2, <1>3

LEMMA CommittedReasons ==
    ASSUME GtdSane, GtdTypes, NEW a \in Agents, tool[a] \in Calls, Committed(a),
           Reasons(tool[a], note, upstream)
    PROVE  tool'[a] # None => Reasons(tool'[a], note, upstream)
<1>0. TypeOK /\ \A d : Turns(a, d) => tool'[a] = d
  BY DEF GtdTypes, TypeOK, Turns
<1>1. PICK c, e : c = tool[a] /\ c \in Calls /\ e = FALSE
  OBVIOUS
<1>2. Reasons(Skipped(c, c.at, e), note, upstream)
  BY <1>1, SkipReasons
<1>3. ASSUME c.name \in {"mail", "set_status"}, tool'[a].name = c.name
      PROVE  Reasons(tool'[a], note, upstream)
  <2>1. AloneAtWork
    BY <1>1, <1>3 DEF Reasons
  <2> QED
    BY <1>3, <2>1, OtherReasons
<1>4. [c EXCEPT !.step = "next"].name = c.name
  BY <1>1, NextParts
<1>5. Repushed(c).name = "set_status"
  BY <1>0, <1>1, RepushParts
<1> QED
  BY <1>0, <1>1, <1>2, <1>3, <1>4, <1>5, CommitTurns


LEMMA WrittenReasons ==
    ASSUME NEW c \in Calls, NEW v, NEW up, Reasons(c, v, up), c.step = "write", c.writes # <<>>
    PROVE  Reasons(Wrote(c), v, up)
<1>1. PICK d : d = Wrote(c)
  OBVIOUS
<1>2. /\ d.name = c.name /\ d.todo = c.todo /\ d.at = c.at /\ d.mine = c.mine
      /\ d.step \in {"write", "commit"}
  BY <1>1, WroteParts
<1>3. PushReasons(d, v)
  BY <1>2 DEF Reasons, PushReasons
<1>4. PeriodicReasons(d, v, up)
  BY <1>1, <1>2, WrittenRewrites DEF Reasons, PeriodicReasons
<1> QED
  BY <1>1, <1>2, <1>3, <1>4 DEF Reasons

LEMMA PreparedReasons ==
    ASSUME NEW c \in Calls, NEW v, NEW up, Reasons(c, v, up), c.step = "prepare"
    PROVE  Reasons(Writing(c), v, up)
<1>1. PICK d : d = Writing(c)
  OBVIOUS
<1>2. /\ d.name = c.name /\ d.todo = c.todo /\ d.at = c.at /\ d.mine = c.mine
      /\ d.step = "write" /\ d.writes = c.writes /\ d.read = c.read
  BY <1>1, WritingParts
<1>3. PushReasons(d, v)
  BY <1>2 DEF Reasons, PushReasons
<1>4. Rewriting(c) => Rewriting(d)
  BY <1>2 DEF Rewriting
<1>5. PeriodicReasons(d, v, up)
  BY <1>2, <1>4 DEF Reasons, PeriodicReasons
<1> QED
  BY <1>1, <1>2, <1>3, <1>5 DEF Reasons

LEMMA MutateReasons ==
    ASSUME GtdSane, GtdTypes, SyncsOnly, NEW a \in Agents, Mutate(a),
           SameBindings(note', note), tool[a] # None => Reasons(tool[a], note, upstream)
    PROVE  /\ tool'[a] # None => Reasons(tool'[a], note', upstream)
           /\ upstream' = upstream
<1>0. TypeOK /\ (\A d : Turns(a, d) => tool'[a] = d)
  BY DEF GtdTypes, TypeOK, Turns
<1>1. CASE brainGTDSetStatus(a)
  <2>1. PICK d, todo, ws : Begun(a, d, "set_status", todo, ws)
    BY <1>0, <1>1, SetStatusStarts
  <2>2. d.name = "set_status" /\ "set_status" \in setting.tools /\ tool'[a] = d
    BY <1>0, <2>1 DEF Begun, CallOf
  <2>3. AloneAtWork
    BY <2>2 DEF SyncsOnly
  <2>4. upstream' = upstream
    BY <1>0, <1>1, SetStatusStarts
  <2> QED
    BY <2>2, <2>3, <2>4, OtherReasons
<1>2. CASE brainGTDDedupReviewApply(a) \/ brainGTDBind(a)
  <2>1. \E name \in {"review", "bind"} : name \in setting.tools
    BY <1>2 DEF brainGTDDedupReviewApply, brainGTDBind, Start
  <2> QED
    BY <2>1 DEF SyncsOnly
<1>4. CASE ensureGitFails(a) \/ preflightCommitFails(a) \/ mutationFails(a)
  <2>1. tool[a] \in Calls /\ Failed(a) /\ upstream' = upstream
    BY <1>0, <1>4, Undoes
  <2>2. Reasons(tool[a], note, upstream)
    BY <2>1 DEF GtdSane
  <2> QED
    BY <2>1, <2>2, FailedReasons
<1>5. CASE ensureGitReady(a)
  <2>1. /\ note' = note /\ upstream' = upstream /\ tool[a] \in Calls /\ tool[a].step = "prepare"
        /\ Turns(a, Writing(tool[a])) \/ Failed(a)
    BY <1>0, <1>5, Prepares
  <2>2. Reasons(tool[a], note, upstream)
    BY <2>1 DEF GtdSane
  <2> QED
    BY <1>0, <2>1, <2>2, PreparedReasons, FailedReasons
<1>6. CASE writeDedupNotes(a)
  <2>1. /\ upstream' = upstream
        /\ tool[a] \in Calls /\ tool[a].step = "write" /\ Turns(a, Wrote(tool[a]))
    BY <1>0, <1>6, Writes
  <2>2. tool[a].writes # <<>> /\ Reasons(tool[a], note, upstream)
    BY <2>1 DEF GtdTypes, HasFiles, GtdSane
  <2>3. PICK d : d = Wrote(tool[a])
    OBVIOUS
  <2>4. d \in Calls /\ d.name = tool[a].name /\ d.step \in {"write", "commit"}
    BY <2>1, <2>2, <2>3, WroteParts
  <2>5. Reasons(d, note, upstream) /\ tool'[a] = d
    BY <1>0, <2>1, <2>2, <2>3, WrittenReasons
  <2>6. d.name # "push"
    BY <2>1, <2>2, <2>4 DEF Reasons, PushReasons
  <2>7. ClosedStay(upstream, upstream)
    BY DEF ClosedStay
  <2>8. Reasons(d, note', upstream)
    BY <2>4, <2>5, <2>6, <2>7, ReasonsStill
  <2> QED
    BY <2>1, <2>5, <2>8
<1>7. CASE CommitBrainGit(a)
  <2>1. /\ note' = note /\ upstream' = upstream /\ tool[a] \in Calls
        /\ Committed(a) \/ Failed(a)
    BY <1>0, <1>7, Commits
  <2>2. Reasons(tool[a], note, upstream)
    BY <2>1 DEF GtdSane
  <2> QED
    BY <2>1, <2>2, FailedReasons, CommittedReasons
<1> QED
  BY <1>1, <1>2, <1>4, <1>5, <1>6, <1>7 DEF Mutate

\* Objects are closed by syncs, and by mail tools.
LEMMA UpstreamChanges ==
    ASSUME NEW a \in Agents, Acts(a)
    PROVE  upstream' = upstream \/ closeBinding(a) \/ mailAction(a)
<1>1. CASE Sync(a)
  BY <1>1 DEF Sync, brainGTDSyncPush, brainGTDSyncPeriodic, Start, readBindingStateFails,
        pushClosedBinding, periodicSyncBinding, walkMailBindings, Return
<1>2. CASE Mutate(a)
  BY <1>2 DEF Mutate, brainGTDSetStatus, brainGTDDedupReviewApply, brainGTDBind, Start,
        ensureGitFails, ensureGitReady, preflightCommitFails, writeDedupNotes, mutationFails,
        CommitBrainGit
<1>3. CASE Stop(a)
  BY <1>3 DEF Stop
<1> QED
  BY <1>1, <1>2, <1>3 DEF Acts

\* With nothing but pushes and periodic syncs, what is closed stays closed.
LEMMA ClosesOnly ==
    ASSUME GtdSane, GtdTypes, SyncsOnly, ~ AloneAtWork, NEW a \in Agents, Acts(a),
           tool[a] # None => Reasons(tool[a], note, upstream)
    PROVE  Closed(note) \subseteq Closed(note') /\ ClosedStay(upstream, upstream')
<1>0. /\ TypeOK /\ note \in Texts /\ upstream \in [Objects -> {"open", "closed"}]
      /\ ~ setting.fails /\ setting.tools \subseteq {"push", "periodic"}
  BY DEF GtdTypes, TypeOK, Texts, SyncsOnly, Quiet
<1>1. Closed(note) \subseteq Closed(note')
  <2>1. CASE writeDedupNotes(a)
    <3>1. PICK f : /\ tool[a] \in Calls /\ tool[a].step = "write" /\ f = Head(tool[a].writes)
                   /\ note' = [note EXCEPT ![f.file] = f.text]
      BY <1>0, <2>1, Writes
    <3>2. tool[a].writes # <<>> /\ Reasons(tool[a], note, upstream)
      BY <3>1 DEF GtdTypes, HasFiles, GtdSane
    <3>3. tool[a].name = "periodic"
      BY <3>1, <3>2 DEF Reasons, PushReasons
    <3>4. f.text.overlay = "closed"
      BY <3>1, <3>2, <3>3, WrittenRewrites DEF Reasons, PeriodicReasons
    <3> QED
      BY <1>0, <3>1, <3>4, SettingTyped DEF Closed, commitmentClosed, Statuses, Texts
  <2>2. ~ mutationFails(a) /\ ~ preflightCommitFails(a)
    BY <1>0 DEF mutationFails, preflightCommitFails
  <2> QED
    BY <2>1, <2>2, NoteChanges
<1>2. ClosedStay(upstream, upstream')
  <2>1. CASE closeBinding(a)
    BY <1>0, <2>1, Closes DEF ClosedStay
  <2>2. ~ mailAction(a)
    BY <1>0 DEF mailAction
  <2>3. CASE upstream' = upstream
    BY <2>3 DEF ClosedStay
  <2> QED
    BY <2>1, <2>2, <2>3, UpstreamChanges
<1> QED
  BY <1>1, <1>2


LEMMA ReasonsKept ==
    ASSUME GtdSane, GtdTypes, OwnFiles, BoundInv, ReasonsInv, [Next]_vars
    PROVE  ReasonsInv'
<1>0. setting' = setting /\ GtdTypes' /\ GtdTypes /\ TypeOK
  BY GtdTypesKept DEF GtdTypes
<1> SUFFICES ASSUME SyncsOnly
             PROVE  \A b \in Agents : tool'[b] # None => Reasons(tool'[b], note', upstream')
  BY <1>0 DEF ReasonsInv, SyncsOnly, AloneAtWork, Quiet, Reasons, PushReasons, PeriodicReasons,
              Owed, Tied, Closed, Rewriting
<1>1. /\ \A b \in Agents : tool[b] # None => tool[b] \in Calls /\ Reasons(tool[b], note, upstream)
      /\ SameBindings(note', note)
  BY BusyTyped, BoundKept DEF ReasonsInv, GtdTypes, SyncsOnly, NoMerges
<1>2. ASSUME NEW a \in Agents, Acts(a), NEW b \in Agents, tool'[b] # None
      PROVE  Reasons(tool'[b], note', upstream')
  <2>1. CASE b = a
    <3>1. CASE Sync(a)
      BY <1>1, <1>2, <2>1, <3>1, SyncReasons, SyncLeaves
    <3>2. CASE Mutate(a)
      BY <1>1, <1>2, <2>1, <3>2, MutateReasons
    <3>3. CASE Stop(a)
      BY <1>2, <2>1, <3>3 DEF Stop, GtdTypes, TypeOK
    <3> QED
      BY <1>2, <3>1, <3>2, <3>3 DEF Acts
  <2>2. CASE b # a
    <3>1. ~ AloneAtWork
      BY <1>2, <2>2, AloneActs DEF OwnFiles
    <3>2. tool'[b] = tool[b]
      BY <1>2, <2>2, AgentSteps, SteppedTypes DEF Acts
    <3>3. tool[b] \in Calls /\ Reasons(tool[b], note, upstream)
      BY <1>1, <1>2, <3>2
    <3>4. Closed(note) \subseteq Closed(note') /\ ClosedStay(upstream, upstream')
      BY <1>1, <1>2, <3>1, ClosesOnly
    <3> QED
      BY <1>1, <3>2, <3>3, <3>4, ReasonsStill
  <2> QED
    BY <2>1, <2>2
<1>3. CASE EditNote \/ ChangeUpstream
  <2>1. tool' = tool /\ MayStart /\ ~ Quiet
    BY <1>3 DEF EditNote, ChangeUpstream, Quiet
  <2>2. Busy = {}
    BY <2>1 DEF SyncsOnly, AloneAtWork, MayStart
  <2> QED
    BY <2>1, <2>2 DEF Busy
<1>4. CASE UNCHANGED vars
  BY <1>1, <1>4 DEF vars
<1> QED
  BY <1>2, <1>3, <1>4 DEF Next, Acts

\* The objects of notes ns are closed as the notes are, or are left to the call.
Leaves(c, ns, v, up) == \A n \in ns \cap Closed(v) : \A o \in v[n].bindings :
    <<n, o>> \in c.todo \/ up[o] = "closed"

PushSettles(c, v, up) ==
    /\ c.step = "close" => c.name \in {"push", "set_status"} /\ c.at \in Notes \X Objects
    /\ c.name = "push" =>
         c.step \in {"next", "close"} /\ (~ c.error => Leaves(c, setting.notes, v, up))
    /\ c.name = "set_status" /\ c.step \in {"next", "close"} /\ ~ c.error =>
         Leaves(c, c.mine, v, up)

\* The notes are as they were read, but for those that are closed since.
AsRead(c, v) == \A n \in Notes :
    /\ v[n].bindings = c.read[n].bindings
    /\ v[n].overlay \notin Statuses => c.read[n].overlay \notin Statuses
Follows(c, v, up) == \A n \in setting.notes \ Closed(v) : \A o \in v[n].bindings :
    <<n, o>> \in c.todo \/ up[o] # "closed"
PeriodicSettles(c, v, up) == c.name = "periodic" /\ ~ c.error =>
    /\ AsRead(c, v) /\ Follows(c, v, up)
    /\ c.step \in {"prepare", "write", "commit"} => c.at \in Notes \X Objects
    /\ c.step \in {"prepare", "write"} => Rewriting(c)
    /\ c.step = "commit" => v[c.at[1]].overlay \in Statuses

\* Note x is as open or closed as object o is.
Agrees(x, up, o) == x.overlay \in Statuses <=> up[o] = "closed"
MailReads(c, v) == /\ c.at = None /\ c.step = "next" /\ c.read = v
                   /\ \E o \in Objects : c.todo = {p \in Bindings(setting.notes, v) : p[2] = o}
MailWrites(c, v, up) ==
    /\ c.step \in {"prepare", "write"} => \A i \in DOMAIN c.writes :
         /\ Agrees(c.writes[i].text, up, c.at[2])
         /\ c.writes[i].text.bindings = v[c.writes[i].file].bindings
    /\ \A n \in setting.notes : c.at[2] \in v[n].bindings =>
         \/ Agrees(v[n], up, c.at[2])
         \/ c.step \in {"prepare", "write"} /\ \E i \in DOMAIN c.writes : c.writes[i].file = n
MailSettles(c, v, up) == c.name = "mail" =>
    \/ MailReads(c, v)
    \/ c.at \in Notes \X Objects /\ c.todo = {} /\ (~ c.error => MailWrites(c, v, up))

\* What a call without errors has reached so far.
Settling(c, v, up) == PushSettles(c, v, up) /\ PeriodicSettles(c, v, up) /\ MailSettles(c, v, up)

SettlingInv == AloneAtWork => \A a \in Agents : tool[a] # None => Settling(tool[a], note, upstream)

\* A call with an error need not settle anything.
LEMMA ErrorSettles ==
    ASSUME NEW d \in Calls, d.error, d.step = "next", d.name # "mail", NEW v, NEW up
    PROVE  Settling(d, v, up)
  BY DEF Settling, PushSettles, PeriodicSettles, MailSettles

LEMMA PushSkips ==
    ASSUME NEW c \in Calls, NEW p \in Notes \X Objects, NEW e \in BOOLEAN, ~ e,
           NEW v, NEW up, NEW upp,
           c.name \in {"push", "set_status"}, c.step \in {"next", "close"}, Settling(c, v, up),
           \A o : up[o] = "closed" => upp[o] = "closed", upp[p[2]] = "closed"
    PROVE  Settling(Skipped(c, p, e), v, upp)
<1>1. PICK d : d = Skipped(c, p, e)
  OBVIOUS
<1>2. /\ d.step = "next" /\ d.name = c.name /\ d.todo = c.todo \ {p} /\ d.mine = c.mine
      /\ d.error = (c.error \/ e)
  BY <1>1, SkippedParts
<1>3. d.error <=> c.error
  BY <1>2, CallParts
<1>4. ASSUME NEW ns, Leaves(c, ns, v, up)
      PROVE  Leaves(d, ns, v, upp)
  <2>1. SUFFICES ASSUME NEW n \in ns \cap Closed(v), NEW o \in v[n].bindings, upp[o] # "closed"
                 PROVE  <<n, o>> \in d.todo
    BY DEF Leaves
  <2>2. <<n, o>> \in c.todo
    BY <1>4, <2>1 DEF Leaves
  <2>3. <<n, o>> # p
    BY <2>1
  <2> QED
    BY <1>2, <2>2, <2>3
<1>5. PushSettles(d, v, upp)
  BY <1>2, <1>3, <1>4 DEF Settling, PushSettles
<1> QED
  BY <1>1, <1>2, <1>5 DEF Settling, PeriodicSettles, MailSettles

LEMMA PushCloses ==
    ASSUME NEW c \in Calls, NEW p \in Notes \X Objects, NEW v, NEW up,
           c.name \in {"push", "set_status"}, c.step = "next", Settling(c, v, up)
    PROVE  Settling(Closing(c, p), v, up)
<1>1. PICK d : d = Closing(c, p)
  OBVIOUS
<1>2. /\ d.step = "close" /\ d.name = c.name /\ d.todo = c.todo /\ d.mine = c.mine
      /\ d.error = c.error /\ d.at = p
  BY <1>1, ClosingParts
<1>3. PushSettles(d, v, up)
  BY <1>2 DEF Settling, PushSettles, Leaves
<1> QED
  BY <1>1, <1>2, <1>3 DEF Settling, PeriodicSettles, MailSettles

LEMMA PeriodicSkips ==
    ASSUME NEW c \in Calls, NEW p \in Notes \X Objects, NEW e \in BOOLEAN, ~ e, NEW v, NEW up,
           c.name = "periodic", c.step = "next", Settling(c, v, up),
           ~ (up[p[2]] = "closed" /\ c.read[p[1]].overlay \notin Statuses),
           setting.notes \subseteq Notes
    PROVE  Settling(Skipped(c, p, e), v, up)
<1>1. PICK d : d = Skipped(c, p, e)
  OBVIOUS
<1>2. /\ d.step = "next" /\ d.name = c.name /\ d.todo = c.todo \ {p} /\ d.mine = c.mine
      /\ d.error = (c.error \/ e) /\ d.read = c.read
  BY <1>1, SkippedParts
<1>3. d.error <=> c.error
  BY <1>2, CallParts
<1>4. ASSUME AsRead(c, v), Follows(c, v, up)
      PROVE  AsRead(d, v) /\ Follows(d, v, up)
  <2>1. AsRead(d, v)
    BY <1>2, <1>4 DEF AsRead
  <2>2. ASSUME NEW n \in setting.notes \ Closed(v), NEW o \in v[n].bindings, up[o] = "closed"
        PROVE  <<n, o>> \in d.todo
    <3>1. <<n, o>> \in c.todo
      BY <1>4, <2>2 DEF Follows
    <3>2. v[n].overlay \notin Statuses
      BY DEF Closed, commitmentClosed
    <3>3. c.read[n].overlay \notin Statuses
      BY <1>4, <3>2 DEF AsRead
    <3>4. <<n, o>> # p
      BY <2>2, <3>3
    <3> QED
      BY <1>2, <3>1, <3>4
  <2> QED
    BY <2>1, <2>2 DEF Follows
<1>5. PeriodicSettles(d, v, up)
  BY <1>2, <1>3, <1>4 DEF Settling, PeriodicSettles
<1> QED
  BY <1>1, <1>2, <1>5 DEF Settling, PushSettles, MailSettles

LEMMA PeriodicRecloses ==
    ASSUME NEW c \in Calls, NEW p \in Notes \X Objects, NEW v, NEW up,
           c.name = "periodic", Settling(c, v, up)
    PROVE  Settling(Reclosing(c, p), v, up)
<1>1. PICK d : d = Reclosing(c, p)
  OBVIOUS
<1>2. /\ d.step = "prepare" /\ d.name = c.name /\ d.todo = c.todo /\ d.at = p
      /\ d.error = c.error /\ d.read = c.read /\ Rewriting(d)
  BY <1>1, ReclosingParts, RecloseRewrites
<1>3. PeriodicSettles(d, v, up)
  BY <1>2 DEF Settling, PeriodicSettles, AsRead, Follows
<1> QED
  BY <1>1, <1>2, <1>3 DEF Settling, PushSettles, MailSettles

LEMMA PeriodicWrites ==
    ASSUME NEW c \in Calls, NEW v \in Texts, NEW up, c.name = "periodic", c.step = "write",
           c.writes # <<>>, Settling(c, v, up)
    PROVE  Settling(Wrote(c), [v EXCEPT ![Head(c.writes).file] = Head(c.writes).text], up)
<1>1. PICK d, f, u : d = Wrote(c) /\ f = Head(c.writes) /\ u = [v EXCEPT ![f.file] = f.text]
  OBVIOUS
<1>2. /\ d.step \in {"write", "commit"} /\ d.name = c.name /\ d.todo = c.todo /\ d.at = c.at
      /\ d.error = c.error /\ d.read = c.read
  BY <1>1, WroteParts
<1>3. ASSUME ~ c.error
      PROVE  /\ AsRead(d, u) /\ Follows(d, u, up) /\ Rewriting(d)
             /\ d.at \in Notes \X Objects /\ u[d.at[1]].overlay \in Statuses
  <2>1. /\ AsRead(c, v) /\ Follows(c, v, up) /\ c.at \in Notes \X Objects /\ Rewriting(c)
    BY <1>3 DEF Settling, PeriodicSettles
  <2>2. PICK m : m = c.at[1] /\ m \in Notes
    BY <2>1
  <2>3. /\ Rewriting(d) /\ f.file = m /\ f.text.overlay = "closed"
        /\ f.text.bindings = c.read[m].bindings
    BY <1>1, <2>1, <2>2, WrittenRewrites
  <2>4. /\ \A n \in Notes \ {m} : u[n] = v[n]
        /\ u[m].overlay \in Statuses /\ u[m].bindings = c.read[m].bindings
        /\ u[m].bindings = v[m].bindings
    BY <1>1, <2>1, <2>2, <2>3 DEF Texts, Statuses, AsRead
  <2>5. AsRead(d, u)
    BY <1>2, <2>1, <2>4 DEF AsRead
  <2>6. ASSUME NEW n \in setting.notes \ Closed(u), NEW o \in u[n].bindings
        PROVE  <<n, o>> \in d.todo \/ up[o] # "closed"
    <3>1. n # m
      BY <2>4 DEF Closed, commitmentClosed
    <3>2. u[n] = v[n]
      BY <1>1, <2>3, <3>1 DEF Texts
    <3>3. n \notin Closed(v)
      BY <3>2 DEF Closed
    <3> QED
      BY <1>2, <2>1, <3>2, <3>3 DEF Follows
  <2>7. Follows(d, u, up)
    BY <2>6 DEF Follows
  <2> QED
    BY <1>2, <2>1, <2>2, <2>3, <2>4, <2>5, <2>7
<1>4. PeriodicSettles(d, u, up)
  BY <1>2, <1>3 DEF PeriodicSettles
<1> QED
  BY <1>1, <1>2, <1>4 DEF Settling, PushSettles, MailSettles

LEMMA PeriodicCommits ==
    ASSUME NEW c \in Calls, NEW e \in BOOLEAN, ~ e, NEW v, NEW up,
           c.name = "periodic", c.step = "commit", Settling(c, v, up)
    PROVE  Settling(Skipped(c, c.at, e), v, up)
<1>1. PICK d, p : d = Skipped(c, c.at, e) /\ p = c.at
  OBVIOUS
<1>2. /\ d.step = "next" /\ d.name = c.name /\ d.todo = c.todo \ {p} /\ d.mine = c.mine
      /\ d.error = (c.error \/ e) /\ d.read = c.read
  BY <1>1, SkippedParts
<1>3. d.error <=> c.error
  BY <1>2, CallParts
<1>4. ASSUME ~ c.error
      PROVE  AsRead(d, v) /\ Follows(d, v, up)
  <2>1. AsRead(c, v) /\ Follows(c, v, up) /\ v[p[1]].overlay \in Statuses
    BY <1>1, <1>4 DEF Settling, PeriodicSettles
  <2>2. AsRead(d, v)
    BY <1>2, <2>1 DEF AsRead
  <2>3. ASSUME NEW n \in setting.notes \ Closed(v), NEW o \in v[n].bindings
        PROVE  <<n, o>> \in d.todo \/ up[o] # "closed"
    <3>1. <<n, o>> # p
      BY <2>1 DEF Closed, commitmentClosed
    <3> QED
      BY <1>2, <2>1, <3>1 DEF Follows
  <2> QED
    BY <2>2, <2>3 DEF Follows
<1>5. PeriodicSettles(d, v, up)
  BY <1>2, <1>3, <1>4 DEF PeriodicSettles
<1> QED
  BY <1>1, <1>2, <1>5 DEF Settling, PushSettles, MailSettles

LEMMA MatchCall ==
    ASSUME NEW c \in Calls, NEW p \in Notes \X Objects, NEW e \in BOOLEAN,
           NEW s \in Statuses \cup {None}, NEW ns \in SUBSET Notes, NEW order \in InOrder(ns),
           NEW d, d = Matching(c, p, e, s, order)
    PROVE  /\ d.todo = {} /\ d.at = p /\ d.error = e /\ d.name = c.name
           /\ d.step = c.step \/ d.step = "prepare"
           /\ ns # {} => d.step = "prepare"
           /\ \A i \in DOMAIN d.writes : \E n \in ns : d.writes[i] = Restated(n, c.read[n], s)
           /\ \A n \in ns : \E i \in DOMAIN d.writes : d.writes[i] = Restated(n, c.read[n], s)
  BY MatchingParts

LEMMA MailMatches ==
    ASSUME NEW c \in Calls, NEW p \in c.todo, NEW e \in BOOLEAN, NEW s \in Statuses \cup {None},
           NEW ns \in SUBSET Notes, NEW order \in InOrder(ns), NEW v, NEW up,
           c.name = "mail", Settling(c, v, up), setting.notes \subseteq Notes,
           ~ e => s = IF up[p[2]] = "closed" THEN "closed" ELSE None,
           ns = {n \in {q[1] : q \in c.todo} : c.read[n].overlay # s}
    PROVE  Settling(Matching(c, p, e, s, order), v, up)
<1>1. PICK d : d = Matching(c, p, e, s, order)
  OBVIOUS
<1>2. p \in Notes \X Objects
  BY CallParts
<1>3. PICK o \in Objects : /\ c.step = "next" /\ c.read = v
                           /\ c.todo = {q \in Bindings(setting.notes, v) : q[2] = o}
  BY DEF Settling, MailSettles, MailReads
<1>a. PICK ms : ms = ns /\ ms \in SUBSET Notes /\ order \in InOrder(ms)
  OBVIOUS
<1>b. /\ d.todo = {} /\ d.at = p /\ d.error = e /\ d.name = c.name
      /\ d.step = c.step \/ d.step = "prepare"
      /\ ms # {} => d.step = "prepare"
      /\ \A i \in DOMAIN d.writes : \E n \in ms : d.writes[i] = Restated(n, c.read[n], s)
      /\ \A n \in ms : \E i \in DOMAIN d.writes : d.writes[i] = Restated(n, c.read[n], s)
  BY ONLY <1>1, <1>2, <1>a, c \in Calls, e \in BOOLEAN, s \in Statuses \cup {None}, MatchCall
<1>4. /\ d.todo = {} /\ d.at = p /\ d.error = e /\ d.name = "mail"
      /\ d.step \in {"next", "prepare"}
  BY <1>3, <1>b
<1>5. /\ ns # {} => d.step = "prepare"
      /\ \A i \in DOMAIN d.writes : \E n \in ns : d.writes[i] = Restated(n, c.read[n], s)
      /\ \A n \in ns : \E i \in DOMAIN d.writes : d.writes[i] = Restated(n, c.read[n], s)
  BY <1>a, <1>b
<1>6. \A n \in ns : /\ Restated(n, c.read[n], s).file = n
                    /\ Restated(n, c.read[n], s).text.overlay = s
                    /\ Restated(n, c.read[n], s).text.bindings = v[n].bindings
  <2>1. \A n \in ns : n \in Notes /\ c.read[n] \in Commitments
    BY CallParts
  <2> QED
    BY <1>3, <2>1, RestatedParts
<1>7. ASSUME ~ d.error
      PROVE  MailWrites(d, v, up)
  <2>1. p[2] = o /\ (s \in Statuses <=> up[o] = "closed")
    BY <1>3, <1>4, <1>7, NoneApart DEF Statuses
  <2>2. ASSUME NEW i \in DOMAIN d.writes
        PROVE  /\ Agrees(d.writes[i].text, up, o)
               /\ d.writes[i].text.bindings = v[d.writes[i].file].bindings
    BY <1>5, <1>6, <2>1 DEF Agrees
  <2>3. ASSUME NEW n \in setting.notes, o \in v[n].bindings
        PROVE  \/ Agrees(v[n], up, o)
               \/ d.step = "prepare" /\ \E i \in DOMAIN d.writes : d.writes[i].file = n
    <3>1. <<n, o>> \in c.todo
      BY <1>3, <2>3 DEF Bindings
    <3>2. CASE c.read[n].overlay = s
      BY <1>3, <2>1, <3>2 DEF Agrees
    <3>3. CASE c.read[n].overlay # s
      <4>1. n \in ns
        BY <3>1, <3>3
      <4> QED
        BY <1>5, <1>6, <4>1
    <3> QED
      BY <3>2, <3>3
  <2> QED
    BY <1>4, <2>1, <2>2, <2>3 DEF MailWrites
<1> QED
  BY <1>1, <1>2, <1>4, <1>7 DEF Settling, PushSettles, PeriodicSettles, MailSettles

LEMMA MailTexts ==
    ASSUME NEW c \in Calls, NEW v \in Texts, NEW up, c.name = "mail", c.step = "write",
           c.writes # <<>>, Settling(c, v, up), setting.notes \subseteq Notes
    PROVE  Settling(Wrote(c), [v EXCEPT ![Head(c.writes).file] = Head(c.writes).text], up)
<1>1. PICK d, f, u : d = Wrote(c) /\ f = Head(c.writes) /\ u = [v EXCEPT ![f.file] = f.text]
  OBVIOUS
<1>2. /\ d.step \in {"write", "commit"} /\ d.name = c.name /\ d.todo = c.todo /\ d.at = c.at
      /\ d.error = c.error /\ f = c.writes[1]
      /\ \A i \in DOMAIN d.writes : d.writes[i] = c.writes[i + 1] /\ i + 1 \in DOMAIN c.writes
      /\ \A i \in DOMAIN c.writes : i # 1 => i - 1 \in DOMAIN d.writes
  BY <1>1, WroteParts
<1>3. d.step = "commit" => Len(c.writes) = 1
  BY <1>1, WroteParts
<1>4. c.writes \in Seq(Files) /\ 1 \in DOMAIN c.writes
  BY CallParts
<1>5. f.file \in Notes /\ f.text \in Commitments
  BY <1>2, <1>4, WriteTyped
<1>6. c.at \in Notes \X Objects /\ c.todo = {} /\ (~ c.error => MailWrites(c, v, up))
  BY DEF Settling, MailSettles, MailReads
<1>7. ASSUME ~ d.error
      PROVE  MailWrites(d, u, up)
  <2>0. PICK o : o = c.at[2] /\ d.at[2] = o
    BY <1>2
  <2>1. /\ \A i \in DOMAIN c.writes :
             /\ Agrees(c.writes[i].text, up, o)
             /\ c.writes[i].text.bindings = v[c.writes[i].file].bindings
        /\ \A n \in setting.notes : o \in v[n].bindings =>
             Agrees(v[n], up, o) \/ \E i \in DOMAIN c.writes : c.writes[i].file = n
    BY <1>2, <1>6, <1>7, <2>0 DEF MailWrites
  <2>2. /\ u[f.file] = f.text /\ f.text.bindings = v[f.file].bindings /\ Agrees(f.text, up, o)
        /\ \A n \in Notes : n # f.file => u[n] = v[n]
    BY <1>1, <1>2, <1>4, <1>5, <2>1 DEF Texts
  <2>3. ASSUME NEW i \in DOMAIN d.writes
        PROVE  /\ Agrees(d.writes[i].text, up, o)
               /\ d.writes[i].text.bindings = u[d.writes[i].file].bindings
    <3>1. d.writes[i] = c.writes[i + 1] /\ i + 1 \in DOMAIN c.writes
      BY <1>2
    <3>2. d.writes[i].file \in Notes
      BY <3>1, WriteTyped
    <3> QED
      BY <2>1, <2>2, <3>1, <3>2
  <2>4. ASSUME NEW n \in setting.notes, o \in u[n].bindings, ~ Agrees(u[n], up, o)
        PROVE  d.step = "write" /\ \E i \in DOMAIN d.writes : d.writes[i].file = n
    <3>1. n # f.file
      BY <2>2, <2>4
    <3>2. u[n] = v[n]
      BY <2>2, <2>4, <3>1
    <3>3. PICK i \in DOMAIN c.writes : c.writes[i].file = n
      BY <2>1, <2>4, <3>2
    <3>4. i # 1
      BY <1>2, <3>1, <3>3
    <3>5. i \in Nat /\ i <= Len(c.writes) /\ 1 <= i
      BY <1>4, <3>3
    <3>6. d.step = "write"
      BY <1>2, <1>3, <3>4, <3>5
    <3>7. i - 1 \in DOMAIN d.writes /\ d.writes[i - 1] = c.writes[(i - 1) + 1]
      BY <1>2, <3>3, <3>4
    <3>8. d.writes[i - 1].file = n
      BY <3>3, <3>5, <3>7
    <3> QED
      BY <3>6, <3>7, <3>8
  <2> QED
    BY <2>0, <2>3, <2>4 DEF MailWrites
<1> QED
  BY <1>1, <1>2, <1>6, <1>7 DEF Settling, PushSettles, PeriodicSettles, MailSettles


\* A mail tool that has committed goes on, and nothing is left to it.
LEMMA NextSettles ==
    ASSUME NEW c \in Calls, NEW v, NEW up, c.step = "commit", c.name = "mail", Settling(c, v, up)
    PROVE  Settling([c EXCEPT !.step = "next"], v, up)
<1>1. PICK d : d = [c EXCEPT !.step = "next"]
  OBVIOUS
<1>2. /\ d.step = "next" /\ d.name = c.name /\ d.todo = c.todo /\ d.at = c.at /\ d.error = c.error
  BY <1>1, NextParts
<1>3. MailSettles(d, v, up)
  BY <1>2 DEF Settling, MailSettles, MailReads, MailWrites
<1> QED
  BY <1>1, <1>2, <1>3 DEF Settling, PushSettles, PeriodicSettles

LEMMA WritingSettles ==
    ASSUME NEW c \in Calls, NEW v, NEW up, c.step = "prepare", Settling(c, v, up)
    PROVE  Settling(Writing(c), v, up)
<1>1. PICK d : d = Writing(c)
  OBVIOUS
<1>2. /\ d.step = "write" /\ d.name = c.name /\ d.todo = c.todo /\ d.at = c.at
      /\ d.error = c.error /\ d.writes = c.writes /\ d.read = c.read
  BY <1>1, WritingParts
<1>3. MailSettles(d, v, up)
  BY <1>2 DEF Settling, MailSettles, MailReads, MailWrites
<1>4. PeriodicSettles(d, v, up)
  BY <1>2 DEF Settling, PeriodicSettles, AsRead, Follows, Rewriting
<1> QED
  BY <1>1, <1>2, <1>3, <1>4 DEF Settling, PushSettles

LEMMA SkippedFails ==
    ASSUME NEW c \in Calls, NEW p, NEW d, d = Skipped(c, p, TRUE)
    PROVE  d \in Calls /\ d.step = "next" /\ d.name = c.name /\ d.error
<1>1. d \in Calls /\ d.step = "next" /\ d.name = c.name /\ d.error = TRUE
  BY DEF Skipped, Calls
<1> QED
  BY <1>1

LEMMA BindingsHold ==
    ASSUME NEW ns, NEW v, NEW n \in ns, NEW o \in v[n].bindings
    PROVE  <<n, o>> \in Bindings(ns, v)
  BY DEF Bindings

\* The other tools settle nothing before they push.
LEMMA OtherSettles ==
    ASSUME NEW d, NEW v, NEW up, d.step \in {"prepare", "write", "commit"},
           d.name \notin {"push", "periodic", "mail"}
    PROVE  Settling(d, v, up)
  BY DEF Settling, PushSettles, PeriodicSettles, MailSettles

LEMMA WrittenSettles ==
    ASSUME NEW c \in Calls, NEW v \in Texts, NEW up, c.step = "write", c.writes # <<>>,
           Settling(c, v, up), setting.notes \subseteq Notes
    PROVE  Settling(Wrote(c), [v EXCEPT ![Head(c.writes).file] = Head(c.writes).text], up)
<1>1. CASE c.name = "periodic"
  BY <1>1, PeriodicWrites
<1>2. CASE c.name = "mail"
  BY <1>2, MailTexts
<1>3. CASE c.name \notin {"periodic", "mail"}
  <2>1. c.name # "push"
    BY DEF Settling, PushSettles
  <2>2. PICK d : d = Wrote(c)
    OBVIOUS
  <2>3. d.name = c.name /\ d.step \in {"write", "commit"}
    BY <2>2, WroteParts
  <2> QED
    BY <1>3, <2>1, <2>2, <2>3, OtherSettles
<1> QED
  BY <1>1, <1>2, <1>3

LEMMA PushBegins ==
    ASSUME TypeOK, NEW d, d.step = "next", d.name = "push", d.todo = Bindings(Closed(note), note),
           NEW up
    PROVE  Settling(d, note, up)
<1>1. Leaves(d, setting.notes, note, up)
  BY BindingsHold DEF Leaves
<1> QED
  BY <1>1 DEF Settling, PushSettles, PeriodicSettles, MailSettles

LEMMA PeriodicBegins ==
    ASSUME TypeOK, NEW d, d.step = "next", d.name = "periodic", d.read = note,
           d.todo = Bindings(setting.notes, note), NEW up
    PROVE  Settling(d, note, up)
<1>1. setting.notes \subseteq Notes
  BY SettingTyped
<1>2. Follows(d, note, up)
  <2>1. \A n \in setting.notes : \A o \in note[n].bindings : <<n, o>> \in d.todo
    BY BindingsHold
  <2> QED
    BY <2>1 DEF Follows
<1> QED
  BY <1>2 DEF Settling, PushSettles, PeriodicSettles, MailSettles, AsRead

LEMMA Repushes ==
    ASSUME TypeOK, NEW d, d.step = "next", d.name = "set_status", d.mine \subseteq Notes,
           d.todo = Bindings(d.mine \cap Closed(note), note), NEW up
    PROVE  Settling(d, note, up)
<1>1. Leaves(d, d.mine, note, up)
  BY BindingsHold DEF Leaves
<1> QED
  BY <1>1 DEF Settling, PushSettles, PeriodicSettles, MailSettles

LEMMA SyncSettles ==
    ASSUME GtdSane, GtdTypes, NEW a \in Agents, Sync(a),
           tool[a] # None => Settling(tool[a], note, upstream)
    PROVE  tool'[a] # None => Settling(tool'[a], note, upstream')
<1>0. TypeOK /\ (\A d : Turns(a, d) => tool'[a] = d) /\ setting.notes \subseteq Notes
  BY SettingTyped DEF GtdTypes, TypeOK, Turns
<1>a. ASSUME NEW p, tool[a] \in Calls, tool[a].name # "mail", Turns(a, Skipped(tool[a], p, TRUE))
      PROVE  Settling(tool'[a], note, upstream')
  <2>1. PICK c, d : c = tool[a] /\ d = Skipped(c, p, TRUE)
    OBVIOUS
  <2>a. c \in Calls /\ d = Skipped(c, p, TRUE)
    BY <1>a, <2>1
  <2>2. d \in Calls /\ d.step = "next" /\ d.name = c.name /\ d.error
    BY <2>a, SkippedFails
  <2> QED
    BY <1>0, <1>a, <2>1, <2>2, ErrorSettles
<1>1. CASE brainGTDSyncPush(a)
  <2>1. PICK d : Begun(a, d, "push", Bindings(Closed(note), note), <<>>)
    BY <1>0, <1>1, PushStarts
  <2>2. /\ d.name = "push" /\ d.step = "next" /\ d.todo = Bindings(Closed(note), note)
        /\ tool'[a] = d
    BY <1>0, <2>1 DEF Begun, CallOf
  <2> QED
    BY <1>0, <2>2, PushBegins
<1>2. CASE brainGTDSyncPeriodic(a)
  <2>1. PICK d : Begun(a, d, "periodic", Bindings(setting.notes, note), <<>>)
    BY <1>0, <1>2, PeriodicStarts
  <2>2. /\ d.name = "periodic" /\ d.step = "next" /\ d.todo = Bindings(setting.notes, note)
        /\ tool'[a] = d /\ d.read = note
    BY <1>0, <2>1 DEF Begun, CallOf
  <2> QED
    BY <1>0, <2>2, PeriodicBegins
<1>3. CASE readBindingStateFails(a)
  <2>1. PICK p : p \in First(a) /\ Turns(a, Skipped(tool[a], p, TRUE)) /\ tool[a].name # "mail"
    BY <1>0, <1>3, ReadFails
  <2> QED
    BY <1>0, <1>a, <2>1, FirstParts
<1>4. CASE pushClosedBinding(a)
  <2>1. PICK p \in First(a), e \in BOOLEAN :
                    /\ upstream' = upstream /\ ~ e
                    /\ tool[a].name \in {"push", "set_status"}
                    /\ \/ upstream[p[2]] = "closed" /\ Turns(a, Skipped(tool[a], p, e))
                       \/ Turns(a, Closing(tool[a], p))
    BY <1>0, <1>4, Pushes
  <2>2. /\ tool[a] \in Calls /\ p \in Notes \X Objects /\ Settling(tool[a], note, upstream)
        /\ tool[a].step = "next"
    BY <1>0, <2>1, FirstParts DEF GtdSane
  <2> QED
    BY <1>0, <2>1, <2>2, PushSkips, PushCloses
<1>5. CASE closeBinding(a)
  <2>1. PICK done, error \in BOOLEAN :
          /\ error \/ done
          /\ upstream' = IF done THEN [upstream EXCEPT ![tool[a].at[2]] = "closed"] ELSE upstream
          /\ tool[a] \in Calls /\ tool[a].step = "close"
          /\ Turns(a, Skipped(tool[a], tool[a].at, error))
    BY <1>0, <1>5, Closes
  <2>2. /\ Settling(tool[a], note, upstream) /\ tool[a].name \in {"push", "set_status"}
        /\ tool[a].at \in Notes \X Objects
    BY <2>1 DEF GtdSane, Settling, PushSettles
  <2>3. CASE error = TRUE
    BY <1>a, <2>1, <2>2, <2>3
  <2>4. CASE ~ error
    <3>1. /\ upstream'[tool[a].at[2]] = "closed"
          /\ \A o : upstream[o] = "closed" => upstream'[o] = "closed"
      BY <1>0, <2>1, <2>2, <2>4 DEF TypeOK
    <3>2. PICK c, p, v, up, upp :
            /\ c = tool[a] /\ p = tool[a].at /\ v = note /\ up = upstream /\ upp = upstream'
      OBVIOUS
    <3>a. /\ c \in Calls /\ p \in Notes \X Objects /\ c.name \in {"push", "set_status"}
          /\ c.step \in {"next", "close"} /\ Settling(c, v, up) /\ error \in BOOLEAN
          /\ upp[p[2]] = "closed" /\ \A o : up[o] = "closed" => upp[o] = "closed"
      BY <2>1, <2>2, <3>1, <3>2
    <3>3. Settling(Skipped(c, p, error), v, upp)
      BY <2>4, <3>a, PushSkips
    <3> QED
      BY <1>0, <2>1, <3>2, <3>3
  <2> QED
    BY <2>3, <2>4
<1>6. CASE periodicSyncBinding(a)
  <2>1. PICK p \in First(a), e \in BOOLEAN :
                    /\ upstream' = upstream /\ ~ e
                    /\ tool[a].name = "periodic"
                    /\ \/ Turns(a, Reclosing(tool[a], p))
                       \/ /\ \/ upstream[p[2]] # "closed"
                             \/ tool[a].read[p[1]].overlay \in Statuses
                          /\ Turns(a, Skipped(tool[a], p, e))
    BY <1>0, <1>6, Recloses DEF commitmentClosed
  <2>2. /\ tool[a] \in Calls /\ p \in Notes \X Objects /\ Settling(tool[a], note, upstream)
        /\ tool[a].step = "next"
    BY <1>0, <2>1, FirstParts DEF GtdSane
  <2> QED
    BY <1>0, <2>1, <2>2, PeriodicSkips, PeriodicRecloses
<1>7. CASE mailAction(a)
  <2>1. PICK o, d :
          /\ o \in Objects
          /\ Begun(a, d, "mail", {p \in Bindings(setting.notes, note) : p[2] = o}, <<>>)
    BY <1>0, <1>7, MailStarts
  <2>2. /\ d.name = "mail" /\ d.step = "next" /\ d.at = None /\ d.read = note
        /\ d.todo = {p \in Bindings(setting.notes, note) : p[2] = o} /\ tool'[a] = d
    BY <1>0, <2>1 DEF Begun, CallOf
  <2>3. MailReads(d, note)
    BY <2>1, <2>2 DEF MailReads
  <2> QED
    BY <2>2, <2>3 DEF Settling, PushSettles, PeriodicSettles, MailSettles
<1>8. CASE walkMailBindings(a)
  <2>1. PICK p \in First(a), error \in BOOLEAN, status \in Statuses \cup {None} :
          /\ changed(status, a) \in SUBSET Notes /\ tool[a].name = "mail" /\ upstream' = upstream
          /\ status = IF error \/ upstream[p[2]] = "closed" THEN "closed" ELSE None
          /\ \E order \in InOrder(changed(status, a)) :
               Turns(a, Matching(tool[a], p, error, status, order))
    BY <1>0, <1>8, Matches
  <2>2. PICK ns \in SUBSET Notes : ns = changed(status, a)
    BY <2>1
  <2>3. PICK order \in InOrder(ns) : Turns(a, Matching(tool[a], p, error, status, order))
    BY <2>1, <2>2
  <2>4. PICK c : /\ c = tool[a] /\ c \in Calls /\ p \in c.todo /\ c.name = "mail"
                 /\ Settling(c, note, upstream)
    BY <1>0, <2>1, FirstParts DEF GtdSane
  <2>5. ns = {n \in {q[1] : q \in c.todo} : c.read[n].overlay # status}
    BY <2>2, <2>4 DEF changed
  <2>6. ~ error => status = IF upstream[p[2]] = "closed" THEN "closed" ELSE None
    BY <2>1
  <2>7. Settling(Matching(c, p, error, status, order), note, upstream)
    BY <1>0, <2>4, <2>5, <2>6, MailMatches
  <2> QED
    BY <1>0, <2>1, <2>3, <2>4, <2>7
<1>9. CASE Return(a)
  BY <1>0, <1>9 DEF Return, Turns
<1> QED
  BY <1>1, <1>2, <1>3, <1>4, <1>5, <1>6, <1>7, <1>8, <1>9 DEF Sync


LEMMA MutateSettles ==
    ASSUME GtdSane, GtdTypes, NEW a \in Agents, Mutate(a),
           tool[a] # None => Settling(tool[a], note, upstream)
    PROVE  tool'[a] # None => Settling(tool'[a], note', upstream')
<1>0. /\ TypeOK /\ (\A d : Turns(a, d) => tool'[a] = d)
      /\ setting.notes \subseteq Notes /\ note \in Texts
  BY SettingTyped DEF GtdTypes, TypeOK, Turns, Texts
<1>a. ASSUME tool[a] \in Calls, Failed(a), tool'[a] # None
      PROVE  Settling(tool'[a], note', upstream')
  <2>1. PICK d : Turns(a, d) /\ d = IF tool[a].name = "periodic"
                                    THEN Skipped(tool[a], tool[a].at, TRUE) ELSE None
    BY <1>a, FailedTurns
  <2>2. tool'[a] = d /\ tool[a].name = "periodic"
    BY <1>0, <1>a, <2>1
  <2>3. PICK c, p : c = tool[a] /\ p = tool[a].at
    OBVIOUS
  <2>a. c \in Calls /\ d = Skipped(c, p, TRUE)
    BY <1>a, <2>1, <2>2, <2>3
  <2>4. d \in Calls /\ d.step = "next" /\ d.name = c.name /\ d.error
    BY <2>a, SkippedFails
  <2> QED
    BY <2>2, <2>3, <2>4, ErrorSettles
<1>b. ASSUME NEW d, NEW name, NEW todo, NEW ws, ws # <<>>, Begun(a, d, name, todo, ws),
             name \in {"set_status", "review", "bind"}
      PROVE  Settling(tool'[a], note', upstream')
  <2>1. tool'[a] = d /\ d.step = "prepare" /\ d.name = name
    BY <1>0, <1>b DEF Begun, CallOf
  <2> QED
    BY <1>b, <2>1, OtherSettles
<1>1. CASE brainGTDSetStatus(a)
  <2>1. PICK f, d : f \in Files /\ Begun(a, d, "set_status", {}, <<f>>)
    BY <1>0, <1>1, SetStatusStarts
  <2> QED
    BY <1>b, <2>1, One
<1>2. CASE brainGTDDedupReviewApply(a)
  <2>1. PICK d, ws : ws # <<>> /\ Begun(a, d, "review", {}, ws)
    BY <1>0, <1>2, ReviewStarts
  <2> QED
    BY <1>b, <2>1
<1>3. CASE brainGTDBind(a)
  <2>1. PICK d, ws : ws # <<>> /\ Begun(a, d, "bind", {}, ws)
    BY <1>0, <1>3, BindStarts
  <2> QED
    BY <1>b, <2>1
<1>4. CASE ensureGitFails(a) \/ preflightCommitFails(a) \/ mutationFails(a)
  BY <1>0, <1>4, <1>a, Undoes
<1>5. CASE ensureGitReady(a)
  <2>1. /\ note' = note /\ upstream' = upstream /\ tool[a] \in Calls /\ tool[a].step = "prepare"
        /\ Turns(a, Writing(tool[a])) \/ Failed(a)
    BY <1>0, <1>5, Prepares
  <2>2. Settling(tool[a], note, upstream)
    BY <2>1 DEF GtdSane
  <2> QED
    BY <1>0, <1>a, <2>1, <2>2, WritingSettles
<1>6. CASE writeDedupNotes(a)
  <2>1. /\ upstream' = upstream
        /\ tool[a] \in Calls /\ tool[a].step = "write" /\ Turns(a, Wrote(tool[a]))
        /\ note' = [note EXCEPT ![Head(tool[a].writes).file] = Head(tool[a].writes).text]
    BY <1>0, <1>6, Writes
  <2>2. tool[a].writes # <<>> /\ Settling(tool[a], note, upstream)
    BY <2>1 DEF GtdTypes, HasFiles, GtdSane
  <2> QED
    BY <1>0, <2>1, <2>2, WrittenSettles
<1>7. CASE CommitBrainGit(a)
  <2>1. /\ note' = note /\ upstream' = upstream /\ tool[a] \in Calls /\ tool[a].step = "commit"
        /\ Committed(a) \/ Failed(a)
    BY <1>0, <1>7, Commits
  <2>2. Settling(tool[a], note, upstream)
    BY <2>1 DEF GtdSane
  <2>3. ASSUME Committed(a), tool'[a] # None
        PROVE  Settling(tool'[a], note, upstream)
    <3>1. CASE tool[a].name = "periodic"
      <4>1. PICK e \in BOOLEAN : ~ e
        OBVIOUS
      <4>2. tool'[a] = Skipped(tool[a], tool[a].at, e)
        BY <1>0, <2>1, <2>3, <3>1, <4>1, CommitTurns
      <4> QED
        BY <2>1, <2>2, <3>1, <4>1, <4>2, PeriodicCommits
    <3>2. CASE tool[a].name = "set_status"
      <4>1. PICK d : d = Repushed(tool[a]) /\ tool'[a] = d
        BY <1>0, <2>1, <2>3, <3>2, CommitTurns
      <4>2. /\ d.step = "next" /\ d.name = "set_status" /\ d.mine = tool[a].mine
            /\ d.todo = Bindings(tool[a].mine \cap Closed(note), note)
            /\ tool[a].mine \subseteq Notes
        <5>1. PICK c, todo : c = tool[a] /\ c \in Calls /\ d = Repushed(c)
                             /\ todo = Bindings(c.mine \cap Closed(note), note)
          BY <2>1, <4>1
        <5>2. d.step = "next" /\ d.name = "set_status" /\ d.mine = c.mine /\ d.todo = todo
          BY <1>0, <5>1, RepushParts
        <5> QED
          BY <5>1, <5>2, CallParts
      <4> QED
        BY <1>0, <4>1, <4>2, Repushes
    <3>3. CASE tool[a].name = "mail"
      <4>1. tool'[a] = [tool[a] EXCEPT !.step = "next"]
        BY <1>0, <2>1, <2>3, <3>3, CommitTurns
      <4> QED
        BY <2>1, <2>2, <3>3, <4>1, NextSettles
    <3> QED
      BY <1>0, <2>1, <2>3, <3>1, <3>2, <3>3, CommitTurns
  <2> QED
    BY <1>a, <2>1, <2>3
<1> QED
  BY <1>1, <1>2, <1>3, <1>4, <1>5, <1>6, <1>7 DEF Mutate

LEMMA SettlingStill ==
    ASSUME setting' = setting, NEW b, Settling(tool'[b], note', upstream')
    PROVE  Settling(tool[b], note, upstream)'
<1>1. PushSettles(tool[b], note, upstream)'
  BY DEF Settling, PushSettles, Leaves, Closed
<1>2. PeriodicSettles(tool[b], note, upstream)'
  BY DEF Settling, PeriodicSettles, AsRead, Follows, Rewriting, Closed
<1>3. MailSettles(tool[b], note, upstream)'
  <2>1. MailReads(tool'[b], note') => MailReads(tool[b], note)'
    BY DEF MailReads, Bindings
  <2>2. MailWrites(tool'[b], note', upstream') => MailWrites(tool[b], note, upstream)'
    BY DEF MailWrites, Agrees
  <2> QED
    BY <2>1, <2>2 DEF Settling, MailSettles
<1> QED
  BY <1>1, <1>2, <1>3 DEF Settling

LEMMA SettlingKept ==
    ASSUME GtdSane, GtdTypes, OwnFiles, SettlingInv, [Next]_vars
    PROVE  SettlingInv'
<1>0. setting' = setting
  BY GtdTypesKept
<1> SUFFICES ASSUME AloneAtWork
             PROVE  \A b \in Agents : tool'[b] # None => Settling(tool'[b], note', upstream')
  BY <1>0, SettlingStill DEF SettlingInv, AloneAtWork
<1>1. Single /\ \A b \in Agents : tool[b] # None => Settling(tool[b], note, upstream)
  BY DEF OwnFiles, SettlingInv
<1>2. ASSUME NEW a \in Agents, Acts(a), NEW b \in Agents, tool'[b] # None
      PROVE  Settling(tool'[b], note', upstream')
  <2>1. b = a
    BY <1>1, <1>2, AloneActs
  <2>2. CASE Sync(a)
    BY <1>1, <1>2, <2>1, <2>2, SyncSettles, SyncLeaves
  <2>3. CASE Mutate(a)
    BY <1>1, <1>2, <2>1, <2>3, MutateSettles
  <2>4. CASE Stop(a)
    BY <1>2, <2>1, <2>4 DEF Stop, GtdTypes, TypeOK
  <2> QED
    BY <1>2, <2>2, <2>3, <2>4 DEF Acts
<1>3. CASE EditNote \/ ChangeUpstream
  <2>1. tool' = tool /\ Busy = {}
    BY <1>3 DEF EditNote, ChangeUpstream, AloneAtWork, MayStart
  <2> QED
    BY <2>1 DEF Busy
<1>4. CASE UNCHANGED vars
  BY <1>1, <1>4 DEF vars
<1> QED
  BY <1>2, <1>3, <1>4 DEF Next, Acts


LEMMA SettlesWhenDone ==
    ASSUME GtdTypes, SettlingInv
    PROVE  Settled
<1> DEFINE IsClosed(o) == upstream[o] = "closed"
           ToBe(notes) == \A n \in notes \cap Closed(note) : \A o \in note[n].bindings : IsClosed(o)
<1> SUFFICES ASSUME AloneAtWork, NEW a \in Busy, Done(a), ~ tool[a].error
             PROVE  /\ tool[a].name = "push" => ToBe(setting.notes)
                    /\ tool[a].name = "set_status" => ToBe(tool[a].mine)
                    /\ tool[a].name = "periodic" => \A n \in setting.notes \ Closed(note) :
                                                      \A o \in note[n].bindings : ~ IsClosed(o)
                    /\ tool[a].name = "mail" /\ tool[a].at # None => \A n \in setting.notes :
                         tool[a].at[2] \in note[n].bindings =>
                            (n \in Closed(note) <=> IsClosed(tool[a].at[2]))
  BY DEF Settled
<1>1. /\ Settling(tool[a], note, upstream) /\ tool[a].step = "next" /\ tool[a].todo = {}
  BY DEF SettlingInv, Busy, Done, At
<1>2. ASSUME NEW ns, Leaves(tool[a], ns, note, upstream)
      PROVE  ToBe(ns)
  BY <1>1, <1>2 DEF Leaves
<1>3. /\ tool[a].name = "push" => ToBe(setting.notes)
      /\ tool[a].name = "set_status" => ToBe(tool[a].mine)
  <2> HIDE DEF ToBe
  <2> QED
    BY <1>1, <1>2 DEF Settling, PushSettles
<1>4. ASSUME tool[a].name = "periodic", NEW n \in setting.notes \ Closed(note),
             NEW o \in note[n].bindings
      PROVE  ~ IsClosed(o)
  BY <1>1, <1>4 DEF Settling, PeriodicSettles, Follows
<1>5. ASSUME tool[a].name = "mail", tool[a].at # None, NEW n \in setting.notes,
             tool[a].at[2] \in note[n].bindings
      PROVE  n \in Closed(note) <=> IsClosed(tool[a].at[2])
  <2>1. MailWrites(tool[a], note, upstream)
    BY <1>1, <1>5 DEF Settling, MailSettles, MailReads
  <2>2. Agrees(note[n], upstream, tool[a].at[2])
    BY <1>1, <1>5, <2>1 DEF MailWrites
  <2> QED
    BY <2>2 DEF Agrees, Closed, commitmentClosed
<1> QED
  BY <1>3, <1>4, <1>5

LEMMA JustifiesSteps ==
    ASSUME GtdSane, GtdTypes, OwnFiles, ReasonsInv, [Next]_vars
    PROVE  Justified
<1> SUFFICES ASSUME SyncsOnly, NEW a \in Busy, tool'[a] # tool[a],
                    tool[a].name \in {"push", "periodic"}
             PROVE  /\ \A o \in Objects : upstream'[o] # upstream[o] =>
                          \E n \in Closed(note) : o \in note[n].bindings
                    /\ At(a, "write") => \A n \in Notes : note'[n] # note[n] =>
                          \E o \in note[n].bindings : upstream[o] = "closed"
  BY DEF Justified
<1>0. /\ a \in Agents /\ tool[a] # None /\ tool[a] \in Calls
      /\ TypeOK /\ note \in Texts /\ upstream \in [Objects -> {"open", "closed"}]
  BY DEF Busy, GtdTypes, TypeOK, Texts
<1>1. Acts(a)
  <2>1. PICK b \in Agents : Acts(b)
    BY DEF Next, Acts, EditNote, ChangeUpstream, vars
  <2>2. \A e \in Agents \ {b} : tool'[e] = tool[e]
    BY <2>1, AgentSteps, SteppedTypes DEF Acts
  <2> QED
    BY <1>0, <2>1, <2>2
<1>2. Reasons(tool[a], note, upstream)
  BY <1>0 DEF ReasonsInv
<1>3. ASSUME NEW o \in Objects, upstream'[o] # upstream[o]
      PROVE  \E n \in Closed(note) : o \in note[n].bindings
  <2>1. ~ mailAction(a)
    BY <1>0 DEF mailAction
  <2>2. closeBinding(a)
    BY <1>0, <1>1, <1>3, <2>1, UpstreamChanges
  <2>3. PICK done, error \in BOOLEAN :
          /\ tool[a].step = "close"
          /\ upstream' = IF done THEN [upstream EXCEPT ![tool[a].at[2]] = "closed"] ELSE upstream
    BY <1>0, <2>2, Closes
  <2>4. Owed(tool[a].at, note)
    BY <1>2, <2>3 DEF Reasons, PushReasons, PeriodicReasons
  <2>5. o = tool[a].at[2]
    BY <1>0, <1>3, <2>3
  <2> QED
    BY <2>4, <2>5 DEF Owed, Tied
<1>4. ASSUME At(a, "write"), NEW n \in Notes, note'[n] # note[n]
      PROVE  \E o \in note[n].bindings : upstream[o] = "closed"
  <2>1. /\ tool[a].step = "write" /\ tool[a].name = "periodic"
    BY <1>2, <1>4 DEF At, Reasons, PushReasons
  <2>2. PICK p : /\ p = tool[a].at /\ Tied(p, note) /\ upstream[p[2]] = "closed"
                 /\ tool[a].mine = {p[1]} /\ Rewriting(tool[a])
    BY <1>2, <2>1 DEF Reasons, PeriodicReasons
  <2>3. n = p[1]
    <3>1. CASE AloneAtWork
      <4>1. ChangesOnlyMine(a)
        BY <2>1, <3>1, KeepsOthers DEF At
      <4> QED
        BY <1>4, <2>2, <4>1 DEF ChangesOnlyMine
    <3>2. CASE ~ AloneAtWork
      <4>1. ~ mutationFails(a) /\ ~ preflightCommitFails(a)
        BY <3>2 DEF mutationFails, preflightCommitFails, SyncsOnly, Quiet
      <4>2. writeDedupNotes(a)
        BY <1>0, <1>1, <1>4, <4>1, NoteChanges
      <4>3. PICK f : /\ f = Head(tool[a].writes) /\ note' = [note EXCEPT ![f.file] = f.text]
        BY <1>0, <4>2, Writes
      <4>4. tool[a].writes # <<>>
        BY <1>0, <2>1 DEF GtdTypes, HasFiles
      <4>5. f.file = p[1]
        BY <1>0, <2>2, <4>3, <4>4, WrittenRewrites
      <4> QED
        BY <1>0, <1>4, <4>3, <4>5 DEF Texts
    <3> QED
      BY <3>1, <3>2
  <2> QED
    BY <2>2, <2>3 DEF Tied
<1> QED
  BY <1>3, <1>4

\* A sync that ends without an error, with one tool at a time, has made notes and objects agree;
\* and a sync closes nothing without a reason, nor do syncs that work at the same time, as long
\* as nothing is merged.
THEOREM SyncsDoAgree == ASSUME GtdSane PROVE Spec => SyncsAgree
<1> DEFINE I == GtdTypes /\ OwnFiles /\ BoundInv /\ ReasonsInv /\ SettlingInv
<1>1. Init => I
  <2>1. Init => tool = [a \in Agents |-> None]
    BY DEF Init
  <2> QED
    BY <2>1, GtdTypesInit, BoundInvInit DEF OwnFiles, Single, ReasonsInv, SettlingInv
<1>2. I /\ [Next]_vars => I'
  BY GtdTypesKept, OwnFilesKept, BoundKept, ReasonsKept, SettlingKept
<1>3. I /\ [Next]_vars => [Settled /\ Justified]_vars
  BY SettlesWhenDone, JustifiesSteps
<1> HIDE DEF I
<1> QED
  BY <1>1, <1>2, <1>3, PTL DEF Spec, SyncsAgree

---------------------------------------------------------------------------
(* The groups of commitments that share bindings.                              *)

\* Induction on the numbers, stated of sets.
LEMMA Ascending ==
    ASSUME NEW T, T \subseteq Nat, 0 \in T, \A n \in T : n + 1 \in T
    PROVE  \A n \in Nat : n \in T
<1> SUFFICES ASSUME NEW m \in Nat, m \notin T
             PROVE  FALSE
  OBVIOUS
<1>1. IsWellFoundedOn(OpToRel(<, Nat), Nat)
  BY NatLessThanWellFounded
<1>2. PICK x \in Nat \ T : \A y \in Nat \ T : <<y, x>> \notin OpToRel(<, Nat)
  <2>1. Nat \ T \subseteq Nat /\ Nat \ T # {}
    OBVIOUS
  <2> QED
    BY <1>1, <2>1, WFMin
<1>3. x # 0 /\ x - 1 \in Nat /\ (x - 1) + 1 = x
  OBVIOUS
<1>4. x - 1 \in Nat \ T
  BY <1>3
<1>5. <<x - 1, x>> \in OpToRel(<, Nat)
  BY <1>3 DEF OpToRel
<1> QED
  BY <1>2, <1>4, <1>5

\* A finite set of numbers has a largest one.
LEMMA LargestIs ==
    ASSUME NEW S, IsFiniteSet(S), S \subseteq Nat, S # {}
    PROVE  Max(S) \in S /\ \A x \in S : x <= Max(S)
<1> DEFINE Above(x) == {y \in S : y > x}
           T == {Above(x) : x \in S}
<1>1. \A x \in S : Above(x) \in SUBSET S /\ IsFiniteSet(Above(x))
  BY FS_Subset
<1>2. T \subseteq FiniteSubsetsOf(S) /\ T # {}
  BY <1>1, Zenon DEF FiniteSubsetsOf
<1>3. PICK t \in T : \A u \in T : <<u, t>> \notin StrictSubsetOrdering(S)
  <2>1. IsWellFoundedOn(StrictSubsetOrdering(S), FiniteSubsetsOf(S))
    BY FS_StrictSubsetOrderingWellFounded
  <2> QED
    BY <1>2, <2>1, WFMin
<1>4. PICK x \in S : t = Above(x)
  BY Zenon
<1>5. ASSUME NEW y \in S, y > x
      PROVE  FALSE
  <2>1. \A a, b, c \in Nat : a > b /\ b > c => a > c
    OBVIOUS
  <2>2. x \in Nat /\ y \in Nat /\ ~(y > y)
    OBVIOUS
  <2>3. Above(y) \subseteq Above(x)
    BY <1>5, <2>1, <2>2
  <2>4. y \in Above(x) /\ y \notin Above(y)
    BY <1>5, <2>2
  <2>5. Above(y) \in T /\ <<Above(y), Above(x)>> \notin StrictSubsetOrdering(S)
    BY <1>3, <1>4, Zenon
  <2>6. Above(y) \in SUBSET S /\ Above(x) \in SUBSET S
    BY <1>1
  <2> HIDE DEF Above
  <2> QED
    BY <2>3, <2>4, <2>5, <2>6 DEF StrictSubsetOrdering
<1>6. \A y \in S : x >= y
  BY <1>5
<1>7. \E z \in S : \A y \in S : z >= y
  BY <1>6
<1>8. Max(S) \in S /\ \A y \in S : Max(S) >= y
  BY <1>7, Zenon DEF Max
<1> QED
  BY <1>8

\* Induction on the subsets of a finite set, stated of a set of them.
LEMMA SubsetsAscend ==
    ASSUME NEW S, IsFiniteSet(S), NEW T, T \subseteq SUBSET S,
           \A s \in SUBSET S : (\A u \in SUBSET s : u # s => u \in T) => s \in T
    PROVE  \A s \in SUBSET S : s \in T
<1> SUFFICES ASSUME NEW s \in SUBSET S, s \notin T
             PROVE  FALSE
  OBVIOUS
<1> DEFINE Bad == {u \in SUBSET S : u \notin T}
<1>1. Bad \subseteq FiniteSubsetsOf(S) /\ Bad # {}
  BY FS_Subset DEF FiniteSubsetsOf
<1>2. IsWellFoundedOn(StrictSubsetOrdering(S), FiniteSubsetsOf(S))
  BY FS_StrictSubsetOrderingWellFounded
<1>3. PICK x \in Bad : \A u \in Bad : <<u, x>> \notin StrictSubsetOrdering(S)
  <2> HIDE DEF Bad
  <2> QED
    BY <1>1, <1>2, WFMin
<1>4. \A u \in SUBSET x : u # x => u \in T
  BY <1>3 DEF StrictSubsetOrdering
<1> QED
  BY <1>3, <1>4

\* A fold over a finite set, as the recursive function it is: c picks from what is left.
Folding(S, P, base, c, step, f) ==
    /\ f \in [SUBSET S -> P]
    /\ \A s \in SUBSET S : f[s] = IF s = {} THEN base ELSE step[<<c[s], f[s \ {c[s]}]>>]

LEMMA FoldIs ==
    ASSUME NEW S, IsFiniteSet(S), NEW c, \A s \in SUBSET S : s # {} => c[s] \in s,
           NEW P, NEW base \in P, NEW step \in [S \X P -> P]
    PROVE  \E f : Folding(S, P, base, c, step, f)
<1> DEFINE Step(f, s) == IF s = {} THEN base ELSE step[<<c[s], f[s \ {c[s]}]>>]
           Upto(f, n) == \A s \in SUBSET S : Cardinality(s) <= n => f[s] = Step(f, s)
           T == {n \in Nat : \E f \in [SUBSET S -> P] : Upto(f, n)}
<1>1. \A s \in SUBSET S : /\ IsFiniteSet(s) /\ Cardinality(s) \in Nat
                           /\ Cardinality(s) <= Cardinality(S)
  BY FS_Subset, FS_CardinalityType
<1>2. ASSUME NEW f \in [SUBSET S -> P], NEW s \in SUBSET S
      PROVE  Step(f, s) \in P
  <2>1. s # {} => c[s] \in S /\ f[s \ {c[s]}] \in P
    OBVIOUS
  <2>2. s # {} => <<c[s], f[s \ {c[s]}]>> \in S \X P
    BY <2>1
  <2> QED
    BY <2>2
<1>3. 0 \in T
  <2> DEFINE f == [s \in SUBSET S |-> base]
  <2>1. f \in [SUBSET S -> P]
    OBVIOUS
  <2>2. Upto(f, 0)
    <3> SUFFICES ASSUME NEW s \in SUBSET S, Cardinality(s) <= 0
                 PROVE  f[s] = Step(f, s)
      OBVIOUS
    <3>1. s = {}
      BY <1>1, FS_EmptySet
    <3> QED
      BY <3>1
  <2> HIDE DEF f, Upto
  <2> QED
    BY <2>1, <2>2
<1>4. ASSUME NEW n \in T
      PROVE  n + 1 \in T
  <2>1. PICK f \in [SUBSET S -> P] : Upto(f, n)
    OBVIOUS
  <2> DEFINE g == [s \in SUBSET S |-> Step(f, s)]
  <2>2. g \in [SUBSET S -> P]
    <3> HIDE DEF Step
    <3> QED
      BY <1>2
  <2>3. Upto(g, n + 1)
    <3> SUFFICES ASSUME NEW s \in SUBSET S, Cardinality(s) <= n + 1
                 PROVE  g[s] = Step(g, s)
      OBVIOUS
    <3>1. CASE s = {}
      BY <3>1
    <3>2. CASE s # {}
      <4>1. PICK u \in SUBSET S : u = s \ {c[s]}
        OBVIOUS
      <4>2. c[s] \in s
        BY <3>2
      <4>3. Cardinality(u) = Cardinality(s) - 1
        BY <1>1, <4>1, <4>2, FS_RemoveElement
      <4>4. Cardinality(u) <= n
        BY <1>1, <4>3
      <4>5. g[u] = f[u]
        BY <2>1, <4>4
      <4> QED
        BY <3>2, <4>1, <4>5
    <3> QED
      BY <3>1, <3>2
  <2> HIDE DEF g, Upto
  <2> QED
    BY <2>2, <2>3
<1>5. Cardinality(S) \in T
  <2> HIDE DEF T
  <2>1. T \subseteq Nat
    BY DEF T
  <2> QED
    BY <1>1, <1>3, <1>4, <2>1, Ascending
<1>6. PICK f \in [SUBSET S -> P] : Upto(f, Cardinality(S))
  BY <1>5
<1> QED
  BY <1>1, <1>6 DEF Folding

\* What find computes, for all notes at once: where the parents lead to.
Roots(p, r) == r = [k \in Notes |-> IF p[k] = k THEN k ELSE r[p[k]]]
Root(p) == CHOOSE r : Roots(p, r)

\* The parents are a forest: they lead somewhere, and there only.
Forest == {p \in [Notes -> Notes] :
              \E r \in [Notes -> Notes] : /\ Roots(p, r) /\ \A q : Roots(p, q) => q = r
                                          /\ \A k \in Notes : p[r[k]] = r[k]}

LEMMA RootIs ==
    ASSUME NEW p \in Forest
    PROVE  /\ Root(p) \in [Notes -> Notes] /\ Roots(p, Root(p))
           /\ \A q : Roots(p, q) => q = Root(p)
           /\ \A k \in Notes : /\ p[Root(p)[k]] = Root(p)[k] /\ Root(p)[Root(p)[k]] = Root(p)[k]
                               /\ Root(p)[p[k]] = Root(p)[k] /\ p[k] \in Notes
                               /\ p[k] = k => Root(p)[k] = k
                               /\ find(p, k) = Root(p)[k]
<1>1. PICK r \in [Notes -> Notes] : /\ Roots(p, r) /\ \A q : Roots(p, q) => q = r
                                    /\ \A k \in Notes : p[r[k]] = r[k]
  BY DEF Forest
<1>2. Root(p) = r
  BY <1>1 DEF Root
<1>3. p \in [Notes -> Notes]
  BY DEF Forest
<1>4. \A k \in Notes : r[k] \in Notes /\ r[k] = IF p[k] = k THEN k ELSE r[p[k]]
  BY <1>1 DEF Roots
<1>5. \A k \in Notes : r[r[k]] = r[k] /\ r[p[k]] = r[k] /\ p[k] \in Notes /\ (p[k] = k => r[k] = k)
  BY <1>1, <1>3, <1>4
<1>6. \A k \in Notes : find(p, k) = Root(p)[k]
  BY DEF find, Root, Roots
<1> QED
  BY <1>1, <1>2, <1>5, <1>6

\* A union leads what had the root of b to the root of a, and leaves the rest.
LEMMA UnionIs ==
    ASSUME NEW p \in Forest, NEW a \in Notes, NEW b \in Notes
    PROVE  /\ union(p, a, b) \in Forest
           /\ \A k \in Notes : Root(union(p, a, b))[k] =
                 IF Root(p)[k] = Root(p)[b] THEN Root(p)[a] ELSE Root(p)[k]
<1>1. PICK r : r = Root(p)
  OBVIOUS
<1>2. PICK x, y : x = r[a] /\ y = r[b]
  OBVIOUS
<1>3. p \in [Notes -> Notes]
  BY DEF Forest
<1>4. /\ r \in [Notes -> Notes] /\ Roots(p, r) /\ \A q : Roots(p, q) => q = r
      /\ x \in Notes /\ y \in Notes /\ p[x] = x /\ p[y] = y /\ r[x] = x /\ r[y] = y
      /\ \A k \in Notes : /\ p[r[k]] = r[k] /\ r[r[k]] = r[k] /\ r[p[k]] = r[k] /\ p[k] \in Notes
                          /\ p[k] = k => r[k] = k
  BY <1>1, <1>2, RootIs
<1>5. PICK u : u = union(p, a, b)
  OBVIOUS
<1>6. u = [p EXCEPT ![y] = x]
  BY <1>1, <1>2, <1>5, RootIs DEF union
<1>7. u \in [Notes -> Notes] /\ u[y] = x /\ \A k \in Notes : k # y => u[k] = p[k]
  BY <1>3, <1>4, <1>6
<1> DEFINE s == [k \in Notes |-> IF r[k] = y THEN x ELSE r[k]]
<1>8. s \in [Notes -> Notes] /\ \A k \in Notes : s[k] = IF r[k] = y THEN x ELSE r[k]
  BY <1>4
<1> HIDE DEF s
<1>9. Roots(u, s)
  <2>1. ASSUME NEW k \in Notes
        PROVE  s[k] = IF u[k] = k THEN k ELSE s[u[k]]
    <3>1. CASE k = y
      BY <1>4, <1>7, <1>8, <3>1
    <3>2. CASE k # y
      BY <1>4, <1>7, <1>8, <3>2
    <3> QED
      BY <3>1, <3>2
  <2>2. s = [k \in Notes |-> s[k]]
    BY <1>8
  <2> QED
    BY <2>1, <2>2 DEF Roots
<1>10. \A k \in Notes : u[s[k]] = s[k]
  BY <1>4, <1>7, <1>8
\* Another solution would give one for the parents before the union.
<1>11. ASSUME NEW q, Roots(u, q)
       PROVE  q = s
  <2>1. \A k \in Notes : q[k] = IF u[k] = k THEN k ELSE q[u[k]]
    BY <1>11 DEF Roots
  <2>2. q = [k \in Notes |-> q[k]]
    BY <1>11 DEF Roots
  <2>3. CASE x = y
    <3>1. u = p
      BY <1>3, <1>4, <1>6, <2>3
    <3>2. q = r /\ s = r
      BY <1>4, <1>9, <1>11, <3>1
    <3> QED
      BY <3>2
  <2>4. CASE x # y
    <3>1. q[x] = x /\ q[y] = x
      BY <1>4, <1>7, <2>1, <2>4
    <3>2. \A k \in Notes : k # y => q[k] = IF p[k] = k THEN k ELSE q[p[k]]
      BY <1>7, <2>1
    <3> DEFINE f == [k \in Notes |-> IF r[k] = y THEN y ELSE q[k]]
               g == [k \in Notes |-> IF r[k] = y THEN IF q[k] = x THEN y ELSE x ELSE r[k]]
    <3>3. \A k \in Notes : f[k] = IF p[k] = k THEN k ELSE f[p[k]]
      BY <1>4, <3>2
    <3>4. \A k \in Notes : g[k] = IF p[k] = k THEN k ELSE g[p[k]]
      BY <1>4, <2>4, <3>1, <3>2
    <3>5. f = [k \in Notes |-> f[k]] /\ g = [k \in Notes |-> g[k]]
      OBVIOUS
    <3>6. f = r /\ g = r
      <4> HIDE DEF f, g
      <4>1. Roots(p, f) /\ Roots(p, g)
        BY <3>3, <3>4, <3>5 DEF Roots
      <4> QED
        BY <1>4, <4>1
    <3>7. \A k \in Notes : q[k] = s[k]
      BY <1>4, <1>8, <2>4, <3>6
    <3>8. s = [k \in Notes |-> s[k]]
      BY <1>8
    <3> QED
      BY <2>2, <3>7, <3>8
  <2> QED
    BY <2>3, <2>4
<1>12. u \in Forest
  BY <1>7, <1>8, <1>9, <1>10, <1>11 DEF Forest
<1>13. Root(u) = s
  BY <1>9, <1>12, RootIs
<1> QED
  BY <1>1, <1>2, <1>5, <1>8, <1>12, <1>13

LEMMA AloneAtFirst ==
    /\ [n \in Notes |-> n] \in Forest
    /\ \A k \in Notes : Root([n \in Notes |-> n])[k] = k
<1> DEFINE p == [n \in Notes |-> n]
<1>1. p \in [Notes -> Notes] /\ \A k \in Notes : p[k] = k
  OBVIOUS
<1>2. Roots(p, p) /\ \A q : Roots(p, q) => q = p
  BY DEF Roots
<1>3. p \in Forest
  BY <1>1, <1>2 DEF Forest
<1> QED
  BY <1>1, <1>3, RootIs

\* What groupedBySource folds, for the open commitments E among notes.
FirstWith(E, notes, o) == Min({n \in E : o \in notes[n].bindings})
Link(E, notes, n, o, p) ==
    IF FirstWith(E, notes, o) = n THEN p ELSE union(p, n, FirstWith(E, notes, o))
Alone(E, notes, S) == \A m \in S, n \in E \ S : notes[m].bindings \cap notes[n].bindings = {}

\* Notes with one root are on one side of every set of commitments that shares no binding.
Within(E, notes) == {p \in Forest : \A S \in SUBSET E : Alone(E, notes, S) =>
                      \A i, j \in Notes : Root(p)[i] = Root(p)[j] => (i \in S <=> j \in S)}

\* What p has together, q has too.
Coarser(p, q) == \A i, j \in Notes : Root(p)[i] = Root(p)[j] => Root(q)[i] = Root(q)[j]

Together(E, notes, n, o, p) == Root(p)[n] = Root(p)[FirstWith(E, notes, o)]

LEMMA NotesAreFew == Notes \subseteq Nat /\ IsFiniteSet(Notes)
<1>1. MaxNote \in Int /\ 1 \in Int
  BY ConstantsAssumption
<1> QED
  BY <1>1, FS_Interval DEF Notes

LEMMA FirstIs ==
    ASSUME NEW E, E \subseteq Notes, NEW notes, NEW n \in E, NEW o \in notes[n].bindings
    PROVE  FirstWith(E, notes, o) \in E /\ o \in notes[FirstWith(E, notes, o)].bindings
<1> DEFINE S == {m \in E : o \in notes[m].bindings}
<1>1. S \subseteq Nat /\ S # {}
  BY NotesAreFew
<1>2. IsWellFoundedOn(OpToRel(<, Nat), Nat)
  BY NatLessThanWellFounded
<1>3. PICK x \in S : \A y \in S : <<y, x>> \notin OpToRel(<, Nat)
  <2> HIDE DEF S
  <2> QED
    BY <1>1, <1>2, WFMin
<1>4. \A y \in S : x <= y
  <2> SUFFICES ASSUME NEW y \in S, ~ (x <= y)
               PROVE  FALSE
    OBVIOUS
  <2>1. x \in Nat /\ y \in Nat /\ y < x
    BY <1>1
  <2> QED
    BY <1>3, <2>1 DEF OpToRel
<1>5. Min(S) \in S
  <2> HIDE DEF S
  <2> QED
    BY <1>4 DEF Min
<1> QED
  BY <1>5 DEF FirstWith

LEMMA CoarserTwice ==
    ASSUME NEW p, NEW q, NEW r, Coarser(p, q), Coarser(q, r)
    PROVE  Coarser(p, r)
  BY DEF Coarser

LEMMA CoarserKeeps ==
    ASSUME NEW E, E \subseteq Notes, NEW notes, NEW n \in E, NEW o \in notes[n].bindings,
           NEW p, NEW q, Coarser(p, q), Together(E, notes, n, o, p)
    PROVE  Together(E, notes, n, o, q)
  BY FirstIs DEF Coarser, Together

\* One binding of one entry.
LEMMA LinkIs ==
    ASSUME NEW E, E \subseteq Notes, NEW notes, NEW n \in E, NEW o \in notes[n].bindings,
           NEW p \in Within(E, notes)
    PROVE  /\ Link(E, notes, n, o, p) \in Within(E, notes)
           /\ Coarser(p, Link(E, notes, n, o, p))
           /\ Together(E, notes, n, o, Link(E, notes, n, o, p))
<1>1. PICK m : m = FirstWith(E, notes, o)
  OBVIOUS
<1>2. m \in E /\ o \in notes[m].bindings /\ m \in Notes /\ n \in Notes
  BY <1>1, FirstIs
<1>3. p \in Forest
  BY DEF Within
<1>4. CASE m = n
  BY <1>1, <1>4 DEF Link, Coarser, Together
<1>5. CASE m # n
  <2>1. PICK q : q = union(p, n, m)
    OBVIOUS
  <2>2. Link(E, notes, n, o, p) = q
    BY <1>1, <1>5, <2>1 DEF Link
  <2>3. q \in Forest /\ \A k \in Notes : Root(q)[k] = IF Root(p)[k] = Root(p)[m]
                                                    THEN Root(p)[n] ELSE Root(p)[k]
    <3>1. union(p, n, m) \in Forest /\ \A k \in Notes : Root(union(p, n, m))[k] =
             IF Root(p)[k] = Root(p)[m] THEN Root(p)[n] ELSE Root(p)[k]
      BY <1>2, <1>3, UnionIs
    <3> QED
      BY <2>1, <3>1
  <2>4. Coarser(p, q)
    BY <2>3 DEF Coarser
  <2>5. Together(E, notes, n, o, q)
    BY <1>1, <1>2, <2>3 DEF Together
  <2>6. ASSUME NEW S \in SUBSET E, Alone(E, notes, S), NEW i \in Notes, NEW j \in Notes,
               Root(q)[i] = Root(q)[j]
        PROVE  i \in S <=> j \in S
    <3>1. \A k, l \in Notes : Root(p)[k] = Root(p)[l] => (k \in S <=> l \in S)
      BY <2>6 DEF Within
    <3>2. n \in S <=> m \in S
      BY <1>2, <2>6 DEF Alone
    <3> QED
      BY <1>2, <2>3, <2>6, <3>1, <3>2
  <2> QED
    BY <2>2, <2>3, <2>4, <2>5, <2>6 DEF Within
<1> QED
  BY <1>4, <1>5

\* All bindings of one entry, in any order.
Unite(E, notes, n, p) ==
    FoldSet(LAMBDA o, q : IF FirstWith(E, notes, o) = n
                          THEN q ELSE union(q, n, FirstWith(E, notes, o)), p, notes[n].bindings)

LEMMA UniteIs ==
    ASSUME NEW E, E \subseteq Notes, NEW notes, NEW n \in E, IsFiniteSet(notes[n].bindings),
           NEW p \in Within(E, notes)
    PROVE  /\ Unite(E, notes, n, p) \in Within(E, notes) /\ Coarser(p, Unite(E, notes, n, p))
           /\ \A o \in notes[n].bindings : Together(E, notes, n, o, Unite(E, notes, n, p))
<1>1. PICK S : S = notes[n].bindings
  OBVIOUS
<1> DEFINE P == Within(E, notes)
           c == [s \in SUBSET S |-> CHOOSE x \in s : TRUE]
           step == [x \in S \X P |-> Link(E, notes, n, x[1], x[2])]
           Folds(f) == f = [s \in SUBSET S |-> IF s = {} THEN p
                               ELSE LET x == CHOOSE y \in s : TRUE
                                    IN  Link(E, notes, n, x, f[s \ {x}])]
<1>2. \A o \in S, q \in P : Link(E, notes, n, o, q) \in P
  BY <1>1, LinkIs
<1>3. \A s \in SUBSET S : c[s] = (CHOOSE x \in s : TRUE) /\ (s # {} => c[s] \in s)
  OBVIOUS
<1>4. step \in [S \X P -> P] /\ \A o \in S, q \in P : step[<<o, q>>] = Link(E, notes, n, o, q)
  <2> HIDE DEF P
  <2> QED
    BY <1>2
<1>5. IsFiniteSet(S) /\ p \in P
  BY <1>1
<1>6. \E f : Folds(f)
  <2> HIDE DEF c, step, P
  <2>1. PICK f \in [SUBSET S -> P] : \A s \in SUBSET S :
           f[s] = IF s = {} THEN p ELSE step[<<c[s], f[s \ {c[s]}]>>]
    <3>1. PICK d, e, Q : d = c /\ e = step /\ Q = P
      OBVIOUS
    <3>2. \A s \in SUBSET S : s # {} => d[s] \in s
      BY <1>3, <3>1
    <3>3. e \in [S \X Q -> Q] /\ p \in Q
      BY <1>4, <1>5, <3>1
    <3>4. PICK f : Folding(S, Q, p, d, e, f)
      BY <1>5, <3>2, <3>3, FoldIs
    <3> QED
      BY <3>1, <3>4 DEF Folding
  <2>2. ASSUME NEW s \in SUBSET S, s # {}
        PROVE  f[s] = Link(E, notes, n, CHOOSE x \in s : TRUE, f[s \ {CHOOSE x \in s : TRUE}])
    <3>1. PICK x : x = c[s]
      OBVIOUS
    <3>2. x \in S /\ f[s \ {x}] \in P /\ x = CHOOSE y \in s : TRUE
      BY <1>3, <2>2, <3>1
    <3>3. f[s] = Link(E, notes, n, x, f[s \ {x}])
      BY <1>4, <2>1, <2>2, <3>1, <3>2
    <3> QED
      BY <3>2, <3>3
  <2>3. f = [s \in SUBSET S |-> f[s]]
    OBVIOUS
  <2>4. Folds(f)
    BY <2>1, <2>2, <2>3
  <2> QED
    BY <2>4
<1> DEFINE iter == CHOOSE f : Folds(f)
<1>7. Unite(E, notes, n, p) = iter[S]
  BY <1>1 DEF Unite, FoldSet, MapThenFoldSet, Link
<1>8. Folds(iter)
  <2> HIDE DEF Folds
  <2> QED
    BY <1>6
<1> HIDE DEF iter
<1> DEFINE Good(s) == /\ iter[s] \in P /\ Coarser(p, iter[s])
                      /\ \A o \in s : Together(E, notes, n, o, iter[s])
           T == {s \in SUBSET S : Good(s)}
<1>9. ASSUME NEW s \in SUBSET S, \A u \in SUBSET s : u # s => u \in T
      PROVE  s \in T
  <2>1. CASE s = {}
    <3>1. iter[s] = p
      BY <1>8, <2>1
    <3> QED
      BY <1>5, <2>1, <3>1 DEF Coarser
  <2>2. CASE s # {}
    <3>1. PICK x : x = CHOOSE y \in s : TRUE
      OBVIOUS
    <3>2. x \in s
      BY <2>2, <3>1
    <3>3. PICK u \in SUBSET s : u = s \ {x}
      OBVIOUS
    <3>4. Good(u)
      BY <1>9, <3>2, <3>3
    <3>5. iter[s] = Link(E, notes, n, x, iter[u])
      BY <1>8, <2>2, <3>1, <3>3
    <3> HIDE DEF P
    <3>6. PICK q \in P : q = iter[u] /\ Coarser(p, q) /\ \A o \in u : Together(E, notes, n, o, q)
      BY <3>4
    <3>7. PICK r : r = iter[s]
      OBVIOUS
    <3>8. r \in P /\ Coarser(q, r) /\ Together(E, notes, n, x, r)
      BY <1>1, <3>2, <3>5, <3>6, <3>7, LinkIs DEF P
    <3>9. Coarser(p, r)
      BY <3>6, <3>8, CoarserTwice
    <3>10. \A o \in u : Together(E, notes, n, o, r)
      BY <1>1, <3>6, <3>8, CoarserKeeps
    <3>11. \A o \in s : Together(E, notes, n, o, r)
      BY <3>3, <3>8, <3>10
    <3> QED
      BY <3>7, <3>8, <3>9, <3>11
  <2> QED
    BY <2>1, <2>2
<1>10. S \in T
  <2> HIDE DEF T
  <2>1. T \subseteq SUBSET S
    BY DEF T
  <2> QED
    BY <1>5, <1>9, <2>1, SubsetsAscend
<1> QED
  BY <1>1, <1>7, <1>10

\* All entries, in the order of their paths.
Parents(E, notes) ==
    MapThenFoldSet(LAMBDA n, p : Unite(E, notes, n, p), [n \in Notes |-> n], LAMBDA n : n,
                   LAMBDA s : Max(s), E)

LEMMA ParentsAre ==
    ASSUME NEW E, E \subseteq Notes, NEW notes, \A n \in E : IsFiniteSet(notes[n].bindings)
    PROVE  /\ Parents(E, notes) \in Within(E, notes)
           /\ \A n \in E : \A o \in notes[n].bindings : Together(E, notes, n, o, Parents(E, notes))
<1> DEFINE P == Within(E, notes)
           c == [s \in SUBSET E |-> Max(s)]
           base == [n \in Notes |-> n]
           step == [x \in E \X P |-> Unite(E, notes, x[1], x[2])]
           Folds(f) == f = [s \in SUBSET E |-> IF s = {} THEN base
                               ELSE LET x == Max(s) IN Unite(E, notes, x, f[s \ {x}])]
<1>1. IsFiniteSet(E) /\ E \subseteq Nat
  BY NotesAreFew, FS_Subset
<1>2. \A n \in E, q \in P : Unite(E, notes, n, q) \in P
  BY UniteIs
<1>3. \A s \in SUBSET E : s # {} => Max(s) \in s
  <2> SUFFICES ASSUME NEW s \in SUBSET E, s # {}
               PROVE  Max(s) \in s
    OBVIOUS
  <2>1. IsFiniteSet(s) /\ s \subseteq Nat
    BY <1>1, FS_Subset
  <2> QED
    BY <2>1, LargestIs
<1>4. \A s \in SUBSET E : c[s] = Max(s) /\ (s # {} => c[s] \in s)
  BY <1>3
<1>5. step \in [E \X P -> P] /\ \A n \in E, q \in P : step[<<n, q>>] = Unite(E, notes, n, q)
  <2> HIDE DEF P
  <2> QED
    BY <1>2
<1>6. base \in P
  BY AloneAtFirst DEF Within
<1>7. \E f : Folds(f)
  <2> HIDE DEF c, step, P, base
  <2>1. PICK f \in [SUBSET E -> P] : \A s \in SUBSET E :
           f[s] = IF s = {} THEN base ELSE step[<<c[s], f[s \ {c[s]}]>>]
    <3>1. PICK d, e, Q, b : d = c /\ e = step /\ Q = P /\ b = base
      OBVIOUS
    <3>2. \A s \in SUBSET E : s # {} => d[s] \in s
      BY <1>4, <3>1
    <3>3. e \in [E \X Q -> Q] /\ b \in Q
      BY <1>5, <1>6, <3>1
    <3>4. PICK f : Folding(E, Q, b, d, e, f)
      BY <1>1, <3>2, <3>3, FoldIs
    <3> QED
      BY <3>1, <3>4 DEF Folding
  <2>2. ASSUME NEW s \in SUBSET E, s # {}
        PROVE  f[s] = Unite(E, notes, Max(s), f[s \ {Max(s)}])
    <3>1. PICK x : x = c[s]
      OBVIOUS
    <3>2. x \in E /\ f[s \ {x}] \in P /\ x = Max(s)
      BY <1>4, <2>2, <3>1
    <3>3. f[s] = Unite(E, notes, x, f[s \ {x}])
      BY <1>5, <2>1, <2>2, <3>1, <3>2
    <3> QED
      BY <3>2, <3>3
  <2>3. f = [s \in SUBSET E |-> f[s]]
    OBVIOUS
  <2>4. Folds(f)
    BY <2>1, <2>2, <2>3
  <2> QED
    BY <2>4
<1> DEFINE iter == CHOOSE f : Folds(f)
<1>8. Parents(E, notes) = iter[E]
  BY DEF Parents, MapThenFoldSet
<1>9. Folds(iter)
  <2> HIDE DEF Folds
  <2> QED
    BY <1>7
<1> HIDE DEF iter
<1> DEFINE Good(s) == /\ iter[s] \in P
                      /\ \A n \in s : \A o \in notes[n].bindings : Together(E, notes, n, o, iter[s])
           T == {s \in SUBSET E : Good(s)}
<1>10. ASSUME NEW s \in SUBSET E, \A u \in SUBSET s : u # s => u \in T
       PROVE  s \in T
  <2>1. CASE s = {}
    <3>1. iter[s] = base
      BY <1>9, <2>1
    <3> QED
      BY <1>6, <2>1, <3>1
  <2>2. CASE s # {}
    <3>1. PICK x : x = Max(s)
      OBVIOUS
    <3>2. x \in s /\ x \in E
      BY <1>3, <2>2, <3>1
    <3>3. PICK u \in SUBSET s : u = s \ {x}
      OBVIOUS
    <3>4. Good(u)
      BY <1>10, <3>2, <3>3
    <3>5. iter[s] = Unite(E, notes, x, iter[u])
      BY <1>9, <2>2, <3>1, <3>3
    <3> HIDE DEF P
    <3>6. PICK q \in P :
             q = iter[u] /\ \A n \in u : \A o \in notes[n].bindings : Together(E, notes, n, o, q)
      BY <3>4
    <3>7. PICK r : r = iter[s]
      OBVIOUS
    <3>8. r \in P /\ Coarser(q, r) /\ \A o \in notes[x].bindings : Together(E, notes, x, o, r)
      <4>1. q \in Within(E, notes) /\ IsFiniteSet(notes[x].bindings)
        BY <3>2, <3>6 DEF P
      <4>2. r = Unite(E, notes, x, q)
        BY <3>5, <3>6, <3>7
      <4> QED
        BY <3>2, <4>1, <4>2, UniteIs DEF P
    <3>9. \A n \in u : \A o \in notes[n].bindings : Together(E, notes, n, o, r)
      BY <3>6, <3>8, CoarserKeeps
    <3>10. \A n \in s : \A o \in notes[n].bindings : Together(E, notes, n, o, r)
      BY <3>3, <3>8, <3>9
    <3> QED
      BY <3>7, <3>8, <3>10
  <2> QED
    BY <2>1, <2>2
<1>11. E \in T
  <2> HIDE DEF T
  <2>1. T \subseteq SUBSET E
    BY DEF T
  <2>2. \A s \in SUBSET E : (\A u \in SUBSET s : u # s => u \in T) => s \in T
    BY <1>10
  <2>3. \A s \in SUBSET E : s \in T
    BY <1>1, <2>1, <2>2, SubsetsAscend
  <2> QED
    BY <2>3
<1> QED
  BY <1>8, <1>11

\* A group is a component: it shares no binding, and every such set that has one of it has it all.
LEMMA GroupIs ==
    ASSUME NEW E, E \subseteq Notes, NEW notes, NEW p \in Within(E, notes), NEW n \in E,
           \A m \in E : \A o \in notes[m].bindings : Together(E, notes, m, o, p)
    PROVE  {m \in E : Root(p)[m] = Root(p)[n]}
               = {m \in E : \A S \in SUBSET E : n \in S /\ Alone(E, notes, S) => m \in S}
<1> DEFINE G == {m \in E : Root(p)[m] = Root(p)[n]}
<1>1. Alone(E, notes, G)
  <2> SUFFICES ASSUME NEW m \in G, NEW k \in E \ G,
                      NEW o \in notes[m].bindings \cap notes[k].bindings
               PROVE  FALSE
    BY DEF Alone
  <2>1. Together(E, notes, m, o, p) /\ Together(E, notes, k, o, p)
    OBVIOUS
  <2> QED
    BY <2>1 DEF Together
<1>2. n \in G /\ G \in SUBSET E
  OBVIOUS
<1>3. ASSUME NEW m \in G, NEW S \in SUBSET E, n \in S, Alone(E, notes, S)
      PROVE  m \in S
  BY <1>3 DEF Within
<1> QED
  BY <1>1, <1>2, <1>3

LEMMA GroupedIs ==
    ASSUME NEW E, E \subseteq Notes, NEW notes, \A n \in E : IsFiniteSet(notes[n].bindings)
    PROVE  groupedBySource(E, notes)
             = {{m \in E : \A S \in SUBSET E : n \in S /\ Alone(E, notes, S) => m \in S} : n \in E}
<1>1. PICK p : p = Parents(E, notes)
  OBVIOUS
<1>2. groupedBySource(E, notes) = {{m \in E : find(p, m) = r} : r \in {find(p, n) : n \in E}}
  BY <1>1 DEF groupedBySource, Parents, Unite, FirstWith, FoldSet, MapThenFoldSet
<1>3. /\ p \in Within(E, notes)
      /\ \A n \in E : \A o \in notes[n].bindings : Together(E, notes, n, o, p)
  BY <1>1, ParentsAre
<1>4. p \in Forest /\ \A k \in E : find(p, k) = Root(p)[k]
  BY <1>3, RootIs DEF Within
<1>5. groupedBySource(E, notes) = {{m \in E : Root(p)[m] = r} : r \in {Root(p)[n] : n \in E}}
  BY <1>2, <1>4
<1>6. groupedBySource(E, notes) = {{m \in E : Root(p)[m] = Root(p)[n]} : n \in E}
  BY <1>5
<1>7. \A n \in E : {m \in E : Root(p)[m] = Root(p)[n]}
                     = {m \in E : \A S \in SUBSET E : n \in S /\ Alone(E, notes, S) => m \in S}
  BY <1>3, GroupIs
<1> QED
  BY <1>6, <1>7

\* What the deduplication shows as one aggregate are the commitments that are connected by
\* bindings, and only these, whatever they are bound to and whichever program has changed them.
\* The groups come from groupedBySource, which unites the entries of a binding one by one.
THEOREM GroupsAreComponents ==
    ASSUME GtdSane, IsFiniteSet(Objects)
    PROVE  Spec => []AggregatesAreComponents
<1>1. ASSUME TypeOK
      PROVE  AggregatesAreComponents
  <2> DEFINE E == openCommitments(note)
  <2>1. E \subseteq Notes
    BY <1>1, SettingTyped DEF openCommitments
  <2>2. \A n \in E : IsFiniteSet(note[n].bindings)
    <3>1. \A n \in Notes : note[n].bindings \in SUBSET Objects
      BY <1>1 DEF TypeOK, Commitments
    <3> QED
      BY <2>1, <3>1, FS_Subset
  <2>3. groupedBySource(E, note)
           = {{m \in E : \A S \in SUBSET E : n \in S /\ Alone(E, note, S) => m \in S} : n \in E}
    <3> HIDE DEF E
    <3> QED
      BY <2>1, <2>2, GroupedIs
  <2> QED
    BY <2>3 DEF AggregatesAreComponents, Alone
<1>2. Spec => []TypeOK
  BY GtdTyped
<1> QED
  BY <1>1, <1>2, PTL

---------------------------------------------------------------------------
(* The paths of notes, and the ways from one to another.                       *)

\* Prefixes by their elements.
LEMMA PrefixElements ==
    ASSUME NEW S, NEW s \in Seq(S), NEW t \in Seq(S)
    PROVE  Moves!IsPrefix(s, t) <=> Len(s) <= Len(t) /\ \A i \in 1 .. Len(s) : s[i] = t[i]
<1>1. Len(s) \in Nat /\ Len(t) \in Nat
  OBVIOUS
<1>2. ASSUME Len(s) <= Len(t)
      PROVE  /\ SubSeq(t, 1, Len(s)) \in Seq(S) /\ Len(SubSeq(t, 1, Len(s))) = Len(s)
             /\ \A i \in 1 .. Len(s) : SubSeq(t, 1, Len(s))[i] = t[i]
  <2>1. \A i \in 1 .. Len(s) : t[i] \in S
    BY <1>1, <1>2, ElementOfSeq
  <2> QED
    BY <1>1, <2>1, SubSeqProperties
<1>3. SubSeq(s, 1, Len(s)) = s
  BY SubSeqFull
<1>4. ASSUME Len(s) <= Len(t), \A i \in 1 .. Len(s) : s[i] = t[i]
      PROVE  SubSeq(t, 1, Len(s)) = s
  BY <1>2, <1>4, SeqEqual
<1> QED
  BY <1>1, <1>2, <1>3, <1>4 DEF Moves!IsPrefix

LEMMA PrefixOf ==
    ASSUME NEW S, NEW s \in Seq(S), NEW u \in Seq(S)
    PROVE  /\ Moves!IsPrefix(s, s \o u) /\ s \o u \in Seq(S) /\ Len(s \o u) = Len(s) + Len(u)
           /\ SubSeq(s \o u, 1, Len(s)) = s /\ SubSeq(s \o u, Len(s) + 1, Len(s \o u)) = u
<1>1. s \o u \in Seq(S) /\ Len(s \o u) = Len(s) + Len(u) /\ Len(s) \in Nat /\ Len(u) \in Nat
  BY ConcatProperties
<1>2. SubSeq(s \o u, 1, Len(s)) = s
  <2>1. CASE Len(s) = 0
    BY <2>1, SubSeqEmpty, EmptySeq
  <2>2. CASE Len(s) # 0
    BY <1>1, <2>2, SubSeqOfConcat1, SubSeqFull
  <2> QED
    BY <2>1, <2>2
<1>3. SubSeq(s \o u, Len(s) + 1, Len(s \o u)) = u
  <2>1. CASE Len(u) = 0
    BY <1>1, <2>1, SubSeqEmpty, EmptySeq
  <2>2. CASE Len(u) # 0
    <3>1. SubSeq(s \o u, Len(s) + 1, Len(s) + Len(u)) = SubSeq(u, 1, Len(u))
      BY <1>1, <2>2, SubSeqOfConcat2
    <3> QED
      BY <1>1, <3>1, SubSeqFull
  <2> QED
    BY <2>1, <2>2
<1>4. SubSeq(s, 1, Len(s)) = s
  BY SubSeqFull
<1> QED
  BY <1>1, <1>2, <1>3, <1>4 DEF Moves!IsPrefix

\* A prefix and the rest of a sequence.
LEMMA Prefixed ==
    ASSUME NEW S, NEW s \in Seq(S), NEW t \in Seq(S), Moves!IsPrefix(s, t)
    PROVE  /\ SubSeq(t, Len(s) + 1, Len(t)) \in Seq(S)
           /\ t = s \o SubSeq(t, Len(s) + 1, Len(t))
<1>1. Len(s) \in Nat /\ Len(t) \in Nat /\ Len(s) <= Len(t)
  BY DEF Moves!IsPrefix
<1>2. SubSeq(t, 1, Len(s)) = s
  BY SubSeqFull DEF Moves!IsPrefix
<1>3. SubSeq(t, 1, Len(s)) \o SubSeq(t, Len(s) + 1, Len(t)) = SubSeq(t, 1, Len(t))
  <2>1. 1 \in 1 .. Len(t) + 1 /\ Len(s) \in 1 - 1 .. Len(t) /\ Len(t) \in Len(s) .. Len(t)
    BY <1>1
  <2> QED
    BY <2>1, ConcatAdjacentSubSeq
<1>4. SubSeq(t, 1, Len(t)) = t
  BY SubSeqFull
<1>5. SubSeq(t, Len(s) + 1, Len(t)) \in Seq(S)
  <2>1. \A i \in Len(s) + 1 .. Len(t) : t[i] \in S
    BY <1>1, ElementOfSeq
  <2> QED
    BY <1>1, <2>1, SubSeqProperties
<1> QED
  BY <1>2, <1>3, <1>4, <1>5

\* A prefix that is at least as long as the first part of a sequence.
LEMMA PrefixBeyond ==
    ASSUME NEW S, NEW c \in Seq(S), NEW f \in Seq(S), NEW u \in Seq(S),
           Moves!IsPrefix(c, f \o u), Len(f) <= Len(c)
    PROVE  \E w \in Seq(S) : c = f \o w /\ Moves!IsPrefix(w, u)
<1>1. /\ f \o u \in Seq(S) /\ Len(f \o u) = Len(f) + Len(u)
      /\ \A i \in 1 .. Len(f) + Len(u) : (f \o u)[i] = IF i <= Len(f) THEN f[i] ELSE u[i - Len(f)]
      /\ Len(f) \in Nat /\ Len(u) \in Nat /\ Len(c) \in Nat
  BY ConcatProperties
<1>2. Len(c) <= Len(f) + Len(u) /\ \A i \in 1 .. Len(c) : c[i] = (f \o u)[i]
  BY <1>1, PrefixElements
<1>3. Moves!IsPrefix(f, c)
  <2>1. \A i \in 1 .. Len(f) : f[i] = c[i]
    BY <1>1, <1>2
  <2> QED
    BY <2>1, PrefixElements
<1>4. PICK w \in Seq(S) : c = f \o w
  <2>1. SubSeq(c, Len(f) + 1, Len(c)) \in Seq(S) /\ c = f \o SubSeq(c, Len(f) + 1, Len(c))
    BY <1>3, Prefixed
  <2> QED
    BY <2>1
<1>5. /\ Len(w) \in Nat /\ Len(c) = Len(f) + Len(w)
      /\ \A i \in 1 .. Len(f) + Len(w) : c[i] = IF i <= Len(f) THEN f[i] ELSE w[i - Len(f)]
  BY <1>4, ConcatProperties
<1>6. \A i \in 1 .. Len(w) : w[i] = u[i]
  <2> SUFFICES ASSUME NEW i \in 1 .. Len(w)
               PROVE  w[i] = u[i]
    OBVIOUS
  <2>1. \A k, m, n \in Nat : k \in 1 .. m => k + n \in 1 .. n + m /\ ~ (k + n <= n) /\ (k + n) - n = k
    OBVIOUS
  <2>2. i \in Nat
    OBVIOUS
  <2>3. PICK j \in 1 .. Len(c) : j = i + Len(f) /\ ~ (j <= Len(f)) /\ j - Len(f) = i
    BY <1>1, <1>5, <2>1, <2>2
  <2>4. j \in 1 .. Len(f) + Len(u)
    BY <1>1, <1>2, <2>3
  <2>5. c[j] = w[i]
    BY <1>5, <2>3
  <2>6. c[j] = u[i]
    BY <1>1, <1>2, <2>3, <2>4
  <2> QED
    BY <2>5, <2>6
<1>7. Moves!IsPrefix(w, u)
  BY <1>1, <1>2, <1>5, <1>6, PrefixElements
<1> QED
  BY <1>4, <1>7

LEMMA FrontIs ==
    ASSUME NEW S, NEW s \in Seq(S), s # <<>>
    PROVE  /\ Moves!Front(s) \in Seq(S) /\ s[Len(s)] \in S /\ Len(s) \in Nat \ {0}
           /\ Len(Moves!Front(s)) = Len(s) - 1
           /\ s = Moves!Front(s) \o <<s[Len(s)]>>
<1>1. Len(s) \in Nat /\ Len(s) > 0
  BY EmptySeq
<1>2. s[Len(s)] \in S
  BY <1>1, ElementOfSeq
<1>3. \A i \in 1 .. Len(s) - 1 : s[i] \in S
  BY <1>1, ElementOfSeq
<1>4. SubSeq(s, 1, Len(s) - 1) \in Seq(S) /\ Len(SubSeq(s, 1, Len(s) - 1)) = Len(s) - 1
  <2>1. PICK n \in Nat : n = Len(s) - 1
    BY <1>1
  <2>2. 1 \in Int /\ n \in Int /\ \A i \in 1 .. n : s[i] \in S
    BY <1>3, <2>1
  <2>3. SubSeq(s, 1, n) \in Seq(S) /\ Len(SubSeq(s, 1, n)) = IF 1 <= n THEN n - 1 + 1 ELSE 0
    BY <2>2, SubSeqProperties
  <2>4. (IF 1 <= n THEN n - 1 + 1 ELSE 0) = n
    BY <2>1
  <2> QED
    BY <2>1, <2>3, <2>4
<1>5. SubSeq(s, 1, Len(s)) = SubSeq(s, 1, Len(s) - 1) \o <<s[Len(s)]>>
  BY <1>1, SubSeqRecursiveSecond
<1>6. SubSeq(s, 1, Len(s)) = s
  BY SubSeqFull
<1>7. Moves!Front(s) = SubSeq(s, 1, Len(s) - 1)
  BY DEF Moves!Front
<1>8. PICK g : g = SubSeq(s, 1, Len(s) - 1)
  OBVIOUS
<1>9. g \in Seq(S) /\ Len(g) = Len(s) - 1
  BY <1>4, <1>8
<1>10. s = g \o <<s[Len(s)]>>
  BY <1>5, <1>6, <1>8
<1>11. Moves!Front(s) = g
  BY <1>7, <1>8
<1> QED
  BY <1>1, <1>2, <1>9, <1>10, <1>11

LEMMA FrontOf ==
    ASSUME NEW S, NEW f \in Seq(S), NEW s \in Seq(S), s # <<>>
    PROVE  Moves!Front(f \o s) = f \o Moves!Front(s) /\ f \o s # <<>>
<1>1. PICK g, x : g = Moves!Front(s) /\ x = s[Len(s)]
  OBVIOUS
<1>8. g \in Seq(S) /\ x \in S /\ s = g \o <<x>>
  BY <1>1, FrontIs
<1>2. <<x>> \in Seq(S) /\ Len(<<x>>) = 1
  BY <1>8
<1>3. f \o s = (f \o g) \o <<x>> /\ f \o g \in Seq(S)
  BY <1>2, <1>8, ConcatAssociative, ConcatProperties
<1>4. SubSeq((f \o g) \o <<x>>, 1, Len(f \o g)) = f \o g
  <2>1. PICK h, k : h = f \o g /\ k = <<x>>
    OBVIOUS
  <2>2. h \in Seq(S) /\ k \in Seq(S)
    BY <1>2, <1>3, <2>1
  <2>3. SubSeq(h \o k, 1, Len(h)) = h
    BY <2>2, PrefixOf
  <2> QED
    BY <2>1, <2>3
<1>5. Len(f \o s) = Len(f \o g) + 1 /\ Len(f \o g) \in Nat
  BY <1>2, <1>3, ConcatProperties
<1>6. Moves!Front(f \o s) = f \o g
  BY <1>3, <1>4, <1>5 DEF Moves!Front
<1>7. f \o s # <<>>
  BY <1>5
<1> QED
  BY <1>1, <1>6, <1>7

LEMMA Joined ==
    ASSUME NEW S, NEW r \in Seq(S), NEW s \in Seq(S), NEW t \in Seq(S)
    PROVE  (r \o s) \o t = r \o (s \o t) /\ s \o t \in Seq(S) /\ r \o s \in Seq(S)
  BY ConcatAssociative, ConcatProperties

LEMMA Regrouped ==
    ASSUME NEW S, NEW f \in Seq(S), NEW w \in Seq(S), NEW z \in Seq(S)
    PROVE  \A v, c : v = w \o z /\ c = f \o w => f \o v = c \o z
  BY Joined

LEMMA FrontRest ==
    ASSUME NEW S, NEW w \in Seq(S), NEW v \in Seq(S), v # <<>>, Moves!IsPrefix(w, Moves!Front(v))
    PROVE  \E z \in Seq(S) : v = w \o z
<1>1. PICK h, x, k, y :
         h = Moves!Front(v) /\ x = v[Len(v)] /\ k = SubSeq(h, Len(w) + 1, Len(h)) /\ y = <<x>>
  OBVIOUS
<1>2. h \in Seq(S) /\ x \in S /\ v = h \o y
  BY <1>1, FrontIs
<1>3. k \in Seq(S) /\ h = w \o k
  BY <1>1, <1>2, Prefixed
<1>4. y \in Seq(S)
  BY <1>1, <1>2
<1>5. v = w \o (k \o y) /\ k \o y \in Seq(S)
  BY <1>2, <1>3, <1>4, Joined
<1> QED
  BY <1>5

LEMMA CommonIs ==
    ASSUME NEW S, NEW a \in Seq(S), NEW b \in Seq(S), NEW c,
           c = Moves!LongestCommonPrefix({a, b})
    PROVE  /\ c \in Seq(S) /\ Moves!IsPrefix(c, a) /\ Moves!IsPrefix(c, b)
           /\ \A d \in Seq(S) : Moves!IsPrefix(d, a) /\ Moves!IsPrefix(d, b) => Len(d) <= Len(c)
<1>1. PICK C : C = Moves!CommonPrefixes({a, b})
  OBVIOUS
<1>2. \A x : x \in C <=> /\ Moves!IsPrefix(x, a) /\ Moves!IsPrefix(x, b)
                         /\ x \in Moves!Prefixes(a) \cup Moves!Prefixes(b)
  BY <1>1 DEF Moves!CommonPrefixes
<1>3. ASSUME NEW s \in Seq(S), NEW x \in Moves!Prefixes(s)
      PROVE  x \in Seq(S)
  <2>1. PICK n \in 0 .. Len(s) : x = SubSeq(s, 1, n)
    BY DEF Moves!Prefixes
  <2>2. Len(s) \in Nat /\ n \in Int /\ 1 \in Int
    OBVIOUS
  <2>3. \A i \in 1 .. n : s[i] \in S
    BY <2>2, ElementOfSeq
  <2>4. SubSeq(s, 1, n) \in Seq(S)
    BY <2>2, <2>3, SubSeqProperties
  <2> QED
    BY <2>1, <2>4
<1>4. \A x \in C : x \in Seq(S) /\ Len(x) \in 0 .. Len(a)
  <2> SUFFICES ASSUME NEW x \in C
               PROVE  x \in Seq(S) /\ Len(x) \in 0 .. Len(a)
    OBVIOUS
  <2>1. x \in Seq(S)
    BY <1>2, <1>3
  <2>2. Len(x) <= Len(a)
    BY <1>2 DEF Moves!IsPrefix
  <2> QED
    BY <2>1, <2>2
<1>5. ASSUME NEW d \in Seq(S), Moves!IsPrefix(d, a), Moves!IsPrefix(d, b)
      PROVE  d \in C
  <2>1. Len(d) \in Nat /\ Len(a) \in Nat /\ Len(d) <= Len(a)
    BY <1>5 DEF Moves!IsPrefix
  <2>2. Len(d) \in 0 .. Len(a)
    BY <2>1
  <2>3. d = SubSeq(a, 1, Len(d))
    BY <1>5, SubSeqFull DEF Moves!IsPrefix
  <2>4. d \in Moves!Prefixes(a)
    BY <2>2, <2>3 DEF Moves!Prefixes
  <2> QED
    BY <1>2, <1>5, <2>4
<1>6. <<>> \in C
  <2>1. <<>> \in Seq(S) /\ Len(<<>>) = 0
    BY EmptySeq
  <2>2. PICK e \in Seq(S) : e = <<>> /\ Len(e) = 0
    BY <2>1
  <2>3. Len(a) \in Nat /\ Len(b) \in Nat /\ \A i \in 1 .. Len(e) : FALSE
    BY <2>2
  <2>4. Moves!IsPrefix(e, a) /\ Moves!IsPrefix(e, b)
    <3>1. \A s \in Seq(S) : Len(e) <= Len(s) => Moves!IsPrefix(e, s)
      BY <2>2, <2>3, PrefixElements
    <3> QED
      BY <2>2, <2>3, <3>1
  <2> QED
    BY <1>5, <2>2, <2>4
<1>7. PICK L : L = {Len(x) : x \in C}
  OBVIOUS
<1>8. IsFiniteSet(L) /\ L \subseteq Nat /\ L # {}
  <2>1. L \subseteq 0 .. Len(a) /\ L # {}
    BY <1>4, <1>6, <1>7
  <2>2. Len(a) \in Int /\ 0 \in Int
    OBVIOUS
  <2>3. IsFiniteSet(0 .. Len(a))
    BY <2>2, FS_Interval
  <2>4. IsFiniteSet(L)
    BY <2>1, <2>3, FS_Subset
  <2> QED
    BY <2>1, <2>4
<1>9. PICK k \in L : \A m \in L : m <= k
  BY <1>8, LargestIs
<1>10. \E x \in C : \A y \in C : Len(y) <= Len(x)
  BY <1>7, <1>9
<1>11. c = CHOOSE x \in C : \A y \in C : Len(y) <= Len(x)
  BY <1>1 DEF Moves!LongestCommonPrefix
<1>12. c \in C /\ \A y \in C : Len(y) <= Len(c)
  BY <1>10, <1>11
<1> QED
  BY <1>2, <1>4, <1>5, <1>12

\* The way from a note to another leads there.
Way(p, q) == Moves!Rel(Moves!Front(p), q)

LEMMA WayLeads ==
    ASSUME NEW S, NEW p \in Seq(S), p # <<>>, NEW q \in Seq(S), q # <<>>
    PROVE  /\ Moves!Target(p, Way(p, q)) = q
           /\ Way(p, q).kind = "markdown" /\ Way(p, q).up \in Nat /\ Way(p, q).path \in Seq(S)
           /\ Way(p, q) = [kind |-> "markdown", up |-> Way(p, q).up, path |-> Way(p, q).path]
<1>1. PICK d, e, c : d = Moves!Front(p) /\ e = Moves!Front(q) /\ c = Moves!LongestCommonPrefix({d, e})
  OBVIOUS
<1>2. d \in Seq(S) /\ e \in Seq(S) /\ Len(e) = Len(q) - 1
  BY <1>1, FrontIs
<1>3. c \in Seq(S) /\ Moves!IsPrefix(c, d) /\ Moves!IsPrefix(c, e)
  BY <1>1, <1>2, CommonIs
<1>4. PICK w \in Seq(S) : q = c \o w /\ w = SubSeq(q, Len(c) + 1, Len(q))
  <2>1. Moves!IsPrefix(c, Moves!Front(q))
    BY <1>1, <1>3
  <2>3. c \in Seq(S)
    BY <1>3
  <2>4. PICK w \in Seq(S) : q = c \o w
    BY <2>1, <2>3, FrontRest
  <2>2. SubSeq(c \o w, Len(c) + 1, Len(c \o w)) = w
    BY <1>3, PrefixOf
  <2> QED
    BY <2>2, <2>4
<1>5. PICK l : l = Way(p, q)
  OBVIOUS
<1>6. l = [kind |-> "markdown", up |-> Len(d) - Len(c), path |-> w]
  BY <1>1, <1>4, <1>5 DEF Way, Moves!Rel
<1>7. Len(d) \in Nat /\ Len(c) \in Nat /\ Len(c) <= Len(d)
  BY <1>2, <1>3 DEF Moves!IsPrefix
<1>8. SubSeq(d, 1, Len(c)) = c
  BY <1>3, SubSeqFull DEF Moves!IsPrefix
<1>9. l.kind = "markdown" /\ l.up = Len(d) - Len(c) /\ l.path = w
  BY <1>6
<1>10. l.up \in Nat /\ ~ (l.up > Len(d)) /\ Len(d) - l.up = Len(c)
  BY <1>7, <1>9
<1>11. Moves!Target(p, l) = SubSeq(d, 1, Len(d) - l.up) \o l.path
  BY <1>1, <1>9, <1>10 DEF Moves!Target
<1>12. Moves!Target(p, l) = q
  BY <1>4, <1>8, <1>9, <1>10, <1>11
<1> QED
  BY <1>5, <1>6, <1>9, <1>10, <1>12

\* Where a folder is renamed, a way between two notes of it stays as it is.
LEMMA WayMoves ==
    ASSUME NEW S, NEW f, NEW t, NEW u, NEW v
    PROVE  f \in Seq(S) /\ t \in Seq(S) /\ u \in Seq(S) \ {<<>>} /\ v \in Seq(S) \ {<<>>} =>
              Moves!Target(t \o u, Way(f \o u, f \o v)) = t \o v
<1>1. SUFFICES ASSUME f \in Seq(S), t \in Seq(S), u \in Seq(S), v \in Seq(S), u # <<>>, v # <<>>
               PROVE  Moves!Target(t \o u, Way(f \o u, f \o v)) = t \o v
  OBVIOUS
<1>2. f \in Seq(S)
  BY <1>1
<1>3. t \in Seq(S)
  BY <1>1
<1>4. u \in Seq(S) /\ u # <<>>
  BY <1>1
<1>5. v \in Seq(S) /\ v # <<>>
  BY <1>1
<1>6. PICK g, h, a, b, c : /\ g = Moves!Front(u) /\ h = Moves!Front(v) /\ a = f \o g /\ b = f \o h
                           /\ c = Moves!LongestCommonPrefix({a, b})
  OBVIOUS
<1>7. g \in Seq(S)
  BY <1>4, <1>6, FrontIs
<1>8. h \in Seq(S)
  BY <1>5, <1>6, FrontIs
<1>9. Moves!Front(f \o u) = a
  BY <1>2, <1>4, <1>6, FrontOf
<1>10. Moves!Front(f \o v) = b
  BY <1>2, <1>5, <1>6, FrontOf
<1>11. Moves!Front(t \o u) = t \o g
  BY <1>3, <1>4, <1>6, FrontOf
<1>12. a \in Seq(S) /\ Moves!IsPrefix(f, a)
  BY <1>2, <1>6, <1>7, PrefixOf
<1>13. b \in Seq(S) /\ Moves!IsPrefix(f, b)
  BY <1>2, <1>6, <1>8, PrefixOf
<1>14. c \in Seq(S) /\ Moves!IsPrefix(c, a) /\ Moves!IsPrefix(c, b) /\ Len(f) <= Len(c)
  BY <1>2, <1>6, <1>12, <1>13, CommonIs
<1>15. PICK w : w \in Seq(S) /\ c = f \o w /\ Moves!IsPrefix(w, g)
  BY <1>2, <1>6, <1>7, <1>14, PrefixBeyond
<1>16. Moves!IsPrefix(w, h)
  <2>1. PICK x : x \in Seq(S) /\ c = f \o x /\ Moves!IsPrefix(x, h)
    BY <1>2, <1>6, <1>8, <1>14, PrefixBeyond
  <2>2. x = w
    BY <1>2, <1>15, <2>1, ConcatSimplifications
  <2> QED
    BY <2>1, <2>2
<1>17. PICK y : y \in Seq(S) /\ g = w \o y
  <2>1. SubSeq(g, Len(w) + 1, Len(g)) \in Seq(S) /\ g = w \o SubSeq(g, Len(w) + 1, Len(g))
    BY <1>7, <1>15, Prefixed
  <2> QED
    BY <2>1
<1>18. PICK z : z \in Seq(S) /\ v = w \o z
  <2>1. w \in Seq(S) /\ Moves!IsPrefix(w, Moves!Front(v))
    BY <1>6, <1>15, <1>16
  <2>2. \E z \in Seq(S) : v = w \o z
    BY <1>5, <2>1, FrontRest
  <2> QED
    BY <2>2
<1>19. PICK q, d, e, l : q = f \o v /\ d = t \o w /\ e = t \o g /\ l = Way(f \o u, f \o v)
  OBVIOUS
<1>20. q = c \o z
  BY <1>2, <1>15, <1>18, <1>19, Regrouped
<1>21. SubSeq(q, Len(c) + 1, Len(q)) = z
  <2>1. c \in Seq(S) /\ z \in Seq(S)
    BY <1>14, <1>18
  <2>2. SubSeq(c \o z, Len(c) + 1, Len(c \o z)) = z
    BY <2>1, PrefixOf
  <2> QED
    BY <1>20, <2>2
<1>22. l = [kind |-> "markdown", up |-> Len(a) - Len(c), path |-> z]
  BY <1>6, <1>9, <1>10, <1>19, <1>21 DEF Way, Moves!Rel
<1>23. d \in Seq(S) /\ Len(d) = Len(t) + Len(w) /\ Len(t) \in Nat /\ Len(w) \in Nat
  BY <1>3, <1>15, <1>19, ConcatProperties
<1>24. e = d \o y
  BY <1>3, <1>15, <1>17, <1>19, Regrouped
<1>25. SubSeq(e, 1, Len(d)) = d /\ Len(e) = Len(d) + Len(y) /\ Len(y) \in Nat
  <2>1. d \in Seq(S) /\ y \in Seq(S)
    BY <1>17, <1>23
  <2>2. SubSeq(d \o y, 1, Len(d)) = d /\ Len(d \o y) = Len(d) + Len(y)
    BY <2>1, PrefixOf
  <2>3. Len(y) \in Nat
    BY <2>1
  <2> QED
    BY <1>24, <2>2, <2>3
<1>26. Len(a) = Len(c) + Len(y) /\ Len(c) \in Nat
  <2>1. a = c \o y
    <3>1. a = f \o g /\ c = f \o w /\ w \in Seq(S) /\ y \in Seq(S) /\ g = w \o y
      BY <1>6, <1>15, <1>17
    <3> QED
      BY <1>2, <3>1, Regrouped
  <2>2. c \in Seq(S) /\ y \in Seq(S)
    BY <1>14, <1>17
  <2> QED
    BY <2>1, <2>2, ConcatProperties
<1>27. l.kind = "markdown" /\ l.path = z /\ l.up = Len(y)
  BY <1>22, <1>25, <1>26
<1>28. ~ (l.up > Len(e)) /\ Len(e) - l.up = Len(d)
  BY <1>23, <1>25, <1>27
<1>29. Moves!Target(t \o u, l) = SubSeq(e, 1, Len(e) - l.up) \o z
  BY <1>11, <1>19, <1>27, <1>28 DEF Moves!Target
<1>30. Moves!Target(t \o u, l) = d \o z
  BY <1>25, <1>28, <1>29
<1>31. d \o z = t \o v
  BY <1>3, <1>15, <1>18, <1>19, Regrouped
<1> QED
  BY <1>19, <1>30, <1>31

---------------------------------------------------------------------------
(* The moves of notes.                                                         *)

\* None is no note and no link, and a note is in one place.
MovesSane == /\ None \notin Linking \cup Moves!Links
             /\ \A s \in MoveSettings : \A p, q \in Moves!Paths :
                   s.tree[p] # None /\ s.tree[p] = s.tree[q] => p = q

LEMMA PathIs == ASSUME NEW p \in Moves!Paths PROVE p \in Seq(Segments) /\ p # <<>>
<1>1. PICK k \in 1 .. Depth : p \in [1 .. k -> Segments]
  BY DEF Moves!Paths
<1>2. Depth \in Nat
  BY PartsAssumption
<1>3. k \in Nat /\ k # 0
  BY <1>1, <1>2
<1>4. p \in Seq(Segments) /\ Len(p) = k
  BY <1>1, <1>3, SeqDef
<1> QED
  BY <1>3, <1>4, EmptySeq

\* What is inside a folder, and where it goes.
LEMMA InsideFolder ==
    ASSUME NEW from, from.folder, from.path \in Seq(Segments), NEW p \in Seq(Segments),
           Moves!pathInsideMoved(p, from)
    PROVE  \E u : /\ u \in Seq(Segments) /\ u # <<>> /\ p = from.path \o u
                  /\ \A to : Moves!destinationFor(p, from, to) = to \o u
<1>1. Moves!IsPrefix(from.path, p) /\ from.path # p
  BY DEF Moves!pathInsideMoved, Moves!IsStrictPrefix
<1>2. PICK u : u = SubSeq(p, Len(from.path) + 1, Len(p))
  OBVIOUS
<1>3. u \in Seq(Segments) /\ p = from.path \o u
  BY <1>1, <1>2, Prefixed
<1>4. u # <<>>
  <2>1. from.path \o <<>> = from.path
    BY ConcatEmptySeq
  <2> QED
    BY <1>1, <1>3, <2>1
<1>5. \A to : Moves!destinationFor(p, from, to) = to \o u
  BY <1>2 DEF Moves!destinationFor
<1> QED
  BY <1>3, <1>4, <1>5

\* A note that is moved by itself.
LEMMA InsideFile ==
    ASSUME NEW from, ~ from.folder, NEW p \in Seq(Segments), NEW to \in Seq(Segments),
           Moves!pathInsideMoved(p, from)
    PROVE  p = from.path /\ Moves!destinationFor(p, from, to) = to
<1>1. p = from.path
  BY DEF Moves!pathInsideMoved
<1>2. SubSeq(p, Len(p) + 1, Len(p)) = <<>>
  BY SubSeqEmpty
<1>3. to \o <<>> = to
  BY ConcatEmptySeq
<1> QED
  BY <1>1, <1>2, <1>3 DEF Moves!destinationFor

LEMMA DestinationsDiffer ==
    ASSUME NEW from, from.folder \in BOOLEAN, from.path \in Seq(Segments), NEW to \in Seq(Segments),
           NEW p \in Seq(Segments), NEW q \in Seq(Segments),
           Moves!pathInsideMoved(p, from), Moves!pathInsideMoved(q, from),
           Moves!destinationFor(p, from, to) = Moves!destinationFor(q, from, to)
    PROVE  p = q
<1>1. CASE ~ from.folder
  BY <1>1, InsideFile
<1>2. CASE from.folder
  <2>1. PICK u : /\ u \in Seq(Segments) /\ u # <<>> /\ p = from.path \o u
                 /\ \A z : Moves!destinationFor(p, from, z) = z \o u
    <3>1. from.folder /\ from.path \in Seq(Segments) /\ Moves!pathInsideMoved(p, from)
      BY <1>2
    <3> QED
      BY <3>1, InsideFolder
  <2>2. PICK v : /\ v \in Seq(Segments) /\ v # <<>> /\ q = from.path \o v
                 /\ \A z : Moves!destinationFor(q, from, z) = z \o v
    <3>1. from.folder /\ from.path \in Seq(Segments) /\ Moves!pathInsideMoved(q, from)
      BY <1>2
    <3> QED
      BY <3>1, InsideFolder
  <2>3. u = v
    <3>1. to \o u = to \o v
      BY <2>1, <2>2
    <3>2. \A s, t, w \in Seq(Segments) : s \o t = s \o w => t = w
      BY ConcatSimplifications
    <3> QED
      BY <2>1, <2>2, <3>1, <3>2
  <2> QED
    BY <2>1, <2>2, <2>3
<1> QED
  BY <1>1, <1>2

LEMMA DestinationIs ==
    ASSUME NEW from, from.path \in Seq(Segments), NEW to \in Seq(Segments), to # <<>>,
           NEW p \in Seq(Segments)
    PROVE  Moves!destinationFor(p, from, to) \in Seq(Segments) \ {<<>>}
<1>1. PICK u : u = SubSeq(p, Len(from.path) + 1, Len(p))
  OBVIOUS
<1>2. u \in Seq(Segments)
  <2>1. Len(from.path) \in Nat /\ Len(p) \in Nat
    OBVIOUS
  <2>2. \A i \in Len(from.path) + 1 .. Len(p) : p[i] \in Segments
    BY <2>1, ElementOfSeq
  <2> QED
    BY <1>1, <2>1, <2>2, SubSeqProperties
<1>3. to \o u \in Seq(Segments) /\ to \o u # <<>>
  BY <1>2, ConcatProperties, ConcatEqualIffEmpty
<1> QED
  BY <1>1, <1>3 DEF Moves!destinationFor

LEMMA TargetIs ==
    ASSUME NEW p \in Seq(Segments), p # <<>>, NEW l \in Moves!Links
    PROVE  Moves!Target(p, l) \in Seq(Segments)
<1>1. l.kind \in {"wikilink", "markdown"} /\ l.up \in Nat /\ l.path \in Seq(Segments)
  BY DEF Moves!Links
<1>2. PICK d : d = Moves!Front(p)
  OBVIOUS
<1>3. d \in Seq(Segments)
  BY <1>2, FrontIs
<1>4. CASE l.kind = "markdown" /\ ~ (l.up > Len(d))
  <2>1. Len(d) \in Nat /\ Len(d) - l.up \in Nat /\ Len(d) - l.up <= Len(d)
    BY <1>1, <1>3, <1>4
  <2>2. PICK n \in Nat : n = Len(d) - l.up
    BY <2>1
  <2>3. \A i \in 1 .. n : d[i] \in Segments
    BY <1>3, <2>1, <2>2, ElementOfSeq
  <2>4. SubSeq(d, 1, n) \in Seq(Segments)
    BY <2>2, <2>3, SubSeqProperties
  <2>5. SubSeq(d, 1, n) \o l.path \in Seq(Segments)
    BY <1>1, <2>4, ConcatProperties
  <2> QED
    BY <1>2, <1>4, <2>2, <2>5 DEF Moves!Target
<1>5. CASE l.kind = "wikilink"
  BY <1>1, <1>5 DEF Moves!Target
<1>6. CASE l.kind = "markdown" /\ l.up > Len(d)
  BY <1>2, <1>6, EmptySeq DEF Moves!Target
<1> QED
  BY <1>1, <1>4, <1>5, <1>6

LEMMA WayTyped ==
    ASSUME NEW p \in Seq(Segments), p # <<>>, NEW q \in Seq(Segments), q # <<>>
    PROVE  /\ Way(p, q) \in Moves!Links /\ Moves!Target(p, Way(p, q)) = q
           /\ Way(p, q).kind = "markdown"
<1>1. PICK l : l = Way(p, q)
  OBVIOUS
<1>2. /\ Moves!Target(p, l) = q /\ l.kind = "markdown" /\ l.up \in Nat /\ l.path \in Seq(Segments)
      /\ l = [kind |-> "markdown", up |-> l.up, path |-> l.path]
  BY <1>1, WayLeads
<1> QED
  BY <1>1, <1>2 DEF Moves!Links

LEMMA WikilinkTyped ==
    ASSUME NEW p, NEW q \in Seq(Segments)
    PROVE  /\ Moves!Wikilink(q) \in Moves!Links /\ Moves!Target(p, Moves!Wikilink(q)) = q
           /\ Moves!Wikilink(q).kind = "wikilink" /\ Moves!Wikilink(q).path = q
  BY DEF Moves!Links, Moves!Wikilink, Moves!Target

\* No note is in two places.
OnePlace(t) == \A p, q \in Moves!Paths : t[p] # None /\ t[p] = t[q] => p = q

\* What a command moves or deletes, and where it goes.
Moving(t, c) == {p \in Moves!Noted(t) : Moves!pathInsideMoved(p, c.from)}
Going(c, p) == Moves!destinationFor(p, c.from, c.to)

\* The tree after the renaming.
Arrived(c, moved, p) == IF c.kind = "delete" THEN {} ELSE {q \in moved : Going(c, q) = p}
Renamed(c, t, moved) ==
    [p \in Moves!Paths |-> IF Arrived(c, moved, p) # {} THEN t[CHOOSE q \in Arrived(c, moved, p) : TRUE]
                           ELSE IF p \in moved THEN None ELSE t[p]]

LEMMA RenamedIs ==
    ASSUME NEW c, NEW t \in [Moves!Paths -> Linking \cup {None}], NEW moved, OnePlace(t),
           moved \subseteq Moves!Noted(t)
    PROVE  /\ Renamed(c, t, moved) \in [Moves!Paths -> Linking \cup {None}]
           /\ OnePlace(Renamed(c, t, moved))
           /\ \A p \in Moves!Noted(Renamed(c, t, moved)) :
                 \/ p \in Moves!Noted(t) \ moved /\ Renamed(c, t, moved)[p] = t[p]
                 \/ /\ c.kind # "delete"
                    /\ \E q \in moved : p = Going(c, q) /\ Renamed(c, t, moved)[p] = t[q]
<1>1. PICK s : s = Renamed(c, t, moved)
  OBVIOUS
<1>2. moved \subseteq Moves!Paths
  BY DEF Moves!Noted
<1>3. ASSUME NEW p \in Moves!Paths
      PROVE  \/ /\ c.kind # "delete"
                /\ \E q \in moved : p = Going(c, q) /\ s[p] = t[q]
             \/ p \in moved /\ s[p] = None
             \/ p \notin moved /\ s[p] = t[p]
  <2>1. CASE Arrived(c, moved, p) # {}
    <3>1. PICK q : q = CHOOSE r \in Arrived(c, moved, p) : TRUE
      OBVIOUS
    <3>2. q \in Arrived(c, moved, p)
      BY <2>1, <3>1
    <3>3. s[p] = t[q]
      BY <1>1, <2>1, <3>1 DEF Renamed
    <3> QED
      BY <3>2, <3>3 DEF Arrived
  <2>2. CASE Arrived(c, moved, p) = {}
    BY <1>1, <2>2 DEF Renamed
  <2> QED
    BY <2>1, <2>2
<1>4. s \in [Moves!Paths -> Linking \cup {None}]
  <2>1. \A p \in Moves!Paths : s[p] \in Linking \cup {None}
    BY <1>2, <1>3
  <2>2. s = [p \in Moves!Paths |-> s[p]]
    BY <1>1 DEF Renamed
  <2> QED
    BY <2>1, <2>2
<1>5. OnePlace(s)
  <2> SUFFICES ASSUME NEW p \in Moves!Paths, NEW q \in Moves!Paths, s[p] # None, s[p] = s[q]
               PROVE  p = q
    BY DEF OnePlace
  <2>1. PICK u \in Moves!Paths : /\ s[p] = t[u]
                                 /\ \/ u \in moved /\ p = Going(c, u)
                                    \/ u \notin moved /\ p = u
    BY <1>2, <1>3
  <2>2. PICK v \in Moves!Paths : /\ s[q] = t[v]
                                 /\ \/ v \in moved /\ q = Going(c, v)
                                    \/ v \notin moved /\ q = v
    BY <1>2, <1>3
  <2>3. u = v
    BY <2>1, <2>2 DEF OnePlace
  <2> QED
    BY <2>1, <2>2, <2>3
<1>6. \A p \in Moves!Noted(s) :
         \/ p \in Moves!Noted(t) \ moved /\ s[p] = t[p]
         \/ c.kind # "delete" /\ \E q \in moved : p = Going(c, q) /\ s[p] = t[q]
  BY <1>3 DEF Moves!Noted
<1> QED
  BY <1>1, <1>4, <1>5, <1>6

\* A command that puts no note onto another one.
Fits(c, t) ==
    /\ c.kind \in {"move", "delete"} /\ c.from \in Moves!Places
    /\ c.kind = "move" =>
         /\ c.to \in Moves!Paths
         /\ \A p \in Moving(t, c) : Going(c, p) \in Moves!Paths
         /\ IF c.from.folder THEN \A p \in Moves!Noted(t) : ~ Moves!IsStrictPrefix(c.to, p)
            ELSE t[c.to] = None

LEMMA PlaceIs ==
    ASSUME NEW from \in Moves!Places
    PROVE  from.path \in Moves!Paths /\ from.path \in Seq(Segments) /\ from.path # <<>>
           /\ from.folder \in BOOLEAN
  BY PathIs DEF Moves!Places

LEMMA GoingBeyond ==
    ASSUME NEW c, NEW t, Fits(c, t), c.kind = "move", NEW p \in Moving(t, c)
    PROVE  Going(c, p) \in Moves!Paths /\ Going(c, p) \notin Moves!Noted(t)
<1>1. c.from \in Moves!Places /\ c.to \in Moves!Paths /\ Going(c, p) \in Moves!Paths
  BY DEF Fits
<1>2. p \in Moves!Paths /\ Moves!pathInsideMoved(p, c.from)
  BY DEF Moving, Moves!Noted
<1>3. PICK from, to : from = c.from /\ to = c.to
  OBVIOUS
<1>4. from.path \in Seq(Segments) /\ from.folder \in BOOLEAN
  BY <1>1, <1>3, PlaceIs
<1>5. to \in Seq(Segments) /\ p \in Seq(Segments)
  BY <1>1, <1>2, <1>3, PathIs
<1>6. CASE from.folder
  <2>1. PICK u : /\ u \in Seq(Segments) /\ u # <<>> /\ p = from.path \o u
                 /\ \A z : Moves!destinationFor(p, from, z) = z \o u
    <3>1. from.folder /\ from.path \in Seq(Segments) /\ Moves!pathInsideMoved(p, from)
      BY <1>2, <1>3, <1>4, <1>6
    <3> QED
      BY <1>5, <3>1, InsideFolder
  <2>2. Going(c, p) = to \o u
    BY <1>3, <2>1 DEF Going
  <2>3. Moves!IsPrefix(to, to \o u)
    BY <1>5, <2>1, PrefixOf
  <2>4. to # to \o u
    <3>1. \A x, y \in Seq(Segments) : x = x \o y => y = <<>>
      BY ConcatSimplifications
    <3> QED
      BY <1>5, <2>1, <3>1
  <2>5. Moves!IsStrictPrefix(c.to, Going(c, p))
    BY <1>3, <2>2, <2>3, <2>4 DEF Moves!IsStrictPrefix
  <2> QED
    BY <1>1, <1>3, <1>6, <2>5 DEF Fits
<1>7. CASE ~ from.folder
  <2>1. Going(c, p) = c.to
    <3>1. ~ from.folder /\ Moves!pathInsideMoved(p, from)
      BY <1>2, <1>3, <1>7
    <3>2. Moves!destinationFor(p, from, to) = to
      BY <1>5, <3>1, InsideFile
    <3> QED
      BY <1>3, <3>2 DEF Going
  <2>2. t[c.to] = None
    BY <1>3, <1>7 DEF Fits
  <2> QED
    BY <1>1, <2>1, <2>2 DEF Moves!Noted
<1> QED
  BY <1>4, <1>6, <1>7

LEMMA GoingApart ==
    ASSUME NEW c, c.from \in Moves!Places, c.to \in Moves!Paths,
           NEW t, NEW p \in Moving(t, c), NEW q \in Moving(t, c), Going(c, p) = Going(c, q)
    PROVE  p = q
<1>1. /\ p \in Moves!Paths /\ Moves!pathInsideMoved(p, c.from)
      /\ q \in Moves!Paths /\ Moves!pathInsideMoved(q, c.from)
  BY DEF Moving, Moves!Noted
<1>2. PICK from, to : from = c.from /\ to = c.to
  OBVIOUS
<1>3. from.path \in Seq(Segments) /\ from.folder \in BOOLEAN
  BY <1>2, PlaceIs
<1>4. to \in Seq(Segments) /\ p \in Seq(Segments) /\ q \in Seq(Segments)
  BY <1>1, <1>2, PathIs
<1>5. /\ Moves!pathInsideMoved(p, from) /\ Moves!pathInsideMoved(q, from)
      /\ Moves!destinationFor(p, from, to) = Moves!destinationFor(q, from, to)
  BY <1>1, <1>2 DEF Going
<1> QED
  BY <1>3, <1>4, <1>5, DestinationsDiffer

\* Where the notes are after a command that fits.
LEMMA FittedTree ==
    ASSUME NEW c, NEW t \in [Moves!Paths -> Linking \cup {None}], OnePlace(t), Fits(c, t),
           NEW s, s = Renamed(c, t, Moving(t, c))
    PROVE  /\ \A q \in Moves!Noted(t) \ Moving(t, c) : s[q] = t[q]
           /\ \A q \in Moving(t, c) : s[q] = None /\ (c.kind = "move" => s[Going(c, q)] = t[q])
<1>1. Moving(t, c) \subseteq Moves!Noted(t) /\ Moves!Noted(t) \subseteq Moves!Paths
  BY DEF Moving, Moves!Noted
<1>2. ASSUME NEW q \in Moves!Noted(t)
      PROVE  Arrived(c, Moving(t, c), q) = {}
  BY GoingBeyond DEF Arrived, Fits
<1>3. \A q \in Moves!Noted(t) \ Moving(t, c) : s[q] = t[q]
  BY <1>1, <1>2 DEF Renamed
<1>4. \A q \in Moving(t, c) : s[q] = None
  BY <1>1, <1>2 DEF Renamed
<1>5. ASSUME NEW q \in Moving(t, c), c.kind = "move"
      PROVE  s[Going(c, q)] = t[q]
  <2>1. Going(c, q) \in Moves!Paths
    BY <1>5, GoingBeyond
  <2>2. PICK A : A = Arrived(c, Moving(t, c), Going(c, q))
    OBVIOUS
  <2>3. A = {q}
    BY <1>5, <2>2, GoingApart DEF Arrived, Fits
  <2>4. s[Going(c, q)] = t[CHOOSE x \in A : TRUE]
    BY <2>1, <2>2, <2>3 DEF Renamed
  <2>5. (CHOOSE x \in A : TRUE) = q
    BY <2>3
  <2> QED
    BY <2>4, <2>5
<1> QED
  BY <1>3, <1>4, <1>5

\* The edit of the link l of a note at p that stays, and of one that moves, if there is one.
Inbound(c, p, l) == \/ Moves!matchWikilink(l, c.from)
                    \/ /\ l.kind = "markdown" /\ c.kind # "delete"
                       /\ Moves!pathInsideMoved(Moves!Target(p, l), c.from)
NewInbound(c, p, l) == IF l.kind = "wikilink" THEN Moves!rewriteWikilink(l, c)
                       ELSE Way(p, Going(c, Moves!Target(p, l)))
InboundAt(c, p, l) == IF l # None /\ Inbound(c, p, l)
                      THEN {[at |-> p, old |-> l, new |-> NewInbound(c, p, l)]} ELSE {}

Outward(c, p, l) == /\ l.kind = "markdown" /\ Moves!Target(p, l) # <<>>
                    /\ ~ Moves!pathInsideMoved(Moves!Target(p, l), c.from)
NewInner(c, p, l) == Way(Going(c, p), Moves!Target(p, l))
InnerAt(c, p, l) == IF l # None /\ Outward(c, p, l) /\ NewInner(c, p, l) # l
                    THEN {[at |-> Going(c, p), old |-> l, new |-> NewInner(c, p, l)]} ELSE {}

LEMMA InboundIs ==
    ASSUME NEW c, NEW moved
    PROVE  Moves!collectInboundEdits(c, moved) =
              UNION {InboundAt(c, p, link[tree[p]]) : p \in Moves!Noted(tree) \ moved}
<1>1. ASSUME NEW p
      PROVE  Moves!matchWikilink(link[tree[p]], c.from) => link[tree[p]].kind = "wikilink"
  BY DEF Moves!matchWikilink
<1>2. PICK Q : Q = Moves!Linked(tree) \ moved
  OBVIOUS
<1>3. PICK W : W = {p \in Q : Moves!matchWikilink(link[tree[p]], c.from)}
  OBVIOUS
<1>4. PICK M : M = {p \in Q : /\ link[tree[p]].kind = "markdown" /\ c.kind # "delete"
                              /\ Moves!pathInsideMoved(Moves!Target(p, link[tree[p]]), c.from)}
  OBVIOUS
<1>5. Moves!collectInboundEdits(c, moved) =
         {[at |-> p, old |-> link[tree[p]], new |-> Moves!rewriteWikilink(link[tree[p]], c)] : p \in W}
         \cup {[at |-> p, old |-> link[tree[p]],
                new |-> Moves!Rel(Moves!Front(p),
                             Moves!destinationFor(Moves!Target(p, link[tree[p]]), c.from, c.to))] : p \in M}
  BY <1>2, <1>3, <1>4 DEF Moves!collectInboundEdits
<1>6. \A p \in W : NewInbound(c, p, link[tree[p]]) = Moves!rewriteWikilink(link[tree[p]], c)
  BY <1>1, <1>3 DEF NewInbound
<1>7. \A p \in M : NewInbound(c, p, link[tree[p]]) =
         Moves!Rel(Moves!Front(p), Moves!destinationFor(Moves!Target(p, link[tree[p]]), c.from, c.to))
  BY <1>4 DEF NewInbound, Way, Going
<1>8. Moves!collectInboundEdits(c, moved) =
         {[at |-> p, old |-> link[tree[p]], new |-> NewInbound(c, p, link[tree[p]])] : p \in W \cup M}
  BY <1>5, <1>6, <1>7
<1>9. \A p : p \in W \cup M <=> /\ p \in Moves!Noted(tree) \ moved
                                /\ link[tree[p]] # None /\ Inbound(c, p, link[tree[p]])
  BY <1>2, <1>3, <1>4 DEF Inbound, Moves!Linked
<1> QED
  BY <1>8, <1>9 DEF InboundAt

LEMMA InnerIs ==
    ASSUME NEW c, NEW moved, moved \subseteq Moves!Noted(tree)
    PROVE  Moves!collectInnerEdits(c, moved) = UNION {InnerAt(c, p, link[tree[p]]) : p \in moved}
<1>1. PICK Q : Q = {p \in moved \cap Moves!Linked(tree) : Outward(c, p, link[tree[p]])}
  OBVIOUS
<1>2. Moves!collectInnerEdits(c, moved) =
         {[at |-> Going(c, p), old |-> link[tree[p]], new |-> NewInner(c, p, link[tree[p]])] :
             p \in {q \in Q : NewInner(c, q, link[tree[q]]) # link[tree[q]]}}
  BY <1>1 DEF Moves!collectInnerEdits, Outward, NewInner, Going, Way
<1>3. \A p : p \in Q <=> /\ p \in moved /\ link[tree[p]] # None /\ Outward(c, p, link[tree[p]])
  BY <1>1 DEF Moves!Linked
<1> QED
  BY <1>2, <1>3 DEF InnerAt

\* What an edit writes is a link.
LEMMA InboundTyped ==
    ASSUME NEW c, c.kind \in {"move", "delete"}, c.from \in Moves!Places,
           c.kind = "move" => c.to \in Moves!Paths,
           NEW p \in Moves!Paths, NEW l \in Moves!Links, NEW e \in InboundAt(c, p, l)
    PROVE  e.at = p /\ e.old = l /\ e.new \in Moves!Links
<1>1. PICK from, to, q : from = c.from /\ to = c.to /\ q = Moves!Target(p, l)
  OBVIOUS
<1>2. from.path \in Seq(Segments) /\ from.path # <<>> /\ p \in Seq(Segments) /\ p # <<>>
  BY <1>1, PlaceIs, PathIs
<1>3. c.kind = "move" => to \in Seq(Segments) /\ to # <<>>
  BY <1>1, PathIs
<1>4. q \in Seq(Segments) /\ l.path \in Seq(Segments) /\ l.kind \in {"wikilink", "markdown"}
  BY <1>1, <1>2, TargetIs DEF Moves!Links
<1>5. e.at = p /\ e.old = l /\ e.new = NewInbound(c, p, l) /\ Inbound(c, p, l)
  BY DEF InboundAt
<1>6. NewInbound(c, p, l) \in Moves!Links
  <2>1. CASE l.kind = "wikilink" /\ c.kind = "move"
    <3>1. PICK d : d = Moves!destinationFor(l.path, from, to)
      OBVIOUS
    <3>2. d \in Seq(Segments)
      BY <1>2, <1>3, <1>4, <2>1, <3>1, DestinationIs
    <3>3. Moves!Wikilink(d) \in Moves!Links
      BY <3>2, WikilinkTyped
    <3> QED
      BY <1>1, <2>1, <3>1, <3>3 DEF NewInbound, Moves!rewriteWikilink
  <2>2. CASE l.kind = "wikilink" /\ c.kind = "delete"
    <3>1. PICK d : d = <<Moves!Last(from.path)>>
      OBVIOUS
    <3>2. d \in Seq(Segments)
      <4>1. from.path[Len(from.path)] \in Segments
        BY <1>2, FrontIs
      <4> QED
        BY <3>1, <4>1 DEF Moves!Last
    <3>3. Moves!Wikilink(d) \in Moves!Links
      BY <3>2, WikilinkTyped
    <3> QED
      BY <1>1, <2>2, <3>1, <3>3 DEF NewInbound, Moves!rewriteWikilink
  <2>3. CASE l.kind = "markdown"
    <3>1. c.kind = "move"
      BY <1>5, <2>3 DEF Inbound, Moves!matchWikilink
    <3>2. PICK d : d = Moves!destinationFor(q, from, to)
      OBVIOUS
    <3>3. d \in Seq(Segments) /\ d # <<>>
      BY <1>2, <1>3, <1>4, <3>1, <3>2, DestinationIs
    <3>4. Way(p, d) \in Moves!Links
      BY <1>2, <3>3, WayTyped
    <3> QED
      BY <1>1, <2>3, <3>2, <3>4 DEF NewInbound, Going
  <2> QED
    BY <1>4, <2>1, <2>2, <2>3
<1> QED
  BY <1>5, <1>6

LEMMA InnerTyped ==
    ASSUME NEW c, NEW p \in Moves!Paths, Going(c, p) \in Moves!Paths,
           NEW l \in Moves!Links, NEW e \in InnerAt(c, p, l)
    PROVE  e.at = Going(c, p) /\ e.old = l /\ e.new \in Moves!Links
<1>1. PICK d, q : d = Going(c, p) /\ q = Moves!Target(p, l)
  OBVIOUS
<1>2. d \in Seq(Segments) /\ d # <<>> /\ p \in Seq(Segments) /\ p # <<>>
  BY <1>1, PathIs
<1>3. q \in Seq(Segments)
  BY <1>1, <1>2, TargetIs
<1>4. e.at = Going(c, p) /\ e.old = l /\ e.new = Way(d, q) /\ q # <<>>
  BY <1>1 DEF InnerAt, NewInner, Outward
<1>5. Way(d, q) \in Moves!Links
  BY <1>2, <1>3, <1>4, WayTyped
<1> QED
  BY <1>4, <1>5

\* No note is in a folder that has the name of another note.
NoneInside(t) == \A p, q \in Moves!Noted(t) : ~ Moves!IsStrictPrefix(p, q)

LEMMA MovedWhole ==
    ASSUME NEW c, NEW t, Fits(c, t), NoneInside(t), Moving(t, c) # {},
           NEW q \in Moves!Noted(t), Moves!IsPrefix(c.from.path, q)
    PROVE  q \in Moving(t, c)
<1>1. PICK r : r \in Moving(t, c)
  OBVIOUS
<1>2. r \in Moves!Noted(t) /\ Moves!pathInsideMoved(r, c.from)
  BY <1>1 DEF Moving
<1>3. CASE c.from.folder
  <2>1. Moves!IsStrictPrefix(c.from.path, r)
    BY <1>2, <1>3 DEF Moves!pathInsideMoved
  <2>2. q # c.from.path
    BY <1>2, <2>1 DEF NoneInside
  <2> QED
    BY <1>3, <2>2 DEF Moving, Moves!pathInsideMoved, Moves!IsStrictPrefix
<1>4. CASE ~ c.from.folder
  <2>1. r = c.from.path
    BY <1>2, <1>4 DEF Moves!pathInsideMoved
  <2>2. q = c.from.path
    BY <1>2, <2>1 DEF NoneInside, Moves!IsStrictPrefix
  <2> QED
    BY <1>4, <2>2 DEF Moving, Moves!pathInsideMoved
<1> QED
  BY <1>3, <1>4

LEMMA MovedPrefix ==
    ASSUME NEW from \in Moves!Places, NEW q \in Seq(Segments), Moves!pathInsideMoved(q, from)
    PROVE  Moves!IsPrefix(from.path, q)
<1>1. CASE from.folder
  BY <1>1 DEF Moves!pathInsideMoved, Moves!IsStrictPrefix
<1>2. CASE ~ from.folder
  <2>1. q = from.path
    BY <1>2 DEF Moves!pathInsideMoved
  <2>2. Len(q) \in Nat /\ \A i \in 1 .. Len(q) : q[i] = q[i]
    OBVIOUS
  <2>3. Moves!IsPrefix(q, q)
    BY <2>2, PrefixElements
  <2> QED
    BY <2>1, <2>3
<1> QED
  BY <1>1, <1>2

\* A link of a note that stays.
LEMMA InboundFollows ==
    ASSUME NEW c, NEW t \in [Moves!Paths -> Linking \cup {None}], OnePlace(t), Fits(c, t),
           NoneInside(t), Moving(t, c) # {}, NEW s, s = Renamed(c, t, Moving(t, c)),
           c.kind = "delete" => Moves!At(s, <<Moves!Last(c.from.path)>>) = None,
           NEW p \in Moves!Noted(t), NEW l \in Moves!Links,
           Moves!At(t, Moves!Target(p, l)) # None
    PROVE  /\ InboundAt(c, p, l) = {} =>
                 Moves!At(s, Moves!Target(p, l)) \in {Moves!At(t, Moves!Target(p, l)), None}
           /\ \A e \in InboundAt(c, p, l) :
                 Moves!At(s, Moves!Target(p, e.new)) \in {Moves!At(t, Moves!Target(p, l)), None}
<1>1. PICK q, from, to, m :
         q = Moves!Target(p, l) /\ from = c.from /\ to = c.to /\ m = Moves!At(t, Moves!Target(p, l))
  OBVIOUS
<1>2. q \in Moves!Paths /\ t[q] = m /\ m # None /\ q \in Moves!Noted(t)
  BY <1>1 DEF Moves!At, Moves!Noted
<1>3. from \in Moves!Places /\ c.kind \in {"move", "delete"} /\ (c.kind = "move" => to \in Moves!Paths)
  BY <1>1 DEF Fits
<1>4. p \in Moves!Paths
  BY DEF Moves!Noted
<1>5. p \in Seq(Segments) /\ p # <<>> /\ q \in Seq(Segments) /\ q # <<>>
  BY <1>2, <1>4, PathIs
<1>6. l.kind \in {"wikilink", "markdown"}
  BY DEF Moves!Links
<1>7. q \in Moving(t, c) <=> Moves!pathInsideMoved(q, from)
  BY <1>1, <1>2 DEF Moving
<1>8. Moves!At(s, q) \in {m, None}
  BY <1>2, FittedTree DEF Moves!At
<1>9. ASSUME NEW e \in InboundAt(c, p, l)
      PROVE  Moves!At(s, Moves!Target(p, e.new)) \in {m, None}
  <2>1. Inbound(c, p, l) /\ e.new = NewInbound(c, p, l)
    BY <1>9 DEF InboundAt
  <2>2. CASE c.kind = "delete"
    <3>1. l.kind = "wikilink"
      BY <2>1, <2>2 DEF Inbound, Moves!matchWikilink
    <3>2. e.new = Moves!Wikilink(<<Moves!Last(c.from.path)>>)
      BY <2>1, <2>2, <3>1 DEF NewInbound, Moves!rewriteWikilink
    <3>3. Moves!Target(p, e.new) = <<Moves!Last(c.from.path)>>
      BY <3>2 DEF Moves!Target, Moves!Wikilink
    <3> QED
      BY <2>2, <3>3
  <2>3. CASE c.kind = "move"
    <3>1. q \in Moving(t, c)
      <4>1. CASE l.kind = "wikilink"
        <5>1. q = l.path
          BY <1>1, <4>1 DEF Moves!Target
        <5>2. Moves!IsPrefix(c.from.path, q)
          BY <2>1, <4>1, <5>1 DEF Inbound, Moves!matchWikilink
        <5> QED
          BY <1>2, <5>2, MovedWhole
      <4>2. CASE l.kind = "markdown"
        BY <1>1, <1>7, <2>1, <4>2 DEF Inbound, Moves!matchWikilink
      <4> QED
        BY <1>6, <4>1, <4>2
    <3>2. s[Going(c, q)] = m /\ Going(c, q) \in Moves!Paths
      BY <1>2, <2>3, <3>1, FittedTree, GoingBeyond
    <3>3. Moves!Target(p, e.new) = Going(c, q)
      <4>1. CASE l.kind = "wikilink"
        <5>1. q = l.path
          BY <1>1, <4>1 DEF Moves!Target
        <5>2. e.new = Moves!Wikilink(Going(c, q))
          BY <2>1, <2>3, <4>1, <5>1 DEF NewInbound, Moves!rewriteWikilink, Going
        <5> QED
          BY <5>2 DEF Moves!Target, Moves!Wikilink
      <4>2. CASE l.kind = "markdown"
        <5>1. e.new = Way(p, Going(c, q))
          BY <1>1, <2>1, <4>2 DEF NewInbound
        <5>2. Going(c, q) \in Seq(Segments) /\ Going(c, q) # <<>>
          BY <3>2, PathIs
        <5> QED
          BY <1>5, <5>1, <5>2, WayLeads
      <4> QED
        BY <1>6, <4>1, <4>2
    <3> QED
      BY <3>2, <3>3 DEF Moves!At
  <2> QED
    BY <1>3, <2>2, <2>3
<1> QED
  BY <1>1, <1>8, <1>9

\* A link of a note that moves.
LEMMA InnerFollows ==
    ASSUME NEW c, NEW t \in [Moves!Paths -> Linking \cup {None}], OnePlace(t), Fits(c, t),
           c.kind = "move", NEW s, s = Renamed(c, t, Moving(t, c)),
           MovesSane, NEW p \in Moving(t, c), NEW l \in Moves!Links, Moves!Straight(p, l),
           Moves!At(t, Moves!Target(p, l)) # None
    PROVE  /\ InnerAt(c, p, l) = {} =>
                 Moves!At(s, Moves!Target(Going(c, p), l)) \in {Moves!At(t, Moves!Target(p, l)), None}
           /\ \A e \in InnerAt(c, p, l) :
                 Moves!At(s, Moves!Target(Going(c, p), e.new)) \in {Moves!At(t, Moves!Target(p, l)), None}
<1>1. PICK q, from, to, m, d :
         q = Moves!Target(p, l) /\ from = c.from /\ to = c.to /\ m = Moves!At(t, Moves!Target(p, l))
         /\ d = Going(c, p)
  OBVIOUS
<1>2. q \in Moves!Paths /\ t[q] = m /\ m # None /\ q \in Moves!Noted(t)
  BY <1>1 DEF Moves!At, Moves!Noted
<1>3. from \in Moves!Places /\ to \in Moves!Paths
  BY <1>1 DEF Fits
<1>4. p \in Moves!Paths /\ Moves!pathInsideMoved(p, from) /\ d \in Moves!Paths
  BY <1>1, GoingBeyond DEF Moving, Moves!Noted
<1>5. p \in Seq(Segments) /\ p # <<>> /\ q \in Seq(Segments) /\ q # <<>>
  BY <1>2, <1>4, PathIs
<1>6. d \in Seq(Segments) /\ d # <<>>
  BY <1>4, PathIs
<1>7. l.kind \in {"wikilink", "markdown"}
  BY DEF Moves!Links
<1>8. q \in Moving(t, c) <=> Moves!pathInsideMoved(q, from)
  BY <1>1, <1>2 DEF Moving
<1>9. Moves!At(s, q) \in {m, None}
  BY <1>2, FittedTree DEF Moves!At
<1>10. CASE l.kind = "wikilink"
  <2>1. InnerAt(c, p, l) = {}
    BY <1>10 DEF InnerAt, Outward
  <2>2. Moves!Target(d, l) = q
    BY <1>1, <1>10 DEF Moves!Target
  <2> QED
    BY <1>1, <1>9, <2>1, <2>2
<1>11. CASE l.kind = "markdown" /\ ~ Moves!pathInsideMoved(q, from)
  <2>1. Moves!Target(d, Way(d, q)) = q
    BY <1>5, <1>6, WayLeads
  <2>2. Outward(c, p, l) /\ NewInner(c, p, l) = Way(d, q)
    BY <1>1, <1>5, <1>11 DEF Outward, NewInner
  <2>3. \A e \in InnerAt(c, p, l) : e.new = Way(d, q)
    BY <2>2 DEF InnerAt
  <2>4. InnerAt(c, p, l) = {} => l = Way(d, q) \/ l = None
    BY <2>2 DEF InnerAt
  <2>5. l # None
    BY DEF MovesSane
  <2> QED
    BY <1>1, <1>9, <2>1, <2>3, <2>4, <2>5
<1>12. CASE l.kind = "markdown" /\ Moves!pathInsideMoved(q, from)
  <2>1. InnerAt(c, p, l) = {}
    BY <1>1, <1>12 DEF InnerAt, Outward
  <2>2. l = Way(p, q) /\ q # p
    BY <1>1, <1>12 DEF Moves!Straight, Way
  <2>3. from.folder
    BY <1>4, <1>12, <2>2 DEF Moves!pathInsideMoved
  <2>4. from.path \in Seq(Segments) /\ to \in Seq(Segments)
    BY <1>3, PlaceIs, PathIs
  <2>5. PICK u : /\ u \in Seq(Segments) /\ u # <<>> /\ p = from.path \o u
                 /\ \A z : Moves!destinationFor(p, from, z) = z \o u
    BY <1>4, <1>5, <2>3, <2>4, InsideFolder
  <2>6. PICK v : /\ v \in Seq(Segments) /\ v # <<>> /\ q = from.path \o v
                 /\ \A z : Moves!destinationFor(q, from, z) = z \o v
    BY <1>5, <1>12, <2>3, <2>4, InsideFolder
  <2>7. d = to \o u /\ Going(c, q) = to \o v
    BY <1>1, <2>5, <2>6 DEF Going
  <2>8. Moves!Target(to \o u, Way(from.path \o u, from.path \o v)) = to \o v
    <3>1. /\ from.path \in Seq(Segments) /\ to \in Seq(Segments)
          /\ u \in Seq(Segments) \ {<<>>} /\ v \in Seq(Segments) \ {<<>>}
      BY <2>4, <2>5, <2>6
    <3> HIDE <2>4, <2>5, <2>6
    <3> QED
      BY <3>1, WayMoves
  <2>9. Moves!Target(d, l) = Going(c, q)
    BY <2>2, <2>5, <2>6, <2>7, <2>8
  <2>10. s[Going(c, q)] = m /\ Going(c, q) \in Moves!Paths
    BY <1>2, <1>8, <1>12, FittedTree, GoingBeyond
  <2> QED
    BY <1>1, <2>1, <2>9, <2>10 DEF Moves!At
<1> QED
  BY <1>7, <1>10, <1>11, <1>12

Left == cmd.edits \cup cmd.inner

MoveTyped ==
    /\ moves \in MoveSettings /\ OnePlace(tree) /\ OnePlace(saved[1])
    /\ tree \in [Moves!Paths -> Linking \cup {None}] /\ saved[1] \in [Moves!Paths -> Linking \cup {None}]
    /\ link \in [Linking -> Moves!Links \cup {None}] /\ saved[2] \in [Linking -> Moves!Links \cup {None}]
    /\ meant \in [Linking -> Linking \cup {None}] /\ saved[3] \in [Linking -> Linking \cup {None}]
    /\ cmd = [stage |-> cmd.stage, kind |-> cmd.kind, from |-> cmd.from, to |-> cmd.to,
              shown |-> cmd.shown, plan |-> cmd.plan, edits |-> cmd.edits, inner |-> cmd.inner,
              before |-> cmd.before]
    /\ \A e \in Left : e.new \in Moves!Links \cup {None}

\* Every link names the note that it is meant for.
LinksSound(t, k, m) == \A p \in Moves!Noted(t) :
    m[t[p]] # None => k[t[p]] # None /\ Moves!At(t, Moves!Target(p, k[t[p]])) = m[t[p]]

MoveSound == /\ LinksSound(saved[1], saved[2], saved[3])
             /\ cmd.stage \notin {"moved", "checked"} => LinksSound(tree, link, meant)

MoveGuards == cmd.stage # "idle" =>
    /\ cmd.kind \in {"move", "delete", "prune"}
    /\ cmd.kind # "prune" => cmd.from \in Moves!Places /\ cmd.shown.files # {}
    /\ cmd.kind = "move" => /\ cmd.to \in Moves!Paths
                            /\ \A p \in cmd.shown.files : Going(cmd, p) \in Moves!Paths

\* A link that is not as it was committed takes the shortest way.
MoveBased == cmd.stage \in {"ready", "scanned", "derived"} =>
    /\ tree = saved[1]
    /\ \A p \in Moves!Noted(tree) : \/ link[tree[p]] \in {None, saved[2][tree[p]]}
                                    \/ Moves!Straight(p, link[tree[p]])

OneEach(edits) == \A d, e \in edits : d.at = e.at => d = e

PlannedAt(p) ==
    /\ p \notin Moving(tree, cmd) =>
          InboundAt(cmd, p, link[tree[p]]) = {e \in cmd.edits : e.at = p}
    /\ p \in Moving(tree, cmd) /\ cmd.kind = "move" =>
          InnerAt(cmd, p, link[tree[p]]) = {e \in cmd.inner : e.at = Going(cmd, p)}

MovePlanned == cmd.stage = "derived" =>
    /\ cmd.kind # "prune" /\ cmd.plan = cmd.shown /\ cmd.plan.files = Moving(tree, cmd)
    /\ \A e \in cmd.edits : e.at \in Moves!Noted(tree) \ Moving(tree, cmd)
    /\ \A e \in cmd.inner : cmd.kind = "move" /\ \E q \in Moving(tree, cmd) : e.at = Going(cmd, q)
    /\ OneEach(cmd.edits) /\ OneEach(cmd.inner)
    /\ \A p \in Moves!Noted(tree) : tree[p] \in touched \/ PlannedAt(p)

\* A link that the note m is meant for, or one that is seen to be broken.
Leads(t, c, cold, p, l, m) == IF l = None THEN c.kind = "prune" /\ m \in cold
                                ELSE Moves!At(t, Moves!Target(p, l)) \in {m, None}

WillLead(t, c, cold, p, l, m) ==
    /\ \A e \in c.edits \cup c.inner : e.at = p /\ l = e.old => Leads(t, c, cold, p, e.new, m)
    /\ (\A e \in c.edits \cup c.inner : e.at # p) => Leads(t, c, cold, p, l, m)

MoveFollowed == cmd.stage \in {"moved", "checked"} /\ Moves!Plain =>
    /\ OneEach(Left) /\ \A e \in Left : e.at \in Moves!Noted(tree)
    /\ \A p \in Moves!Noted(tree) :
          \/ meant[tree[p]] = None \/ tree[p] \in touched
          \/ WillLead(tree, cmd, moves.cold, p, link[tree[p]], meant[tree[p]])

MoveAccepted == cmd.stage = "checked" =>
    /\ Left = {}
    /\ cmd.before = 0 => \A p \in Moves!Noted(tree) :
          link[tree[p]] = None \/ Moves!At(tree, Moves!Target(p, link[tree[p]])) # None

MoveInv == /\ MoveTyped /\ MoveSound /\ MoveGuards /\ MoveBased /\ MovePlanned
           /\ MoveFollowed /\ MoveAccepted

\* A link that somebody may write names another note, the shortest way.
LEMMA WaysAre ==
    ASSUME MovesSane, NEW t \in [Moves!Paths -> Linking \cup {None}], NEW p \in Moves!Noted(t),
           NEW l \in Moves!Ways(p, t)
    PROVE  /\ l \in Moves!Links /\ l # None /\ Moves!Straight(p, l)
           /\ Moves!At(t, Moves!Target(p, l)) \in Linking /\ Moves!At(t, Moves!Target(p, l)) # None
<1>1. PICK q \in Moves!Noted(t) \ {p} : l = Moves!Wikilink(q) \/ l = Way(p, q)
  BY DEF Moves!Ways, Way
<1>2. p \in Moves!Paths /\ q \in Moves!Paths /\ t[q] \in Linking /\ t[q] # None
  BY DEF Moves!Noted
<1>3. p \in Seq(Segments) /\ p # <<>> /\ q \in Seq(Segments) /\ q # <<>>
  BY <1>2, PathIs
<1>4. l \in Moves!Links /\ Moves!Target(p, l) = q /\ Moves!Straight(p, l)
  <2>1. CASE l = Moves!Wikilink(q)
    <3>1. l \in Moves!Links /\ Moves!Target(p, l) = q /\ l.kind = "wikilink"
      BY <1>3, <2>1, WikilinkTyped
    <3> QED
      BY <3>1 DEF Moves!Straight
  <2>2. CASE l = Way(p, q)
    <3>1. l \in Moves!Links /\ Moves!Target(p, l) = q
      BY <1>3, <2>2, WayTyped
    <3> QED
      BY <1>1, <2>2, <3>1 DEF Moves!Straight, Way
  <2> QED
    BY <1>1, <2>1, <2>2
<1>5. Moves!At(t, q) = t[q]
  BY <1>2 DEF Moves!At
<1>6. l # None
  BY <1>4 DEF MovesSane
<1> QED
  BY <1>2, <1>4, <1>5, <1>6

LEMMA AtTyped ==
    ASSUME NEW t \in [Moves!Paths -> Linking \cup {None}], NEW q
    PROVE  Moves!At(t, q) \in Linking \cup {None}
  BY DEF Moves!At

LEMMA WikilinksTyped ==
    ASSUME NEW q \in Moves!Paths
    PROVE  Moves!Wikilink(q) \in Moves!Links
<1>1. q \in Seq(Segments)
  BY PathIs
<1> QED
  BY <1>1, WikilinkTyped

LEMMA MoveStarts ==
    ASSUME MovesSane
    PROVE  Moves!Init => MoveInv
<1> SUFFICES ASSUME Moves!Init
             PROVE  MoveInv
  OBVIOUS
<1>1. /\ moves \in MoveSettings /\ cmd = Moves!Nothing /\ tree = moves.tree
      /\ saved = <<tree, link, meant>>
  BY DEF Moves!Init, Moves!files
<1>2. tree \in [Moves!Paths -> Linking \cup {None}] /\ OnePlace(tree)
  BY <1>1, PartsAssumption DEF Moves!SettingRecords, MovesSane, OnePlace
<1>3. link \in [Linking -> Moves!Links \cup {None}]
  <2>1. PICK D, W : /\ D = IF moves.broken
                           THEN {Moves!Wikilink(q) : q \in Moves!Paths \ Moves!Noted(tree)} ELSE {}
                    /\ W = UNION {Moves!Ways(p, tree) : p \in Moves!Noted(tree)}
                    /\ link \in [Linking -> W \cup D \cup {None}]
    BY DEF Moves!Init
  <2>2. D \subseteq Moves!Links
    BY <2>1, WikilinksTyped
  <2>3. W \subseteq Moves!Links
    BY <1>2, <2>1, WaysAre
  <2> QED
    BY <2>1, <2>2, <2>3
<1>4. meant = [n \in Linking |-> IF link[n] = None THEN None
                 ELSE Moves!At(tree, Moves!Target(CHOOSE p \in Moves!Paths : tree[p] = n,
                                        link[tree[CHOOSE p \in Moves!Paths : tree[p] = n]]))]
  BY DEF Moves!Init, Moves!Named
<1>5. meant \in [Linking -> Linking \cup {None}]
  BY <1>2, <1>4, AtTyped
<1>6. LinksSound(tree, link, meant)
  <2> SUFFICES ASSUME NEW p \in Moves!Noted(tree), meant[tree[p]] # None
               PROVE  /\ link[tree[p]] # None
                      /\ Moves!At(tree, Moves!Target(p, link[tree[p]])) = meant[tree[p]]
    BY DEF LinksSound
  <2>1. p \in Moves!Paths /\ tree[p] \in Linking /\ tree[p] # None
    BY <1>2 DEF Moves!Noted
  <2>2. PICK r : r = CHOOSE q \in Moves!Paths : tree[q] = tree[p]
    OBVIOUS
  <2>3. r \in Moves!Paths /\ tree[r] = tree[p]
    BY <2>1, <2>2
  <2>4. r = p
    BY <1>2, <2>1, <2>3 DEF OnePlace
  <2>5. meant[tree[p]] = IF link[tree[p]] = None THEN None
                         ELSE Moves!At(tree, Moves!Target(r, link[tree[r]]))
    BY <1>4, <2>1, <2>2
  <2> QED
    BY <2>4, <2>5
<1>7. saved[1] = tree /\ saved[2] = link /\ saved[3] = meant
  BY <1>1
<1>8. MoveTyped
  BY <1>1, <1>2, <1>3, <1>5, <1>7 DEF MoveTyped, Moves!Nothing, Left
<1>9. MoveSound
  BY <1>1, <1>6, <1>7 DEF MoveSound
<1> QED
  BY <1>1, <1>8, <1>9 DEF MoveInv, MoveGuards, MoveBased, MovePlanned, MoveFollowed, MoveAccepted,
                          Moves!Nothing

\* A rollback restores what was committed.
LEMMA MovesRolledBack == MoveInv /\ Moves!Rollback => MoveInv'
<1> SUFFICES ASSUME MoveInv, Moves!Rollback
             PROVE  MoveInv'
  OBVIOUS
<1>1. /\ cmd' = Moves!Nothing /\ moves' = moves /\ saved' = saved
      /\ tree' = saved[1] /\ link' = saved[2] /\ meant' = saved[3]
  BY DEF Moves!Rollback
<1>2. MoveTyped'
  BY <1>1 DEF MoveInv, MoveTyped, Moves!Nothing, Left
<1>3. MoveSound'
  BY <1>1 DEF MoveInv, MoveSound
<1> QED
  BY <1>1, <1>2, <1>3 DEF MoveInv, MoveGuards, MoveBased, MovePlanned, MoveFollowed, MoveAccepted,
                          Moves!Nothing

\* Steps before the renaming that change no note.
LEMMA MovesPrepared ==
    MoveInv /\ (Moves!DryRuns \/ Moves!Replan \/ Moves!ensureGitReady \/ Moves!Scan) => MoveInv'
<1>1. ASSUME MoveInv, UNCHANGED <<moves, tree, link, meant>>,
             saved' = saved \/ saved' = <<tree, link, meant>>, cmd.stage \notin {"moved", "checked"},
             cmd' = [stage |-> cmd'.stage, kind |-> cmd'.kind, from |-> cmd'.from, to |-> cmd'.to,
                     shown |-> cmd'.shown, plan |-> cmd'.plan, edits |-> cmd'.edits,
                     inner |-> cmd'.inner, before |-> cmd'.before],
             \A e \in Left' : e \in Left
      PROVE  MoveTyped' /\ MoveSound'
  <2>1. MoveTyped
    BY <1>1 DEF MoveInv
  <2>2. \/ saved'[1] = saved[1] /\ saved'[2] = saved[2] /\ saved'[3] = saved[3]
        \/ saved'[1] = tree /\ saved'[2] = link /\ saved'[3] = meant
    BY <1>1
  <2>3. MoveTyped'
    BY <1>1, <2>1, <2>2 DEF MoveTyped
  <2>4. MoveSound'
    BY <1>1, <2>2 DEF MoveInv, MoveSound
  <2> QED
    BY <2>3, <2>4
<1>2. ASSUME MoveInv, NEW kind \in Moves!Kinds, NEW from, NEW to, Moves!DryRun(kind, from, to),
             kind # "prune" => from \in Moves!Places, kind = "move" => to \in Moves!Paths
      PROVE  MoveInv'
  <2>1. PICK c : c = [Moves!Nothing EXCEPT !.stage = "shown", !.kind = kind, !.from = from, !.to = to]
    OBVIOUS
  <2>2. /\ cmd' = [c EXCEPT !.shown = Moves!Plan(c)] /\ cmd.stage = "idle"
        /\ kind # "prune" => Moves!Plan(c).files # {}
        /\ kind = "move" => \A p \in Moves!Plan(c).files : Moves!destinationFor(p, from, to) \in Moves!Paths
        /\ UNCHANGED <<moves, tree, link, meant, saved>>
    BY <1>2, <2>1 DEF Moves!DryRun, Moves!files
  <2>3. /\ cmd'.stage = "shown" /\ cmd'.kind = kind /\ cmd'.from = from /\ cmd'.to = to
        /\ cmd'.shown = Moves!Plan(c) /\ cmd'.edits = {} /\ cmd'.inner = {}
        /\ cmd' = [stage |-> cmd'.stage, kind |-> cmd'.kind, from |-> cmd'.from, to |-> cmd'.to,
                   shown |-> cmd'.shown, plan |-> cmd'.plan, edits |-> cmd'.edits,
                   inner |-> cmd'.inner, before |-> cmd'.before]
    BY <2>1, <2>2 DEF Moves!Nothing
  <2>4. MoveTyped' /\ MoveSound'
    BY <1>1, <1>2, <2>2, <2>3 DEF Left
  <2>5. MoveGuards'
    BY <1>2, <2>2, <2>3 DEF MoveGuards, Moves!Kinds, Going
  <2> QED
    BY <2>3, <2>4, <2>5 DEF MoveInv, MoveBased, MovePlanned, MoveFollowed, MoveAccepted
<1>3. ASSUME MoveInv, Moves!DryRuns
      PROVE  MoveInv'
  <2>1. moves \in MoveSettings /\ moves.from \subseteq Moves!Places /\ moves.to \subseteq Moves!Paths
    BY <1>3, PartsAssumption DEF MoveInv, MoveTyped, Moves!SettingRecords
  <2> QED
    BY <1>2, <1>3, <2>1 DEF Moves!DryRuns, Moves!Kinds
<1>4. ASSUME MoveInv, Moves!Replan
      PROVE  MoveInv'
  <2>1. PICK x : /\ cmd' = [cmd EXCEPT !.stage = "planned", !.plan = x] /\ cmd.stage = "shown"
                 /\ UNCHANGED <<moves, tree, link, meant, saved>>
    BY <1>4 DEF Moves!Replan, Moves!Stage, Moves!files
  <2>2. /\ cmd'.stage = "planned" /\ cmd'.kind = cmd.kind /\ cmd'.from = cmd.from /\ cmd'.to = cmd.to
        /\ cmd'.shown = cmd.shown /\ cmd'.edits = cmd.edits /\ cmd'.inner = cmd.inner
        /\ cmd' = [stage |-> cmd'.stage, kind |-> cmd'.kind, from |-> cmd'.from, to |-> cmd'.to,
                   shown |-> cmd'.shown, plan |-> cmd'.plan, edits |-> cmd'.edits,
                   inner |-> cmd'.inner, before |-> cmd'.before]
    BY <1>4, <2>1 DEF MoveInv, MoveTyped
  <2>3. MoveTyped' /\ MoveSound'
    BY <1>1, <1>4, <2>1, <2>2 DEF Left
  <2>4. MoveGuards'
    BY <1>4, <2>1, <2>2 DEF MoveInv, MoveGuards, Going
  <2> QED
    BY <2>2, <2>3, <2>4 DEF MoveInv, MoveBased, MovePlanned, MoveFollowed, MoveAccepted
<1>5. ASSUME MoveInv, Moves!ensureGitReady
      PROVE  MoveInv'
  <2>1. /\ cmd' = [cmd EXCEPT !.stage = "ready"] /\ cmd.stage = "planned"
        /\ saved' = <<tree, link, meant>> /\ UNCHANGED <<moves, tree, link, meant>>
    BY <1>5 DEF Moves!ensureGitReady, Moves!Stage, Moves!Goto, Moves!files
  <2>2. /\ cmd'.stage = "ready" /\ cmd'.kind = cmd.kind /\ cmd'.from = cmd.from /\ cmd'.to = cmd.to
        /\ cmd'.shown = cmd.shown /\ cmd'.edits = cmd.edits /\ cmd'.inner = cmd.inner
        /\ cmd' = [stage |-> cmd'.stage, kind |-> cmd'.kind, from |-> cmd'.from, to |-> cmd'.to,
                   shown |-> cmd'.shown, plan |-> cmd'.plan, edits |-> cmd'.edits,
                   inner |-> cmd'.inner, before |-> cmd'.before]
    BY <1>5, <2>1 DEF MoveInv, MoveTyped
  <2>3. MoveTyped' /\ MoveSound'
    BY <1>1, <1>5, <2>1, <2>2 DEF Left
  <2>4. MoveGuards'
    BY <1>5, <2>1, <2>2 DEF MoveInv, MoveGuards, Going
  <2>5. MoveBased'
    BY <2>1 DEF MoveBased
  <2> QED
    BY <2>2, <2>3, <2>4, <2>5 DEF MoveInv, MovePlanned, MoveFollowed, MoveAccepted
<1>6. ASSUME MoveInv, Moves!Scan
      PROVE  MoveInv'
  <2>1. PICK x : /\ cmd' = [cmd EXCEPT !.stage = "scanned", !.before = x] /\ cmd.stage = "ready"
                 /\ UNCHANGED <<moves, tree, link, meant, saved>>
    BY <1>6 DEF Moves!Scan, Moves!Stage, Moves!files
  <2>2. /\ cmd'.stage = "scanned" /\ cmd'.kind = cmd.kind /\ cmd'.from = cmd.from /\ cmd'.to = cmd.to
        /\ cmd'.shown = cmd.shown /\ cmd'.edits = cmd.edits /\ cmd'.inner = cmd.inner
        /\ cmd' = [stage |-> cmd'.stage, kind |-> cmd'.kind, from |-> cmd'.from, to |-> cmd'.to,
                   shown |-> cmd'.shown, plan |-> cmd'.plan, edits |-> cmd'.edits,
                   inner |-> cmd'.inner, before |-> cmd'.before]
    BY <1>6, <2>1 DEF MoveInv, MoveTyped
  <2>3. MoveTyped' /\ MoveSound'
    BY <1>1, <1>6, <2>1, <2>2 DEF Left
  <2>4. MoveGuards'
    BY <1>6, <2>1, <2>2 DEF MoveInv, MoveGuards, Going
  <2>5. MoveBased'
    BY <1>6, <2>1 DEF MoveInv, MoveBased
  <2> QED
    BY <2>2, <2>3, <2>4, <2>5 DEF MoveInv, MovePlanned, MoveFollowed, MoveAccepted
<1> QED
  BY <1>3, <1>4, <1>5, <1>6

\* What a plan rewrites.
LEMMA PlanIs ==
    ASSUME NEW c, c.kind # "prune"
    PROVE  /\ Moves!Plan(c).files = Moving(tree, c)
           /\ Moves!Plan(c).edits =
                 UNION {InboundAt(c, p, link[tree[p]]) : p \in Moves!Noted(tree) \ Moving(tree, c)}
           /\ Moves!Plan(c).inner = IF c.kind = "delete" THEN {}
                                    ELSE UNION {InnerAt(c, p, link[tree[p]]) : p \in Moving(tree, c)}
<1>1. PICK M : M = Moving(tree, c)
  OBVIOUS
<1>2. M \subseteq Moves!Noted(tree)
  BY <1>1 DEF Moving
<1>3. Moves!Plan(c) = [files |-> M, edits |-> Moves!collectInboundEdits(c, M),
                       inner |-> IF c.kind = "delete" THEN {} ELSE Moves!collectInnerEdits(c, M)]
  BY <1>1 DEF Moves!Plan, Moves!PlanMove, Moving
<1>4. Moves!Plan(c).files = M
  BY <1>3
<1>5. Moves!Plan(c).edits = UNION {InboundAt(c, p, link[tree[p]]) : p \in Moves!Noted(tree) \ M}
  BY <1>3, InboundIs
<1>6. Moves!Plan(c).inner = IF c.kind = "delete" THEN {}
                            ELSE UNION {InnerAt(c, p, link[tree[p]]) : p \in M}
  <2>1. Moves!collectInnerEdits(c, M) = UNION {InnerAt(c, p, link[tree[p]]) : p \in M}
    BY <1>2, InnerIs
  <2>2. Moves!Plan(c).inner = IF c.kind = "delete" THEN {} ELSE Moves!collectInnerEdits(c, M)
    BY <1>3
  <2> QED
    BY <2>1, <2>2
<1> QED
  BY <1>1, <1>4, <1>5, <1>6

\* The last plan is made of what the links are then.
LEMMA MovesDerived ==
    ASSUME NEW c, c.kind \in {"move", "delete"}, c.from \in Moves!Places,
           c.kind = "move" => /\ c.to \in Moves!Paths
                              /\ \A p \in Moving(tree, c) : Going(c, p) \in Moves!Paths,
           tree \in [Moves!Paths -> Linking \cup {None}],
           link \in [Linking -> Moves!Links \cup {None}],
           NEW edits, edits = Moves!Plan(c).edits, NEW inner, inner = Moves!Plan(c).inner
    PROVE  /\ \A e \in edits \cup inner : e.new \in Moves!Links
           /\ \A e \in edits : e.at \in Moves!Noted(tree) \ Moving(tree, c)
           /\ \A e \in inner : c.kind = "move" /\ \E q \in Moving(tree, c) : e.at = Going(c, q)
           /\ OneEach(edits) /\ OneEach(inner)
           /\ \A p \in Moves!Noted(tree) \ Moving(tree, c) :
                 InboundAt(c, p, link[tree[p]]) = {e \in edits : e.at = p}
           /\ \A p \in Moving(tree, c) : c.kind = "move" =>
                 InnerAt(c, p, link[tree[p]]) = {e \in inner : e.at = Going(c, p)}
<1>1. PICK N, M : N = Moves!Noted(tree) \ Moving(tree, c) /\ M = Moving(tree, c)
  OBVIOUS
<1>2. \A e : e \in edits <=> \E p \in N : e \in InboundAt(c, p, link[tree[p]])
  <2>1. edits = UNION {InboundAt(c, p, link[tree[p]]) : p \in N}
    BY <1>1, PlanIs
  <2> QED
    BY <2>1
<1>3. \A e : e \in inner <=> c.kind = "move" /\ \E p \in M : e \in InnerAt(c, p, link[tree[p]])
  <2>1. inner = IF c.kind = "delete" THEN {} ELSE UNION {InnerAt(c, p, link[tree[p]]) : p \in M}
    BY <1>1, PlanIs
  <2> QED
    BY <2>1
<1>4. \A p \in N \cup M : p \in Moves!Paths /\ link[tree[p]] \in Moves!Links \cup {None}
  BY <1>1 DEF Moves!Noted, Moving
<1>5. ASSUME NEW p \in N, NEW e \in InboundAt(c, p, link[tree[p]])
      PROVE  e.at = p /\ e.new \in Moves!Links
           /\ InboundAt(c, p, link[tree[p]]) = {e}
  <2>1. link[tree[p]] # None /\ InboundAt(c, p, link[tree[p]]) = {e}
    BY <1>5 DEF InboundAt
  <2>2. link[tree[p]] \in Moves!Links /\ p \in Moves!Paths
    BY <1>4, <2>1
  <2> QED
    BY <1>5, <2>1, <2>2, InboundTyped
<1>6. ASSUME NEW p \in M, c.kind = "move", NEW e \in InnerAt(c, p, link[tree[p]])
      PROVE  e.at = Going(c, p) /\ e.new \in Moves!Links
           /\ InnerAt(c, p, link[tree[p]]) = {e}
  <2>1. link[tree[p]] # None /\ InnerAt(c, p, link[tree[p]]) = {e}
    BY <1>6 DEF InnerAt
  <2>2. link[tree[p]] \in Moves!Links /\ p \in Moves!Paths /\ Going(c, p) \in Moves!Paths
    BY <1>1, <1>4, <1>6, <2>1
  <2> QED
    BY <1>6, <2>1, <2>2, InnerTyped
<1>7. \A p, q \in M : c.kind = "move" /\ Going(c, p) = Going(c, q) => p = q
  BY <1>1, GoingApart
<1>8. \A e \in edits \cup inner : e.new \in Moves!Links
  BY <1>2, <1>3, <1>5, <1>6
<1>9. \A e \in edits : e.at \in N
  BY <1>2, <1>5
<1>10. \A e \in inner : c.kind = "move" /\ \E q \in M : e.at = Going(c, q)
  BY <1>3, <1>6
<1>11. OneEach(edits)
  <2> SUFFICES ASSUME NEW d \in edits, NEW e \in edits, d.at = e.at
               PROVE  d = e
    BY DEF OneEach
  <2>1. PICK p \in N : d \in InboundAt(c, p, link[tree[p]])
    BY <1>2
  <2>2. PICK q \in N : e \in InboundAt(c, q, link[tree[q]])
    BY <1>2
  <2>3. p = q
    BY <1>5, <2>1, <2>2
  <2> QED
    BY <1>5, <2>1, <2>2, <2>3
<1>12. OneEach(inner)
  <2> SUFFICES ASSUME NEW d \in inner, NEW e \in inner, d.at = e.at
               PROVE  d = e
    BY DEF OneEach
  <2>1. PICK p \in M : c.kind = "move" /\ d \in InnerAt(c, p, link[tree[p]])
    BY <1>3
  <2>2. PICK q \in M : c.kind = "move" /\ e \in InnerAt(c, q, link[tree[q]])
    BY <1>3
  <2>3. p = q
    BY <1>6, <1>7, <2>1, <2>2
  <2> QED
    BY <1>6, <2>1, <2>2, <2>3
<1>13. \A p \in N : InboundAt(c, p, link[tree[p]]) = {e \in edits : e.at = p}
  <2> SUFFICES ASSUME NEW p \in N, NEW e
               PROVE  e \in InboundAt(c, p, link[tree[p]]) <=> e \in edits /\ e.at = p
    OBVIOUS
  <2> QED
    BY <1>2, <1>5
<1>14. \A p \in M : c.kind = "move" =>
          InnerAt(c, p, link[tree[p]]) = {e \in inner : e.at = Going(c, p)}
  <2> SUFFICES ASSUME NEW p \in M, c.kind = "move", NEW e
               PROVE  e \in InnerAt(c, p, link[tree[p]]) <=> e \in inner /\ e.at = Going(c, p)
    OBVIOUS
  <2> QED
    BY <1>3, <1>6, <1>7
<1> QED
  BY <1>1, <1>8, <1>9, <1>10, <1>11, <1>12, <1>13, <1>14

\* The last plan is confirmed.
LEMMA MovesConfirmed ==
    ASSUME MovesSane
    PROVE  MoveInv /\ Moves!Confirm => MoveInv'
<1> SUFFICES ASSUME MoveInv, Moves!Confirm, ~ Moves!Rollback
             PROVE  MoveInv'
  BY MovesRolledBack
<1>1. /\ cmd.stage = "scanned" /\ cmd.shown = cmd.plan /\ cmd.plan = Moves!Plan(cmd)
      /\ cmd' = [cmd EXCEPT !.stage = IF cmd.kind = "prune" THEN "moved" ELSE "derived",
                            !.edits = cmd.plan.edits, !.inner = cmd.plan.inner]
      /\ touched' = {} /\ UNCHANGED <<moves, tree, link, meant, saved>>
  BY DEF Moves!Confirm, Moves!Stage, Moves!files
<1>2. PICK edits, inner : edits = Moves!Plan(cmd).edits /\ inner = Moves!Plan(cmd).inner
  OBVIOUS
<1>3. /\ cmd'.kind = cmd.kind /\ cmd'.from = cmd.from /\ cmd'.to = cmd.to
      /\ cmd'.shown = cmd.shown /\ cmd'.plan = cmd.plan /\ cmd'.edits = edits /\ cmd'.inner = inner
      /\ cmd'.stage = (IF cmd.kind = "prune" THEN "moved" ELSE "derived")
      /\ cmd' = [stage |-> cmd'.stage, kind |-> cmd'.kind, from |-> cmd'.from, to |-> cmd'.to,
                 shown |-> cmd'.shown, plan |-> cmd'.plan, edits |-> cmd'.edits,
                 inner |-> cmd'.inner, before |-> cmd'.before]
  BY <1>1, <1>2 DEF MoveInv, MoveTyped
<1>4. MoveSound' /\ MoveGuards' /\ LinksSound(tree, link, meant)
  BY <1>1, <1>3 DEF MoveInv, MoveSound, MoveGuards, Going
<1>5. /\ tree \in [Moves!Paths -> Linking \cup {None}] /\ link \in [Linking -> Moves!Links \cup {None}]
      /\ cmd.kind \in {"move", "delete", "prune"}
  BY <1>1 DEF MoveInv, MoveTyped, MoveGuards
<1>6. ASSUME \A e \in edits \cup inner : e.new \in Moves!Links \cup {None}
      PROVE  MoveTyped'
  BY <1>1, <1>3, <1>6 DEF MoveInv, MoveTyped, Left
<1>7. CASE cmd.kind = "prune"
  <2>1. inner = {} /\ edits = {[at |-> p, old |-> link[tree[p]], new |-> None] :
           p \in {q \in Moves!Linked(tree) : /\ link[tree[q]].kind = "wikilink"
                                             /\ Moves!Named(q) \in moves.cold}}
    BY <1>2, <1>7 DEF Moves!Plan, Moves!BuildDreamPrunePlan
  <2>2. \A e \in edits : /\ e.at \in Moves!Noted(tree) /\ e.old = link[tree[e.at]] /\ e.new = None
                         /\ Moves!At(tree, Moves!Target(e.at, link[tree[e.at]])) \in moves.cold
                         /\ e = [at |-> e.at, old |-> e.old, new |-> None]
    BY <2>1 DEF Moves!Linked, Moves!Named
  <2>3. MoveTyped'
    BY <1>6, <2>1, <2>2
  <2>4. OneEach(Left)' /\ \A e \in Left' : e.at \in Moves!Noted(tree)
    BY <1>3, <2>1, <2>2 DEF OneEach, Left
  <2>5. ASSUME NEW p \in Moves!Noted(tree), meant[tree[p]] # None
        PROVE  WillLead(tree, cmd', moves.cold, p, link[tree[p]], meant[tree[p]])
    <3>1. /\ link[tree[p]] # None
          /\ Moves!At(tree, Moves!Target(p, link[tree[p]])) = meant[tree[p]]
      BY <1>4, <2>5 DEF LinksSound
    <3>2. \A e \in edits : e.at = p => e.new = None /\ meant[tree[p]] \in moves.cold
      BY <2>2, <3>1
    <3> QED
      BY <1>3, <1>7, <2>1, <3>1, <3>2 DEF WillLead, Leads
  <2>6. MoveFollowed'
    BY <1>1, <2>4, <2>5 DEF MoveFollowed
  <2> QED
    BY <1>3, <1>4, <1>7, <2>3, <2>6 DEF MoveInv, MoveBased, MovePlanned, MoveAccepted
<1>8. CASE cmd.kind # "prune"
  <2>1. Moving(tree, cmd) = cmd.shown.files
    BY <1>1, <1>8, PlanIs
  <2>2. /\ cmd.kind \in {"move", "delete"} /\ cmd.from \in Moves!Places
        /\ cmd.kind = "move" => /\ cmd.to \in Moves!Paths
                                /\ \A p \in Moving(tree, cmd) : Going(cmd, p) \in Moves!Paths
    BY <1>1, <1>5, <1>8, <2>1 DEF MoveInv, MoveGuards
  <2>3. /\ \A e \in edits \cup inner : e.new \in Moves!Links
        /\ \A e \in edits : e.at \in Moves!Noted(tree) \ Moving(tree, cmd)
        /\ \A e \in inner : cmd.kind = "move" /\ \E q \in Moving(tree, cmd) : e.at = Going(cmd, q)
        /\ OneEach(edits) /\ OneEach(inner)
        /\ \A p \in Moves!Noted(tree) \ Moving(tree, cmd) :
              InboundAt(cmd, p, link[tree[p]]) = {e \in edits : e.at = p}
        /\ \A p \in Moving(tree, cmd) : cmd.kind = "move" =>
              InnerAt(cmd, p, link[tree[p]]) = {e \in inner : e.at = Going(cmd, p)}
    BY <1>2, <1>5, <2>2, MovesDerived
  <2>4. /\ Moving(tree, cmd)' = Moving(tree, cmd)
        /\ \A p : Going(cmd, p)' = Going(cmd, p)
        /\ \A p, l : InboundAt(cmd', p, l) = InboundAt(cmd, p, l) /\ InnerAt(cmd', p, l) = InnerAt(cmd, p, l)
    <3>1. \A p : Going(cmd', p) = Going(cmd, p)
      BY <1>3 DEF Going
    <3>2. \A p, l : InnerAt(cmd', p, l) = InnerAt(cmd, p, l)
      <4>1. \A p, l : (Outward(cmd', p, l) <=> Outward(cmd, p, l))
                      /\ NewInner(cmd', p, l) = NewInner(cmd, p, l)
        BY <1>3, <3>1 DEF Outward, NewInner
      <4> QED
        BY <3>1, <4>1 DEF InnerAt
    <3>3. \A p, l : Inbound(cmd', p, l) <=> Inbound(cmd, p, l)
      BY <1>3 DEF Inbound
    <3>4. \A p, l : NewInbound(cmd', p, l) = NewInbound(cmd, p, l)
      BY <1>3, <3>1 DEF NewInbound, Moves!rewriteWikilink
    <3>5. \A p, l : InboundAt(cmd', p, l) = InboundAt(cmd, p, l)
      BY <3>3, <3>4 DEF InboundAt
    <3> QED
      BY <1>1, <1>3, <3>1, <3>2, <3>5 DEF Moving
  <2>5. MoveTyped'
    BY <1>6, <2>3
  <2>6. MoveBased'
    BY <1>1 DEF MoveInv, MoveBased
  <2>7. \A p \in Moves!Noted(tree) : PlannedAt(p)'
    BY <1>1, <1>3, <2>3, <2>4 DEF PlannedAt
  <2>8. MovePlanned'
    BY <1>1, <1>3, <1>8, <2>1, <2>3, <2>4, <2>7 DEF MovePlanned
  <2> QED
    BY <1>3, <1>4, <1>8, <2>5, <2>6, <2>8 DEF MoveInv, MoveFollowed, MoveAccepted
<1> QED
  BY <1>7, <1>8

\* The owner writes a link.
LEMMA MovesRelinked ==
    ASSUME MovesSane
    PROVE  MoveInv /\ (\E p \in Moves!Noted(tree) : Moves!Relink(p)) => MoveInv'
<1> SUFFICES ASSUME MoveInv, NEW p \in Moves!Noted(tree), Moves!Relink(p)
             PROVE  MoveInv'
  OBVIOUS
<1>1. PICK l \in Moves!Ways(p, tree) :
         /\ link' = [link EXCEPT ![tree[p]] = l]
         /\ meant' = [meant EXCEPT ![tree[p]] = Moves!At(tree, Moves!Target(p, l))]
         /\ touched' = IF cmd.stage = "derived" \/ (\E e \in Left : e.at = p /\ e.old = l)
                       THEN touched \cup {tree[p]} ELSE touched
         /\ UNCHANGED <<moves, tree, saved, cmd>>
  BY DEF Moves!Relink, Moves!Stage, Moves!Awaited, Left
<1>2. /\ tree \in [Moves!Paths -> Linking \cup {None}] /\ OnePlace(tree)
      /\ link \in [Linking -> Moves!Links \cup {None}] /\ meant \in [Linking -> Linking \cup {None}]
  BY DEF MoveInv, MoveTyped
<1>3. PICK m : m = Moves!At(tree, Moves!Target(p, l))
  OBVIOUS
<1>4. l \in Moves!Links /\ l # None /\ Moves!Straight(p, l) /\ m \in Linking /\ m # None
  BY <1>2, <1>3, WaysAre
<1>5. PICK n : n = tree[p]
  OBVIOUS
<1>6. n \in Linking /\ n # None /\ \A q \in Moves!Noted(tree) : tree[q] \in Linking /\ (tree[q] = n => q = p)
  BY <1>2, <1>5 DEF OnePlace, Moves!Noted
<1>7. /\ link' \in [Linking -> Moves!Links \cup {None}] /\ meant' \in [Linking -> Linking \cup {None}]
      /\ link'[n] = l /\ meant'[n] = m
      /\ \A k \in Linking : k # n => link'[k] = link[k] /\ meant'[k] = meant[k]
  BY <1>1, <1>2, <1>3, <1>4, <1>5, <1>6
<1>8. /\ UNCHANGED <<moves, tree, saved, cmd>> /\ touched \subseteq touched'
      /\ n \in touched' \/ (cmd.stage # "derived" /\ \A e \in Left : e.at = p => e.old # l)
  BY <1>1, <1>5
<1>9. MoveTyped'
  BY <1>7, <1>8 DEF MoveInv, MoveTyped, Left
<1>10. LinksSound(tree, link, meant) => LinksSound(tree, link', meant')
  <2> SUFFICES ASSUME LinksSound(tree, link, meant), NEW q \in Moves!Noted(tree), meant'[tree[q]] # None
               PROVE  /\ link'[tree[q]] # None
                      /\ Moves!At(tree, Moves!Target(q, link'[tree[q]])) = meant'[tree[q]]
    BY DEF LinksSound
  <2>1. CASE q = p
    BY <1>3, <1>4, <1>5, <1>7, <2>1
  <2>2. CASE q # p
    BY <1>6, <1>7, <2>2 DEF LinksSound
  <2> QED
    BY <2>1, <2>2
<1>11. MoveSound'
  BY <1>8, <1>10 DEF MoveInv, MoveSound
<1>12. MoveGuards'
  BY <1>8 DEF MoveInv, MoveGuards, Going
<1>13. MoveBased'
  <2> SUFFICES ASSUME cmd.stage \in {"ready", "scanned", "derived"}, NEW q \in Moves!Noted(tree)
               PROVE  \/ link'[tree[q]] \in {None, saved[2][tree[q]]}
                      \/ Moves!Straight(q, link'[tree[q]])
    BY <1>8 DEF MoveInv, MoveBased
  <2>1. CASE q = p
    BY <1>4, <1>5, <1>7, <2>1
  <2>2. CASE q # p
    BY <1>6, <1>7, <2>2 DEF MoveInv, MoveBased
  <2> QED
    BY <2>1, <2>2
<1>14. MovePlanned'
  <2>1. ASSUME cmd.stage = "derived", NEW q \in Moves!Noted(tree)
        PROVE  tree[q] \in touched' \/ PlannedAt(q)'
    <3>1. CASE q = p
      BY <1>5, <1>8, <2>1, <3>1
    <3>2. CASE q # p
      <4>1. tree[q] \in touched \/ PlannedAt(q)
        BY <2>1 DEF MoveInv, MovePlanned
      <4>2. link'[tree[q]] = link[tree[q]]
        BY <1>6, <1>7, <3>2
      <4> QED
        BY <1>8, <4>1, <4>2 DEF PlannedAt, Moving, Going
    <3> QED
      BY <3>1, <3>2
  <2>2. cmd' = cmd /\ tree' = tree /\ Moving(tree, cmd)' = Moving(tree, cmd)
    BY <1>8
  <2> QED
    BY <2>1, <2>2 DEF MoveInv, MovePlanned, Going
<1>15. MoveFollowed'
  <2> SUFFICES ASSUME cmd.stage \in {"moved", "checked"}, Moves!Plain
               PROVE  /\ OneEach(Left) /\ \A e \in Left : e.at \in Moves!Noted(tree)
                      /\ \A q \in Moves!Noted(tree) :
                            \/ meant'[tree[q]] = None \/ tree[q] \in touched'
                            \/ WillLead(tree, cmd, moves.cold, q, link'[tree[q]], meant'[tree[q]])
    BY <1>8 DEF MoveFollowed, Moves!Plain, Moves!Before, Left
  <2>1. MoveFollowed
    BY DEF MoveInv
  <2>2. /\ OneEach(Left) /\ \A e \in Left : e.at \in Moves!Noted(tree)
        /\ \A q \in Moves!Noted(tree) :
              \/ meant[tree[q]] = None \/ tree[q] \in touched
              \/ WillLead(tree, cmd, moves.cold, q, link[tree[q]], meant[tree[q]])
    BY <2>1 DEF MoveFollowed
  <2>3. ASSUME n \notin touched'
        PROVE  WillLead(tree, cmd, moves.cold, p, l, m)
    BY <1>3, <1>4, <1>8, <2>3 DEF WillLead, Leads, Left
  <2> QED
    BY <1>5, <1>6, <1>7, <1>8, <2>2, <2>3
<1>16. MoveAccepted'
  <2> SUFFICES ASSUME cmd.stage = "checked", cmd.before = 0, NEW q \in Moves!Noted(tree)
               PROVE  \/ link'[tree[q]] = None
                      \/ Moves!At(tree, Moves!Target(q, link'[tree[q]])) # None
    BY <1>8 DEF MoveInv, MoveAccepted, Left
  <2>1. CASE q = p
    BY <1>3, <1>4, <1>5, <1>7, <2>1
  <2>2. CASE q # p
    BY <1>6, <1>7, <2>2 DEF MoveInv, MoveAccepted
  <2> QED
    BY <2>1, <2>2
<1> QED
  BY <1>9, <1>11, <1>12, <1>13, <1>14, <1>15, <1>16 DEF MoveInv

\* The files are renamed.
LEMMA MovesRenamed ==
    ASSUME MovesSane
    PROVE  MoveInv /\ Moves!applyFileMoves => MoveInv'
<1> SUFFICES ASSUME MoveInv, Moves!applyFileMoves, ~ Moves!Rollback
             PROVE  MoveInv'
  BY MovesRolledBack
<1>1. /\ cmd.stage = "derived" /\ cmd' = [cmd EXCEPT !.stage = "moved"]
      /\ cmd.from.folder /\ cmd.kind = "move" => \A p \in Moves!Noted(tree) : ~ Moves!IsStrictPrefix(cmd.to, p)
      /\ tree' = Renamed(cmd, tree, cmd.plan.files)
      /\ UNCHANGED <<moves, link, meant, touched, saved>>
  BY DEF Moves!applyFileMoves, Moves!Stage, Moves!Goto, Renamed, Arrived, Going
<1>2. PICK T : T = Renamed(cmd, tree, Moving(tree, cmd))
  OBVIOUS
<1>3. /\ cmd'.kind = cmd.kind /\ cmd'.from = cmd.from /\ cmd'.to = cmd.to
      /\ cmd'.shown = cmd.shown /\ cmd'.edits = cmd.edits /\ cmd'.inner = cmd.inner
      /\ cmd'.stage = "moved"
      /\ cmd' = [stage |-> cmd'.stage, kind |-> cmd'.kind, from |-> cmd'.from, to |-> cmd'.to,
                 shown |-> cmd'.shown, plan |-> cmd'.plan, edits |-> cmd'.edits,
                 inner |-> cmd'.inner, before |-> cmd'.before]
  BY <1>1 DEF MoveInv, MoveTyped
<1>4. /\ tree \in [Moves!Paths -> Linking \cup {None}] /\ OnePlace(tree)
      /\ link \in [Linking -> Moves!Links \cup {None}]
  BY DEF MoveInv, MoveTyped
<1>5. /\ cmd.kind \in {"move", "delete"} /\ cmd.from \in Moves!Places
      /\ cmd.plan.files = Moving(tree, cmd) /\ Moving(tree, cmd) # {}
      /\ cmd.kind = "move" => /\ cmd.to \in Moves!Paths
                              /\ \A p \in Moving(tree, cmd) : Going(cmd, p) \in Moves!Paths
  BY <1>1 DEF MoveInv, MoveGuards, MovePlanned
<1>6. tree' = T /\ Moving(tree, cmd) \subseteq Moves!Noted(tree)
  BY <1>1, <1>2, <1>5 DEF Moving
<1>7. /\ T \in [Moves!Paths -> Linking \cup {None}] /\ OnePlace(T)
      /\ \A p \in Moves!Noted(T) :
            \/ p \in Moves!Noted(tree) \ Moving(tree, cmd) /\ T[p] = tree[p]
            \/ /\ cmd.kind # "delete"
               /\ \E q \in Moving(tree, cmd) : p = Going(cmd, q) /\ T[p] = tree[q]
  BY <1>2, <1>4, <1>6, RenamedIs
<1>8. MoveTyped'
  BY <1>1, <1>3, <1>6, <1>7 DEF MoveInv, MoveTyped, Left
<1>9. MoveSound' /\ MoveGuards'
  BY <1>1, <1>3 DEF MoveInv, MoveSound, MoveGuards, Going
<1>10. ASSUME Moves!Plain'
       PROVE  /\ Fits(cmd, tree) /\ NoneInside(tree)
              /\ cmd.kind = "delete" => Moves!At(T, <<Moves!Last(cmd.from.path)>>) = None
              /\ \A p \in Moves!Noted(tree) :
                    link[tree[p]] = None \/ Moves!Straight(p, link[tree[p]])
  <2>1. /\ cmd.kind = "move" /\ ~ cmd.from.folder => saved[1][cmd.to] = None
        /\ cmd.kind = "delete" => Moves!At(T, <<Moves!Last(cmd.from.path)>>) = None
        /\ \A p, q \in Moves!Noted(saved[1]) : ~ Moves!IsStrictPrefix(p, q)
        /\ \A p \in Moves!Noted(saved[1]) :
              saved[2][saved[1][p]] # None => Moves!Straight(p, saved[2][saved[1][p]])
    BY <1>1, <1>3, <1>6, <1>10 DEF Moves!Plain, Moves!Before
  <2>2. /\ tree = saved[1]
        /\ \A p \in Moves!Noted(tree) : \/ link[tree[p]] \in {None, saved[2][tree[p]]}
                                        \/ Moves!Straight(p, link[tree[p]])
    BY <1>1 DEF MoveInv, MoveBased
  <2> QED
    BY <1>1, <1>5, <2>1, <2>2 DEF Fits, NoneInside
<1>11. /\ \A e \in cmd.edits : e.at \in Moves!Noted(tree) \ Moving(tree, cmd)
       /\ \A e \in cmd.inner : cmd.kind = "move" /\ \E q \in Moving(tree, cmd) : e.at = Going(cmd, q)
       /\ OneEach(cmd.edits) /\ OneEach(cmd.inner)
       /\ \A p \in Moves!Noted(tree) : tree[p] \in touched \/ PlannedAt(p)
  BY <1>1 DEF MoveInv, MovePlanned
<1>12. ASSUME Moves!Plain'
       PROVE  \A q \in Moving(tree, cmd) : cmd.kind = "move" =>
                 Going(cmd, q) \in Moves!Paths /\ Going(cmd, q) \notin Moves!Noted(tree)
  BY <1>10, <1>12, GoingBeyond
<1>13. ASSUME Moves!Plain'
       PROVE  OneEach(Left) /\ \A e \in Left : e.at \in Moves!Noted(T)
  <2>1. OneEach(Left)
    BY <1>11, <1>12, <1>13 DEF Left, OneEach
  <2>2. /\ \A q \in Moves!Noted(tree) \ Moving(tree, cmd) : T[q] = tree[q]
        /\ \A q \in Moving(tree, cmd) : cmd.kind = "move" => T[Going(cmd, q)] = tree[q]
    BY <1>2, <1>4, <1>10, <1>13, FittedTree
  <2>3. ASSUME NEW e \in Left
        PROVE  e.at \in Moves!Noted(T)
    <3>1. CASE e \in cmd.edits
      BY <1>11, <2>2, <3>1 DEF Moves!Noted
    <3>2. CASE e \in cmd.inner
      <4>1. PICK q \in Moving(tree, cmd) : e.at = Going(cmd, q) /\ cmd.kind = "move"
        BY <1>11, <3>2
      <4>2. tree[q] # None
        BY <1>6 DEF Moves!Noted
      <4> QED
        BY <1>12, <1>13, <2>2, <4>1, <4>2 DEF Moves!Noted
    <3> QED
      BY <2>3, <3>1, <3>2 DEF Left
  <2> QED
    BY <2>1, <2>3
<1>14. LinksSound(tree, link, meant)
  BY <1>1 DEF MoveInv, MoveSound
<1>15. ASSUME Moves!Plain', NEW p \in Moves!Noted(tree) \ Moving(tree, cmd),
              tree[p] \notin touched, meant[tree[p]] # None
       PROVE  WillLead(T, cmd, moves.cold, p, link[tree[p]], meant[tree[p]])
  <2>1. PICK l, m : l = link[tree[p]] /\ m = meant[tree[p]]
    OBVIOUS
  <2>2. tree[p] \in Linking /\ p \in Moves!Paths
    BY <1>4 DEF Moves!Noted
  <2>3. l # None /\ l \in Moves!Links /\ m # None /\ Moves!At(tree, Moves!Target(p, l)) = m
    BY <1>4, <1>14, <1>15, <2>1, <2>2 DEF LinksSound
  <2>4. /\ InboundAt(cmd, p, l) = {} => Moves!At(T, Moves!Target(p, l)) \in {m, None}
        /\ \A e \in InboundAt(cmd, p, l) : Moves!At(T, Moves!Target(p, e.new)) \in {m, None}
    BY <1>2, <1>4, <1>5, <1>10, <1>15, <2>3, InboundFollows
  <2>5. InboundAt(cmd, p, l) = {e \in cmd.edits : e.at = p}
    BY <1>11, <1>15, <2>1 DEF PlannedAt
  <2>6. \A e \in Left : e.at = p => e \in InboundAt(cmd, p, l)
    BY <1>11, <1>12, <1>15, <2>5 DEF Left
  <2>7. \A e \in InboundAt(cmd, p, l) : e.new # None
    BY <1>5, <2>2, <2>3, InboundTyped DEF MovesSane
  <2>8. (\A e \in Left : e.at # p) => InboundAt(cmd, p, l) = {}
    BY <2>5 DEF Left
  <2> QED
    BY <2>1, <2>3, <2>4, <2>6, <2>7, <2>8 DEF WillLead, Leads, Left
<1>16. ASSUME Moves!Plain', cmd.kind = "move", NEW q \in Moving(tree, cmd),
              tree[q] \notin touched, meant[tree[q]] # None
       PROVE  WillLead(T, cmd, moves.cold, Going(cmd, q), link[tree[q]], meant[tree[q]])
  <2>1. PICK l, m, p : l = link[tree[q]] /\ m = meant[tree[q]] /\ p = Going(cmd, q)
    OBVIOUS
  <2>2. tree[q] \in Linking /\ q \in Moves!Paths /\ q \in Moves!Noted(tree)
    BY <1>4, <1>6 DEF Moves!Noted
  <2>3. l # None /\ l \in Moves!Links /\ m # None /\ Moves!At(tree, Moves!Target(q, l)) = m
    BY <1>4, <1>14, <1>16, <2>1, <2>2 DEF LinksSound
  <2>4. Moves!Straight(q, l)
    BY <1>10, <1>16, <2>1, <2>2, <2>3
  <2>5. /\ InnerAt(cmd, q, l) = {} => Moves!At(T, Moves!Target(p, l)) \in {m, None}
        /\ \A e \in InnerAt(cmd, q, l) : Moves!At(T, Moves!Target(p, e.new)) \in {m, None}
    BY <1>2, <1>4, <1>10, <1>16, <2>1, <2>3, <2>4, InnerFollows
  <2>6. InnerAt(cmd, q, l) = {e \in cmd.inner : e.at = p}
    BY <1>11, <1>16, <2>1, <2>2 DEF PlannedAt
  <2>7. \A e \in Left : e.at = p => e \in InnerAt(cmd, q, l)
    BY <1>11, <1>12, <1>16, <2>1, <2>6 DEF Left
  <2>8. \A e \in InnerAt(cmd, q, l) : e.new # None
    BY <1>5, <1>16, <2>2, <2>3, InnerTyped DEF MovesSane
  <2>9. (\A e \in Left : e.at # p) => InnerAt(cmd, q, l) = {}
    BY <2>6 DEF Left
  <2>10. WillLead(T, cmd, moves.cold, p, l, m)
    BY <2>3, <2>5, <2>7, <2>8, <2>9 DEF WillLead, Leads, Left
  <2> QED
    BY <2>1, <2>10
<1>17. MoveFollowed'
  <2> SUFFICES ASSUME Moves!Plain'
               PROVE  /\ OneEach(Left) /\ \A e \in Left : e.at \in Moves!Noted(T)
                      /\ \A p \in Moves!Noted(T) :
                            \/ meant[T[p]] = None \/ T[p] \in touched
                            \/ WillLead(T, cmd, moves.cold, p, link[T[p]], meant[T[p]])
    BY <1>1, <1>3, <1>6 DEF MoveFollowed, Left, WillLead, Leads
  <2>1. ASSUME NEW p \in Moves!Noted(T), meant[T[p]] # None, T[p] \notin touched
        PROVE  WillLead(T, cmd, moves.cold, p, link[T[p]], meant[T[p]])
    <3>1. CASE p \in Moves!Noted(tree) \ Moving(tree, cmd) /\ T[p] = tree[p]
      BY <1>15, <2>1, <3>1
    <3>2. CASE cmd.kind # "delete" /\ \E q \in Moving(tree, cmd) : p = Going(cmd, q) /\ T[p] = tree[q]
      BY <1>5, <1>16, <2>1, <3>2
    <3> QED
      BY <1>7, <3>1, <3>2
  <2> QED
    BY <1>13, <2>1
<1> QED
  BY <1>3, <1>8, <1>9, <1>17 DEF MoveInv, MoveBased, MovePlanned, MoveAccepted

\* A file is rewritten.
LEMMA MovesRewritten == MoveInv /\ Moves!applyEdits => MoveInv'
<1> SUFFICES ASSUME MoveInv, cmd.stage = "moved", NEW e \in Left, Moves!applyFileEdits(e), ~ Moves!Rollback
             PROVE  MoveInv'
  BY MovesRolledBack DEF Moves!applyEdits, Moves!Stage, Left
<1>1. /\ link[tree[e.at]] = e.old /\ link' = [link EXCEPT ![tree[e.at]] = e.new]
      /\ cmd' = [cmd EXCEPT !.edits = @ \ {e}, !.inner = @ \ {e}]
      /\ UNCHANGED <<moves, tree, meant, touched, saved>>
  BY DEF Moves!applyFileEdits
<1>2. /\ cmd'.kind = cmd.kind /\ cmd'.from = cmd.from /\ cmd'.to = cmd.to /\ cmd'.shown = cmd.shown
      /\ cmd'.edits = cmd.edits \ {e} /\ cmd'.inner = cmd.inner \ {e} /\ cmd'.stage = "moved"
      /\ cmd' = [stage |-> cmd'.stage, kind |-> cmd'.kind, from |-> cmd'.from, to |-> cmd'.to,
                 shown |-> cmd'.shown, plan |-> cmd'.plan, edits |-> cmd'.edits,
                 inner |-> cmd'.inner, before |-> cmd'.before]
  BY <1>1 DEF MoveInv, MoveTyped
<1>3. /\ tree \in [Moves!Paths -> Linking \cup {None}] /\ OnePlace(tree)
      /\ link \in [Linking -> Moves!Links \cup {None}] /\ e.new \in Moves!Links \cup {None}
  BY DEF MoveInv, MoveTyped
<1>4. Left' = Left \ {e}
  BY <1>2 DEF Left
<1>5. link' \in [Linking -> Moves!Links \cup {None}]
  BY <1>1, <1>3
<1>6. MoveTyped'
  BY <1>1, <1>2, <1>4, <1>5 DEF MoveInv, MoveTyped
<1>7. MoveSound' /\ MoveGuards'
  BY <1>1, <1>2 DEF MoveInv, MoveSound, MoveGuards, Going
<1>8. MoveFollowed'
  <2> SUFFICES ASSUME Moves!Plain
               PROVE  /\ OneEach(Left') /\ \A d \in Left' : d.at \in Moves!Noted(tree)
                      /\ \A p \in Moves!Noted(tree) :
                            \/ meant[tree[p]] = None \/ tree[p] \in touched
                            \/ WillLead(tree, cmd', moves.cold, p, link'[tree[p]], meant[tree[p]])
    <3>1. Moves!Plain' <=> Moves!Plain
      BY <1>1, <1>2 DEF Moves!Plain, Moves!Before
    <3> QED
      BY <1>1, <3>1 DEF MoveFollowed
  <2>1. /\ OneEach(Left) /\ \A d \in Left : d.at \in Moves!Noted(tree)
        /\ \A p \in Moves!Noted(tree) :
              \/ meant[tree[p]] = None \/ tree[p] \in touched
              \/ WillLead(tree, cmd, moves.cold, p, link[tree[p]], meant[tree[p]])
    BY DEF MoveInv, MoveFollowed
  <2>2. ASSUME NEW p \in Moves!Noted(tree), p # e.at, NEW m,
               WillLead(tree, cmd, moves.cold, p, link[tree[p]], m)
        PROVE  WillLead(tree, cmd', moves.cold, p, link'[tree[p]], m)
    <3>1. tree[p] # tree[e.at]
      BY <1>3, <2>1, <2>2 DEF OnePlace, Moves!Noted
    <3>2. link'[tree[p]] = link[tree[p]]
      BY <1>1, <1>3, <3>1 DEF Moves!Noted
    <3> QED
      BY <1>2, <2>2, <3>2 DEF WillLead, Leads
  <2>3. ASSUME NEW m, WillLead(tree, cmd, moves.cold, e.at, link[tree[e.at]], m)
        PROVE  WillLead(tree, cmd', moves.cold, e.at, link'[tree[e.at]], m)
    <3>1. Leads(tree, cmd, moves.cold, e.at, e.new, m)
      BY <1>1, <2>3 DEF WillLead, Left
    <3>2. link'[tree[e.at]] = e.new
      <4>1. tree[e.at] \in Linking
        BY <1>3, <2>1 DEF Moves!Noted
      <4> QED
        BY <1>1, <1>3, <4>1
    <3>3. \A d \in cmd'.edits \cup cmd'.inner : d.at # e.at
      BY <1>2, <2>1 DEF OneEach, Left
    <3> QED
      BY <1>2, <3>1, <3>2, <3>3 DEF WillLead, Leads
  <2> QED
    BY <1>4, <2>1, <2>2, <2>3 DEF OneEach
<1> QED
  BY <1>2, <1>6, <1>7, <1>8 DEF MoveInv, MoveBased, MovePlanned, MoveAccepted

\* Where no link is counted, none is broken.
LEMMA NoneBroken ==
    ASSUME IsFiniteSet(Linking), tree \in [Moves!Paths -> Linking \cup {None}], OnePlace(tree),
           ~ (Moves!BrokenLinks > 0)
    PROVE  \A p \in Moves!Noted(tree) :
              link[tree[p]] = None \/ Moves!At(tree, Moves!Target(p, link[tree[p]])) # None
<1>1. PICK B : B = {p \in Moves!Linked(tree) : Moves!Named(p) = None}
  OBVIOUS
<1>2. IsFiniteSet(B)
  <2>1. PICK f : f = [p \in B |-> tree[p]]
    OBVIOUS
  <2>2. B \subseteq Moves!Noted(tree)
    BY <1>1 DEF Moves!Linked
  <2>3. f \in Injection(B, Linking)
    <3>1. f \in [B -> Linking]
      BY <2>1, <2>2 DEF Moves!Noted
    <3>2. \A p, q \in B : f[p] = f[q] => p = q
      BY <2>1, <2>2 DEF OnePlace, Moves!Noted
    <3> QED
      BY <3>1, <3>2 DEF Injection, IsInjective
  <2> QED
    BY <2>3, FS_Injection
<1>3. Cardinality(B) = 0
  <2>1. Moves!BrokenLinks = Cardinality(B)
    <3>1. Moves!Cardinality(B) = Cardinality(B)
      BY DEF Moves!Cardinality, Cardinality
    <3> QED
      BY <1>1, <3>1 DEF Moves!BrokenLinks
  <2>2. Cardinality(B) \in Nat
    BY <1>2, FS_CardinalityType
  <2> QED
    BY <2>1, <2>2
<1>4. B = {}
  BY <1>2, <1>3, FS_EmptySet
<1> QED
  BY <1>1, <1>4 DEF Moves!Linked, Moves!Named

\* The command is accepted, and committed.
LEMMA MovesGated ==
    ASSUME IsFiniteSet(Linking)
    PROVE  MoveInv /\ Moves!applyIntegrityGate => MoveInv'
<1> SUFFICES ASSUME MoveInv, Moves!applyIntegrityGate, ~ Moves!Rollback
             PROVE  MoveInv'
  BY MovesRolledBack
<1>1. /\ cmd.stage = "moved" /\ cmd.edits = {} /\ cmd.inner = {} /\ ~ (Moves!BrokenLinks > cmd.before)
      /\ cmd' = [cmd EXCEPT !.stage = "checked"]
      /\ UNCHANGED <<moves, tree, link, meant, touched, saved>>
  BY DEF Moves!applyIntegrityGate, Moves!Stage, Moves!Goto, Moves!files
<1>2. /\ cmd'.kind = cmd.kind /\ cmd'.from = cmd.from /\ cmd'.to = cmd.to /\ cmd'.shown = cmd.shown
      /\ cmd'.edits = cmd.edits /\ cmd'.inner = cmd.inner /\ cmd'.stage = "checked"
      /\ cmd'.before = cmd.before
      /\ cmd' = [stage |-> cmd'.stage, kind |-> cmd'.kind, from |-> cmd'.from, to |-> cmd'.to,
                 shown |-> cmd'.shown, plan |-> cmd'.plan, edits |-> cmd'.edits,
                 inner |-> cmd'.inner, before |-> cmd'.before]
  BY <1>1 DEF MoveInv, MoveTyped
<1>3. MoveTyped'
  BY <1>1, <1>2 DEF MoveInv, MoveTyped, Left
<1>4. MoveSound' /\ MoveGuards'
  BY <1>1, <1>2 DEF MoveInv, MoveSound, MoveGuards, Going
<1>5. MoveFollowed'
  <2> SUFFICES ASSUME Moves!Plain
               PROVE  /\ OneEach(Left') /\ \A d \in Left' : d.at \in Moves!Noted(tree)
                      /\ \A p \in Moves!Noted(tree) :
                            \/ meant[tree[p]] = None \/ tree[p] \in touched
                            \/ WillLead(tree, cmd', moves.cold, p, link[tree[p]], meant[tree[p]])
    <3>1. Moves!Plain' <=> Moves!Plain
      BY <1>1, <1>2 DEF Moves!Plain, Moves!Before
    <3> QED
      BY <1>1, <3>1 DEF MoveFollowed
  <2>1. \A p, l, m : WillLead(tree, cmd, moves.cold, p, l, m) => WillLead(tree, cmd', moves.cold, p, l, m)
    BY <1>2 DEF WillLead, Leads
  <2> QED
    BY <1>1, <1>2, <2>1 DEF MoveInv, MoveFollowed, Left, OneEach
<1>6. MoveAccepted'
  <2>1. ASSUME cmd.before = 0
        PROVE  \A p \in Moves!Noted(tree) :
                  link[tree[p]] = None \/ Moves!At(tree, Moves!Target(p, link[tree[p]])) # None
    BY <1>1, <2>1, NoneBroken DEF MoveInv, MoveTyped
  <2> QED
    BY <1>1, <1>2, <2>1 DEF MoveAccepted, Left
<1> QED
  BY <1>2, <1>3, <1>4, <1>5, <1>6 DEF MoveInv, MoveBased, MovePlanned

LEMMA MovesCommitted == MoveInv /\ Moves!CommitBrainGit => MoveInv'
<1> SUFFICES ASSUME MoveInv, Moves!CommitBrainGit
             PROVE  MoveInv'
  OBVIOUS
<1>1. /\ cmd' = Moves!Nothing /\ saved' = <<tree, link, meant'>> /\ UNCHANGED <<moves, tree, link>>
      /\ meant' = [n \in Linking |-> IF \E p \in Moves!Linked(tree) : tree[p] = n
                                     THEN Moves!Named(CHOOSE p \in Moves!Paths : tree[p] = n) ELSE None]
  BY DEF Moves!CommitBrainGit
<1>2. tree \in [Moves!Paths -> Linking \cup {None}] /\ OnePlace(tree)
  BY DEF MoveInv, MoveTyped
<1>3. meant' \in [Linking -> Linking \cup {None}]
  BY <1>1, <1>2, AtTyped DEF Moves!Named
<1>4. saved'[1] = tree /\ saved'[2] = link /\ saved'[3] = meant'
  BY <1>1
<1>5. MoveTyped'
  BY <1>1, <1>3, <1>4 DEF MoveInv, MoveTyped, Moves!Nothing, Left
<1>6. LinksSound(tree, link, meant')
  <2> SUFFICES ASSUME NEW p \in Moves!Noted(tree), meant'[tree[p]] # None
               PROVE  /\ link[tree[p]] # None
                      /\ Moves!At(tree, Moves!Target(p, link[tree[p]])) = meant'[tree[p]]
    BY DEF LinksSound
  <2>1. p \in Moves!Paths /\ tree[p] \in Linking /\ tree[p] # None
    BY <1>2 DEF Moves!Noted
  <2>2. PICK r : r = CHOOSE q \in Moves!Paths : tree[q] = tree[p]
    OBVIOUS
  <2>3. r = p
    BY <1>2, <2>1, <2>2 DEF OnePlace
  <2>4. meant'[tree[p]] = IF \E q \in Moves!Linked(tree) : tree[q] = tree[p] THEN Moves!Named(r) ELSE None
    BY <1>1, <2>1, <2>2
  <2>5. PICK q \in Moves!Linked(tree) : tree[q] = tree[p]
    BY <2>4
  <2>6. link[tree[p]] # None
    BY <2>5 DEF Moves!Linked
  <2> QED
    BY <2>3, <2>4, <2>5, <2>6 DEF Moves!Named
<1>7. MoveSound'
  BY <1>1, <1>4, <1>6 DEF MoveSound
<1> QED
  BY <1>1, <1>5, <1>7 DEF MoveInv, MoveGuards, MoveBased, MovePlanned, MoveFollowed, MoveAccepted,
                          Moves!Nothing

LEMMA MovesGoOn ==
    ASSUME MovesSane, IsFiniteSet(Linking)
    PROVE  MoveInv /\ [Moves!Next]_(Moves!vars) => MoveInv'
<1> SUFFICES ASSUME MoveInv, [Moves!Next]_(Moves!vars)
             PROVE  MoveInv'
  OBVIOUS
<1>1. CASE \E p \in Moves!Noted(tree) : Moves!Relink(p)
  BY <1>1, MovesRelinked
<1>2. CASE Moves!DryRuns \/ Moves!Replan \/ Moves!ensureGitReady \/ Moves!Scan
  BY <1>2, MovesPrepared
<1>3. CASE Moves!Confirm
  BY <1>3, MovesConfirmed
<1>4. CASE Moves!applyFileMoves
  BY <1>4, MovesRenamed
<1>5. CASE Moves!applyEdits
  BY <1>5, MovesRewritten
<1>6. CASE Moves!applyIntegrityGate
  BY <1>6, MovesGated
<1>7. CASE Moves!CommitBrainGit
  BY <1>7, MovesCommitted
<1>8. CASE UNCHANGED Moves!vars
  <2>1. UNCHANGED <<moves, tree, link, meant, touched, saved, cmd>>
    BY <1>8 DEF Moves!vars, Moves!files
  <2>2. MoveTyped' /\ MoveSound' /\ MoveGuards' /\ MoveBased' /\ MoveAccepted'
    BY <2>1 DEF MoveInv, MoveTyped, MoveSound, MoveGuards, MoveBased, MoveAccepted, Left, Going
  <2>3. MovePlanned'
    BY <2>1 DEF MoveInv, MovePlanned, PlannedAt, Moving, Going
  <2>4. MoveFollowed'
    BY <2>1 DEF MoveInv, MoveFollowed, Moves!Plain, Moves!Before, Left
  <2> QED
    BY <2>2, <2>3, <2>4 DEF MoveInv
<1> QED
  BY <1>1, <1>2, <1>3, <1>4, <1>5, <1>6, <1>7, <1>8 DEF Moves!Next

\* When a command is about to be committed in a vault without broken links, every link names the
\* note that it was meant for, however many notes and folders there are (ApplyMove, integrity.go).
THEOREM LinksAreFollowed ==
    ASSUME MovesSane, IsFiniteSet(Linking)
    PROVE  Moves!Spec => []LinksFollow
<1>1. Moves!Init => MoveInv
  BY MoveStarts
<1>2. MoveInv /\ [Moves!Next]_(Moves!vars) => MoveInv'
  BY MovesGoOn
<1>3. MoveInv => LinksFollow
  <2> SUFFICES ASSUME MoveInv, Moves!Accepted, Moves!Plain, NEW p \in Moves!Noted(tree),
                      meant[tree[p]] # None, tree[p] \notin touched
               PROVE  IF link[tree[p]] = None THEN cmd.kind = "prune" /\ meant[tree[p]] \in moves.cold
                      ELSE Moves!Named(p) = meant[tree[p]]
    BY DEF LinksFollow, Moves!LinksFollow
  <2>1. cmd.stage = "checked" /\ cmd.before = 0
    BY DEF Moves!Accepted
  <2>2. WillLead(tree, cmd, moves.cold, p, link[tree[p]], meant[tree[p]])
    BY <2>1 DEF MoveInv, MoveFollowed
  <2>3. Left = {} /\ (link[tree[p]] = None \/ Moves!At(tree, Moves!Target(p, link[tree[p]])) # None)
    BY <2>1 DEF MoveInv, MoveAccepted
  <2>4. Leads(tree, cmd, moves.cold, p, link[tree[p]], meant[tree[p]])
    BY <2>2, <2>3 DEF WillLead, Left
  <2> QED
    BY <2>3, <2>4 DEF Leads, Moves!Named
<1> QED
  BY <1>1, <1>2, <1>3, PTL DEF Moves!Spec

---------------------------------------------------------------------------
(* All of the commands.                                                        *)

\* What is proved of one program by itself is true of a machine that runs all three.
THEOREM CommandsApart == VaultSpec => Spec /\ Memos!Spec /\ Moves!Spec
<1>1. VaultInit => Init /\ Memos!Init /\ Moves!Init
  BY DEF VaultInit
<1>2. ASSUME [VaultNext]_vaultVars
      PROVE  [Next]_vars /\ [Memos!Next]_(Memos!vars) /\ [Moves!Next]_(Moves!vars)
  BY <1>2 DEF VaultNext, vaultVars, memoVars, moveVars, vars, Memos!vars, Memos!files,
              Moves!vars, Moves!files
<1> QED
  BY <1>1, <1>2, PTL DEF VaultSpec, Spec, Memos!Spec, Moves!Spec

=============================================================================
