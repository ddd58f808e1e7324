----------------------------- MODULE MeetingMemos -----------------------------
(* `sloptools meetings watch` (cmd/sloptools/meetings.go, internal/meetings):  *)
(* a directory watch hands the recordings of an inbox to a pipeline that       *)
(* transcribes them and writes a commitment, or the notes of a meeting, and    *)
(* deletes the recording; and it hands notes that have changed to an ingestion *)
(* that makes commitments of their tasks, and closes those that are checked    *)
(* (internal/mcp/brain_gtd_ingest_meetings.go).  Both commit to git.  There is *)
(* one watcher, on the canonical host; recordings appear in the inbox whole.   *)
EXTENDS Naturals

CONSTANTS Recordings,
          Names,      \* of recordings; the notes of a meeting have the name of its recording
          Settings,   \* the circumstances the watcher works under
          None

\* A task is known by the text it was rendered with, which may be another one each time.
Tasks == Recordings \X {0, 1}

\* recordings: those that are made; name: of their files, and long: those of meetings; typed:
\* names of notes that are there from the beginning; tracked: whether notes are in the git
\* repository of the brain, where commitments are; gap: whether recordings are made and notes
\* edited also while the watcher is at its first scan, before it subscribes to the directories;
\* fails, killed: whether steps can fail, and the watcher be killed.
SettingRecords == [recordings : SUBSET Recordings, name : [Recordings -> Names],
                   long : SUBSET Recordings, typed : [Names -> Tasks \cup {None}],
                   tracked : BOOLEAN, gap : BOOLEAN, fails : BOOLEAN, killed : BOOLEAN]

VARIABLES setting,     \* one of the Settings, the same all the time
          inbox,       \* inbox[n]: the recording in the file n, or None
          made,        \* recordings that were made
          taken,       \* recordings whose file the watcher deleted
          sidecar,     \* names of recordings with a .failed file
          noteSidecar, \* names of notes with one
          checked,     \* tasks the owner has checked in some note
          work,        \* notes and commitments in the files
          head,        \* and in the last commit
          notesMtime,  \* whether a note is as it was when the watcher saw it last, or None
          watched,     \* directories that are subscribed to
          events,      \* directories with events that are not handled yet
          watcher      \* what it is doing, or None

files == <<inbox, made, taken, sidecar, noteSidecar, checked>>
vars == <<setting, files, work, head, notesMtime, watched, events, watcher>>

\* The notes of a meeting, with one task, that is checked or not and has an id or not.
Notes == [task : Tasks, done : BOOLEAN, id : BOOLEAN]
Repos == [note : [Names -> Notes \cup {None}],
          commitment : [Tasks -> {"inbox", "closed"} \cup {None}]]
Dirs == {"inbox", "notes"}

\* at: the next step; first: whether it is still starting; todo: names left to look at; name:
\* the one in hand; rec: the recording that was transcribed, or None for a note; read: the note
\* as it was read.
Steps == {"transcribe", "render", "prepare", "quick", "read", "stamp", "commit", "remove",
          "files", "discover", "notes", "subscribe", "wait"}
Watchers == [at : Steps, first : BOOLEAN, todo : SUBSET Names, name : Names \cup {None},
             rec : Recordings \cup {None}, read : Notes \cup {None}]

TypeOK == /\ setting \in Settings /\ inbox \in [Names -> Recordings \cup {None}]
          /\ made \subseteq Recordings /\ taken \subseteq made
          /\ sidecar \subseteq Names /\ noteSidecar \subseteq Names /\ checked \subseteq Tasks
          /\ work \in Repos /\ head \in Repos
          /\ notesMtime \in [Names -> BOOLEAN \cup {None}]
          /\ watched \subseteq Dirs /\ events \subseteq Dirs
          /\ watcher \in Watchers \cup {None}

Written(task) == [task |-> task, done |-> FALSE, id |-> FALSE]

Init == /\ setting \in Settings /\ made = {} /\ taken = {} /\ checked = {}
        /\ inbox = [n \in Names |-> None] /\ sidecar = {} /\ noteSidecar = {}
        /\ work = [note |-> [n \in Names |-> IF setting.typed[n] = None THEN None
                                             ELSE Written(setting.typed[n])],
                   commitment |-> [t \in Tasks |-> None]]
        /\ head = work
        /\ notesMtime = [n \in Names |-> None] /\ watched = {} /\ events = {} /\ watcher = None

At(step) == watcher # None /\ watcher.at = step
Goes(w) == watcher' = w
\* What happens in a directory is an event of it once it is subscribed to.
Happens(dirs) == events' = events \cup (dirs \cap watched)

\* The files of notes and commitments become these: a note that changes has another mtime.
Changed(new) == {n \in Names : new.note[n] # work.note[n]}
NoteEvents(new) == IF Changed(new) = {} THEN {} ELSE {"notes"}
Writes(new) == /\ work' = new
               /\ notesMtime' = [n \in Names |-> IF n \in Changed(new) /\ notesMtime[n] # None
                                                 THEN FALSE ELSE notesMtime[n]]

---------------------------------------------------------------------------
(* git: WithGitCommit of brain/git_commit.go.                                  *)

\* `git reset --hard` and `git clean`: commitments as committed, and notes too if they are there.
RolledBack == IF setting.tracked THEN head ELSE [work EXCEPT !.commitment = head.commitment]

---------------------------------------------------------------------------
(* The watcher, watcher.go.                                                    *)

NextFile == [watcher EXCEPT !.at = IF watcher.rec = None THEN "notes" ELSE "files",
                            !.name = None, !.rec = None, !.read = None]

\* writeSidecar: a step that fails is told beside the file in hand, and the next file is next;
\* what was not committed is rolled back if a command of git or of the mutation had failed.
Fails(repo, commit) ==
    /\ setting.fails /\ Goes(NextFile)
    /\ head' = commit /\ Writes(repo)
    /\ IF watcher.rec = None
       THEN noteSidecar' = noteSidecar \cup {watcher.name} /\ UNCHANGED sidecar
       ELSE sidecar' = sidecar \cup {watcher.name} /\ UNCHANGED noteSidecar
    /\ Happens(NoteEvents(repo) \cup {IF watcher.rec = None THEN "notes" ELSE "inbox"})
    /\ UNCHANGED <<setting, inbox, made, taken, checked, watched>>

\* scan: recordings without a sidecar.
Scanned == {n \in Names : inbox[n] # None /\ n \notin sidecar}
Idle == [at |-> "files", first |-> TRUE, todo |-> {}, name |-> None, rec |-> None, read |-> None]

\* cmdMeetingsWatch, Run, RunOnce and scanInbox.
Start == /\ watcher = None
         /\ Goes([Idle EXCEPT !.todo = Scanned])
         /\ UNCHANGED <<setting, files, work, head, notesMtime, watched, events>>

\* scanInbox goes on with a file, or after the last one RunOnce with the notes.
NextRecording ==
    /\ At("files")
    /\ \/ /\ watcher.todo = {}
          /\ Goes([watcher EXCEPT !.at = IF watcher.first THEN "discover" ELSE "wait"])
       \/ \E n \in watcher.todo :
              Goes([watcher EXCEPT !.at = "transcribe", !.name = n, !.rec = inbox[n],
                                   !.todo = @ \ {n}])
    /\ UNCHANGED <<setting, files, work, head, notesMtime, watched, events>>

\* Process: probe and transcribe. A memo is short or long, and rendered as such.
Transcribe ==
    /\ At("transcribe")
    /\ \/ Fails(work, head)
       \/ /\ Goes([watcher EXCEPT !.at = IF watcher.rec \in setting.long THEN "render" ELSE "prepare"])
          /\ UNCHANGED <<setting, files, work, head, notesMtime, watched, events>>

\* ingestLongMeeting writes the notes over those that were there, with the task in other words
\* when the model renders it once more.
Render ==
    /\ At("render")
    /\ \/ Fails(work, head)
       \/ \E k \in {0, 1} :
              LET new == [work EXCEPT !.note[watcher.name] = Written(<<watcher.rec, k>>)]
              IN  /\ Writes(new) /\ Happens(NoteEvents(new))
                  /\ Goes([watcher EXCEPT !.at = "prepare"])
                  /\ UNCHANGED <<setting, files, head, watched>>

\* ensureGitReady: the directory is no repository or a push fails; the commit of what is there
\* fails and that is lost; or it succeeds, before a push that may fail.
Prepare ==
    /\ At("prepare")
    /\ \/ Fails(work, head)
       \/ Fails(RolledBack, head)
       \/ Fails(work, work)
       \/ /\ head' = work
          /\ Goes([watcher EXCEPT !.at = IF watcher.rec = None \/ watcher.rec \in setting.long
                                         THEN "read" ELSE "quick"])
          /\ UNCHANGED <<setting, files, work, notesMtime, watched, events>>

\* WriteQuickMeetingCommitment: the ref comes of the name and the transcript, so a memo that is
\* processed twice has one commitment, in the inbox again.
WriteQuick ==
    /\ At("quick")
    /\ \/ Fails(RolledBack, head)
       \/ /\ Writes([work EXCEPT !.commitment[<<watcher.rec, 0>>] = "inbox"])
          /\ Goes([watcher EXCEPT !.at = "commit"])
          /\ UNCHANGED <<setting, files, head, watched, events>>

\* processNote reads the note.
ReadNote ==
    /\ At("read")
    /\ \/ Fails(RolledBack, head)
       \/ /\ work.note[watcher.name] # None
          /\ Goes([watcher EXCEPT !.at = "stamp", !.read = work.note[watcher.name]])
          /\ UNCHANGED <<setting, files, work, head, notesMtime, watched, events>>

\* processTask: a commitment that is bound to the task is closed with it, another is made
\* unless the task is done.
Ingested(commitment, task, done) ==
    IF commitment[task] = None
    THEN IF done THEN commitment ELSE [commitment EXCEPT ![task] = "inbox"]
    ELSE IF done THEN [commitment EXCEPT ![task] = "closed"] ELSE commitment

\* AssignIDs writes what was read, with the ids that were missing, then come the tasks.
Stamp ==
    /\ At("stamp")
    /\ LET read    == watcher.read
           stamped == IF read.id THEN work
                      ELSE [work EXCEPT !.note[watcher.name] = [read EXCEPT !.id = TRUE]]
           new     == [stamped EXCEPT !.commitment = Ingested(@, read.task, read.done)]
       IN  \/ Fails(RolledBack, head)
           \/ /\ Writes(new) /\ Happens(NoteEvents(new))
              /\ Goes([watcher EXCEPT !.at = "commit", !.read = None])
              /\ UNCHANGED <<setting, files, head, watched>>

AfterCommit == IF watcher.rec = None THEN NextFile ELSE [watcher EXCEPT !.at = "remove"]

\* Faulty variant: a commit that is undone goes for one that succeeded.
CommitAnyway ==
    /\ At("commit") /\ Goes(AfterCommit)
    /\ \/ head' = work /\ UNCHANGED <<work, notesMtime, events>>
       \/ setting.fails /\ Writes(RolledBack) /\ Happens(NoteEvents(RolledBack)) /\ UNCHANGED head
    /\ UNCHANGED <<setting, files, watched>>

\* Faulty variant: a note has been seen as it is when its ingestion ends.
CommitSeen ==
    /\ At("commit") /\ Goes(AfterCommit) /\ head' = work
    /\ notesMtime' = IF watcher.rec = None THEN [notesMtime EXCEPT ![watcher.name] = TRUE]
                     ELSE notesMtime
    /\ UNCHANGED <<setting, files, work, watched, events>>

\* CommitBrainGit: the commit fails and is undone, the push fails, or all is well.
Commit ==
    /\ At("commit")
    /\ \/ Fails(RolledBack, head)
       \/ Fails(work, work)
       \/ /\ head' = work
          /\ Goes(AfterCommit)
          /\ UNCHANGED <<setting, files, work, notesMtime, watched, events>>

\* processOne deletes a recording that was processed.
Remove ==
    /\ At("remove")
    /\ \/ Fails(work, head)
       \/ /\ inbox' = [inbox EXCEPT ![watcher.name] = None]
          /\ taken' = taken \cup {inbox[watcher.name]}
          /\ Goes(NextFile) /\ Happens({"inbox"})
          /\ UNCHANGED <<setting, made, sidecar, noteSidecar, checked, work, head, notesMtime, watched>>

\* scanMeetingNotes: the notes there are; what was known of others is forgotten.
Discover ==
    /\ At("discover")
    /\ LET live == {n \in Names : work.note[n] # None}
       IN  /\ Goes([watcher EXCEPT !.at = "notes", !.todo = live])
           /\ notesMtime' = [n \in Names |-> IF n \in live THEN notesMtime[n] ELSE None]
    /\ UNCHANGED <<setting, files, work, head, watched, events>>

\* Notes that are new, or newer than when they were looked at, are ingested; the mtime is noted
\* before. After the last one Run subscribes, or waits for the next event.
NextNote ==
    /\ At("notes")
    /\ \/ /\ watcher.todo = {}
          /\ Goes([watcher EXCEPT !.at = IF watcher.first THEN "subscribe" ELSE "wait"])
          /\ UNCHANGED notesMtime
       \/ \E n \in watcher.todo :
              IF work.note[n] = None \/ notesMtime[n] = TRUE
              THEN Goes([watcher EXCEPT !.todo = @ \ {n}]) /\ UNCHANGED notesMtime
              ELSE /\ notesMtime' = [notesMtime EXCEPT ![n] = TRUE]
                   /\ Goes([watcher EXCEPT !.at = "prepare", !.name = n, !.todo = @ \ {n}])
    /\ UNCHANGED <<setting, files, work, head, watched, events>>

\* Run adds the inbox to the inotify watch, then addNotesWatches the directories of notes.
Subscribe ==
    /\ At("subscribe")
    /\ \/ /\ watched = {} /\ watched' = {"inbox"} /\ UNCHANGED watcher
       \/ /\ watched = {"inbox"} /\ watched' = Dirs
          /\ Goes([watcher EXCEPT !.at = "wait", !.first = FALSE])
    /\ UNCHANGED <<setting, files, work, head, notesMtime, events>>

\* handleEvent: an event in the inbox is a scan of it, one in the notes a scan of them.
HandleEvent ==
    /\ At("wait")
    /\ \E dir \in events :
           /\ events' = events \ {dir}
           /\ Goes(IF dir = "inbox" THEN [watcher EXCEPT !.at = "files", !.todo = Scanned]
                   ELSE [watcher EXCEPT !.at = "discover"])
    /\ UNCHANGED <<setting, files, work, head, notesMtime, watched>>

\* The process is killed at any step; it keeps nothing but its files.
Kill ==
    /\ setting.killed /\ watcher # None
    /\ Goes(None) /\ events' = {} /\ watched' = {}
    /\ notesMtime' = [n \in Names |-> None]
    /\ UNCHANGED <<setting, files, work, head>>

---------------------------------------------------------------------------
(* The owner. Without gap nothing is done while the watcher is starting.       *)

OwnerActs == setting.gap \/ watcher = None \/ watched = Dirs

\* A recording is put into the inbox, under a name that is free there.
Record(r) ==
    LET n == setting.name[r]
    IN  /\ OwnerActs /\ r \in setting.recordings \ made /\ inbox[n] = None
        /\ made' = made \cup {r} /\ inbox' = [inbox EXCEPT ![n] = r]
        /\ Happens({"inbox"})
        /\ UNCHANGED <<setting, taken, sidecar, noteSidecar, checked, work, head, notesMtime,
                       watched, watcher>>

\* The task of a note is checked.
Check(n) ==
    /\ OwnerActs /\ work.note[n] # None /\ ~work.note[n].done
    /\ LET new == [work EXCEPT !.note[n].done = TRUE]
       IN  Writes(new) /\ Happens(NoteEvents(new))
    /\ checked' = checked \cup {work.note[n].task}
    /\ UNCHANGED <<setting, inbox, made, taken, sidecar, noteSidecar, head, watched, watcher>>

\* A sidecar is removed, to have the recording tried again.
RemoveSidecar(n) ==
    /\ OwnerActs /\ n \in sidecar
    /\ sidecar' = sidecar \ {n} /\ Happens({"inbox"})
    /\ UNCHANGED <<setting, inbox, made, taken, noteSidecar, checked, work, head, notesMtime,
                   watched, watcher>>

---------------------------------------------------------------------------
Next == \/ Start \/ NextRecording \/ Transcribe \/ Render \/ Prepare \/ WriteQuick \/ ReadNote
        \/ Stamp \/ Commit \/ Remove \/ Discover \/ NextNote \/ Subscribe \/ HandleEvent \/ Kill
        \/ \E r \in Recordings : Record(r)
        \/ \E n \in Names : Check(n) \/ RemoveSidecar(n)

Spec == Init /\ [][Next]_vars

---------------------------------------------------------------------------
\* A recording is deleted only when git has a commitment that was made of it, or when the owner
\* checked its task before one was: in whatever order steps fail, the process is killed and
\* memos of one name overwrite each other's notes, what was said is not lost.
RecordingsKept ==
    \A r \in taken : \E k \in {0, 1} : head.commitment[<<r, k>>] # None \/ <<r, k>> \in checked

\* When the watcher waits and nothing is pending, every recording in the inbox has a sidecar, and
\* the commitments follow every note without one: an open task has a commitment, and the
\* commitment of a task that is checked is closed. So nothing that happens while it works on
\* another file escapes it (what happens before it has subscribed may).
NothingOverlooked ==
    ~setting.gap /\ At("wait") /\ events = {} =>
        /\ \A n \in Names : inbox[n] # None => n \in sidecar
        /\ \A n \in Names \ noteSidecar :
               LET note == work.note[n]
               IN  note # None => IF note.done THEN work.commitment[note.task] # "inbox"
                                  ELSE work.commitment[note.task] # None

=============================================================================
