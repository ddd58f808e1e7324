---------------------------- MODULE VaultCommands ---------------------------
(* Three programs that write notes and commitments through                     *)
(* brain.WithGitCommit, in vaults of their own: the tools for GTD commitments  *)
(* (GtdSync), the watcher of recordings (MeetingMemos), and the commands that  *)
(* move notes (NoteMoves).  A behaviour is one of one of them.                 *)
EXTENDS GtdSync

CONSTANTS Recordings, Names, MemoSettings, Linking, Segments, Depth, MoveSettings

VARIABLES memo, inbox, made, taken, sidecar, noteSidecar, checked, work, pushed, notesMtime,
          watched, events, watcher,
          moves, tree, link, meant, touched, saved, spent, cmd,
          part   \* the program that runs

Memos == INSTANCE MeetingMemos WITH Settings <- MemoSettings, setting <- memo, head <- pushed

memoVars == <<memo, inbox, made, taken, sidecar, noteSidecar, checked, work, pushed,
              notesMtime, watched, events, watcher>>

Moves == INSTANCE NoteMoves WITH Notes <- Linking, Names <- Segments,
                                 Settings <- MoveSettings, setting <- moves

moveVars == <<moves, tree, link, meant, touched, saved, spent, cmd>>

ASSUME PartsAssumption == /\ MemoSettings \subseteq Memos!SettingRecords
                          /\ Depth \in Nat /\ \A s \in MoveSettings : s \in Moves!SettingRecords

VaultInit == Init /\ Memos!Init /\ Moves!Init /\ part \in {"gtd", "memos", "moves"}

VaultNext == /\ UNCHANGED part
             /\ \/ part = "gtd" /\ Next /\ UNCHANGED <<memoVars, moveVars>>
                \/ part = "memos" /\ Memos!Next /\ UNCHANGED <<vars, moveVars>>
                \/ part = "moves" /\ Moves!Next /\ UNCHANGED <<vars, memoVars>>

vaultVars == <<vars, memoVars, moveVars, part>>

VaultSpec == VaultInit /\ [][VaultNext]_vaultVars

\* A recording is deleted only when git has what was made of it.
RecordingsKept == Memos!RecordingsKept

\* When the watcher waits, no recording and no note that changed is overlooked.
NothingOverlooked == Memos!NothingOverlooked

\* An accepted command leaves every link to the note it was meant for.
LinksFollow == Moves!LinksFollow

\* A link to a note that is not moved is not rewritten.
OnlyUnderMoved == Moves!OnlyUnderMoved

=============================================================================
