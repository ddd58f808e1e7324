--------------------------- MODULE MCVaultCommands --------------------------
(* VaultCommands with two agents and objects, three commitments, two           *)
(* recordings, and three notes to move.                                        *)
EXTENDS VaultCommands

CONSTANTS a1, a2, o1, o2, r1, r2, m1, m2, n1, n2, n3, s1, s2, s3

\* One sync at a time, while the owner and others change their sides in between.
Syncing == [agents |-> {a1}, notes |-> {1, 2}, objects |-> {o1, o2},
            tools |-> Tools \ {"review", "bind"}, overlap |-> FALSE, owner |-> TRUE,
            others |-> TRUE, fails |-> TRUE, restarts |-> FALSE]
\* One review at a time, of three notes.
Reviewing == [Syncing EXCEPT !.notes = {1, 2, 3}, !.tools = {"review"}, !.owner = FALSE,
                             !.others = FALSE, !.restarts = TRUE]
\* Notes are bound together also when they are closed or merged.
Binding == [Syncing EXCEPT !.objects = {o1}, !.tools = {"push", "bind"}, !.restarts = TRUE]
\* Two syncs at once, while nobody else does anything.
Crowded == [Syncing EXCEPT !.agents = {a1, a2}, !.tools = {"push", "periodic"}, !.overlap = TRUE,
                           !.owner = FALSE, !.others = FALSE, !.fails = FALSE]
\* An owner who edits notes, between the calls.
Editing == [Syncing EXCEPT !.tools = {"set_status"}, !.objects = {o1}]

TwoAgents == {a1, a2}
TwoObjects == {o1, o2}
AllSettings == {Syncing, Reviewing, Binding, Crowded}
OnlyEditing == {Editing}

\* A short memo and a meeting, with nothing that fails; notes that someone has typed under the
\* name of a recording; steps that fail, on a short memo, on a meeting whose notes are committed
\* and on the typed notes; a watcher that is killed; and two meetings of one name.
Memo == [recordings |-> {r1, r2}, name |-> [r \in Recordings |-> IF r = r1 THEN m1 ELSE m2],
         long |-> {r2}, typed |-> [n \in Names |-> None], tracked |-> FALSE, gap |-> FALSE,
         fails |-> FALSE, killed |-> FALSE]
Typed == [Memo EXCEPT !.typed[m1] = <<r1, 1>>, !.recordings = {r2}]
FailingNotes == [Typed EXCEPT !.fails = TRUE, !.recordings = {}]
FailingShort == [Memo EXCEPT !.fails = TRUE, !.recordings = {r1}]
FailingLong == [Memo EXCEPT !.fails = TRUE, !.recordings = {r2}, !.tracked = TRUE, !.gap = TRUE]
Killed == [Memo EXCEPT !.killed = TRUE, !.gap = TRUE]
SameName == [Memo EXCEPT !.name[r2] = m1, !.long = {r1, r2}]

TwoRecordings == {r1, r2}
TwoNames == {m1, m2}
AllMemos == {Memo, Typed, FailingNotes, FailingShort, FailingLong, Killed, SameName}
OnlyMemo == {Memo}

\* Two folders that share no name with a note; a folder with a note of the name of another in
\* the next folder; cold notes, tasks and a link to nothing; and a note with the name of a folder.
Laid(p1, p2, p3) == [p \in UNION {[1 .. k -> {s1, s2, s3}] : k \in 1 .. 2} |->
                         CASE p = p1 -> n1 [] p = p2 -> n2 [] p = p3 -> n3 [] OTHER -> None]
All(paths) == [path : paths, folder : BOOLEAN]
Apart == [tree |-> Laid(<<s1>>, <<s2, s1>>, <<s2, s3>>), linked |-> {n1, n2, n3}, todo |-> {},
          broken |-> FALSE, cold |-> {}, kinds |-> {"move", "delete"},
          from |-> All({<<s1>>, <<s2>>, <<s2, s1>>}),
          to |-> {<<s3>>, <<s3, s1>>, <<s2, s2>>, <<s1, s3>>}, relinks |-> 1, commands |-> 1]
Inner == [Apart EXCEPT !.tree = Laid(<<s1, s1>>, <<s1, s2>>, <<s2, s2>>), !.linked = {n1, n2},
                       !.from = All({<<s1>>, <<s1, s1>>, <<s2, s2>>}), !.to = {<<s2, s1>>, <<s3>>}]
Cold == [Apart EXCEPT !.cold = {n1, n3}, !.todo = {n2}, !.broken = TRUE, !.linked = {n1, n2},
                      !.kinds = {"move", "delete", "prune"}, !.relinks = 0, !.commands = 2]
Namesakes == [Apart EXCEPT !.tree = Laid(<<s1>>, <<s1, s2>>, <<s3, s2>>), !.linked = {n1, n3},
                           !.from = All({<<s1>>, <<s1, s2>>}), !.relinks = 0, !.commands = 2]
Unlinked == [Namesakes EXCEPT !.linked = {}]

ThreeNotes == {n1, n2, n3}
ThreeSegments == {s1, s2, s3}
AllMoves == {Apart, Inner, Cold, Namesakes, Unlinked}
OnlyUnlinked == {Unlinked}
OnlyNamesakes == {Namesakes}

\* While one program runs, the others are at rest, with one of their settings and first states.
Unbound == /\ upstream = [o \in Objects |-> "open"]
           /\ \A n \in Notes : note[n].bindings = {} /\ note[n].overlay = None

MCInit == /\ \/ part = "gtd" /\ memo = Memo /\ moves = Unlinked
             \/ part = "memos" /\ setting \in {Crowded, Editing} /\ moves = Unlinked
             \/ part = "moves" /\ setting \in {Crowded, Editing} /\ memo = Memo
          /\ Init /\ (part = "gtd" \/ Unbound) /\ VaultInit

MCSpec == MCInit /\ [][VaultNext]_vaultVars

=============================================================================
