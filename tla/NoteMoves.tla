------------------------------ MODULE NoteMoves ------------------------------
(* The commands that move and delete notes and unlink cold ones                *)
(* (internal/brain/movenote.go, dream_prune.go).  A dry run shows a plan; the  *)
(* apply derives it again, renames, and rewrites links file by file.  It is    *)
(* gated by a count of broken links (cmd/sloptools/brain_validation_gate.go)   *)
(* and then committed, or rolled back.  The owner edits links at any time.     *)
(* There is one vault, one command at a time, and at most one link in a note,  *)
(* to another note.                                                            *)
EXTENDS Naturals, FiniteSets, SequencesExt

CONSTANTS Notes, Names,
          Depth,     \* how deep folders go
          Settings,  \* the circumstances the commands run under
          None

\* A note and a folder may share a path, because the file of a note ends in .md.
Paths == UNION {[1 .. k -> Names] : k \in 1 .. Depth}
Places == [path : Paths, folder : BOOLEAN]
Nowhere == [path |-> <<>>, folder |-> FALSE]

\* A wikilink has the path of a note from the root of the brain, a Markdown link the way to it
\* from the folder it is in: so many folders up, and down a path.
Links == [kind : {"wikilink", "markdown"}, up : Nat, path : Seq(Names)]
Kinds == {"move", "delete", "prune"}

\* tree: where the notes are at first; linked: those that have a link, and todo: on the line of a
\* task; broken: whether one may be to nothing; cold: notes that nobody touched for a year;
\* kinds, from, to: the commands there are; relinks, commands: bounds on the edits of the owner
\* and on the commands that apply a plan.
SettingRecords == [tree : [Paths -> Notes \cup {None}], linked : SUBSET Notes, todo : SUBSET Notes,
                   broken : BOOLEAN, cold : SUBSET Notes, kinds : SUBSET Kinds,
                   from : SUBSET Places, to : SUBSET Paths, relinks : Nat, commands : Nat]

VARIABLES setting,  \* one of the Settings, the same all the time
          tree,     \* tree[p]: the note in the file p of the working tree
          link,     \* link[n]: the link of the note n
          meant,    \* meant[n]: the note that it named when it was written, or at the last commit
          touched,  \* notes that the owner edited between the plan and the renaming, or gave back
                    \* the line that is left to rewrite
          saved,    \* what of these is in the last commit
          spent,    \* how many edits and commands there were
          cmd       \* the command

files == <<tree, link, meant>>
vars == <<setting, files, touched, saved, spent, cmd>>

Edits == [at : Paths, old : Links, new : Links \cup {None}]
Plans == [files : SUBSET Paths, edits : SUBSET Edits, inner : SUBSET Edits]
Stages == {"idle", "shown", "planned", "ready", "scanned", "derived", "moved", "checked"}

\* shown: the plan of the dry run; plan: that of the apply; edits, inner: what is left of it to
\* write; before: how many links were broken.
Commands == [stage : Stages, kind : Kinds \cup {None}, from : Places \cup {Nowhere},
             to : Paths \cup {<<>>}, shown : Plans \cup {None}, plan : Plans \cup {None},
             edits : SUBSET Edits, inner : SUBSET Edits, before : Nat]
Nothing == [stage |-> "idle", kind |-> None, from |-> Nowhere, to |-> <<>>, shown |-> None,
            plan |-> None, edits |-> {}, inner |-> {}, before |-> 0]

Noted(t) == {p \in Paths : t[p] # None}
At(t, p) == IF p \in Paths THEN t[p] ELSE None

TypeOK == /\ setting \in Settings /\ cmd \in Commands /\ touched \subseteq Notes
          /\ tree \in [Paths -> Notes \cup {None}] /\ link \in [Notes -> Links \cup {None}]
          /\ meant \in [Notes -> Notes \cup {None}]
          /\ \A p, q \in Noted(tree) : tree[p] = tree[q] => p = q

-----------------------------------------------------------------------------
\* filepath.Rel: the way to a note from a folder.
Rel(dir, p) == LET common == LongestCommonPrefix({dir, Front(p)})
               IN  [kind |-> "markdown", up |-> Len(dir) - Len(common),
                    path |-> SubSeq(p, Len(common) + 1, Len(p))]

Wikilink(p) == [kind |-> "wikilink", up |-> 0, path |-> p]

\* Where a link of the note at p leads to; a way that leaves the brain leads nowhere.
Target(p, l) == IF l.kind = "wikilink" THEN l.path
                ELSE LET dir == Front(p)
                     IN  IF l.up > Len(dir) THEN <<>> ELSE SubSeq(dir, 1, Len(dir) - l.up) \o l.path

Linked(t) == {p \in Noted(t) : link[t[p]] # None}
Named(p) == At(tree, Target(p, link[tree[p]]))

\* IntegrityScan counts the links to nothing.
BrokenLinks == Cardinality({p \in Linked(tree) : Named(p) = None})

pathInsideMoved(p, from) == IF from.folder THEN IsStrictPrefix(from.path, p) ELSE p = from.path

destinationFor(p, from, to) == to \o SubSeq(p, Len(from.path) + 1, Len(p))

\* What matchWikilink compares is without .md: it takes a note for the folder of its name.
matchWikilink(l, from) == l.kind = "wikilink" /\ IsPrefix(from.path, l.path)

\* A deletion leaves the last name in the brackets.
rewriteWikilink(l, c) == Wikilink(IF c.kind = "delete" THEN <<Last(c.from.path)>>
                                  ELSE destinationFor(l.path, c.from, c.to))

\* The edits in notes that stay; a deletion leaves Markdown links as they are.
collectInboundEdits(c, moved) ==
    LET Rest == Linked(tree) \ moved
        Of(p) == link[tree[p]]
        Wiki == {p \in Rest : matchWikilink(Of(p), c.from)}
        Mark == {p \in Rest : /\ Of(p).kind = "markdown" /\ c.kind # "delete"
                              /\ pathInsideMoved(Target(p, Of(p)), c.from)}
    IN  {[at |-> p, old |-> Of(p), new |-> rewriteWikilink(Of(p), c)] : p \in Wiki}
        \cup {[at |-> p, old |-> Of(p),
               new |-> Rel(Front(p), destinationFor(Target(p, Of(p)), c.from, c.to))] : p \in Mark}

\* The edits in notes that move: of Markdown links to what does not move along.
collectInnerEdits(c, moved) ==
    LET Dest(p) == destinationFor(p, c.from, c.to)
        New(p) == Rel(Front(Dest(p)), Target(p, link[tree[p]]))
        Outward == {p \in moved \cap Linked(tree) :
                       LET l == link[tree[p]]
                       IN  /\ l.kind = "markdown" /\ Target(p, l) # <<>>
                           /\ ~ pathInsideMoved(Target(p, l), c.from)}
    IN  {[at |-> Dest(p), old |-> link[tree[p]], new |-> New(p)] :
            p \in {q \in Outward : New(q) # link[tree[q]]}}

PlanMove(c) ==
    LET moved == {p \in Noted(tree) : pathInsideMoved(p, c.from)}
    IN  [files |-> moved, edits |-> collectInboundEdits(c, moved),
         inner |-> IF c.kind = "delete" THEN {} ELSE collectInnerEdits(c, moved)]

\* Wikilinks to cold notes become plain text.
BuildDreamPrunePlan ==
    [files |-> {}, inner |-> {},
     edits |-> {[at |-> p, old |-> link[tree[p]], new |-> None] :
                   p \in {q \in Linked(tree) : /\ link[tree[q]].kind = "wikilink"
                                               /\ Named(q) \in setting.cold}}]

Plan(c) == IF c.kind = "prune" THEN BuildDreamPrunePlan ELSE PlanMove(c)

-----------------------------------------------------------------------------
\* The links that somebody may write into the note at p.
Ways(p, t) == UNION {{Wikilink(q), Rel(Front(p), q)} : q \in Noted(t) \ {p}}

Init ==
    /\ setting \in Settings /\ cmd = Nothing /\ touched = {}
    /\ tree = setting.tree /\ spent = [relinks |-> 0, commands |-> 0]
    /\ LET Dead == IF setting.broken THEN {Wikilink(q) : q \in Paths \ Noted(tree)} ELSE {}
           Place(n) == CHOOSE p \in Paths : tree[p] = n
       IN  /\ link \in [Notes -> (UNION {Ways(p, tree) : p \in Noted(tree)}) \cup Dead \cup {None}]
           /\ \A n \in Notes : IF n \in setting.linked THEN link[n] \in Ways(Place(n), tree) \cup Dead
                               ELSE link[n] = None
           /\ meant = [n \in Notes |-> IF link[n] = None THEN None ELSE Named(Place(n))]
    /\ saved = files

Stage(stage) == cmd.stage = stage
Goto(stage) == cmd' = [cmd EXCEPT !.stage = stage]

\* It is the line that is left to rewrite in the note at p.
Awaited(p, l) == \E e \in cmd.edits \cup cmd.inner : e.at = p /\ e.old = l

\* The owner writes a link to a note that is there.
Relink(p) ==
    /\ spent.relinks < setting.relinks /\ spent' = [spent EXCEPT !.relinks = @ + 1]
    /\ \E l \in Ways(p, tree) \ {link[tree[p]]} :
          /\ link' = [link EXCEPT ![tree[p]] = l]
          /\ meant' = [meant EXCEPT ![tree[p]] = At(tree, Target(p, l))]
          /\ touched' = IF Stage("derived") \/ Awaited(p, l) THEN touched \cup {tree[p]} ELSE touched
    /\ UNCHANGED <<setting, tree, saved, cmd>>

\* The dry run.  PlanMove refuses to move a folder into itself, and what is not there.
DryRun(kind, from, to) ==
    /\ cmd.stage = "idle" /\ spent.commands < setting.commands
    /\ LET c == [Nothing EXCEPT !.stage = "shown", !.kind = kind, !.from = from, !.to = to]
       IN  /\ cmd' = [c EXCEPT !.shown = Plan(c)]
           /\ kind # "prune" => Plan(c).files # {}
           /\ kind = "move" =>
                /\ to # from.path /\ ~ (from.folder /\ IsPrefix(from.path, to))
                /\ \A p \in Plan(c).files : destinationFor(p, from, to) \in Paths
    /\ UNCHANGED <<setting, files, touched, saved, spent>>

DryRuns == \/ /\ "move" \in setting.kinds
              /\ \E from \in setting.from, to \in setting.to : DryRun("move", from, to)
           \/ "delete" \in setting.kinds /\ \E from \in setting.from : DryRun("delete", from, <<>>)
           \/ "prune" \in setting.kinds /\ DryRun("prune", Nowhere, <<>>)

\* The apply makes a plan; for a prune there is none before the next scan.
Replan == /\ Stage("shown") /\ spent' = [spent EXCEPT !.commands = @ + 1]
          /\ cmd' = [cmd EXCEPT !.stage = "planned",
                                !.plan = IF cmd.kind = "prune" THEN cmd.shown ELSE Plan(cmd)]
          /\ UNCHANGED <<setting, files, touched, saved>>

\* What the owner edited is committed.
ensureGitReady == /\ Stage("planned") /\ Goto("ready") /\ saved' = files
                  /\ UNCHANGED <<setting, files, touched, spent>>

Scan == /\ Stage("ready") /\ cmd' = [cmd EXCEPT !.stage = "scanned", !.before = BrokenLinks]
        /\ UNCHANGED <<setting, files, touched, saved, spent>>

\* git reset --hard and git clean: edits of the owner since ensureGitReady are lost too.
Rollback == /\ cmd' = Nothing /\ touched' = {}
            /\ tree' = saved[1] /\ link' = saved[2] /\ meant' = saved[3]
            /\ UNCHANGED <<setting, saved, spent>>

\* The digests of the dry run, of the plan and of a plan that is derived now must be the same.
Confirm == /\ Stage("scanned")
           /\ IF cmd.shown = cmd.plan /\ cmd.plan = Plan(cmd)
              THEN /\ cmd' = [cmd EXCEPT !.stage = IF cmd.kind = "prune" THEN "moved" ELSE "derived",
                                         !.edits = cmd.plan.edits, !.inner = cmd.plan.inner]
                   /\ touched' = {}
                   /\ UNCHANGED <<setting, files, saved, spent>>
              ELSE Rollback

\* os.Rename replaces a note, but no folder with something in it.
applyFileMoves ==
    /\ Stage("derived")
    /\ LET moved == cmd.plan.files
           Came(p) == IF cmd.kind = "delete" THEN {}
                      ELSE {q \in moved : destinationFor(q, cmd.from, cmd.to) = p}
       IN  IF cmd.from.folder /\ cmd.kind = "move" /\ \E p \in Noted(tree) : IsStrictPrefix(cmd.to, p)
           THEN Rollback
           ELSE /\ tree' = [p \in Paths |-> IF Came(p) # {} THEN tree[CHOOSE q \in Came(p) : TRUE]
                                            ELSE IF p \in moved THEN None ELSE tree[p]]
                /\ Goto("moved")
                /\ UNCHANGED <<setting, link, meant, touched, saved, spent>>

\* One file is rewritten, or the command is refused: the line is not what it was, or it is a task
\* and would change outside the brackets of a wikilink.
applyFileEdits(e) ==
    LET n == tree[e.at]
    IN  IF \/ link[n] # e.old
           \/ n \in setting.todo /\ (e.old.kind = "markdown" \/ e.new = None)
        THEN Rollback
        ELSE /\ link' = [link EXCEPT ![n] = e.new]
             /\ cmd' = [cmd EXCEPT !.edits = @ \ {e}, !.inner = @ \ {e}]
             /\ UNCHANGED <<setting, tree, meant, touched, saved, spent>>

\* First the notes that stay, then those that moved.
applyEdits == Stage("moved") /\ \E e \in IF cmd.edits # {} THEN cmd.edits ELSE cmd.inner : applyFileEdits(e)

\* Faulty variant: whatever was broken, it is committed.
GateOpen == /\ Stage("moved") /\ cmd.edits = {} /\ cmd.inner = {}
            /\ Goto("checked") /\ UNCHANGED <<setting, files, touched, saved, spent>>

applyIntegrityGate ==
    /\ Stage("moved") /\ cmd.edits = {} /\ cmd.inner = {}
    /\ IF BrokenLinks > cmd.before THEN Rollback
       ELSE Goto("checked") /\ UNCHANGED <<setting, files, touched, saved, spent>>

\* From here on the links mean what they name now.
CommitBrainGit ==
    /\ Stage("checked") /\ cmd' = Nothing /\ touched' = {}
    /\ meant' = [n \in Notes |-> IF \E p \in Linked(tree) : tree[p] = n
                                THEN Named(CHOOSE p \in Paths : tree[p] = n) ELSE None]
    /\ saved' = <<tree, link, meant'>>
    /\ UNCHANGED <<setting, tree, link, spent>>

Next == \/ \E p \in Noted(tree) : tree[p] \in setting.linked /\ Relink(p)
        \/ DryRuns \/ Replan \/ ensureGitReady \/ Scan \/ Confirm \/ applyFileMoves
        \/ applyEdits \/ applyIntegrityGate \/ CommitBrainGit

Spec == Init /\ [][Next]_vars

-----------------------------------------------------------------------------
Before == saved[1]
Accepted == cmd.stage = "checked" /\ cmd.before = 0

\* A link that takes the shortest way, and to another note.
Straight(p, l) == l.kind = "markdown" => l = Rel(Front(p), Target(p, l)) /\ Target(p, l) # p

\* The circumstances in which the links are looked after: nothing is moved onto another note, no
\* other note has the last name of one that is deleted, no note has the name of a folder, and no
\* relative link makes a detour or is to its own note (those are not rewritten when both ends move).
Plain == /\ cmd.kind = "move" /\ ~ cmd.from.folder => Before[cmd.to] = None
         /\ cmd.kind = "delete" => At(tree, <<Last(cmd.from.path)>>) = None
         /\ \A p, q \in Noted(Before) : ~ IsStrictPrefix(p, q)
         /\ \A p \in Noted(Before) : saved[2][Before[p]] # None => Straight(p, saved[2][Before[p]])

\* When a command is about to be committed in a vault without broken links, every link names the
\* note that was meant when it was written, wherever both are by now, though the gate only counts
\* the links to nothing (ApplyMove, integrity.go) and the owner went on editing; except links to
\* cold notes that a prune made plain text, those written between the plan and the renaming, and
\* those that were given the text that the plan still rewrites.
LinksFollow ==
    Accepted /\ Plain => \A p \in Noted(tree) :
        LET n == tree[p]
        IN  \/ meant[n] = None \/ n \in touched
            \/ IF link[n] = None THEN cmd.kind = "prune" /\ meant[n] \in setting.cold
               ELSE Named(p) = meant[n]

\* "rewriteWikilink rewrites a wikilink body when its target falls under fromRel" (move_plan.go):
\* a link to another note is not rewritten.
OnlyUnderMoved ==
    Accepted /\ cmd.kind = "move" => \A e \in cmd.plan.edits :
        e.old.kind = "wikilink" => pathInsideMoved(e.old.path, cmd.from)

=============================================================================
