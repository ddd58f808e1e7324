------------------------------ MODULE SphereScope ------------------------------
(* The sphere (work or private) of workspaces and items.  It is not a column:  *)
(* it is a link from the row to one of two root contexts, rewritten by a       *)
(* DELETE and an INSERT that are separate statements                           *)
(* (syncScopedContextLink, internal/store/store_16.go).  An item in a          *)
(* workspace is meant to have the workspace's sphere, which every operation    *)
(* copies into the item's own link.                                            *)
(*                                                                             *)
(* A call reads what it needs in one step and leaves in todo[c] the statements *)
(* it still has to run, one step each; clients interleave between them.        *)
EXTENDS Naturals, FiniteSets, SequencesExt

CONSTANTS Clients,
          Workspaces, Items,   \* row ids
          Settings,            \* the ways the store is used, of which a behaviour has one
          None                 \* SQL NULL

Spheres == {"work", "private"}
Rows    == Workspaces \cup Items

AllOps == {"CreateItem", "UpdateItem", "SetItemSphere", "SetItemWorkspace", "UpsertItem",
           "DeleteItem", "CreateWorkspace", "ReuseWorkspace", "SetWorkspaceSphere",
           "EnsureDailyWorkspace", "DeleteWorkspace", "SetActiveSphere"}

\* clients: who calls; rows: the ids in use; ops: the operations they use; fail: whether a
\* statement can fail half-way through a call.
SettingRecords == [clients : SUBSET Clients, rows : SUBSET Rows, ops : SUBSET AllOps,
                   fail : BOOLEAN]

VARIABLES setting,    \* the way the store is used, which does not change
          rows,       \* the rows that exist
          links,      \* links[e]: the scope contexts row e is linked to
          workspace,  \* workspace[i]: items.workspace_id
          active,     \* the app state active_sphere
          todo        \* todo[c]: the statements of c's call still to run

vars == <<setting, rows, links, workspace, active, todo>>

Statements == [do : {"insert", "touch", "move", "clear", "link", "propagate"},
               e : Rows, s : Spheres \cup {None}, w : Workspaces \cup {None}]

TypeOK == /\ setting \in Settings
          /\ rows \in SUBSET setting.rows
          /\ links \in [Rows -> SUBSET Spheres]
          /\ workspace \in [Items -> Workspaces \cup {None}]
          /\ active \in Spheres
          /\ todo \in [Clients -> Seq(Statements)]

Init == /\ setting \in Settings
        /\ rows = {}
        /\ links = [e \in Rows |-> {}]
        /\ workspace = [i \in Items |-> None]
        /\ active = "private"
        /\ todo = [c \in Clients |-> <<>>]

\* scopedContextSelect: work wins over private, private when there is no link.
Sphere(e) == IF "work" \in links[e] THEN "work" ELSE "private"

Stmt(do, e, s, w) == [do |-> do, e |-> e, s |-> s, w |-> w]

\* Faulty variant: the new link is added beside the old one.
AddScope(e, s) == <<Stmt("link", e, s, None)>>

\* syncScopedContextLink
SyncScope(e, s) == <<Stmt("clear", e, None, None), Stmt("link", e, s, None)>>

\* resolveItemSphere
ResolvedSphere(w, requested) == IF w # None THEN Sphere(w)
                                ELSE IF requested # None THEN requested ELSE active

Starts(c, op, stmts) == /\ op \in setting.ops
                        /\ todo[c] = <<>>
                        /\ todo' = [todo EXCEPT ![c] = stmts]
                        /\ UNCHANGED <<setting, rows, links, workspace, active>>

Reserved == {todo[c][1].e : c \in {d \in Clients : todo[d] # <<>>}}

-----------------------------------------------------------------------------
(* The calls: what they read and the statements they then run.                 *)

CreateItem(c, i, w, requested) ==
    /\ i \in (Items \cap setting.rows) \ (rows \cup Reserved)
    /\ w \in rows \cup {None}
    /\ Starts(c, "CreateItem",
              <<Stmt("insert", i, None, w)>> \o SyncScope(i, ResolvedSphere(w, requested)))

\* UpdateItem, with w the workspace the item has afterwards: only an item without one
\* takes a sphere of its own.
UpdateItem(c, i, w, s) ==
    /\ i \in Items \cap rows
    /\ w \in rows \cup {None}
    /\ s # None => w = None
    /\ Starts(c, "UpdateItem",
              (IF w = workspace[i] THEN <<Stmt("touch", i, None, None)>>
                                   ELSE <<Stmt("move", i, None, w)>>)
              \o SyncScope(i, IF w # None THEN Sphere(w)
                              ELSE IF s # None THEN s ELSE Sphere(i)))

SetItemSphere(c, i, s) ==
    /\ i \in Items \cap rows
    /\ workspace[i] = None
    /\ Starts(c, "SetItemSphere", <<Stmt("touch", i, None, None)>> \o SyncScope(i, s))

\* SetItemWorkspace: one UPDATE; the links stay.
SetItemWorkspace(c, i, w) == Starts(c, "SetItemWorkspace", <<Stmt("move", i, None, w)>>)

\* UpsertItemFromSource of a known source.
UpsertItem(c, i, w) ==
    /\ i \in Items \cap rows
    /\ w \in rows \cup {None}
    /\ Starts(c, "UpsertItem",
              <<Stmt("move", i, None, w)>> \o SyncScope(i, ResolvedSphere(w, Sphere(i))))

CreateWorkspace(c, w, s) ==
    /\ w \in (Workspaces \cap setting.rows) \ (rows \cup Reserved)
    /\ Starts(c, "CreateWorkspace", <<Stmt("insert", w, None, None)>> \o SyncScope(w, s))

\* CreateWorkspace of a directory that is a workspace already.
ReuseWorkspace(c, w, s) ==
    w \in Workspaces \cap rows /\ Starts(c, "ReuseWorkspace", SyncScope(w, s))

\* Faulty variant: the items of the workspace are forgotten.
RescopeWorkspaceOnly(w, s) == <<Stmt("touch", w, None, None)>> \o SyncScope(w, s)

RescopeWorkspace(w, s) ==
    <<Stmt("touch", w, None, None)>> \o SyncScope(w, s) \o <<Stmt("propagate", w, s, None)>>

SetWorkspaceSphere(c, w, s) ==
    w \in Workspaces \cap setting.rows /\ Starts(c, "SetWorkspaceSphere", RescopeWorkspace(w, s))

\* EnsureDailyWorkspace: a daily workspace follows the active sphere.
EnsureDailyWorkspace(c, w) ==
    /\ w \in (Workspaces \cap setting.rows) \ Reserved
    /\ w \in rows => Sphere(w) # active
    /\ Starts(c, "EnsureDailyWorkspace",
              IF w \in rows THEN RescopeWorkspace(w, active)
              ELSE <<Stmt("insert", w, None, None)>> \o SyncScope(w, active))

-----------------------------------------------------------------------------
(* Statements.                                                                 *)

Running(c, do) == todo[c] # <<>> /\ Head(todo[c]).do = do

Advance(c)  == todo' = [todo EXCEPT ![c] = Tail(@)]
GiveUp(c)   == todo' = [todo EXCEPT ![c] = <<>>]

\* INSERT, or UPDATE .. WHERE id, of the row; an UPDATE that finds no row, and a
\* workspace_id or an id that is not there or already there, end the call.
ExecRow(c) ==
    LET q == Head(todo[c])
        ok == (q.do = "insert" <=> q.e \notin rows) /\ q.w \in rows \cup {None}
    IN  /\ Running(c, "insert") \/ Running(c, "touch") \/ Running(c, "move")
        /\ IF ok THEN /\ rows' = rows \cup {q.e}
                      /\ workspace' = IF q.do # "touch" /\ q.e \in Items
                                      THEN [workspace EXCEPT ![q.e] = q.w] ELSE workspace
                      /\ Advance(c)
           ELSE GiveUp(c) /\ UNCHANGED <<rows, workspace>>
        /\ UNCHANGED <<setting, links, active>>

ExecClear(c) ==
    /\ Running(c, "clear")
    /\ links' = [links EXCEPT ![Head(todo[c]).e] = {}]
    /\ Advance(c)
    /\ UNCHANGED <<setting, rows, workspace, active>>

ExecLink(c) ==
    LET q == Head(todo[c])
    IN  /\ Running(c, "link")
        /\ IF q.e \in rows THEN links' = [links EXCEPT ![q.e] = @ \cup {q.s}] /\ Advance(c)
           ELSE GiveUp(c) /\ UNCHANGED links
        /\ UNCHANGED <<setting, rows, workspace, active>>

\* SyncScope of every item of a sequence, one after the other.
Relinks(itemIDs, s) ==
    [n \in 1 .. 2 * Len(itemIDs) |->
        SyncScope(itemIDs[(n + 1) \div 2], s)[IF n % 2 = 1 THEN 1 ELSE 2]]

\* SetWorkspaceSphere's SELECT of the workspace's items, in any order, each to be re-linked.
ExecPropagate(c) ==
    LET q == Head(todo[c])
    IN  /\ Running(c, "propagate")
        /\ \E itemIDs \in SetToSeqs({i \in Items \cap rows : workspace[i] = q.e}) :
              todo' = [todo EXCEPT ![c] = Relinks(itemIDs, q.s)]
        /\ UNCHANGED <<setting, rows, links, workspace, active>>

Fail(c) == /\ setting.fail /\ todo[c] # <<>>
           /\ GiveUp(c)
           /\ UNCHANGED <<setting, rows, links, workspace, active>>

-----------------------------------------------------------------------------
(* Operations of one statement; deleting a row deletes its links.              *)

DeleteItem(c, i) ==
    /\ "DeleteItem" \in setting.ops /\ todo[c] = <<>> /\ i \in Items \cap rows
    /\ rows' = rows \ {i}
    /\ links' = [links EXCEPT ![i] = {}]
    /\ workspace' = [workspace EXCEPT ![i] = None]
    /\ UNCHANGED <<setting, active, todo>>

DeleteWorkspace(c, w) ==
    /\ "DeleteWorkspace" \in setting.ops /\ todo[c] = <<>> /\ w \in Workspaces \cap rows
    /\ rows' = rows \ {w}
    /\ links' = [links EXCEPT ![w] = {}]
    /\ workspace' = [i \in Items |-> IF workspace[i] = w THEN None ELSE workspace[i]]
    /\ UNCHANGED <<setting, active, todo>>

SetActiveSphere(c, s) ==
    /\ "SetActiveSphere" \in setting.ops /\ todo[c] = <<>>
    /\ active' = s
    /\ UNCHANGED <<setting, rows, links, workspace, todo>>

Exec(c) == ExecRow(c) \/ ExecClear(c) \/ ExecLink(c) \/ ExecPropagate(c) \/ Fail(c)

ItemCall(c) ==
    \E i \in Items :
       \/ \E w \in Workspaces \cup {None}, s \in Spheres \cup {None} :
             CreateItem(c, i, w, s) \/ UpdateItem(c, i, w, s)
       \/ \E w \in Workspaces \cup {None} : SetItemWorkspace(c, i, w) \/ UpsertItem(c, i, w)
       \/ \E s \in Spheres : SetItemSphere(c, i, s)
       \/ DeleteItem(c, i)

WorkspaceCall(c) ==
    \/ \E w \in Workspaces, s \in Spheres :
          CreateWorkspace(c, w, s) \/ ReuseWorkspace(c, w, s) \/ SetWorkspaceSphere(c, w, s)
    \/ \E w \in Workspaces : EnsureDailyWorkspace(c, w) \/ DeleteWorkspace(c, w)
    \/ \E s \in Spheres : SetActiveSphere(c, s)

Next == \E c \in setting.clients : Exec(c) \/ ItemCall(c) \/ WorkspaceCall(c)

Spec == Init /\ [][Next]_vars

-----------------------------------------------------------------------------
Quiet == \A c \in Clients : todo[c] = <<>>
Alone == Cardinality(setting.clients) = 1

\* Between the calls of one client whose statements succeed, every item in a workspace has
\* the workspace's sphere, however items and workspaces were created, moved and re-scoped:
\* as long as nobody calls SetItemWorkspace, or CreateWorkspace on a known directory.
SphereFollowsWorkspace ==
    Quiet /\ Alone /\ ~setting.fail /\ setting.ops \cap {"SetItemWorkspace", "ReuseWorkspace"} = {} =>
        \A i \in Items \cap rows : workspace[i] # None => Sphere(i) = Sphere(workspace[i])

\* One client, even when calls fail half-way: no row is ever in both spheres. Any number of
\* clients, no failing statement: between calls every row is in a sphere explicitly, so that it
\* shows up under a sphere filter (scopedContextFilter), which unlike scopedContextSelect has
\* no default. So a filter lists a row once.
OneScope == /\ Alone => \A e \in Rows : links[e] # Spheres
            /\ Quiet /\ ~setting.fail => \A e \in rows : links[e] # {}

=============================================================================
