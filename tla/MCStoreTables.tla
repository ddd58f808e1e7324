---------------------------- MODULE MCStoreTables ---------------------------
(* StoreTables with two clients, workspaces and items.                         *)
EXTENDS StoreTables

CONSTANTS c1, c2, w1, w2, i1, i2

TwoClients == {c1, c2}
TwoWorkspaces == {w1, w2}
TwoItems == {i1, i2}

AllRows == TwoWorkspaces \cup TwoItems
AllCalls == {"CreateItem", "UpdateItem", "SetItemSphere", "SetItemWorkspace", "UpsertItem",
             "DeleteItem", "CreateWorkspace", "ReuseWorkspace", "SetWorkspaceSphere",
             "EnsureDailyWorkspace", "DeleteWorkspace", "SetActiveSphere"}

\* Three ways of using the store: one careful client, one whose calls can stop between any two
\* statements, and two on one workspace and one item.
CarefulClient == [clients |-> {c1}, rows |-> AllRows, fail |-> FALSE,
                  ops |-> AllCalls \ {"SetItemWorkspace", "ReuseWorkspace"}]
FailingClient == [clients |-> {c1}, rows |-> AllRows, fail |-> TRUE, ops |-> AllCalls]
TwoAtOnce == [clients |-> {c1, c2}, rows |-> {w1, i1}, fail |-> FALSE, ops |-> AllCalls]
AllSettings == {CarefulClient, FailingClient, TwoAtOnce}

\* While the one part changes, the other is at rest in one of its settings.
MCInit == /\ StoreInit
          /\ part = "artifacts" => setting = CarefulClient

MCSpec == MCInit /\ [][StoreNext]_storeVars

=============================================================================
