----------------------------- MODULE StoreTables ----------------------------
(* The sphere links (SphereScope) and the links between items and artifacts    *)
(* (ItemArtifacts) are tables of one database that no operation reads          *)
(* together.  A behaviour changes the ones or the others.                      *)
EXTENDS SphereScope

CONSTANTS MaxArtifact, MaxTime

VARIABLES items, artifacts, primary, role, created, now,
          part   \* the tables that change

Links == INSTANCE ItemArtifacts

linkVars == <<items, artifacts, primary, role, created, now>>

ASSUME ConstantsAssumption ==
    /\ Settings \subseteq SettingRecords
    /\ None \notin Rows /\ Workspaces \cap Items = {}
    /\ MaxArtifact \in Nat /\ MaxTime \in Nat
    /\ None \notin Links!Roles /\ None \notin Nat

StoreInit == Init /\ Links!Init /\ part \in {"spheres", "artifacts"}

StoreNext ==
    /\ UNCHANGED part
    /\ \/ part = "artifacts" /\ Links!Next /\ UNCHANGED vars
       \/ part = "spheres" /\ Next /\ UNCHANGED linkVars

storeVars == <<vars, linkVars, part>>

StoreSpec == StoreInit /\ [][StoreNext]_storeVars

\* The primary artifact of every item is the one its source link names.
PrimaryIsTheSource == Links!PrimaryIsTheSource

=============================================================================
