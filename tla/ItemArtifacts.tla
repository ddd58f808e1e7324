----------------------------- MODULE ItemArtifacts -----------------------------
(* The artifacts linked to items (internal/store/store_14.go): the table       *)
(* item_artifacts gives every linked artifact a role, and items.artifact_id    *)
(* repeats which of them is the item's primary one.  Every operation is one    *)
(* transaction, so it is one step; a transaction that fails leaves no trace.   *)
EXTENDS Naturals

CONSTANTS Items,      \* item ids
          MaxArtifact,\* bound: artifact ids are 1 .. MaxArtifact
          MaxTime,    \* bound: created_at runs from 0 to MaxTime, in seconds
          None        \* SQL NULL, or no link

Artifacts == 1 .. MaxArtifact
Roles     == {"source", "related", "output"}

VARIABLES items,      \* the rows of items
          artifacts,  \* the rows of artifacts
          primary,    \* primary[i]: items.artifact_id
          role,       \* role[i][a]: the role of the link between i and a, or None
          created,    \* created[i][a]: its created_at
          now

vars == <<items, artifacts, primary, role, created, now>>

TypeOK == /\ items \in SUBSET Items
          /\ artifacts \in SUBSET Artifacts
          /\ primary \in [Items -> Artifacts \cup {None}]
          /\ role \in [Items -> [Artifacts -> Roles \cup {None}]]
          /\ created \in [Items -> [Artifacts -> 0 .. MaxTime]]
          /\ now \in 0 .. MaxTime

Unlinked == [a \in Artifacts |-> None]

Init == /\ items = {} /\ artifacts = {}
        /\ primary = [i \in Items |-> None]
        /\ role = [i \in Items |-> Unlinked]
        /\ created = [i \in Items |-> [a \in Artifacts |-> 0]]
        /\ now = 0

Linked(i) == {a \in Artifacts : role[i][a] # None}

\* The row INSERT .. ON CONFLICT DO UPDATE SET role leaves: the link keeps its created_at.
Stamp(i, a) == created' = [created EXCEPT ![i][a] = IF role[i][a] = None THEN now ELSE @]

\* syncPrimaryItemArtifactTx: the old source becomes related, a becomes the source.
Demoted(roles) == [b \in Artifacts |-> IF roles[b] = "source" THEN "related" ELSE roles[b]]

Promoted(roles, a) == IF a = None THEN Demoted(roles)
                      ELSE [Demoted(roles) EXCEPT ![a] = "source"]

SetPrimary(i, roles, a) == /\ primary' = [primary EXCEPT ![i] = a]
                           /\ role' = [role EXCEPT ![i] = Promoted(roles, a)]

-----------------------------------------------------------------------------
CreateArtifact(a) == /\ a \notin artifacts
                     /\ artifacts' = artifacts \cup {a}
                     /\ UNCHANGED <<items, primary, role, created, now>>

CreateItem(i, a) ==
    /\ i \notin items
    /\ a \in artifacts \cup {None}
    /\ items' = items \cup {i}
    /\ SetPrimary(i, Unlinked, a)
    /\ IF a = None THEN created' = created ELSE Stamp(i, a)
    /\ UNCHANGED <<artifacts, now>>

\* UpdateItemArtifact, and UpdateItem with an artifact.
UpdateItemArtifact(i, a) ==
    /\ i \in items
    /\ a \in artifacts \cup {None}
    /\ SetPrimary(i, role[i], a)
    /\ IF a = None THEN created' = created ELSE Stamp(i, a)
    /\ UNCHANGED <<items, artifacts, now>>

\* Faulty variant: the primary artifact can be linked again under a lesser role.
LinkAnyRole(i, a, r) ==
    /\ i \in items
    /\ a \in artifacts
    /\ IF r = "source" THEN SetPrimary(i, role[i], a)
       ELSE role' = [role EXCEPT ![i][a] = r] /\ UNCHANGED primary
    /\ Stamp(i, a)
    /\ UNCHANGED <<items, artifacts, now>>

\* The primary artifact stays the source, whatever role the caller asks for.
LinkItemArtifact(i, a, r) ==
    /\ i \in items
    /\ a \in artifacts
    /\ IF r = "source" \/ primary[i] = a
       THEN SetPrimary(i, role[i], a)
       ELSE role' = [role EXCEPT ![i][a] = r] /\ UNCHANGED primary
    /\ Stamp(i, a)
    /\ UNCHANGED <<items, artifacts, now>>

Rank(r) == CASE r = "source" -> 0 [] r = "related" -> 1 [] OTHER -> 2

\* The order choosePrimaryItemArtifactTx sorts the remaining links in.
Before(i, a, b) ==
    \/ Rank(role[i][a]) < Rank(role[i][b])
    \/ /\ Rank(role[i][a]) = Rank(role[i][b])
       /\ \/ created[i][a] < created[i][b]
          \/ created[i][a] = created[i][b] /\ a <= b

\* choosePrimaryItemArtifactTx once the link to gone is deleted.
NextPrimary(i, gone, a) ==
    LET left == Linked(i) \ {gone}
    IN  IF left = {} THEN a = None ELSE a \in left /\ \A b \in left : Before(i, a, b)

UnlinkItemArtifact(i, a) ==
    /\ i \in items
    /\ a \in Linked(i)
    /\ IF primary[i] = a
       THEN \E b \in Artifacts \cup {None} :
               NextPrimary(i, a, b) /\ SetPrimary(i, [role[i] EXCEPT ![a] = None], b)
       ELSE role' = [role EXCEPT ![i][a] = None] /\ UNCHANGED primary
    /\ UNCHANGED <<items, artifacts, created, now>>

\* ON DELETE CASCADE on the links, ON DELETE SET NULL on items.artifact_id.
DeleteArtifact(a) ==
    /\ a \in artifacts
    /\ artifacts' = artifacts \ {a}
    /\ role' = [i \in Items |-> [role[i] EXCEPT ![a] = None]]
    /\ primary' = [i \in Items |-> IF primary[i] = a THEN None ELSE primary[i]]
    /\ UNCHANGED <<items, created, now>>

DeleteItem(i) ==
    /\ i \in items
    /\ items' = items \ {i}
    /\ role' = [role EXCEPT ![i] = Unlinked]
    /\ primary' = [primary EXCEPT ![i] = None]
    /\ UNCHANGED <<artifacts, created, now>>

Tick == now < MaxTime /\ now' = now + 1
        /\ UNCHANGED <<items, artifacts, primary, role, created>>

Next == \/ \E a \in Artifacts : CreateArtifact(a) \/ DeleteArtifact(a)
        \/ \E i \in Items : DeleteItem(i)
        \/ \E i \in Items, a \in Artifacts : UnlinkItemArtifact(i, a)
        \/ \E i \in Items, a \in Artifacts \cup {None} :
              CreateItem(i, a) \/ UpdateItemArtifact(i, a)
        \/ \E i \in Items, a \in Artifacts, r \in Roles : LinkItemArtifact(i, a, r)
        \/ Tick

Spec == Init /\ [][Next]_vars

-----------------------------------------------------------------------------
\* The two records of the primary artifact agree after every sequence of operations: an
\* item has at most one link with the role source, and it is the one artifact_id names.
PrimaryIsTheSource == \A i \in Items, a \in Artifacts : role[i][a] = "source" <=> primary[i] = a

\* Links join rows that exist, so that ListItemArtifacts and ListArtifactItems never meet a
\* missing side.
LinksResolve == \A i \in Items, a \in Artifacts :
                   role[i][a] # None => i \in items /\ a \in artifacts

=============================================================================
