--------------------------- MODULE StoreTablesProofs ---------------------------
(* Proofs about the tables of links in the store.  For any number of clients,  *)
(* workspaces and items no row ends up in both spheres or in none, and items   *)
(* follow their workspace (SphereScope); for any number of items and artifacts *)
(* the two records of an item's primary artifact agree (ItemArtifacts).        *)
EXTENDS StoreTables, FiniteSetTheorems, SequenceTheorems, TLAPS

\* Rows are numbered per table; the items and the clients are finitely many.
Sane == /\ Settings \subseteq SettingRecords /\ IsFiniteSet(Items) /\ IsFiniteSet(Clients)
        /\ Workspaces \cap Items = {} /\ None \notin Rows

---------------------------------------------------------------------------
(* The statements of a call.                                                   *)

\* A link is deleted only to be inserted anew right away, and inserted only after that; the
\* links of a new row follow its INSERT.
Paired(t) == \A n \in 1 .. Len(t) :
    /\ t[n].do = "insert" => n < Len(t) /\ t[n + 1].do = "clear" /\ t[n + 1].e = t[n].e
    /\ t[n].do = "clear" => n < Len(t) /\ t[n + 1].do = "link" /\ t[n + 1].e = t[n].e
    /\ t[n].do = "link" => t[n].s \in Spheres /\ (n > 1 => t[n - 1].do = "clear")
    /\ t[n].do = "propagate" => t[n].s \in Spheres
    /\ t[n].do = "insert" => t[n].e \in setting.rows

\* What a call leaves to be run when it starts.
Plan(t) == t \in Seq(Statements) /\ Paired(t) /\ (t # <<>> => t[1].do # "link")

Base == /\ TypeOK
        /\ \A c \in Clients : Paired(todo[c])
        /\ \A i \in Items : workspace[i] \in rows \cup {None}

LEMMA StatementType ==
    ASSUME NEW do \in {"insert", "touch", "move", "clear", "link", "propagate"}, NEW e \in Rows,
           NEW s \in Spheres \cup {None}, NEW w \in Workspaces \cup {None}
    PROVE  /\ Stmt(do, e, s, w) \in Statements
           /\ Stmt(do, e, s, w).do = do /\ Stmt(do, e, s, w).e = e /\ Stmt(do, e, s, w).s = s
           /\ Stmt(do, e, s, w).w = w
  BY DEF Stmt, Statements

\* The statements about a row itself.
LEMMA RowStatement ==
    ASSUME NEW e \in Rows, NEW w \in Workspaces \cup {None}
    PROVE  /\ Stmt("insert", e, None, w) \in Statements /\ Stmt("insert", e, None, w).e = e
           /\ Stmt("insert", e, None, w).do = "insert" /\ Stmt("insert", e, None, w).w = w
           /\ Stmt("move", e, None, w) \in Statements /\ Stmt("move", e, None, w).e = e
           /\ Stmt("move", e, None, w).do = "move" /\ Stmt("move", e, None, w).w = w
           /\ Stmt("touch", e, None, None) \in Statements /\ Stmt("touch", e, None, None).e = e
           /\ Stmt("touch", e, None, None).do = "touch"
           /\ Stmt("insert", e, None, None) \in Statements /\ Stmt("insert", e, None, None).e = e
           /\ Stmt("insert", e, None, None).do = "insert"
  BY DEF Stmt, Statements

\* The statements about its links.
LEMMA LinkStatements ==
    ASSUME NEW e \in Rows, NEW s \in Spheres
    PROVE  \E a, b, p \in Statements :
              /\ a.do = "clear" /\ a.e = e /\ a = Stmt("clear", e, None, None)
              /\ b.do = "link" /\ b.e = e /\ b.s = s /\ b = Stmt("link", e, s, None)
              /\ p.do = "propagate" /\ p.e = e /\ p.s = s /\ p = Stmt("propagate", e, s, None)
<1>1. /\ Stmt("clear", e, None, None) \in Statements
      /\ Stmt("clear", e, None, None).do = "clear" /\ Stmt("clear", e, None, None).e = e
  BY StatementType
<1>2. /\ Stmt("link", e, s, None) \in Statements /\ Stmt("link", e, s, None).e = e
      /\ Stmt("link", e, s, None).do = "link" /\ Stmt("link", e, s, None).s = s
  BY StatementType
<1>3. /\ Stmt("propagate", e, s, None) \in Statements /\ Stmt("propagate", e, s, None).e = e
      /\ Stmt("propagate", e, s, None).do = "propagate" /\ Stmt("propagate", e, s, None).s = s
  BY StatementType
<1> QED
  BY <1>1, <1>2, <1>3

LEMMA SyncPlan ==
    ASSUME NEW e \in Rows, NEW s \in Spheres
    PROVE  /\ SyncScope(e, s) = <<Stmt("clear", e, None, None), Stmt("link", e, s, None)>>
           /\ Plan(SyncScope(e, s))
<1> DEFINE a == Stmt("clear", e, None, None)
           b == Stmt("link", e, s, None)
<1>1. /\ a \in Statements /\ a.do = "clear" /\ a.e = e
      /\ b \in Statements /\ b.do = "link" /\ b.e = e /\ b.s = s
  BY StatementType
<1>2. SyncScope(e, s) = <<a, b>>
  BY DEF SyncScope
<1> HIDE DEF a, b
<1>3. <<a, b>> \in Seq(Statements) /\ Len(<<a, b>>) = 2
  BY <1>1
<1>4. Paired(<<a, b>>)
  BY <1>1 DEF Paired
<1> QED
  BY <1>1, <1>2, <1>3, <1>4 DEF Plan, a, b

LEMMA Joins ==
    ASSUME NEW S, NEW x \in S, NEW y \in S, NEW z \in S, NEW u \in S
    PROVE  /\ <<x>> \o <<y, z>> = <<x, y, z>>
           /\ <<x>> \o <<y, z>> \o <<u>> = <<x, y, z, u>>
           /\ <<y, z>> \o <<u>> = <<y, z, u>>
<1>1. /\ <<x>> \in Seq(S) /\ <<y, z>> \in Seq(S) /\ <<u>> \in Seq(S) /\ <<x, y, z>> \in Seq(S)
      /\ <<x, y, z, u>> \in Seq(S) /\ <<y, z, u>> \in Seq(S)
  OBVIOUS
<1>2. <<x>> \o <<y, z>> = <<x, y, z>>
  <2>1. /\ <<x>> \o <<y, z>> \in Seq(S) /\ Len(<<x>> \o <<y, z>>) = 3
        /\ \A i \in 1 .. 3 : (<<x>> \o <<y, z>>)[i] = <<x, y, z>>[i]
    BY <1>1, ConcatProperties
  <2> QED
    BY <1>1, <2>1, SeqEqual
<1>3. <<x, y, z>> \o <<u>> = <<x, y, z, u>>
  <2>1. /\ <<x, y, z>> \o <<u>> \in Seq(S) /\ Len(<<x, y, z>> \o <<u>>) = 4
        /\ \A i \in 1 .. 4 : (<<x, y, z>> \o <<u>>)[i] = <<x, y, z, u>>[i]
    BY <1>1, ConcatProperties
  <2> QED
    BY <1>1, <2>1, SeqEqual
<1>4. <<y, z>> \o <<u>> = <<y, z, u>>
  <2>1. /\ <<y, z>> \o <<u>> \in Seq(S) /\ Len(<<y, z>> \o <<u>>) = 3
        /\ \A i \in 1 .. 3 : (<<y, z>> \o <<u>>)[i] = <<y, z, u>>[i]
    BY <1>1, ConcatProperties
  <2> QED
    BY <1>1, <2>1, SeqEqual
<1> QED
  BY <1>2, <1>3, <1>4

\* A statement about the row, then its links.
LEMMA RowPlan ==
    ASSUME NEW e \in Rows, NEW s \in Spheres, NEW first \in Statements, first.e = e,
           first.do \in {"insert", "touch", "move"}, first.do = "insert" => e \in setting.rows
    PROVE  /\ <<first>> \o SyncScope(e, s) =
                 <<first, Stmt("clear", e, None, None), Stmt("link", e, s, None)>>
           /\ Plan(<<first>> \o SyncScope(e, s))
<1> DEFINE a == Stmt("clear", e, None, None)
           b == Stmt("link", e, s, None)
<1>1. /\ a \in Statements /\ a.do = "clear" /\ a.e = e
      /\ b \in Statements /\ b.do = "link" /\ b.e = e /\ b.s = s
  BY StatementType
<1>2. SyncScope(e, s) = <<a, b>>
  BY DEF SyncScope
<1> HIDE DEF a, b
<1>3. <<first>> \o <<a, b>> = <<first, a, b>>
  BY <1>1, Joins
<1>4. <<first, a, b>> \in Seq(Statements) /\ Len(<<first, a, b>>) = 3
  BY <1>1
<1>5. Paired(<<first, a, b>>)
  BY <1>1 DEF Paired
<1>6. Plan(<<first, a, b>>)
  BY <1>4, <1>5 DEF Plan
<1> QED
  BY <1>2, <1>3, <1>6 DEF a, b

LEMMA RescopePlan ==
    ASSUME NEW w \in Workspaces, NEW s \in Spheres
    PROVE  /\ RescopeWorkspace(w, s) =
                 <<Stmt("touch", w, None, None), Stmt("clear", w, None, None),
                   Stmt("link", w, s, None), Stmt("propagate", w, s, None)>>
           /\ Plan(RescopeWorkspace(w, s))
<1> DEFINE f == Stmt("touch", w, None, None)
           a == Stmt("clear", w, None, None)
           b == Stmt("link", w, s, None)
           p == Stmt("propagate", w, s, None)
<1>1. /\ f \in Statements /\ f.do = "touch"
      /\ a \in Statements /\ a.do = "clear" /\ a.e = w
      /\ b \in Statements /\ b.do = "link" /\ b.e = w /\ b.s = s
      /\ p \in Statements /\ p.do = "propagate" /\ p.s = s
  BY StatementType DEF Rows
<1>2. RescopeWorkspace(w, s) = <<f>> \o <<a, b>> \o <<p>>
  BY DEF RescopeWorkspace, SyncScope
<1> HIDE DEF f, a, b, p
<1>3. <<f>> \o <<a, b>> \o <<p>> = <<f, a, b, p>>
  BY <1>1, Joins
<1>4. <<f, a, b, p>> \in Seq(Statements) /\ Len(<<f, a, b, p>>) = 4
  BY <1>1
<1>5. Paired(<<f, a, b, p>>)
  BY <1>1 DEF Paired
<1>6. Plan(<<f, a, b, p>>)
  BY <1>1, <1>4, <1>5 DEF Plan
<1> QED
  BY <1>2, <1>3, <1>6 DEF f, a, b, p

\* The statements for the items of a workspace.

RelinksAll(t, ids, k, s) ==
    /\ Len(t) = 2 * k
    /\ \A n \in 1 .. 2 * k : /\ t[n].do \in {"clear", "link"} /\ (t[n].do = "link" => t[n].s = s)
                             /\ \E m \in 1 .. k : t[n].e = ids[m]
    /\ \A m \in 1 .. k : t[2 * m].e = ids[m]

LEMMA RelinksPlan ==
    ASSUME NEW ids, NEW k \in Nat, ids \in [1 .. k -> Items], NEW s \in Spheres
    PROVE  Plan(Relinks(ids, s)) /\ RelinksAll(Relinks(ids, s), ids, k, s)
<1> DEFINE t == Relinks(ids, s)
<1>1. Len(ids) = k
  OBVIOUS
<1>2. ASSUME NEW n \in 1 .. 2 * k
      PROVE  /\ (n + 1) \div 2 \in 1 .. k
             /\ n % 2 = 1 => t[n] = Stmt("clear", ids[(n + 1) \div 2], None, None)
             /\ n % 2 # 1 => t[n] = Stmt("link", ids[(n + 1) \div 2], s, None)
  <2>1. (n + 1) \div 2 \in 1 .. k /\ ids[(n + 1) \div 2] \in Rows
    BY DEF Rows
  <2>2. t[n] = SyncScope(ids[(n + 1) \div 2], s)[IF n % 2 = 1 THEN 1 ELSE 2]
    BY <1>1 DEF Relinks
  <2> QED
    BY <2>1, <2>2, SyncPlan
<1>3. ASSUME NEW n \in 1 .. 2 * k
      PROVE  /\ t[n] \in Statements
             /\ n % 2 = 1 => t[n].do = "clear" /\ t[n].s = None
             /\ n % 2 # 1 => t[n].do = "link" /\ t[n].s = s
             /\ t[n].e = ids[(n + 1) \div 2]
  <2>1. PICK e \in Rows : e = ids[(n + 1) \div 2]
    BY <1>2 DEF Rows
  <2>2. CASE n % 2 = 1
    <3>1. t[n] = Stmt("clear", e, None, None)
      BY <1>2, <2>1, <2>2
    <3>2. /\ Stmt("clear", e, None, None) \in Statements
          /\ Stmt("clear", e, None, None).do = "clear" /\ Stmt("clear", e, None, None).s = None
          /\ Stmt("clear", e, None, None).e = e
      BY StatementType
    <3> HIDE DEF t
    <3> QED
      BY <2>1, <2>2, <3>1, <3>2
  <2>3. CASE n % 2 # 1
    <3>1. t[n] = Stmt("link", e, s, None)
      BY <1>2, <2>1, <2>3
    <3> QED
      BY <2>1, <2>3, <3>1, StatementType
  <2> QED
    BY <2>2, <2>3
<1>4. t \in Seq(Statements) /\ Len(t) = 2 * k
  <2>1. t \in [1 .. 2 * k -> Statements] /\ 2 * k \in Nat
    BY <1>1, <1>3 DEF Relinks
  <2> QED
    BY <2>1
<1>5. \A n \in 1 .. 2 * k : /\ n % 2 = 1 => t[n].do = "clear" /\ t[n].s = None
                            /\ n % 2 # 1 => t[n].do = "link" /\ t[n].s = s
                            /\ t[n].e = ids[(n + 1) \div 2]
  BY <1>3
<1> HIDE DEF t
<1>6. Paired(t)
  <2>1. ASSUME NEW n \in 1 .. 2 * k, n % 2 = 1
        PROVE  /\ n < 2 * k /\ t[n].do = "clear"
               /\ t[n + 1].do = "link" /\ t[n + 1].e = t[n].e
    <3>1. /\ n < 2 * k /\ n + 1 \in 1 .. 2 * k /\ (n + 1) % 2 # 1
          /\ ((n + 1) + 1) \div 2 = (n + 1) \div 2
      BY <2>1
    <3> QED
      BY <1>5, <2>1, <3>1
  <2>2. ASSUME NEW n \in 1 .. 2 * k, n % 2 # 1
        PROVE  /\ t[n].do = "link" /\ t[n].s = s /\ t[n - 1].do = "clear"
    <3>1. n - 1 \in 1 .. 2 * k /\ (n - 1) % 2 = 1
      BY <2>2
    <3> QED
      BY <1>5, <2>2, <3>1
  <2>3. SUFFICES ASSUME NEW n \in 1 .. 2 * k
                 PROVE  /\ t[n].do = "insert" => n < Len(t) /\ t[n + 1].do = "clear" /\ t[n + 1].e = t[n].e
                        /\ t[n].do = "clear" => n < Len(t) /\ t[n + 1].do = "link" /\ t[n + 1].e = t[n].e
                        /\ t[n].do = "link" => t[n].s \in Spheres /\ (n > 1 => t[n - 1].do = "clear")
                        /\ t[n].do = "propagate" => t[n].s \in Spheres
                        /\ t[n].do = "insert" => t[n].e \in setting.rows
    BY <1>4 DEF Paired
  <2> QED
    BY <1>4, <2>1, <2>2
<1>7. t # <<>> => t[1].do # "link"
  <2>1. t # <<>> => 1 \in 1 .. 2 * k /\ 1 % 2 = 1
    BY <1>4
  <2> QED
    BY <1>5, <2>1
<1>8. \A m \in 1 .. k : t[2 * m].e = ids[m]
  <2> TAKE m \in 1 .. k
  <2>1. 2 * m \in 1 .. 2 * k /\ (2 * m + 1) \div 2 = m
    OBVIOUS
  <2>2. t[2 * m].e = ids[(2 * m + 1) \div 2]
    BY ONLY <1>5, <2>1
  <2> QED
    BY ONLY <2>1, <2>2
<1> QED
  <2>1. ASSUME NEW n \in 1 .. 2 * k
        PROVE  /\ t[n].do \in {"clear", "link"} /\ (t[n].do = "link" => t[n].s = s)
               /\ \E m \in 1 .. k : t[n].e = ids[m]
    BY <1>2, <1>5
  <2>2. RelinksAll(t, ids, k, s)
    BY <1>4, <1>8, <2>1 DEF RelinksAll
  <2>3. Plan(t)
    BY <1>4, <1>6, <1>7 DEF Plan
  <2> QED
    BY <2>2, <2>3 DEF t

\* What is left of the statements when the first is done.
LEMMA Rest ==
    ASSUME NEW t \in Seq(Statements), t # <<>>, Paired(t)
    PROVE  /\ Tail(t) \in Seq(Statements) /\ Paired(Tail(t))
           /\ Head(t) \in Statements /\ Head(t) = t[1]
           /\ Head(t).do = "insert" => /\ Tail(t) # <<>> /\ Head(Tail(t)).do = "clear"
                                       /\ Head(Tail(t)).e = Head(t).e /\ Head(t).e \in setting.rows
           /\ Head(t).do = "clear" => /\ Tail(t) # <<>> /\ Head(Tail(t)).do = "link"
                                      /\ Head(Tail(t)).e = Head(t).e
           /\ Head(t).do # "clear" => (Tail(t) # <<>> => Head(Tail(t)).do # "link")
           /\ Head(t).do \in {"link", "propagate"} => Head(t).s \in Spheres
<1>1. /\ Head(t) \in Statements /\ Head(t) = t[1] /\ Tail(t) \in Seq(Statements)
      /\ Len(t) \in Nat /\ Len(t) >= 1 /\ Len(Tail(t)) = Len(t) - 1
      /\ \A n \in 1 .. Len(Tail(t)) : Tail(t)[n] = t[n + 1]
  BY HeadTailProperties
<1>2. /\ Tail(t) # <<>> <=> Len(t) > 1
      /\ Tail(t) # <<>> => Head(Tail(t)) = t[2]
  BY <1>1
<1>3. ASSUME NEW n \in 1 .. Len(Tail(t))
      PROVE  /\ n + 1 \in 1 .. Len(t) /\ Tail(t)[n] = t[n + 1]
             /\ n < Len(Tail(t)) <=> n + 1 < Len(t)
             /\ n < Len(Tail(t)) => Tail(t)[n + 1] = t[(n + 1) + 1]
             /\ n > 1 => Tail(t)[n - 1] = t[(n + 1) - 1]
  BY <1>1
<1>4. Paired(Tail(t))
  BY <1>3 DEF Paired
<1>5. 1 \in 1 .. Len(t) /\ (Len(t) > 1 => 2 \in 1 .. Len(t) /\ 2 - 1 = 1 /\ 1 + 1 = 2)
  BY <1>1
<1> QED
  BY <1>1, <1>2, <1>4, <1>5 DEF Paired

---------------------------------------------------------------------------
(* The steps.                                                                  *)

LEMMA SettingType ==
    ASSUME Sane, TypeOK
    PROVE  /\ setting.clients \subseteq Clients /\ setting.rows \subseteq Rows
           /\ rows \subseteq setting.rows /\ rows \subseteq Rows
           /\ \A e \in Rows : Sphere(e) \in Spheres
           /\ \A c \in Clients : todo[c] \in Seq(Statements)
  BY DEF Sane, TypeOK, SettingRecords, Sphere, Spheres

\* A client that has nothing left to run makes a call.
Called(c, t) == /\ Plan(t) /\ todo[c] = <<>> /\ todo' = [todo EXCEPT ![c] = t]
                /\ UNCHANGED <<setting, rows, links, workspace, active>>

LEMMA CallPlans ==
    ASSUME Sane, Base, NEW c \in Clients, ItemCall(c) \/ WorkspaceCall(c)
    PROVE  \/ \E t : Called(c, t)
           \/ \E i \in Items : DeleteItem(c, i)
           \/ \E w \in Workspaces : DeleteWorkspace(c, w)
           \/ \E s \in Spheres : SetActiveSphere(c, s)
<1> USE SettingType DEF Base
<1>0. active \in Spheres /\ Items \subseteq Rows /\ Workspaces \subseteq Rows
  BY DEF TypeOK, Rows
<1>1. ASSUME NEW op, NEW t, Plan(t), Starts(c, op, t)
      PROVE  Called(c, t)
  BY <1>1 DEF Starts, Called
<1>2. ASSUME NEW i \in Items, NEW w \in Workspaces \cup {None}, NEW s \in Spheres \cup {None},
             CreateItem(c, i, w, s)
      PROVE  \E t : Called(c, t)
  <2>1. ResolvedSphere(w, s) \in Spheres
    BY <1>0, <1>2 DEF ResolvedSphere, CreateItem
  <2>2. /\ Stmt("insert", i, None, w) \in Statements /\ Stmt("insert", i, None, w).e = i
        /\ Stmt("insert", i, None, w).do = "insert" /\ i \in setting.rows
    BY <1>0, <1>2, RowStatement DEF CreateItem
  <2> QED
    BY <1>0, <1>1, <1>2, <2>1, <2>2, RowPlan DEF CreateItem
<1>3. ASSUME NEW i \in Items, NEW w \in Workspaces \cup {None}, NEW s \in Spheres \cup {None},
             UpdateItem(c, i, w, s)
      PROVE  \E t : Called(c, t)
  <2>1. PICK r \in Spheres : r = IF w # None THEN Sphere(w) ELSE IF s # None THEN s ELSE Sphere(i)
    BY <1>0, <1>3 DEF UpdateItem
  <2>2. PICK f \in Statements : /\ f.e = i /\ f.do \in {"touch", "move"}
                                /\ <<f>> = IF w = workspace[i] THEN <<Stmt("touch", i, None, None)>>
                                                              ELSE <<Stmt("move", i, None, w)>>
    BY <1>0, <1>3, RowStatement
  <2>3. Starts(c, "UpdateItem", <<f>> \o SyncScope(i, r))
    BY <1>3, <2>1, <2>2 DEF UpdateItem
  <2> QED
    BY <1>0, <1>1, <2>2, <2>3, RowPlan
<1>4. ASSUME NEW i \in Items, NEW w \in Workspaces \cup {None}, SetItemWorkspace(c, i, w)
      PROVE  \E t : Called(c, t)
  <2>1. PICK f \in Statements : f = Stmt("move", i, None, w) /\ f.do = "move"
    BY <1>0, RowStatement
  <2>2. Plan(<<f>>)
    BY <2>1 DEF Plan, Paired
  <2> QED
    BY <1>1, <1>4, <2>1, <2>2 DEF SetItemWorkspace
<1>5. ASSUME NEW i \in Items, NEW w \in Workspaces \cup {None}, UpsertItem(c, i, w)
      PROVE  \E t : Called(c, t)
  <2>1. ResolvedSphere(w, Sphere(i)) \in Spheres
    BY <1>0, <1>5 DEF ResolvedSphere, UpsertItem
  <2>2. /\ Stmt("move", i, None, w) \in Statements /\ Stmt("move", i, None, w).e = i
        /\ Stmt("move", i, None, w).do = "move"
    BY <1>0, RowStatement
  <2> QED
    BY <1>0, <1>1, <1>5, <2>1, <2>2, RowPlan DEF UpsertItem
<1>6. ASSUME NEW i \in Items, NEW s \in Spheres, SetItemSphere(c, i, s)
      PROVE  \E t : Called(c, t)
  <2>1. /\ Stmt("touch", i, None, None) \in Statements /\ Stmt("touch", i, None, None).e = i
        /\ Stmt("touch", i, None, None).do = "touch"
    BY <1>0, RowStatement
  <2> QED
    BY <1>0, <1>1, <1>6, <2>1, RowPlan DEF SetItemSphere
<1>7. ASSUME NEW w \in Workspaces, NEW s \in Spheres, w \in setting.rows,
             NEW op, Starts(c, op, <<Stmt("insert", w, None, None)>> \o SyncScope(w, s))
      PROVE  \E t : Called(c, t)
  <2>1. /\ Stmt("insert", w, None, None) \in Statements /\ Stmt("insert", w, None, None).e = w
        /\ Stmt("insert", w, None, None).do = "insert"
    BY <1>0, RowStatement
  <2> QED
    BY <1>0, <1>1, <1>7, <2>1, RowPlan
<1>8. ASSUME NEW w \in Workspaces, NEW s \in Spheres,
             CreateWorkspace(c, w, s) \/ ReuseWorkspace(c, w, s) \/ SetWorkspaceSphere(c, w, s)
      PROVE  \E t : Called(c, t)
  BY <1>0, <1>1, <1>7, <1>8, SyncPlan, RescopePlan
     DEF CreateWorkspace, ReuseWorkspace, SetWorkspaceSphere
<1>9. ASSUME NEW w \in Workspaces, EnsureDailyWorkspace(c, w)
      PROVE  \E t : Called(c, t)
  <2>1. CASE w \in rows
    BY <2>1, <1>0, <1>1, <1>9, RescopePlan DEF EnsureDailyWorkspace
  <2>2. CASE w \notin rows
    BY <2>2, <1>0, <1>7, <1>9 DEF EnsureDailyWorkspace
  <2> QED
    BY <2>1, <2>2
<1> QED
  BY <1>2, <1>3, <1>4, <1>5, <1>6, <1>8, <1>9 DEF ItemCall, WorkspaceCall

\* What the statements leave.
LEMMA ExecPlans ==
    ASSUME Sane, Base, NEW c \in Clients, Exec(c)
    PROVE  /\ todo[c] # <<>> /\ Head(todo[c]) \in Statements
           /\ \E t \in Seq(Statements) : Paired(t) /\ todo' = [todo EXCEPT ![c] = t]
<1>1. todo[c] \in Seq(Statements) /\ Paired(todo[c])
  BY DEF Base, TypeOK
<1>2. todo[c] # <<>>
  BY DEF Exec, ExecRow, ExecClear, ExecLink, ExecPropagate, Fail, Running
<1>3. <<>> \in Seq(Statements) /\ Paired(<<>>)
  BY DEF Paired
<1>4. CASE ExecPropagate(c)
  <2>1. /\ Head(todo[c]).do = "propagate" /\ Head(todo[c]).s \in Spheres
    BY <1>1, <1>2, <1>4, Rest DEF ExecPropagate, Running
  <2>2. PICK ids \in SetToSeqs({i \in Items \cap rows : workspace[i] = Head(todo[c]).e}) :
            todo' = [todo EXCEPT ![c] = Relinks(ids, Head(todo[c]).s)]
    BY <1>4 DEF ExecPropagate
  <2>3. PICK k \in Nat : ids \in [1 .. k -> Items]
    <3> DEFINE S == {i \in Items \cap rows : workspace[i] = Head(todo[c]).e}
    <3>1. IsFiniteSet(S) /\ Cardinality(S) \in Nat
      BY FS_Subset, FS_CardinalityType DEF Sane
    <3>2. ids \in [1 .. Cardinality(S) -> S]
      BY <2>2 DEF SetToSeqs
    <3> QED
      BY <3>1, <3>2
  <2> QED
    BY <1>1, <1>2, <2>1, <2>2, <2>3, Rest, RelinksPlan DEF Plan
<1> QED
  BY <1>1, <1>2, <1>3, <1>4, Rest DEF Exec, ExecRow, ExecClear, ExecLink, Fail, Advance, GiveUp

\* One client changes its statements to t.
LEMMA PlanStep ==
    ASSUME Base, NEW c \in Clients, NEW t \in Seq(Statements), Paired(t),
           todo' = [todo EXCEPT ![c] = t], setting' = setting,
           rows' \in SUBSET setting.rows, links' \in [Rows -> SUBSET Spheres],
           workspace' \in [Items -> Workspaces \cup {None}], active' \in Spheres,
           \A i \in Items : workspace'[i] \in rows' \cup {None}
    PROVE  Base'
<1>1. TypeOK'
  BY DEF Base, TypeOK
<1>2. \A d \in Clients : todo'[d] = IF d = c THEN t ELSE todo[d]
  BY DEF Base, TypeOK
<1>3. ASSUME NEW u, Paired(u)
      PROVE  Paired(u)'
  BY <1>3 DEF Paired
<1>4. ASSUME NEW d \in Clients
      PROVE  Paired(todo[d])'
  <2>1. PICK u : u = IF d = c THEN t ELSE todo[d]
    OBVIOUS
  <2>2. Paired(u)'
    BY <2>1, <1>3 DEF Base
  <2> QED
    BY <1>2, <2>1, <2>2 DEF Paired
<1> QED
  BY <1>1, <1>4 DEF Base

\* What a statement does.
LEMMA RowEffect ==
    ASSUME Sane, Base, NEW c \in Clients, ExecRow(c)
    PROVE  \/ todo' = [todo EXCEPT ![c] = <<>>] /\ UNCHANGED <<setting, rows, links, workspace, active>>
           \/ /\ todo' = [todo EXCEPT ![c] = Tail(@)] /\ UNCHANGED <<setting, links, active>>
              /\ rows' = rows \cup {Head(todo[c]).e} /\ Head(todo[c]).e \in setting.rows
              /\ Head(todo[c]).do = "insert" <=> Head(todo[c]).e \notin rows
              /\ Head(todo[c]).w \in rows \cup {None}
              /\ workspace' = IF Head(todo[c]).do # "touch" /\ Head(todo[c]).e \in Items
                              THEN [workspace EXCEPT ![Head(todo[c]).e] = Head(todo[c]).w]
                              ELSE workspace
<1>1. /\ todo[c] # <<>> /\ todo[c] \in Seq(Statements) /\ Paired(todo[c])
  BY DEF ExecRow, Running, Base, TypeOK
<1>2. Head(todo[c]).do = "insert" => Head(todo[c]).e \in setting.rows
  BY <1>1, Rest
<1> QED
  BY <1>1, <1>2, SettingType DEF ExecRow, Advance, GiveUp, Base

LEMMA ExecBase ==
    ASSUME Sane, Base, NEW c \in Clients, Exec(c)
    PROVE  Base'
<1>1. PICK t \in Seq(Statements) : Paired(t) /\ todo' = [todo EXCEPT ![c] = t]
  BY ExecPlans
<1>2. Head(todo[c]) \in Statements /\ todo[c] # <<>>
  BY ExecPlans
<1>3. /\ todo[c] \in Seq(Statements) /\ Paired(todo[c]) /\ rows \in SUBSET setting.rows
      /\ links \in [Rows -> SUBSET Spheres] /\ workspace \in [Items -> Workspaces \cup {None}]
      /\ active \in Spheres /\ \A i \in Items : workspace[i] \in rows \cup {None}
  BY DEF Base, TypeOK
<1>4. CASE ExecRow(c)
  <2>1. Head(todo[c]).w \in Workspaces \cup {None}
    BY <1>2 DEF Statements
  <2> QED
    BY <1>1, <1>3, <1>4, <2>1, RowEffect, PlanStep
<1>5. CASE ExecLink(c)
  <2>1. Head(todo[c]).do = "link" /\ Head(todo[c]).s \in Spheres
    BY <1>2, <1>3, <1>5, Rest DEF ExecLink, Running
  <2>2. links' \in [Rows -> SUBSET Spheres]
    BY <1>3, <1>5, <2>1 DEF ExecLink
  <2> QED
    BY <1>1, <1>3, <1>5, <2>2, PlanStep DEF ExecLink
<1>6. CASE ExecClear(c)
  <2>1. links' \in [Rows -> SUBSET Spheres]
    BY <1>3, <1>6 DEF ExecClear
  <2> QED
    BY <1>1, <1>3, <1>6, <2>1, PlanStep DEF ExecClear
<1>7. CASE ExecPropagate(c) \/ Fail(c)
  BY <1>1, <1>3, <1>7, PlanStep DEF ExecPropagate, Fail
<1> QED
  BY <1>4, <1>5, <1>6, <1>7 DEF Exec

LEMMA DeleteBase ==
    ASSUME Sane, Base, NEW c \in Clients,
           \/ \E i \in Items : DeleteItem(c, i)
           \/ \E w \in Workspaces : DeleteWorkspace(c, w)
           \/ \E s \in Spheres : SetActiveSphere(c, s)
    PROVE  Base' /\ todo' = todo /\ todo[c] = <<>> /\ setting' = setting
<1>1. todo' = todo /\ setting' = setting /\ todo[c] = <<>>
  BY DEF DeleteItem, DeleteWorkspace, SetActiveSphere
<1>2. \A d \in Clients : Paired(todo[d])'
  BY <1>1 DEF Base, Paired
<1>3. ASSUME NEW i \in Items, DeleteItem(c, i)
      PROVE  TypeOK' /\ \A j \in Items : workspace'[j] \in rows' \cup {None}
  <2>1. \A j \in Items : workspace[j] # i
    BY DEF Base, TypeOK, Sane, Rows
  <2> QED
    BY <1>3, <2>1 DEF DeleteItem, Base, TypeOK
<1>4. ASSUME NEW w \in Workspaces, DeleteWorkspace(c, w)
      PROVE  TypeOK' /\ \A j \in Items : workspace'[j] \in rows' \cup {None}
  BY <1>4 DEF DeleteWorkspace, Base, TypeOK
<1>5. ASSUME NEW s \in Spheres, SetActiveSphere(c, s)
      PROVE  TypeOK' /\ \A j \in Items : workspace'[j] \in rows' \cup {None}
  BY <1>5 DEF SetActiveSphere, Base, TypeOK
<1> QED
  BY <1>1, <1>2, <1>3, <1>4, <1>5 DEF Base

LEMMA NextBase ==
    ASSUME Sane, Base, [Next]_vars
    PROVE  Base'
<1>1. CASE UNCHANGED vars
  BY <1>1 DEF vars, Base, TypeOK, Paired
<1>2. ASSUME NEW c \in Clients, NEW t, Called(c, t)
      PROVE  Base'
  BY <1>2, PlanStep DEF Called, Plan, Base, TypeOK
<1>3. CASE Next
  BY <1>2, <1>3, SettingType, CallPlans, ExecBase, DeleteBase DEF Next, Base
<1> QED
  BY <1>1, <1>3

LEMMA InitBase ==
    ASSUME Init
    PROVE  Base
<1>1. <<>> \in Seq(Statements) /\ Paired(<<>>)
  BY DEF Paired
<1> QED
  BY <1>1 DEF Init, Base, TypeOK, Spheres

\* The types of the rows, the links and the statements still to be run.
THEOREM Types == ASSUME Sane PROVE Spec => []TypeOK
<1>1. Base => TypeOK
  BY DEF Base
<1> QED
  BY <1>1, InitBase, NextBase, PTL DEF Spec

---------------------------------------------------------------------------
(* One sphere for every row.                                                   *)

\* A link is about to be inserted where there is none.
Fresh(c) == todo[c] # <<>> /\ Head(todo[c]).do = "link" => links[Head(todo[c]).e] = {}

\* For one client.
NeverBoth == /\ \A e \in Rows : links[e] # Spheres
             /\ \A c \in setting.clients : Fresh(c)

Owes(c, e) == todo[c] # <<>> /\ Head(todo[c]).do \in {"clear", "link"} /\ Head(todo[c]).e = e

\* If no statement fails: a row without a link has a client that is about to insert one.
NeverNone == \A e \in rows : links[e] = {} => \E c \in Clients : Owes(c, e)

LEMMA OneClient ==
    ASSUME Sane, TypeOK, Alone, NEW c \in setting.clients
    PROVE  setting.clients = {c}
<1>1. IsFiniteSet(setting.clients)
  BY SettingType, FS_Subset DEF Sane
<1> QED
  BY <1>1, FS_Singleton DEF Alone

\* What Exec does for the links, statement by statement.
LEMMA LinksEffect ==
    ASSUME Sane, Base, NEW c \in Clients, Exec(c), NEW q, q = Head(todo[c]),
           NEW rest, rest = Tail(todo[c])
    PROVE  /\ q \in Statements /\ todo[c] # <<>> /\ UNCHANGED <<setting, active>>
           /\ \/ /\ q.do \in {"insert", "touch", "move"} /\ links' = links
                 /\ todo' = [todo EXCEPT ![c] = rest]
                 /\ rows' = rows \cup {q.e} /\ (q.do = "insert" <=> q.e \notin rows)
              \/ /\ q.do \in {"insert", "touch", "move"} /\ links' = links
                 /\ todo' = [todo EXCEPT ![c] = <<>>] /\ UNCHANGED <<rows, workspace>>
              \/ /\ q.do = "clear" /\ links' = [links EXCEPT ![q.e] = {}]
                 /\ todo' = [todo EXCEPT ![c] = rest] /\ UNCHANGED <<rows, workspace>>
              \/ /\ q.do = "link" /\ q.e \in rows /\ links' = [links EXCEPT ![q.e] = @ \cup {q.s}]
                 /\ todo' = [todo EXCEPT ![c] = rest] /\ UNCHANGED <<rows, workspace>>
              \/ /\ q.do = "link" /\ q.e \notin rows
                 /\ todo' = [todo EXCEPT ![c] = <<>>] /\ UNCHANGED <<links, rows, workspace>>
              \/ /\ q.do = "propagate" /\ UNCHANGED <<links, rows, workspace>>
                 /\ \E t : Plan(t) /\ todo' = [todo EXCEPT ![c] = t]
              \/ /\ setting.fail /\ todo' = [todo EXCEPT ![c] = <<>>]
                 /\ UNCHANGED <<links, rows, workspace>>
<1>1. q \in Statements /\ todo[c] # <<>> /\ todo[c] \in Seq(Statements) /\ Paired(todo[c])
  BY ExecPlans DEF Base, TypeOK
<1>2. CASE ExecRow(c)
  BY <1>1, <1>2, RowEffect DEF ExecRow, Running
<1>3. CASE ExecClear(c)
  BY <1>1, <1>3 DEF ExecClear, Running, Advance
<1>4. CASE ExecLink(c)
  BY <1>1, <1>4 DEF ExecLink, Running, Advance, GiveUp
<1>5. CASE Fail(c)
  BY <1>1, <1>5 DEF Fail, GiveUp
<1>6. CASE ExecPropagate(c)
  <2>1. q.do = "propagate" /\ q.s \in Spheres
    BY <1>1, <1>6, Rest DEF ExecPropagate, Running
  <2>2. PICK ids \in SetToSeqs({i \in Items \cap rows : workspace[i] = q.e}) :
            todo' = [todo EXCEPT ![c] = Relinks(ids, q.s)]
    BY <1>6 DEF ExecPropagate
  <2>3. PICK k \in Nat : ids \in [1 .. k -> Items]
    <3> DEFINE S == {i \in Items \cap rows : workspace[i] = q.e}
    <3>1. IsFiniteSet(S) /\ Cardinality(S) \in Nat
      BY FS_Subset, FS_CardinalityType DEF Sane
    <3>2. ids \in [1 .. Cardinality(S) -> S]
      BY <2>2 DEF SetToSeqs
    <3> QED
      BY <3>1, <3>2
  <2>4. Plan(Relinks(ids, q.s))
    BY <2>1, <2>3, RelinksPlan
  <2>5. UNCHANGED <<setting, rows, links, workspace, active>>
    BY <1>6 DEF ExecPropagate
  <2> HIDE <1>6
  <2> QED
    BY <1>1, <2>1, <2>2, <2>4, <2>5
<1> QED
  BY <1>2, <1>3, <1>4, <1>5, <1>6 DEF Exec

LEMMA BothStep ==
    ASSUME Sane, Base, Alone, NeverBoth, NEW c \in setting.clients, Exec(c)
    PROVE  NeverBoth'
<1> PICK q, rest : q = Head(todo[c]) /\ rest = Tail(todo[c])
  OBVIOUS
<1>1. /\ c \in Clients /\ setting.clients = {c} /\ todo \in [Clients -> Seq(Statements)]
      /\ links \in [Rows -> SUBSET Spheres] /\ Fresh(c) /\ \A e \in Rows : links[e] # Spheres
  BY SettingType, OneClient DEF Base, TypeOK, NeverBoth
<1>2. /\ q \in Statements /\ q.e \in Rows /\ todo[c] # <<>> /\ setting' = setting
  BY <1>1, LinksEffect DEF Statements
<1>3. /\ rest # <<>> /\ Head(rest).do = "link" => q.do = "clear" /\ Head(rest).e = q.e
  BY <1>1, <1>2, Rest DEF Base
<1>4. \A t : Plan(t) /\ t # <<>> => Head(t).do # "link"
  BY HeadTailProperties DEF Plan
<1>5. ASSUME NEW t, todo' = [todo EXCEPT ![c] = t], links' \in [Rows -> SUBSET Spheres],
             \A e \in Rows : links'[e] # Spheres,
             t # <<>> /\ Head(t).do = "link" => links'[Head(t).e] = {}
      PROVE  NeverBoth'
  BY <1>1, <1>2, <1>5 DEF NeverBoth, Fresh
<1>6. CASE q.do = "link" /\ links' = [links EXCEPT ![q.e] = @ \cup {q.s}]
  <2>1. links[q.e] = {}
    BY <1>1, <1>2, <1>6 DEF Fresh
  <2>2. q.s \in Spheres
    BY <1>1, <1>2, <1>6, Rest DEF Base
  <2>0. /\ links' \in [Rows -> SUBSET Spheres]
        /\ \A e \in Rows : links'[e] = IF e = q.e THEN {q.s} ELSE links[e]
    BY <1>1, <1>2, <1>6, <2>1, <2>2
  <2>3. links' \in [Rows -> SUBSET Spheres] /\ \A e \in Rows : links'[e] # Spheres
    <3>1. \A s : {s} # Spheres
      <4> TAKE s
      <4>1. "work" \in Spheres /\ "private" \in Spheres
        BY DEF Spheres
      <4>2. "work" # "private"
        OBVIOUS
      <4>3. "work" \in {s} /\ "private" \in {s} => "work" = "private"
        BY Zenon
      <4> QED
        BY <4>1, <4>2, <4>3
    <3> QED
      BY <1>1, <2>0, <3>1
  <2>4. \E t \in {rest, <<>>} : todo' = [todo EXCEPT ![c] = t]
    BY <1>1, <1>2, <1>6, LinksEffect
  <2> QED
    BY <1>3, <1>5, <1>6, <2>3, <2>4
<1>7. CASE q.do = "clear" /\ links' = [links EXCEPT ![q.e] = {}] /\ todo' = [todo EXCEPT ![c] = rest]
  <2>1. links' \in [Rows -> SUBSET Spheres] /\ \A e \in Rows : links'[e] # Spheres
    BY <1>1, <1>7 DEF Spheres
  <2> QED
    BY <1>1, <1>2, <1>3, <1>5, <1>7, <2>1
<1>8. CASE links' = links /\ \E t : /\ todo' = [todo EXCEPT ![c] = t]
                                    /\ \/ t = <<>> \/ Plan(t)
                                       \/ t = rest /\ q.do # "clear"
  BY <1>1, <1>3, <1>4, <1>5, <1>8
<1> QED
  BY <1>1, <1>6, <1>7, <1>8, LinksEffect

LEMMA NoneStep ==
    ASSUME Sane, Base, ~setting.fail, NeverNone, NEW c \in Clients, Exec(c)
    PROVE  NeverNone'
<1> PICK q, rest : q = Head(todo[c]) /\ rest = Tail(todo[c])
  OBVIOUS
<1>0. c \in Clients /\ q \in Statements /\ todo[c] # <<>>
  BY LinksEffect, SettingType DEF Base
<1>1. /\ todo \in [Clients -> Seq(Statements)] /\ links \in [Rows -> SUBSET Spheres]
      /\ rows \subseteq Rows /\ rows' \subseteq Rows /\ todo[c] # <<>> /\ q.e \in Rows
  <2>1. rows' \subseteq Rows
    BY ExecBase, SettingType, LinksEffect DEF Base, TypeOK, Sane, SettingRecords
  <2> QED
    BY <1>0, <2>1, SettingType DEF Base, TypeOK, Statements
<1>2. /\ q.do = "insert" => rest # <<>> /\ Head(rest).do = "clear" /\ Head(rest).e = q.e
      /\ q.do = "clear" => rest # <<>> /\ Head(rest).do = "link" /\ Head(rest).e = q.e
  BY <1>1, Rest DEF Base
<1>3. ASSUME NEW t, todo' = [todo EXCEPT ![c] = t], rows' \subseteq Rows,
             \A e \in rows' : links'[e] = {} =>
                 \/ e \in rows /\ links[e] = {} /\ ~(q.do \in {"clear", "link"} /\ q.e = e)
                 \/ t # <<>> /\ Head(t).do \in {"clear", "link"} /\ Head(t).e = e
      PROVE  NeverNone'
  <2>1. SUFFICES ASSUME NEW e \in rows', links'[e] = {}
                 PROVE  \E d \in Clients : Owes(d, e)'
    BY DEF NeverNone
  <2>2. CASE e \in rows /\ links[e] = {} /\ ~(q.do \in {"clear", "link"} /\ q.e = e)
    <3>1. PICK d \in Clients : Owes(d, e)
      BY <2>2 DEF NeverNone
    <3>2. todo'[d] = todo[d]
      BY <1>1, <1>3, <2>2, <3>1 DEF Owes
    <3> QED
      BY <3>1, <3>2 DEF Owes
  <2>3. CASE t # <<>> /\ Head(t).do \in {"clear", "link"} /\ Head(t).e = e
    BY <1>1, <1>3, <2>3 DEF Owes
  <2> QED
    BY <1>3, <2>1, <2>2, <2>3
<1>8. \/ /\ q.do \in {"insert", "touch", "move"} /\ links' = links
         /\ todo' = [todo EXCEPT ![c] = rest]
         /\ rows' = rows \cup {q.e} /\ (q.do = "insert" <=> q.e \notin rows)
      \/ /\ q.do \in {"insert", "touch", "move"} /\ UNCHANGED <<links, rows>>
         /\ todo' = [todo EXCEPT ![c] = <<>>]
      \/ /\ q.do = "clear" /\ links' = [links EXCEPT ![q.e] = {}] /\ rows' = rows
         /\ todo' = [todo EXCEPT ![c] = rest]
      \/ /\ q.do = "link" /\ q.e \in rows /\ links' = [links EXCEPT ![q.e] = @ \cup {q.s}]
         /\ todo' = [todo EXCEPT ![c] = rest] /\ rows' = rows
      \/ /\ q.do = "link" /\ q.e \notin rows /\ UNCHANGED <<links, rows>>
         /\ todo' = [todo EXCEPT ![c] = <<>>]
      \/ /\ q.do = "propagate" /\ UNCHANGED <<links, rows>>
         /\ \E t : todo' = [todo EXCEPT ![c] = t]
  BY LinksEffect
<1>4. CASE q.do \in {"insert", "touch", "move"}
  <2>1. CASE rows' = rows \cup {q.e} /\ todo' = [todo EXCEPT ![c] = rest] /\ links' = links
             /\ (q.do = "insert" <=> q.e \notin rows)
    BY <1>1, <1>2, <1>3, <1>4, <2>1
  <2>2. CASE UNCHANGED <<links, rows>> /\ todo' = [todo EXCEPT ![c] = <<>>]
    BY <1>1, <1>3, <1>4, <2>2
  <2> QED
    BY <1>4, <1>8, <2>1, <2>2
<1>5. CASE q.do = "clear"
  <2>1. links' = [links EXCEPT ![q.e] = {}] /\ rows' = rows /\ todo' = [todo EXCEPT ![c] = rest]
    BY <1>5, <1>8
  <2>2. \A e \in Rows : links'[e] = IF e = q.e THEN {} ELSE links[e]
    BY <1>1, <2>1
  <2> QED
    BY <1>1, <1>2, <1>3, <1>5, <2>1, <2>2
<1>6. CASE q.do = "link"
  <2>1. CASE /\ q.e \in rows /\ links' = [links EXCEPT ![q.e] = @ \cup {q.s}]
             /\ todo' = [todo EXCEPT ![c] = rest] /\ rows' = rows
    <3>1. \A e \in Rows : IF e = q.e THEN links'[e] # {} ELSE links'[e] = links[e]
      BY <1>1, <2>1
    <3> QED
      BY <1>1, <1>3, <1>6, <2>1, <3>1
  <2>2. CASE q.e \notin rows /\ UNCHANGED <<links, rows>> /\ todo' = [todo EXCEPT ![c] = <<>>]
    BY <1>1, <1>3, <1>6, <2>2
  <2> QED
    BY <1>6, <1>8, <2>1, <2>2
<1>7. CASE q.do = "propagate"
  <2>1. UNCHANGED <<links, rows>> /\ \E t : todo' = [todo EXCEPT ![c] = t]
    BY <1>7, <1>8
  <2> QED
    BY <1>1, <1>3, <1>7, <2>1
<1> QED
  BY <1>4, <1>5, <1>6, <1>7, <1>8

\* Steps that start a call, delete a row or choose a sphere.
LEMMA OtherLinks ==
    ASSUME Sane, Base, NEW c \in setting.clients, ItemCall(c) \/ WorkspaceCall(c)
    PROVE  /\ todo[c] = <<>> /\ setting' = setting /\ rows' \subseteq rows
           /\ \E t : todo' = [todo EXCEPT ![c] = t] /\ (t # <<>> => Head(t).do # "link")
           /\ \A e \in Rows : links'[e] # links[e] => links'[e] = {} /\ e \notin rows'
           /\ links' = links \/ todo' = todo
<1>1. /\ c \in Clients /\ links \in [Rows -> SUBSET Spheres] /\ todo \in [Clients -> Seq(Statements)]
  BY SettingType DEF Base, TypeOK
<1>2. CASE \E t : Called(c, t)
  <2>1. PICK t : Called(c, t)
    BY <1>2
  <2>2. t # <<>> => Head(t).do # "link"
    BY <2>1, HeadTailProperties DEF Called, Plan
  <2> QED
    BY <2>1, <2>2 DEF Called
<1>3. ASSUME NEW i \in Items, DeleteItem(c, i)
      PROVE  /\ todo[c] = <<>> /\ UNCHANGED <<setting, todo>> /\ rows' \subseteq rows
             /\ \A e \in Rows : links'[e] # links[e] => links'[e] = {} /\ e \notin rows'
  BY <1>1, <1>3 DEF DeleteItem
<1>4. ASSUME NEW w \in Workspaces, DeleteWorkspace(c, w)
      PROVE  /\ todo[c] = <<>> /\ UNCHANGED <<setting, todo>> /\ rows' \subseteq rows
             /\ \A e \in Rows : links'[e] # links[e] => links'[e] = {} /\ e \notin rows'
  BY <1>1, <1>4 DEF DeleteWorkspace
<1>5. ASSUME NEW s \in Spheres, SetActiveSphere(c, s)
      PROVE  todo[c] = <<>> /\ UNCHANGED <<setting, todo, rows, links>>
  BY <1>5 DEF SetActiveSphere
<1>6. todo' = todo /\ todo[c] = <<>> => todo' = [todo EXCEPT ![c] = <<>>]
  BY <1>1
<1> QED
  BY <1>1, <1>2, <1>3, <1>4, <1>5, <1>6, CallPlans

OneSphere == Base /\ (Alone => NeverBoth) /\ (~setting.fail => NeverNone)

LEMMA OneSphereNext ==
    ASSUME Sane, OneSphere, [Next]_vars
    PROVE  OneSphere'
<1>1. Base'
  BY NextBase DEF OneSphere
<1>2. CASE UNCHANGED vars
  BY <1>1, <1>2 DEF vars, OneSphere, Alone, NeverBoth, NeverNone, Fresh, Owes
<1>3. ASSUME NEW c \in setting.clients, Exec(c)
      PROVE  OneSphere'
  <2>1. c \in Clients /\ setting' = setting
    BY <1>3, SettingType, LinksEffect DEF OneSphere, Base
  <2> QED
    BY <1>1, <1>3, <2>1, BothStep, NoneStep DEF OneSphere, Alone
<1>4. ASSUME NEW c \in setting.clients, ItemCall(c) \/ WorkspaceCall(c)
      PROVE  OneSphere'
  <2>1. PICK t : todo' = [todo EXCEPT ![c] = t] /\ (t # <<>> => Head(t).do # "link")
    BY <1>4, OtherLinks DEF OneSphere
  <2>2. /\ c \in Clients /\ todo \in [Clients -> Seq(Statements)]
        /\ rows \subseteq Rows
    BY SettingType DEF OneSphere, Base, TypeOK
  <2>3. /\ todo[c] = <<>> /\ setting' = setting /\ rows' \subseteq rows
        /\ \A e \in Rows : links'[e] # links[e] => links'[e] = {} /\ e \notin rows'
        /\ links' = links \/ todo' = todo
    BY <1>4, OtherLinks DEF OneSphere
  <2>4. ASSUME Alone, NeverBoth
        PROVE  NeverBoth'
    <3>1. setting.clients = {c}
      BY <2>4, OneClient DEF OneSphere, Base
    <3>2. Spheres # {}
      BY DEF Spheres
    <3>3. Fresh(c)'
      BY <2>1, <2>2, <2>3 DEF Fresh
    <3>4. \A e \in Rows : links'[e] # Spheres
      BY <2>3, <2>4, <3>2 DEF NeverBoth
    <3> QED
      BY <2>3, <3>1, <3>3, <3>4 DEF NeverBoth
  <2>5. ASSUME NeverNone
        PROVE  NeverNone'
    <3>1. SUFFICES ASSUME NEW e \in rows', links'[e] = {}
                   PROVE  \E d \in Clients : Owes(d, e)'
      BY DEF NeverNone
    <3>2. e \in rows /\ links[e] = {}
      BY <2>2, <2>3, <3>1
    <3>3. PICK d \in Clients : Owes(d, e)
      BY <2>5, <3>2 DEF NeverNone
    <3>4. todo'[d] = todo[d]
      BY <2>1, <2>2, <2>3, <3>3 DEF Owes
    <3> QED
      BY <3>3, <3>4 DEF Owes
  <2> QED
    BY <1>1, <2>3, <2>4, <2>5 DEF OneSphere, Alone
<1> QED
  BY <1>2, <1>3, <1>4 DEF Next

\* One client, even when calls fail half-way: no row is ever in both spheres; any number of
\* clients, no failing statement: between calls every row is in one. A link is inserted only
\* where the client itself has just deleted the links (Fresh), and a row is without a link only
\* while a client is about to insert one (NeverNone).
THEOREM RowsInOneSphere == ASSUME Sane PROVE Spec => []OneScope
<1>1. ASSUME Init
      PROVE  OneSphere
  <2>1. Spheres # {}
    BY DEF Spheres
  <2>2. setting.clients \subseteq Clients
    BY <1>1, InitBase, SettingType DEF Base
  <2> QED
    BY <1>1, <2>1, <2>2, InitBase DEF OneSphere, Init, NeverBoth, NeverNone, Fresh
<1>2. OneSphere => OneScope
  BY DEF OneSphere, NeverBoth, NeverNone, Owes, OneScope, Quiet
<1> QED
  BY <1>1, <1>2, OneSphereNext, PTL DEF Spec

---------------------------------------------------------------------------
(* The items' spheres follow the workspaces'.                                  *)

Matched == \A i \in Items \cap rows : workspace[i] # None => Sphere(i) = Sphere(workspace[i])

WorkspacesAfter(q) == IF q.do # "touch" /\ q.e \in Items THEN [workspace EXCEPT ![q.e] = q.w]
                      ELSE workspace

\* The link statements t, on the rows R with workspaces W, leave the spheres g, in which
\* items and workspaces agree.
Settles(t, R, W, g) ==
    /\ g \in [Rows -> Spheres]
    /\ \A n \in 1 .. Len(t) :
          /\ t[n].do \in {"clear", "link", "propagate"} /\ t[n].e \in R
          /\ t[n].do = "link" => g[t[n].e] = t[n].s
          /\ t[n].do = "propagate" =>
                n = Len(t) /\ \A i \in Items \cap R : W[i] = t[n].e => g[i] = t[n].s
    /\ \A e \in Rows : Sphere(e) # g[e] =>
          \E n \in 1 .. Len(t) : \/ t[n].do # "propagate" /\ t[n].e = e
                                 \/ t[n].do = "propagate" /\ e \in Items \cap R /\ W[e] = t[n].e
    /\ \A i \in Items \cap R : W[i] # None => g[i] = g[W[i]]

Follows(t) ==
    IF t # <<>> /\ Head(t).do \in {"insert", "touch", "move"}
    THEN Matched /\ \E g : Settles(Tail(t), rows \cup {Head(t).e}, WorkspacesAfter(Head(t)), g)
    ELSE \E g : Settles(t, rows, workspace, g)

\* No call that leaves an item's sphere alone, and no statement that fails.
Careful == Alone /\ ~setting.fail /\ setting.ops \cap {"SetItemWorkspace", "ReuseWorkspace"} = {}

LEMMA EmptyFollows ==
    ASSUME Sane, Base
    PROVE  Follows(<<>>) <=> Matched
<1>1. /\ \A e \in Rows : Sphere(e) \in Spheres
      /\ \A i \in Items : i \in Rows /\ (workspace[i] # None => workspace[i] \in Rows)
  BY SettingType DEF Base, TypeOK, Rows
<1>2. ASSUME Matched
      PROVE  Settles(<<>>, rows, workspace, [e \in Rows |-> Sphere(e)])
  BY <1>1, <1>2 DEF Matched, Settles
<1>3. ASSUME NEW g, Settles(<<>>, rows, workspace, g)
      PROVE  Matched
  <2>1. \A e \in Rows : Sphere(e) = g[e]
    BY <1>3 DEF Settles
  <2> QED
    BY <1>1, <1>3, <2>1 DEF Settles, Matched
<1> QED
  BY <1>2, <1>3 DEF Follows

\* A statement about an item, and then the sphere of the workspace it has afterwards.
LEMMA ItemFollows ==
    ASSUME Sane, Base, Matched, NEW e \in Items, NEW s \in Spheres,
           NEW first \in Statements, first.e = e, first.do \in {"insert", "touch", "move"},
           first.do = "insert" => e \in setting.rows, NEW w \in rows \cup {None},
           w = IF first.do = "touch" THEN workspace[e] ELSE first.w,
           w # None => w \in Workspaces /\ s = Sphere(w)
    PROVE  Follows(<<first>> \o SyncScope(e, s))
<1> DEFINE g == [r \in Rows |-> IF r = e THEN s ELSE Sphere(r)]
           W == WorkspacesAfter(first)
           R == rows \cup {first.e}
<1>1. /\ e \in Rows /\ Workspaces \subseteq Rows /\ Items \subseteq Rows
      /\ \A r \in Rows : Sphere(r) \in Spheres
      /\ workspace \in [Items -> Workspaces \cup {None}] /\ Workspaces \cap Items = {}
  BY SettingType DEF Base, TypeOK, Rows, Sane
<1>2. \A i \in Items : W[i] = IF i = e THEN w ELSE workspace[i]
  BY <1>1 DEF WorkspacesAfter
<1>3. PICK a, b \in Statements :
         /\ a.do = "clear" /\ a.e = e /\ b.do = "link" /\ b.e = e /\ b.s = s
         /\ <<first>> \o SyncScope(e, s) = <<first, a, b>>
  <2>1. PICK a, b \in Statements :
           /\ a.do = "clear" /\ a.e = e /\ a = Stmt("clear", e, None, None)
           /\ b.do = "link" /\ b.e = e /\ b.s = s /\ b = Stmt("link", e, s, None)
    BY <1>1, LinkStatements
  <2>2. <<first>> \o SyncScope(e, s) = <<first, a, b>>
    BY <1>1, <2>1, RowPlan
  <2> QED
    BY <2>1, <2>2
<1>4. \A i \in Items \cap R : W[i] # None => g[i] = g[W[i]]
  BY <1>1, <1>2 DEF Matched
<1>5. Settles(<<a, b>>, R, W, g)
  <2> HIDE DEF W
  <2>1. g \in [Rows -> Spheres] /\ g[e] = s /\ \A r \in Rows : r # e => g[r] = Sphere(r)
    BY <1>1
  <2> HIDE DEF g
  <2>2. Len(<<a, b>>) = 2 /\ <<a, b>>[1] = a /\ <<a, b>>[2] = b
    OBVIOUS
  <2>3. ASSUME NEW n \in 1 .. 2
        PROVE  <<a, b>>[n] \in {a, b}
    OBVIOUS
  <2>4. \A r \in Rows : Sphere(r) # g[r] =>
           \E n \in 1 .. Len(<<a, b>>) : <<a, b>>[n].do # "propagate" /\ <<a, b>>[n].e = r
    BY <1>3, <2>1, <2>2
  <2> QED
    BY <1>3, <1>4, <2>1, <2>2, <2>3, <2>4 DEF Settles
<1> HIDE DEF g, W, R
<1>6. Tail(<<first, a, b>>) = <<a, b>> /\ Head(<<first, a, b>>) = first /\ <<first, a, b>> # <<>>
  OBVIOUS
<1> QED
  BY <1>3, <1>5, <1>6 DEF Follows, R, W

\* A new workspace.
LEMMA NewWorkspaceFollows ==
    ASSUME Sane, Base, Matched, NEW w \in Workspaces, w \notin rows, w \in setting.rows,
           NEW s \in Spheres
    PROVE  Follows(<<Stmt("insert", w, None, None)>> \o SyncScope(w, s))
<1> DEFINE first == Stmt("insert", w, None, None)
           g == [r \in Rows |-> IF r = w THEN s ELSE Sphere(r)]
           R == rows \cup {w}
<1>1. /\ w \in Rows /\ Workspaces \subseteq Rows /\ Items \subseteq Rows
      /\ \A r \in Rows : Sphere(r) \in Spheres
      /\ workspace \in [Items -> Workspaces \cup {None}] /\ Workspaces \cap Items = {}
      /\ \A i \in Items : workspace[i] # w /\ i # w
  BY SettingType DEF Base, TypeOK, Rows, Sane
<1>2. first \in Statements /\ first.do = "insert" /\ first.e = w
  BY <1>1, RowStatement
<1>3. PICK a, b \in Statements :
         /\ a.do = "clear" /\ a.e = w /\ b.do = "link" /\ b.e = w /\ b.s = s
         /\ <<first>> \o SyncScope(w, s) = <<first, a, b>>
  <2> HIDE DEF first
  <2>1. PICK a, b \in Statements :
           /\ a.do = "clear" /\ a.e = w /\ a = Stmt("clear", w, None, None)
           /\ b.do = "link" /\ b.e = w /\ b.s = s /\ b = Stmt("link", w, s, None)
    BY <1>1, LinkStatements
  <2>2. <<first>> \o SyncScope(w, s) = <<first, a, b>>
    BY <1>1, <1>2, <2>1, RowPlan
  <2> QED
    BY <2>1, <2>2
<1>7. WorkspacesAfter(first) = workspace
  <2> HIDE DEF first
  <2> QED
    BY <1>1, <1>2 DEF WorkspacesAfter
<1>4. \A i \in Items \cap R : workspace[i] # None => g[i] = g[workspace[i]]
  BY <1>1 DEF Matched
<1>5. Settles(<<a, b>>, R, workspace, g)
  <2>1. g \in [Rows -> Spheres] /\ g[w] = s /\ \A r \in Rows : r # w => g[r] = Sphere(r)
    BY <1>1
  <2> HIDE DEF g
  <2>2. Len(<<a, b>>) = 2 /\ <<a, b>>[1] = a /\ <<a, b>>[2] = b
    OBVIOUS
  <2>3. ASSUME NEW n \in 1 .. 2
        PROVE  <<a, b>>[n] \in {a, b}
    OBVIOUS
  <2>4. \A r \in Rows : Sphere(r) # g[r] =>
           \E n \in 1 .. Len(<<a, b>>) : <<a, b>>[n].do # "propagate" /\ <<a, b>>[n].e = r
    BY <1>3, <2>1, <2>2
  <2> QED
    BY <1>3, <1>4, <2>1, <2>2, <2>3, <2>4 DEF Settles
<1> HIDE DEF g, R, first
<1>6. Tail(<<first, a, b>>) = <<a, b>> /\ Head(<<first, a, b>>) = first /\ <<first, a, b>> # <<>>
  OBVIOUS
<1> QED
  BY <1>2, <1>3, <1>5, <1>6, <1>7 DEF Follows, R, first

\* A workspace takes its items along.
LEMMA RescopeFollows ==
    ASSUME Sane, Base, Matched, NEW w \in Workspaces, NEW s \in Spheres
    PROVE  Follows(RescopeWorkspace(w, s))
<1> DEFINE Moves(r) == r = w \/ (r \in Items \cap rows /\ workspace[r] = w)
           g == [r \in Rows |-> IF Moves(r) THEN s ELSE Sphere(r)]
           R == rows \cup {w}
<1>1. /\ w \in Rows /\ Workspaces \subseteq Rows /\ Items \subseteq Rows /\ w # None
      /\ \A r \in Rows : Sphere(r) \in Spheres
      /\ workspace \in [Items -> Workspaces \cup {None}] /\ Workspaces \cap Items = {}
  BY SettingType DEF Base, TypeOK, Rows, Sane
<1>2. PICK first, a, b, p \in Statements :
         /\ first.do = "touch" /\ first.e = w /\ a.do = "clear" /\ a.e = w
         /\ b.do = "link" /\ b.e = w /\ b.s = s /\ p.do = "propagate" /\ p.e = w /\ p.s = s
         /\ RescopeWorkspace(w, s) = <<first, a, b, p>>
  <2>1. PICK a, b, p \in Statements :
           /\ a.do = "clear" /\ a.e = w /\ a = Stmt("clear", w, None, None)
           /\ b.do = "link" /\ b.e = w /\ b.s = s /\ b = Stmt("link", w, s, None)
           /\ p.do = "propagate" /\ p.e = w /\ p.s = s /\ p = Stmt("propagate", w, s, None)
    BY <1>1, LinkStatements
  <2>2. PICK first \in Statements :
           first.do = "touch" /\ first.e = w /\ first = Stmt("touch", w, None, None)
    BY <1>1, RowStatement
  <2>3. RescopeWorkspace(w, s) = <<first, a, b, p>>
    BY <2>1, <2>2, RescopePlan
  <2> QED
    BY <2>1, <2>2, <2>3
<1>3. WorkspacesAfter(first) = workspace
  BY <1>2 DEF WorkspacesAfter
<1>4. \A i \in Items \cap R : workspace[i] # None => g[i] = g[workspace[i]]
  BY <1>1 DEF Matched
<1>5. Settles(<<a, b, p>>, R, workspace, g)
  <2>1. /\ g \in [Rows -> Spheres] /\ g[w] = s
        /\ \A r \in Items \cap R : workspace[r] = w => g[r] = s
        /\ \A r \in Rows : Sphere(r) # g[r] => r = w \/ (r \in Items \cap R /\ workspace[r] = w)
    BY <1>1
  <2> HIDE DEF g, Moves
  <2>2. Len(<<a, b, p>>) = 3 /\ <<a, b, p>>[1] = a /\ <<a, b, p>>[2] = b /\ <<a, b, p>>[3] = p
    OBVIOUS
  <2>3. \A n \in 1 .. 3 : n = 1 \/ n = 2 \/ n = 3
    OBVIOUS
  <2>4. \A r \in Rows : Sphere(r) # g[r] =>
           \E n \in 1 .. Len(<<a, b, p>>) :
              \/ <<a, b, p>>[n].do # "propagate" /\ <<a, b, p>>[n].e = r
              \/ /\ <<a, b, p>>[n].do = "propagate" /\ r \in Items \cap R
                 /\ workspace[r] = <<a, b, p>>[n].e
    BY <1>2, <2>1, <2>2
  <2>5. \A n \in 1 .. Len(<<a, b, p>>) :
          /\ <<a, b, p>>[n].do \in {"clear", "link", "propagate"} /\ <<a, b, p>>[n].e \in R
          /\ <<a, b, p>>[n].do = "link" => g[<<a, b, p>>[n].e] = <<a, b, p>>[n].s
          /\ <<a, b, p>>[n].do = "propagate" =>
                /\ n = Len(<<a, b, p>>)
                /\ \A i \in Items \cap R : workspace[i] = <<a, b, p>>[n].e
                                              => g[i] = <<a, b, p>>[n].s
    BY <1>2, <2>1, <2>2, <2>3
  <2> QED
    BY <1>4, <2>1, <2>4, <2>5 DEF Settles
<1> HIDE DEF g, R
<1>6. /\ Tail(<<first, a, b, p>>) = <<a, b, p>> /\ Head(<<first, a, b, p>>) = first
      /\ <<first, a, b, p>> # <<>>
  OBVIOUS
<1> QED
  BY <1>2, <1>3, <1>5, <1>6 DEF Follows, R

\* The items of the workspace, each of them.
Lists(ids, k, S) == ids \in [1 .. k -> S] /\ \A x \in S : \E m \in 1 .. k : ids[m] = x

LEMMA EveryItem ==
    ASSUME NEW S, IsFiniteSet(S), NEW ids \in SetToSeqs(S)
    PROVE  \E k \in Nat : Lists(ids, k, S)
<1>1. Cardinality(S) \in Nat
  BY FS_CardinalityType
<1>2. PICK k \in Nat : k = Cardinality(S)
  BY <1>1
<1>3. ids \in Injection(1 .. k, S)
  BY <1>2 DEF SetToSeqs, Injection, IsInjective
<1>4. IsFiniteSet(1 .. k) /\ Cardinality(1 .. k) = k
  BY FS_Interval
<1>5. ids \in Surjection(1 .. k, S)
  BY <1>2, <1>3, <1>4, FS_Injection
<1> QED
  BY <1>5 DEF Surjection, Lists

\* What is left of a list that settles, but for the row e0.
RestSettles(t, e0, R, W, g) ==
    /\ g \in [Rows -> Spheres]
    /\ \A n \in 1 .. Len(t) :
          /\ t[n].do \in {"clear", "link", "propagate"} /\ t[n].e \in R
          /\ t[n].do = "link" => g[t[n].e] = t[n].s
          /\ t[n].do = "propagate" =>
                n = Len(t) /\ \A i \in Items \cap R : W[i] = t[n].e => g[i] = t[n].s
    /\ \A e \in Rows : Sphere(e) # g[e] /\ e # e0 =>
          \E n \in 1 .. Len(t) : \/ t[n].do # "propagate" /\ t[n].e = e
                                 \/ t[n].do = "propagate" /\ e \in Items \cap R /\ W[e] = t[n].e
    /\ \A i \in Items \cap R : W[i] # None => g[i] = g[W[i]]

LEMMA SettlesHead ==
    ASSUME NEW t \in Seq(Statements), t # <<>>, NEW R, NEW W, NEW g, Settles(t, R, W, g),
           NEW q, q = Head(t), NEW rest, rest = Tail(t)
    PROVE  /\ q.do \in {"clear", "link", "propagate"} /\ q.e \in R
           /\ q.do = "link" => g[q.e] = q.s
           /\ q.do # "propagate" => RestSettles(rest, q.e, R, W, g)
           /\ q.do = "propagate" =>
                 /\ \A i \in Items \cap R : W[i] = q.e => g[i] = q.s
                 /\ \A e \in Rows : Sphere(e) # g[e] => e \in Items \cap R /\ W[e] = q.e
<1>1. /\ q = t[1] /\ rest \in Seq(Statements) /\ Len(t) \in Nat /\ Len(t) >= 1
      /\ Len(rest) = Len(t) - 1 /\ \A n \in 1 .. Len(rest) : rest[n] = t[n + 1]
  BY HeadTailProperties
<1>2. /\ \A n \in 1 .. Len(rest) : n + 1 \in 1 .. Len(t) /\ (n + 1 = Len(t) => n = Len(rest))
      /\ 1 \in 1 .. Len(t)
  <2>1. Len(t) \in Nat /\ Len(t) >= 1 /\ Len(rest) = Len(t) - 1
    BY <1>1
  <2>2. ASSUME NEW m \in Nat, m >= 1
        PROVE  1 \in 1 .. m /\ \A n \in 1 .. (m - 1) : n + 1 \in 1 .. m /\ (n + 1 = m => n = m - 1)
    BY <2>2
  <2> QED
    BY <2>1, <2>2
<1>6. ASSUME NEW n \in 1 .. Len(t), n # 1
      PROVE  n - 1 \in 1 .. Len(rest) /\ t[n] = rest[n - 1]
  <2>1. n - 1 \in 1 .. Len(rest) /\ (n - 1) + 1 = n
    BY <1>1, <1>6
  <2> QED
    BY <1>1, <2>1
<1>3. ASSUME NEW n \in 1 .. Len(rest)
      PROVE  /\ rest[n].do \in {"clear", "link", "propagate"} /\ rest[n].e \in R
             /\ rest[n].do = "link" => g[rest[n].e] = rest[n].s
             /\ rest[n].do = "propagate" =>
                   n = Len(rest) /\ \A i \in Items \cap R : W[i] = rest[n].e => g[i] = rest[n].s
  <2>1. PICK m \in 1 .. Len(t) : m = n + 1 /\ rest[n] = t[m] /\ (m = Len(t) => n = Len(rest))
    BY <1>1, <1>2
  <2> QED
    BY <2>1 DEF Settles
<1>4. ASSUME q.do # "propagate", NEW e \in Rows, Sphere(e) # g[e], e # q.e
      PROVE  \E n \in 1 .. Len(rest) :
                \/ rest[n].do # "propagate" /\ rest[n].e = e
                \/ rest[n].do = "propagate" /\ e \in Items \cap R /\ W[e] = rest[n].e
  <2>1. PICK n \in 1 .. Len(t) : \/ t[n].do # "propagate" /\ t[n].e = e
                                 \/ t[n].do = "propagate" /\ e \in Items \cap R /\ W[e] = t[n].e
    BY <1>4 DEF Settles
  <2>2. n # 1
    BY <1>1, <1>4, <2>1
  <2> QED
    BY <1>6, <2>1, <2>2
<1>5. ASSUME q.do = "propagate"
      PROVE  /\ \A i \in Items \cap R : W[i] = q.e => g[i] = q.s
             /\ \A e \in Rows : Sphere(e) # g[e] => e \in Items \cap R /\ W[e] = q.e
  <2>1. t[1].do = "propagate" /\ 1 \in 1 .. Len(t) /\ t[1] = q
    BY <1>1, <1>2, <1>5
  <2>2. 1 = Len(t) /\ \A i \in Items \cap R : W[i] = q.e => g[i] = q.s
    BY <2>1 DEF Settles
  <2>3. \A n \in 1 .. Len(t) : t[n] = q
    BY <2>1, <2>2
  <2> QED
    BY <1>5, <2>2, <2>3 DEF Settles
<1>7. q.do # "propagate" => RestSettles(rest, q.e, R, W, g)
  <2>1. g \in [Rows -> Spheres] /\ \A i \in Items \cap R : W[i] # None => g[i] = g[W[i]]
    BY DEF Settles
  <2> QED
    BY <1>3, <1>4, <2>1 DEF RestSettles
<1>8. q.do \in {"clear", "link", "propagate"} /\ q.e \in R /\ (q.do = "link" => g[q.e] = q.s)
  BY <1>1, <1>2 DEF Settles
<1> QED
  BY <1>5, <1>7, <1>8

\* It settles when the row has its sphere, or will be given it.
LEMMA SettlesNext ==
    ASSUME NEW t, NEW e0, NEW R, NEW W, NEW g, RestSettles(t, e0, R, W, g),
           \A e \in Rows : e # e0 => Sphere(e)' = Sphere(e),
           \/ Sphere(e0)' = g[e0]
           \/ \E n \in 1 .. Len(t) : t[n].do # "propagate" /\ t[n].e = e0
    PROVE  Settles(t, R, W, g)'
<1>1. ASSUME NEW e \in Rows, Sphere(e)' # g[e]
      PROVE  \E n \in 1 .. Len(t) :
                \/ t[n].do # "propagate" /\ t[n].e = e
                \/ t[n].do = "propagate" /\ e \in Items \cap R /\ W[e] = t[n].e
  BY <1>1 DEF RestSettles
<1> QED
  BY <1>1 DEF RestSettles, Settles

\* Each statement of a careful client keeps the promise of the call.
LEMMA ExecFollows ==
    ASSUME Sane, Base, Careful, NeverBoth, NEW c \in setting.clients, Follows(todo[c]), Exec(c),
           NEW u, u = todo'[c]
    PROVE  Follows(u)'
<1> PICK t, q, rest : t = todo[c] /\ q = Head(t) /\ rest = Tail(t)
  OBVIOUS
<1>1. /\ c \in Clients /\ t \in Seq(Statements) /\ Paired(t) /\ t # <<>> /\ q \in Statements
      /\ q.e \in Rows /\ todo \in [Clients -> Seq(Statements)] /\ ~setting.fail
      /\ links \in [Rows -> SUBSET Spheres]
  BY SettingType, ExecPlans DEF Base, TypeOK, Statements, Careful
<1>2. <<>> # t /\ \A R, W, g : Settles(rest, R, W, g)' =>
         ~(rest # <<>> /\ Head(rest).do \in {"insert", "touch", "move"})
  <2> SUFFICES ASSUME NEW R, NEW W, NEW g, Settles(rest, R, W, g)', rest # <<>>
               PROVE  Head(rest).do \notin {"insert", "touch", "move"}
    BY <1>1
  <2>1. rest \in Seq(Statements) /\ Head(rest) = rest[1] /\ 1 \in 1 .. Len(rest)
    BY <1>1, HeadTailProperties
  <2> QED
    BY <2>1 DEF Settles
<1>3. CASE q.do \in {"insert", "touch", "move"}
  <2>1. Matched /\ \E g : Settles(rest, rows \cup {q.e}, WorkspacesAfter(q), g)
    BY <1>1, <1>3 DEF Follows
  <2>2. ExecRow(c)
    BY <1>1, <1>3 DEF Exec, ExecClear, ExecLink, ExecPropagate, Fail, Running, Careful
  <2>3. CASE todo' = [todo EXCEPT ![c] = <<>>] /\ UNCHANGED <<setting, rows, links, workspace, active>>
    <3>1. Follows(<<>>)
      BY <2>1, EmptyFollows
    <3>2. u = <<>>
      BY <1>1, <2>3
    <3> QED
      BY <2>3, <3>1, <3>2 DEF Follows, Settles, Sphere
  <2>4. CASE /\ todo' = [todo EXCEPT ![c] = Tail(@)] /\ UNCHANGED <<setting, links, active>>
             /\ rows' = rows \cup {q.e} /\ workspace' = WorkspacesAfter(q)
    <3>1. PICK g, R, W : /\ R = rows \cup {q.e} /\ W = WorkspacesAfter(q)
                         /\ Settles(rest, R, W, g)
      BY <2>1
    <3>2. Settles(rest, R, W, g)'
      BY <2>4, <3>1 DEF Settles, Sphere
    <3>3. u = rest /\ R = rows' /\ W = workspace'
      BY <1>1, <2>4, <3>1
    <3> QED
      BY <1>2, <3>2, <3>3 DEF Follows
  <2> QED
    BY <1>1, <2>2, <2>3, <2>4, RowEffect DEF WorkspacesAfter
<1>4. ASSUME q.do \notin {"insert", "touch", "move"}
      PROVE  \E g, R, W : R = rows /\ W = workspace /\ Settles(t, R, W, g)
  BY <1>1, <1>4 DEF Follows
<1>5. CASE q.do = "clear"
  <2>1. PICK g, R, W : R = rows /\ W = workspace /\ Settles(t, R, W, g)
    BY <1>4, <1>5
  <2>0. ExecClear(c)
    BY <1>1, <1>5 DEF Exec, ExecRow, ExecPropagate, ExecLink, Fail, Running
  <2>2. links' = [links EXCEPT ![q.e] = {}] /\ UNCHANGED <<rows, workspace>> /\ u = rest
    BY <1>1, <2>0 DEF ExecClear, Advance
  <2>3. \A e \in Rows : e # q.e => Sphere(e)' = Sphere(e)
    BY <1>1, <2>2 DEF Sphere
  <2>4. rest # <<>> /\ Head(rest).do = "link" /\ Head(rest).e = q.e
    BY <1>1, <1>5, Rest
  <2>5. rest[1].do = "link" /\ rest[1].e = q.e /\ 1 \in 1 .. Len(rest)
    BY <1>1, <2>4, HeadTailProperties
  <2>7. RestSettles(rest, q.e, R, W, g)
    BY <1>1, <1>5, <2>1, SettlesHead
  <2>6. Settles(rest, R, W, g)'
    <3>1. \E n \in 1 .. Len(rest) : rest[n].do # "propagate" /\ rest[n].e = q.e
      BY <2>5
    <3> QED
      BY <2>3, <2>7, <3>1, SettlesNext
  <2> QED
    BY <1>2, <2>1, <2>2, <2>6 DEF Follows
<1>6. CASE q.do = "link"
  <2>1. PICK g, R, W : R = rows /\ W = workspace /\ Settles(t, R, W, g)
    BY <1>4, <1>6
  <2>0. ExecLink(c)
    BY <1>1, <1>6 DEF Exec, ExecRow, ExecPropagate, ExecClear, Fail, Running
  <2>2. q.e \in R /\ g[q.e] = q.s /\ RestSettles(rest, q.e, R, W, g)
    <3>1. q.e \in R /\ (q.do = "link" => g[q.e] = q.s)
      BY <1>1, <2>1, SettlesHead
    <3>2. q.do # "propagate" => RestSettles(rest, q.e, R, W, g)
      BY <1>1, <2>1, SettlesHead
    <3> QED
      BY <1>6, <3>1, <3>2
  <2>3. /\ links' = [links EXCEPT ![q.e] = @ \cup {q.s}] /\ UNCHANGED <<rows, workspace>>
        /\ u = rest
    BY <1>1, <2>0, <2>1, <2>2 DEF ExecLink, Advance
  <2>4. links[q.e] = {} /\ q.s \in Spheres
    BY <1>1, <1>6, Rest DEF NeverBoth, Fresh
  <2>5. \A e \in Rows : Sphere(e)' = IF e = q.e THEN q.s ELSE Sphere(e)
    BY <1>1, <2>3, <2>4 DEF Sphere, Spheres
  <2>6. Settles(rest, R, W, g)'
    BY <1>1, <2>2, <2>5, SettlesNext
  <2> QED
    BY <1>2, <2>1, <2>3, <2>6 DEF Follows
<1>7. CASE q.do = "propagate"
  <2>1. PICK g, R, W : R = rows /\ W = workspace /\ Settles(t, R, W, g)
    BY <1>4, <1>7
  <2>2. /\ \A i \in Items \cap R : W[i] = q.e => g[i] = q.s
        /\ \A e \in Rows : Sphere(e) # g[e] => e \in Items \cap R /\ W[e] = q.e
    BY <1>1, <1>7, <2>1, SettlesHead
  <2>14. g \in [Rows -> Spheres] /\ \A i \in Items \cap R : W[i] # None => g[i] = g[W[i]]
    BY <2>1 DEF Settles
  <2>3. ExecPropagate(c)
    BY <1>1, <1>7 DEF Exec, ExecRow, ExecClear, ExecLink, Fail, Running
  <2>4. PICK S : S = {i \in Items \cap R : W[i] = q.e}
    OBVIOUS
  <2>5. PICK ids \in SetToSeqs(S) : u = Relinks(ids, q.s)
    BY <1>1, <2>1, <2>3, <2>4 DEF ExecPropagate
  <2>6. UNCHANGED <<rows, links, workspace>>
    BY <2>3 DEF ExecPropagate
  <2>15. PICK k \in Nat : Lists(ids, k, S)
    <3>1. IsFiniteSet(S)
      BY <2>4, FS_Subset DEF Sane
    <3> QED
      BY <3>1, EveryItem
  <2>7. ids \in [1 .. k -> S] /\ \A x \in S : \E m \in 1 .. k : ids[m] = x
    BY <2>15 DEF Lists
  <2>8. ids \in [1 .. k -> Items] /\ q.s \in Spheres
    BY <1>1, <1>7, <2>4, <2>7, Rest
  <2>9. /\ u \in Seq(Statements) /\ Len(u) = 2 * k /\ (u # <<>> => u[1].do # "link")
        /\ \A n \in 1 .. 2 * k : /\ u[n].do \in {"clear", "link"}
                                 /\ u[n].do = "link" => u[n].s = q.s
                                 /\ \E m \in 1 .. k : u[n].e = ids[m]
        /\ \A m \in 1 .. k : u[2 * m].e = ids[m]
    <3>1. Plan(u) /\ RelinksAll(u, ids, k, q.s)
      BY <2>5, <2>8, RelinksPlan
    <3> QED
      BY <3>1 DEF Plan, RelinksAll
  <2>10. ASSUME NEW n \in 1 .. Len(u)
         PROVE  /\ u[n].e \in Items \cap R /\ g[u[n].e] = q.s /\ u[n].do \in {"clear", "link"}
                /\ u[n].do = "link" => u[n].s = q.s
    <3>1. PICK m \in 1 .. k : u[n].e = ids[m]
      BY <2>9
    <3>2. ids[m] \in S
      BY <2>7
    <3> QED
      BY <2>2, <2>4, <2>9, <3>1, <3>2
  <2>11. ASSUME NEW e \in Rows, Sphere(e)' # g[e]
         PROVE  \E n \in 1 .. Len(u) : u[n].do # "propagate" /\ u[n].e = e
    <3>1. Sphere(e) # g[e]
      BY <2>6, <2>11 DEF Sphere
    <3>2. PICK m \in 1 .. k : ids[m] = e
      BY <2>2, <2>4, <2>7, <3>1
    <3>3. 2 * m \in 1 .. Len(u)
      BY <2>9
    <3> QED
      BY <2>9, <3>2, <3>3
  <2>12. Settles(u, R, W, g)'
    <3>1. \A n \in 1 .. Len(u) : u[n].do # "propagate"
      BY <2>10
    <3> QED
      BY <2>10, <2>11, <2>14, <3>1 DEF Settles
  <2>13. u # <<>> => Head(u) = u[1] /\ 1 \in 1 .. Len(u)
    BY <2>9, HeadTailProperties
  <2> QED
    BY <2>1, <2>6, <2>9, <2>12, <2>13 DEF Follows
<1> QED
  BY <1>1, <1>3, <1>5, <1>6, <1>7 DEF Statements, Follows, Settles

\* A call promises that its item or the items of its workspace will follow.
LEMMA CallFollows ==
    ASSUME Sane, Base, Careful, Matched, NEW c \in setting.clients,
           ItemCall(c) \/ WorkspaceCall(c), NEW u, u = todo'[c]
    PROVE  todo[c] = <<>> /\ (Follows(u)' \/ (UNCHANGED todo /\ Matched'))
<1>0. /\ c \in Clients /\ todo \in [Clients -> Seq(Statements)]
      /\ active \in Spheres /\ Items \subseteq Rows /\ Workspaces \subseteq Rows
      /\ \A e \in Rows : Sphere(e) \in Spheres
      /\ workspace \in [Items -> Workspaces \cup {None}] /\ rows \subseteq setting.rows
      /\ \A i \in Items : workspace[i] \in rows \cup {None}
      /\ Workspaces \cap Items = {} /\ None \notin Rows
  BY SettingType DEF Base, TypeOK, Rows, Sane
<1>1. ASSUME NEW op, NEW t, Follows(t), Starts(c, op, t)
      PROVE  todo[c] = <<>> /\ Follows(u)'
  <2>1. u = t /\ todo[c] = <<>> /\ UNCHANGED <<rows, links, workspace>>
    BY <1>0, <1>1 DEF Starts
  <2> QED
    BY <1>1, <2>1 DEF Follows, Settles, Matched, Sphere, WorkspacesAfter
<1>2. ASSUME NEW i \in Items, NEW w \in Workspaces \cup {None}, NEW s \in Spheres \cup {None},
             CreateItem(c, i, w, s)
      PROVE  todo[c] = <<>> /\ Follows(u)'
  <2>1. PICK r \in Spheres : r = ResolvedSphere(w, s) /\ (w # None => r = Sphere(w))
    BY <1>0, <1>2 DEF ResolvedSphere, CreateItem
  <2>2. PICK f \in Statements : /\ f = Stmt("insert", i, None, w) /\ f.e = i /\ f.do = "insert"
                                /\ f.w = w
    BY <1>0, <1>2, RowStatement
  <2>3. w \in rows \cup {None} /\ i \in setting.rows
    BY <1>2 DEF CreateItem
  <2>4. Follows(<<f>> \o SyncScope(i, r))
    BY <2>1, <2>2, <2>3, ItemFollows
  <2>5. Starts(c, "CreateItem", <<f>> \o SyncScope(i, r))
    BY <1>2, <2>1, <2>2 DEF CreateItem
  <2> QED
    BY <1>1, <2>4, <2>5
<1>3. ASSUME NEW i \in Items, NEW w \in Workspaces \cup {None}, NEW s \in Spheres \cup {None},
             UpdateItem(c, i, w, s)
      PROVE  todo[c] = <<>> /\ Follows(u)'
  <2>1. PICK r \in Spheres : r = IF w # None THEN Sphere(w) ELSE IF s # None THEN s ELSE Sphere(i)
    BY <1>0, <1>3 DEF UpdateItem
  <2>2. PICK f \in Statements : /\ f.e = i /\ f.do \in {"touch", "move"}
                                /\ w = IF f.do = "touch" THEN workspace[i] ELSE f.w
                                /\ <<f>> = IF w = workspace[i] THEN <<Stmt("touch", i, None, None)>>
                                                              ELSE <<Stmt("move", i, None, w)>>
    BY <1>0, <1>3, RowStatement
  <2>3. Starts(c, "UpdateItem", <<f>> \o SyncScope(i, r))
    BY <1>3, <2>1, <2>2 DEF UpdateItem
  <2>4. w \in rows \cup {None} /\ f.do # "insert"
    BY <1>3, <2>2 DEF UpdateItem
  <2>5. Follows(<<f>> \o SyncScope(i, r))
    BY <2>1, <2>2, <2>4, ItemFollows
  <2> QED
    BY <1>1, <2>3, <2>5
<1>4. ASSUME NEW i \in Items, NEW w \in Workspaces \cup {None}, UpsertItem(c, i, w)
      PROVE  todo[c] = <<>> /\ Follows(u)'
  <2>1. PICK r \in Spheres : r = ResolvedSphere(w, Sphere(i)) /\ (w # None => r = Sphere(w))
    BY <1>0, <1>4 DEF ResolvedSphere, UpsertItem
  <2>2. PICK f \in Statements : f = Stmt("move", i, None, w) /\ f.e = i /\ f.do = "move" /\ f.w = w
    BY <1>0, <1>4, RowStatement
  <2>3. w \in rows \cup {None} /\ f.do # "insert" /\ f.do # "touch"
    BY <1>4, <2>2 DEF UpsertItem
  <2>4. Follows(<<f>> \o SyncScope(i, r))
    BY <2>1, <2>2, <2>3, ItemFollows
  <2>5. Starts(c, "UpsertItem", <<f>> \o SyncScope(i, r))
    BY <1>4, <2>1, <2>2 DEF UpsertItem
  <2> QED
    BY <1>1, <2>4, <2>5
<1>5. ASSUME NEW i \in Items, NEW s \in Spheres, SetItemSphere(c, i, s)
      PROVE  todo[c] = <<>> /\ Follows(u)'
  <2>1. PICK f \in Statements : f = Stmt("touch", i, None, None) /\ f.e = i /\ f.do = "touch"
    BY <1>0, <1>5, RowStatement
  <2>2. PICK w \in rows \cup {None} : w = workspace[i] /\ w = None
    BY <1>5 DEF SetItemSphere
  <2>3. Follows(<<f>> \o SyncScope(i, s))
    BY <2>1, <2>2, ItemFollows
  <2>4. Starts(c, "SetItemSphere", <<f>> \o SyncScope(i, s))
    BY <1>5, <2>1 DEF SetItemSphere
  <2> QED
    BY <1>1, <2>3, <2>4
<1>6. ASSUME NEW w \in Workspaces, NEW s \in Spheres,
             CreateWorkspace(c, w, s) \/ SetWorkspaceSphere(c, w, s)
      PROVE  todo[c] = <<>> /\ Follows(u)'
  BY <1>0, <1>1, <1>6, NewWorkspaceFollows, RescopeFollows DEF CreateWorkspace, SetWorkspaceSphere
<1>7. ASSUME NEW w \in Workspaces, EnsureDailyWorkspace(c, w)
      PROVE  todo[c] = <<>> /\ Follows(u)'
  <2>1. CASE w \in rows
    BY <2>1, <1>0, <1>1, <1>7, RescopeFollows DEF EnsureDailyWorkspace
  <2>2. CASE w \notin rows
    BY <2>2, <1>0, <1>1, <1>7, NewWorkspaceFollows DEF EnsureDailyWorkspace
  <2> QED
    BY <2>1, <2>2
<1>8. ASSUME NEW i \in Items, DeleteItem(c, i)
      PROVE  todo[c] = <<>> /\ UNCHANGED todo /\ Matched'
  <2>1. /\ todo[c] = <<>> /\ UNCHANGED todo /\ rows' = rows \ {i}
        /\ \A j \in Items : workspace'[j] = IF j = i THEN None ELSE workspace[j]
        /\ \A e \in Rows : e # i => Sphere(e)' = Sphere(e)
    BY <1>0, <1>8 DEF DeleteItem, Sphere, Base, TypeOK
  <2> QED
    BY <1>0, <2>1 DEF Matched
<1>9. ASSUME NEW w \in Workspaces, DeleteWorkspace(c, w)
      PROVE  todo[c] = <<>> /\ UNCHANGED todo /\ Matched'
  <2>1. /\ todo[c] = <<>> /\ UNCHANGED todo /\ rows' = rows \ {w}
        /\ \A j \in Items : workspace'[j] = IF workspace[j] = w THEN None ELSE workspace[j]
        /\ \A e \in Rows : e # w => Sphere(e)' = Sphere(e)
    BY <1>0, <1>9 DEF DeleteWorkspace, Sphere, Base, TypeOK
  <2> QED
    BY <1>0, <2>1 DEF Matched
<1>10. ASSUME NEW s \in Spheres, SetActiveSphere(c, s)
       PROVE  todo[c] = <<>> /\ UNCHANGED todo /\ Matched'
  BY <1>10 DEF SetActiveSphere, Matched, Sphere
<1>11. ~(\E i, w : SetItemWorkspace(c, i, w)) /\ ~(\E w, s : ReuseWorkspace(c, w, s))
  BY DEF SetItemWorkspace, ReuseWorkspace, Starts, Careful
<1> QED
  BY <1>2, <1>3, <1>4, <1>5, <1>6, <1>7, <1>8, <1>9, <1>10, <1>11 DEF ItemCall, WorkspaceCall

Promises == Careful => \A c \in setting.clients : Follows(todo[c])

LEMMA PromisesNext ==
    ASSUME Sane, OneSphere, Promises, [Next]_vars
    PROVE  Promises'
<1>1. CASE UNCHANGED vars
  BY <1>1 DEF vars, Promises, Careful, Alone, Follows, Settles, Matched, Sphere, WorkspacesAfter
<1>2. ASSUME NEW c \in setting.clients, Exec(c) \/ ItemCall(c) \/ WorkspaceCall(c)
      PROVE  Promises'
  <2>1. c \in Clients /\ setting' = setting
    BY <1>2, SettingType, LinksEffect, OtherLinks DEF OneSphere, Base
  <2>2. SUFFICES ASSUME Careful
                 PROVE  \A d \in setting.clients : Follows(todo[d])'
    BY <2>1 DEF Promises, Careful, Alone
  <2>3. setting.clients = {c} /\ Base /\ NeverBoth /\ Follows(todo[c])
    BY <2>2, OneClient DEF OneSphere, Base, Careful, Promises
  <2>4. PICK u : u = todo'[c]
    OBVIOUS
  <2>5. ASSUME Follows(u)'
        PROVE  Follows(todo[c])'
    BY <2>4, <2>5 DEF Follows
  <2>6. CASE Exec(c)
    BY <2>2, <2>3, <2>4, <2>5, <2>6, ExecFollows
  <2>7. CASE ItemCall(c) \/ WorkspaceCall(c)
    <3>1. todo[c] = <<>>
      BY <2>3, <2>7, OtherLinks
    <3>2. Matched
      BY <2>3, <3>1, EmptyFollows
    <3>3. CASE Follows(u)'
      BY <2>3, <2>5, <3>3
    <3>4. CASE UNCHANGED todo /\ Matched'
      <4>1. PICK R, W, g : /\ R = rows' /\ W = workspace'
                           /\ g = [e \in Rows |-> IF "work" \in links'[e] THEN "work" ELSE "private"]
        OBVIOUS
      <4>2. \A i \in Items : i \in Rows /\ (W[i] # None => W[i] \in Rows)
        <5>1. TypeOK'
          BY NextBase DEF OneSphere, Base
        <5> QED
          BY <4>1, <5>1 DEF TypeOK, Rows
      <4>3. g \in [Rows -> Spheres] /\ \A e \in Rows : g[e] = Sphere(e)'
        BY <4>1 DEF Sphere, Spheres
      <4>4. \A i \in Items \cap R : W[i] # None => g[i] = g[W[i]]
        BY <3>4, <4>1, <4>2, <4>3 DEF Matched
      <4>5. Settles(<<>>, R, W, g)'
        BY <4>3, <4>4 DEF Settles
      <4>6. Follows(<<>>)'
        BY <4>1, <4>5 DEF Follows
      <4> QED
        BY <2>3, <2>4, <2>5, <3>1, <3>4, <4>6
    <3> QED
      BY <2>2, <2>3, <2>4, <2>7, <3>2, <3>3, <3>4, CallFollows
  <2> QED
    BY <1>2, <2>6, <2>7
<1> QED
  BY <1>1, <1>2 DEF Next

\* Between the calls of one client that neither fails nor leaves an item's sphere alone, every
\* item in a workspace has the workspace's sphere. While a call runs, the spheres in which its
\* statements end are fixed from its start, and items and workspaces agree in them (Settles).
THEOREM ItemsFollowWorkspaces == ASSUME Sane PROVE Spec => []SphereFollowsWorkspace
<1>1. ASSUME Init
      PROVE  OneSphere /\ Promises
  <2>1. Spheres # {}
    BY DEF Spheres
  <2>2. setting.clients \subseteq Clients
    BY <1>1, InitBase, SettingType DEF Base
  <2>3. Matched
    BY <1>1 DEF Init, Matched
  <2>4. Promises
    BY <1>1, <2>2, <2>3, InitBase, EmptyFollows DEF Promises, Init
  <2> QED
    BY <1>1, <2>1, <2>2, <2>4, InitBase DEF OneSphere, Init, NeverBoth, NeverNone, Fresh
<1>2. ASSUME OneSphere, Promises
      PROVE  SphereFollowsWorkspace
  <2>1. SUFFICES ASSUME Quiet, Careful
                 PROVE  Matched
    BY DEF SphereFollowsWorkspace, Careful, Matched
  <2>2. IsFiniteSet(setting.clients) /\ setting.clients \subseteq Clients
    BY <1>2, SettingType, FS_Subset DEF Sane, OneSphere, Base
  <2>3. PICK c \in setting.clients : TRUE
    BY <2>1, <2>2, FS_EmptySet DEF Careful, Alone
  <2> QED
    BY <1>2, <2>1, <2>2, <2>3, EmptyFollows DEF Promises, Quiet, OneSphere
<1> QED
  BY <1>1, <1>2, OneSphereNext, PromisesNext, PTL DEF Spec

---------------------------------------------------------------------------
(* The artifacts of items (ItemArtifacts).                                     *)

\* NULL is no role and no number.
LinksSane == /\ MaxArtifact \in Nat /\ MaxTime \in Nat
             /\ None \notin Links!Roles /\ None \notin Nat

\* NULL is not an artifact id.
LEMMA NotAnArtifact == ASSUME LinksSane PROVE None \notin Links!Artifacts
  BY DEF LinksSane, Links!Artifacts

\* Demoting and promoting keep the roles well-formed, and leave the promoted artifact as
\* the only source.
LEMMA PromotedRoles ==
  ASSUME LinksSane, NEW roles \in [Links!Artifacts -> Links!Roles \cup {None}],
         NEW a \in Links!Artifacts \cup {None}
  PROVE  /\ Links!Promoted(roles, a) \in [Links!Artifacts -> Links!Roles \cup {None}]
         /\ \A b \in Links!Artifacts : Links!Promoted(roles, a)[b] = "source" <=> a = b
         /\ \A b \in Links!Artifacts : b # a => (Links!Promoted(roles, a)[b] = None <=> roles[b] = None)
  <1>1. CASE a = None
    BY <1>1 DEF LinksSane, Links!Promoted, Links!Demoted, Links!Roles, Links!Artifacts
  <1>2. CASE a \in Links!Artifacts
    BY <1>2 DEF LinksSane, Links!Promoted, Links!Demoted, Links!Roles, Links!Artifacts
  <1> QED
    BY <1>1, <1>2

\* Making a the primary artifact of one item.
LEMMA SetPrimaryInv ==
  ASSUME LinksSane, primary \in [Items -> Links!Artifacts \cup {None}],
         role \in [Items -> [Links!Artifacts -> Links!Roles \cup {None}]],
         NEW i \in Items, NEW roles \in [Links!Artifacts -> Links!Roles \cup {None}],
         NEW a \in Links!Artifacts \cup {None}, Links!SetPrimary(i, roles, a), Links!PrimaryIsTheSource
  PROVE  /\ primary' \in [Items -> Links!Artifacts \cup {None}]
         /\ role' \in [Items -> [Links!Artifacts -> Links!Roles \cup {None}]]
         /\ Links!PrimaryIsTheSource'
         /\ \A j \in Items \ {i} : role'[j] = role[j]
         /\ role'[i] = Links!Promoted(roles, a)
  BY PromotedRoles DEF Links!SetPrimary, Links!PrimaryIsTheSource

\* The artifact choosePrimaryItemArtifactTx returns is a link that is left.
LEMMA NextPrimaryType ==
  ASSUME LinksSane, NEW i \in Items, NEW gone \in Links!Artifacts,
         NEW b \in Links!Artifacts \cup {None},
         Links!NextPrimary(i, gone, b)
  PROVE  b # None => b \in Links!Linked(i) /\ b # gone
  BY DEF Links!NextPrimary

LinkInv == Links!TypeOK /\ Links!PrimaryIsTheSource /\ Links!LinksResolve

LEMMA StampType ==
  ASSUME LinksSane, Links!TypeOK, NEW i \in Items, NEW a \in Links!Artifacts, Links!Stamp(i, a)
  PROVE  created' \in [Items -> [Links!Artifacts -> 0 .. MaxTime]]
  BY DEF Links!TypeOK, Links!Stamp

\* Creating an item, or changing its primary artifact.
LEMMA SetPrimarySteps ==
  ASSUME LinksSane, LinkInv, NEW i \in Items, NEW a \in Links!Artifacts \cup {None},
         Links!CreateItem(i, a) \/ Links!UpdateItemArtifact(i, a)
  PROVE  LinkInv'
  <1> DEFINE roles == IF i \in items THEN role[i] ELSE Links!Unlinked
  <1>1. /\ Links!SetPrimary(i, roles, a) /\ a \in artifacts \cup {None}
        /\ items' = items \cup {i} /\ artifacts' = artifacts /\ now' = now
    BY DEF Links!CreateItem, Links!UpdateItemArtifact
  <1>2. roles \in [Links!Artifacts -> Links!Roles \cup {None}]
    BY DEF LinkInv, Links!TypeOK, Links!Unlinked
  <1>3. created' \in [Items -> [Links!Artifacts -> 0 .. MaxTime]]
    BY StampType DEF Links!CreateItem, Links!UpdateItemArtifact, LinkInv, Links!TypeOK
  <1>4. Links!TypeOK' /\ Links!PrimaryIsTheSource'
    BY <1>1, <1>2, <1>3, SetPrimaryInv DEF LinkInv, Links!TypeOK
  <1>5. ASSUME NEW j \in Items, NEW b \in Links!Artifacts, role'[j][b] # None
        PROVE  j \in items' /\ b \in artifacts'
    <2>1. CASE j # i
      BY <1>1, <1>2, <1>5, <2>1, SetPrimaryInv DEF LinkInv, Links!TypeOK, Links!LinksResolve
    <2>2. CASE j = i /\ b = a
      BY <1>1, <2>2, NotAnArtifact
    <2>3. CASE j = i /\ b # a
      <3>1. roles[b] # None
        <4>1. role'[i] = Links!Promoted(roles, a)
          BY <1>1, <1>2, SetPrimaryInv DEF LinkInv, Links!TypeOK
        <4>2. Links!Promoted(roles, a)[b] = None <=> roles[b] = None
          BY <1>2, <2>3, PromotedRoles
        <4> QED
          BY <1>5, <2>3, <4>1, <4>2
      <3> QED
        BY <1>1, <2>3, <3>1 DEF LinkInv, Links!LinksResolve, Links!Unlinked
    <2> QED
      BY <2>1, <2>2, <2>3
  <1> QED
    BY <1>4, <1>5 DEF LinkInv, Links!LinksResolve

LEMMA LinkStep ==
  ASSUME LinksSane, LinkInv, NEW i \in Items, NEW a \in Links!Artifacts, NEW r \in Links!Roles,
         Links!LinkItemArtifact(i, a, r)
  PROVE  LinkInv'
  <1>1. CASE r = "source" \/ primary[i] = a
    <2>1. Links!UpdateItemArtifact(i, a)
      BY <1>1, NotAnArtifact DEF Links!LinkItemArtifact, Links!UpdateItemArtifact
    <2> QED
      BY <2>1, SetPrimarySteps
  <1>2. CASE ~(r = "source" \/ primary[i] = a)
    <2>1. /\ role' = [role EXCEPT ![i][a] = r] /\ UNCHANGED <<items, artifacts, primary, now>>
          /\ i \in items /\ a \in artifacts
      BY <1>2 DEF Links!LinkItemArtifact
    <2>2. created' \in [Items -> [Links!Artifacts -> 0 .. MaxTime]]
      BY StampType DEF Links!LinkItemArtifact, LinkInv
    <2>3. Links!TypeOK'
      BY <2>1, <2>2 DEF LinkInv, Links!TypeOK
    <2>4. \A j \in Items, b \in Links!Artifacts :
             role'[j][b] = IF j = i /\ b = a THEN r ELSE role[j][b]
      BY <2>1 DEF LinkInv, Links!TypeOK
    <2>5. Links!PrimaryIsTheSource'
      BY <1>2, <2>1, <2>4 DEF LinkInv, Links!PrimaryIsTheSource
    <2>6. Links!LinksResolve'
      BY <2>1, <2>4 DEF LinkInv, Links!LinksResolve
    <2> QED
      BY <2>3, <2>5, <2>6 DEF LinkInv
  <1> QED
    BY <1>1, <1>2

LEMMA UnlinkStep ==
  ASSUME LinksSane, LinkInv, NEW i \in Items, NEW a \in Links!Artifacts, Links!UnlinkItemArtifact(i, a)
  PROVE  LinkInv'
  <1> DEFINE roles == [role[i] EXCEPT ![a] = None]
  <1>1. CASE primary[i] = a
    <2>1. PICK b \in Links!Artifacts \cup {None} :
               Links!NextPrimary(i, a, b) /\ Links!SetPrimary(i, roles, b)
      BY <1>1 DEF Links!UnlinkItemArtifact
    <2>2. roles \in [Links!Artifacts -> Links!Roles \cup {None}]
      BY DEF LinkInv, Links!TypeOK
    <2>3. Links!TypeOK' /\ Links!PrimaryIsTheSource'
      BY <2>1, <2>2, SetPrimaryInv DEF Links!UnlinkItemArtifact, LinkInv, Links!TypeOK
    <2>4. ASSUME NEW j \in Items, NEW c \in Links!Artifacts, role'[j][c] # None
          PROVE  role[j][c] # None
      <3>1. CASE j # i
        BY <2>1, <2>2, <2>4, <3>1, SetPrimaryInv DEF LinkInv, Links!TypeOK
      <3>2. CASE j = i /\ c = b
        BY <2>1, <3>2, NotAnArtifact, NextPrimaryType DEF Links!Linked
      <3>3. CASE j = i /\ c # b
        <4>1. roles[c] # None
          <5>1. role'[i] = Links!Promoted(roles, b)
            BY <2>1, <2>2, SetPrimaryInv DEF LinkInv, Links!TypeOK
          <5>2. Links!Promoted(roles, b)[c] = None <=> roles[c] = None
            BY <2>2, <3>3, PromotedRoles
          <5> QED
            BY <2>4, <3>3, <5>1, <5>2
        <4> QED
          BY <3>3, <4>1 DEF LinkInv, Links!TypeOK
      <3> QED
        BY <3>1, <3>2, <3>3
    <2> QED
      BY <2>3, <2>4 DEF Links!UnlinkItemArtifact, LinkInv, Links!LinksResolve
  <1>2. CASE primary[i] # a
    <2>1. /\ role' = [role EXCEPT ![i][a] = None]
          /\ UNCHANGED <<items, artifacts, primary, created, now>>
      BY <1>2 DEF Links!UnlinkItemArtifact
    <2>2. None # "source"
      BY DEF LinksSane, Links!Roles
    <2> QED
      BY <1>2, <2>1, <2>2 DEF LinkInv, Links!TypeOK, Links!PrimaryIsTheSource, Links!LinksResolve
  <1> QED
    BY <1>1, <1>2

\* An item's primary artifact is exactly its one source link, links join existing rows, and
\* the variables keep their types.
THEOREM LinksInvariant == ASSUME LinksSane PROVE Links!Spec => []LinkInv
  <1>1. Links!Init => LinkInv
    BY DEF LinksSane, Links!Init, LinkInv, Links!TypeOK, Links!PrimaryIsTheSource,
       Links!LinksResolve, Links!Unlinked, Links!Roles,
       Links!Artifacts
  <1>2. LinkInv /\ [Links!Next]_(Links!vars) => LinkInv'
    <2> SUFFICES ASSUME LinkInv, [Links!Next]_(Links!vars) PROVE LinkInv'
      OBVIOUS
    <2>1. ASSUME NEW a \in Links!Artifacts, Links!CreateArtifact(a) PROVE LinkInv'
      BY <2>1 DEF Links!CreateArtifact, LinkInv, Links!TypeOK, Links!PrimaryIsTheSource,
         Links!LinksResolve
    <2>2. ASSUME NEW a \in Links!Artifacts, Links!DeleteArtifact(a) PROVE LinkInv'
      BY <2>2 DEF LinksSane, Links!DeleteArtifact, LinkInv, Links!TypeOK, Links!PrimaryIsTheSource,
         Links!LinksResolve, Links!Roles, Links!Artifacts
    <2>3. ASSUME NEW i \in Items, Links!DeleteItem(i) PROVE LinkInv'
      BY <2>3 DEF LinksSane, Links!DeleteItem, LinkInv, Links!TypeOK, Links!PrimaryIsTheSource,
         Links!LinksResolve, Links!Unlinked, Links!Roles, Links!Artifacts
    <2>4. ASSUME NEW i \in Items, NEW a \in Links!Artifacts, Links!UnlinkItemArtifact(i, a)
          PROVE  LinkInv'
      BY <2>4, UnlinkStep
    <2>5. ASSUME NEW i \in Items, NEW a \in Links!Artifacts \cup {None},
                 Links!CreateItem(i, a) \/ Links!UpdateItemArtifact(i, a)
          PROVE  LinkInv'
      BY <2>5, SetPrimarySteps
    <2>6. ASSUME NEW i \in Items, NEW a \in Links!Artifacts, NEW r \in Links!Roles,
                 Links!LinkItemArtifact(i, a, r)
          PROVE  LinkInv'
      BY <2>6, LinkStep
    <2>7. CASE Links!Tick
      BY <2>7 DEF LinksSane, Links!Tick, LinkInv, Links!TypeOK, Links!PrimaryIsTheSource,
         Links!LinksResolve
    <2>8. CASE UNCHANGED Links!vars
      BY <2>8 DEF Links!vars, LinkInv, Links!TypeOK, Links!PrimaryIsTheSource, Links!LinksResolve
    <2> QED
      BY <2>1, <2>2, <2>3, <2>4, <2>5, <2>6, <2>7, <2>8 DEF Links!Next
  <1> QED
    BY <1>1, <1>2, PTL DEF Links!Spec

\* artifact_id and the source role never disagree.
THEOREM PrimaryAgrees == ASSUME LinksSane PROVE Links!Spec => []PrimaryIsTheSource
  BY LinksInvariant, PTL DEF LinkInv, PrimaryIsTheSource

\* Links never dangle.
THEOREM LinksAlwaysResolve == ASSUME LinksSane PROVE Links!Spec => []Links!LinksResolve
  BY LinksInvariant, PTL DEF LinkInv

---------------------------------------------------------------------------
(* Both.                                                                       *)

\* A store is one of each, so that what is proved of the spheres and of the artifacts is true of
\* the tables of one database.
THEOREM TablesOfOneStore == StoreSpec => Spec /\ Links!Spec
<1>1. StoreInit => Init /\ Links!Init
  BY DEF StoreInit
<1>2. [StoreNext]_storeVars => [Next]_vars /\ [Links!Next]_(Links!vars)
  BY DEF StoreNext, storeVars, linkVars, vars, Links!vars
<1> QED
  BY <1>1, <1>2, PTL DEF StoreSpec, Spec, Links!Spec

=============================================================================
