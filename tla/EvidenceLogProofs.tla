--------------------------- MODULE EvidenceLogProofs ---------------------------
(* What becomes of a claim in the evidence log, for any number of nights,      *)
(* entities, claims and days: conflicts are reviewed, nothing fresh is lost,   *)
(* every claim is used by one night, and what the owner took back stays out.   *)
EXTENDS EvidenceLog, FiniteSetTheorems, WellFoundedInduction, TLAPS

\* The bounds are numbers, triage reads no further back than the picker (7 and 90 days in the
\* code), and None is none of the values it stands beside.
Sane == /\ MaxEntries \in Nat /\ MaxDay \in Nat /\ MaxRuns \in Nat
        /\ Settings \subseteq SettingRecords
        /\ \A s \in Settings : s.triageDays <= s.yieldDays
        /\ None \notin Lines /\ None \notin Logs /\ None \notin Claims /\ None \notin Days
        /\ None \notin [before : Logs, after : Logs]

\* Whatever has a line, was read or was used has been found.
Claimed(l) == \A i \in Ids : l[i] # None => claim[i] # None

AllClaimed ==
    /\ Claimed(head)
    /\ \A e \in Entities : edits[e] # None => Claimed(edits[e].before) /\ Claimed(edits[e].after)
    /\ \A n \in Nights : night[n].tmp # None => Claimed(night[n].tmp)
    /\ \A n \in Nights : \A i \in night[n].snapshot : claim[i] # None
    /\ \A i \in Ids : uses[i] # {} => claim[i] # None
    /\ \A i \in rejected : claim[i] # None

\* The shape of a night at each stage; those that the setting does not have never start.
Shapes == \A n \in Nights :
    /\ night[n].stage \in {"idle", "scout"} => night[n].snapshot = {}
    /\ night[n].stage \in {"marking", "commit"} => night[n].items # <<>>
    /\ n \notin setting.nights => night[n].stage = "idle" /\ night[n].on = None

Base == TypeOK /\ AllClaimed /\ Shapes

---------------------------------------------------------------------------
(* The steps of a night.                                                       *)

\* A set of numbers below a bound has a largest one.
LEMMA MaxIsIn ==
    ASSUME NEW N \in Nat, NEW R, R \subseteq 0 .. N, R # {}
    PROVE  Max(R) \in R
<1> DEFINE Above(x) == (x + 1) .. N
           T == {Above(x) : x \in R}
<1>1. \A x \in R : Above(x) \in SUBSET Nat /\ IsFiniteSet(Above(x))
  <2> TAKE x \in R
  <2>1. x \in Int /\ N \in Int /\ x + 1 \in Int
    OBVIOUS
  <2>2. IsFiniteSet((x + 1) .. N)
    BY <2>1, FS_Interval
  <2> QED
    BY <2>2
<1>2. T \subseteq FiniteSubsetsOf(Nat) /\ T # {}
  BY <1>1, Zenon DEF FiniteSubsetsOf
<1>3. PICK t \in T : \A u \in T : <<u, t>> \notin StrictSubsetOrdering(Nat)
  <2>1. IsWellFoundedOn(StrictSubsetOrdering(Nat), FiniteSubsetsOf(Nat))
    BY FS_StrictSubsetOrderingWellFounded
  <2> QED
    BY <1>2, <2>1, WFMin
<1>4. PICK x \in R : t = Above(x)
  BY Zenon
<1>5. ASSUME NEW y \in R, y > x
      PROVE  FALSE
  <2>1. Above(y) \subseteq Above(x) /\ y \in Above(x) /\ y \notin Above(y)
    BY <1>5
  <2>2. Above(y) \in T /\ <<Above(y), Above(x)>> \notin StrictSubsetOrdering(Nat)
    BY <1>3, <1>4, Zenon
  <2>3. Above(y) \in SUBSET Nat /\ Above(x) \in SUBSET Nat
    BY <1>1
  <2> HIDE DEF Above
  <2> QED
    BY <2>1, <2>2, <2>3 DEF StrictSubsetOrdering
<1>6. \A y \in R : x >= y
  BY <1>5
<1> QED
  BY <1>6 DEF Max

LEMMA LargestRun ==
    ASSUME Sane, TypeOK, NEW n \in Nights
    PROVE  LastRun \in 0 .. MaxRuns
<1>1. {night[m].run : m \in Nights} \subseteq 0 .. MaxRuns /\ {night[m].run : m \in Nights} # {}
  BY DEF TypeOK, NightStates
<1> QED
  BY <1>1, MaxIsIn DEF LastRun, Sane

\* The memory of night n after a step, which leaves the others alone.
Now(n, stage, snapshot, items, edited, tmp, run, on) ==
    /\ night' \in [Nights -> NightStates]
    /\ \A m \in Nights : m # n => night'[m] = night[m]
    /\ night'[n].stage = stage /\ night'[n].snapshot = snapshot /\ night'[n].items = items
    /\ night'[n].edited = edited /\ night'[n].tmp = tmp /\ night'[n].run = run
    /\ night'[n].on = on

LEMMA Made ==
    ASSUME TypeOK, NEW n \in Nights, NEW r \in NightStates, night' = [night EXCEPT ![n] = r]
    PROVE  Now(n, r.stage, r.snapshot, r.items, r.edited, r.tmp, r.run, r.on)
  BY DEF Now, TypeOK

\* What a rewrite makes of the lines: it drops some, and marks some.
LEMMA Rewrites ==
    ASSUME TypeOK, NEW l, \/ \E d \in Nat : l = Pruned(d)
                          \/ \E e \in Entities : l = AppliedAll(e)
                          \/ \E es \in SUBSET Entities : l = Reverted(es)
    PROVE  /\ l \in Logs
           /\ \A i \in Ids : l[i] # None =>
                 /\ log[i] # None /\ log[i] \in Lines /\ l[i] \in Lines
                 /\ log[i].applied => l[i].applied
                 /\ log[i].reverted => l[i].reverted
                 /\ l[i].reverted => log[i].reverted \/ log[i].applied
<1>1. \A i \in Ids : log[i] # None => log[i] \in Lines
  BY DEF TypeOK, Logs
<1>2. CASE \E d \in Nat : l = Pruned(d)
  BY <1>1, <1>2 DEF Pruned, Recent, Logged, Logs
<1>3. CASE \E e \in Entities : l = AppliedAll(e)
  BY <1>1, <1>3 DEF AppliedAll, Logged, Logs, Lines
<1>4. CASE \E es \in SUBSET Entities : l = Reverted(es)
  BY <1>1, <1>4 DEF Reverted, Logged, Logs, Lines
<1> QED
  BY <1>2, <1>3, <1>4

\* The lines of the three.
LEMMA PrunedLine ==
    ASSUME TypeOK, Sane, NEW d \in Nat, NEW i \in Ids, log[i] # None
    PROVE  Pruned(d)[i] = IF claim[i].day + d > day THEN log[i] ELSE None
  BY DEF Pruned, Recent, Logged

LEMMA AppliedLine ==
    ASSUME TypeOK, Sane, NEW e \in Entities, NEW i \in Ids, log[i] # None
    PROVE  /\ AppliedAll(e)[i] # None
           /\ AppliedAll(e)[i].applied <=> log[i].applied \/ i \in About(e)
           /\ AppliedAll(e)[i].reverted = log[i].reverted
  BY DEF AppliedAll, Logged, About, TypeOK, Logs, Lines, Sane

LEMMA RevertedLine ==
    ASSUME TypeOK, Sane, NEW es \in SUBSET Entities, NEW i \in Ids, log[i] # None
    PROVE  /\ Reverted(es)[i] # None
           /\ Reverted(es)[i].applied = log[i].applied
           /\ Reverted(es)[i].reverted <=>
                 log[i].reverted \/ (claim[i].entity \in es /\ log[i].applied)
  BY DEF Reverted, Logged, TypeOK, Logs, Lines, Sane

LEMMA SettingType ==
    ASSUME Sane, TypeOK
    PROVE  /\ setting \in SettingRecords /\ setting.triageDays \in Nat /\ setting.yieldDays \in Nat
           /\ setting.triageDays <= setting.yieldDays /\ setting.nights \subseteq Nights
           /\ setting.entries \in Nat /\ setting.entries <= MaxEntries
           /\ setting.days \in Days /\ setting.runs \in 0 .. MaxRuns
           /\ day \in Nat /\ \A i \in Ids : claim[i] # None => claim[i] \in Claims /\ claim[i].day \in Nat
  BY DEF Sane, TypeOK, SettingRecords, Days, Claims

LEMMA PickEffect ==
    ASSUME Sane, TypeOK, NEW n \in Nights, PickEntities(n)
    PROVE  /\ Now(n, "scout", {}, <<>>, {}, Pruned(setting.yieldDays), LastRun + 1, day)
           /\ Pruned(setting.yieldDays) # None
<1>1. LastRun + 1 \in 0 .. MaxRuns
  BY LargestRun, SettingType DEF PickEntities, Sane
<1>2. Pruned(setting.yieldDays) \in Logs
  BY Rewrites, SettingType
<1> DEFINE r == [Asleep(LastRun + 1, day) EXCEPT !.stage = "scout", !.tmp = Pruned(setting.yieldDays)]
<1>3. /\ r \in NightStates /\ r.stage = "scout" /\ r.snapshot = {} /\ r.items = <<>>
      /\ r.edited = {} /\ r.tmp = Pruned(setting.yieldDays) /\ r.run = LastRun + 1 /\ r.on = day
  <2>1. <<>> \in Seq(Entities) /\ day \in Days
    BY DEF TypeOK
  <2> QED
    BY <1>1, <1>2, <2>1 DEF Asleep, NightStates, Stages
<1>4. night' = [night EXCEPT ![n] = r]
  BY DEF PickEntities
<1> HIDE DEF r
<1> QED
  BY <1>2, <1>3, <1>4 DEF Now, TypeOK, Sane

LEMMA TriageEffect ==
    ASSUME Sane, TypeOK, NEW n \in Nights, Triage(n)
    PROVE  /\ \E items \in Seq(Entities) :
                Now(n, "edit", Unapplied(Recent(setting.triageDays)), items, night[n].edited,
                    Pruned(setting.triageDays), night[n].run, night[n].on)
           /\ Pruned(setting.triageDays) # None
<1>1. Pruned(setting.triageDays) \in Logs
  BY Rewrites, SettingType
<1>2. PICK items \in Lists :
          night' = [night EXCEPT ![n].stage = "edit", ![n].tmp = Pruned(setting.triageDays),
                                 ![n].snapshot = Unapplied(Recent(setting.triageDays)),
                                 ![n].items = items]
  BY DEF Triage
<1>3. items \in Seq(Entities)
  <2>1. PICK m \in 0 .. setting.items : items \in [1 .. m -> Entities]
    BY <1>2 DEF Lists, SeqOf
  <2>2. m \in Nat
    BY <2>1, SettingType DEF SettingRecords
  <2> QED
    BY <2>1, <2>2
<1>4. Unapplied(Recent(setting.triageDays)) \in SUBSET Ids
  BY DEF Unapplied, Recent, Logged
<1> DEFINE p == Pruned(setting.triageDays)
           s == Unapplied(Recent(setting.triageDays))
           r == [night[n] EXCEPT !.stage = "edit", !.tmp = p, !.snapshot = s, !.items = items]
<1>5. p \in Logs /\ s \in SUBSET Ids /\ night[n] \in NightStates /\ p # None
  BY <1>1, <1>4 DEF TypeOK, Sane
<1>6. night' = [night EXCEPT ![n] = r]
  BY <1>2
<1> HIDE DEF p, s
<1>7. /\ r \in NightStates /\ r.stage = "edit" /\ r.tmp = p /\ r.snapshot = s /\ r.items = items
      /\ r.edited = night[n].edited /\ r.run = night[n].run /\ r.on = night[n].on
  BY <1>3, <1>5 DEF NightStates, Stages
<1> HIDE DEF r
<1> QED
  BY <1>3, <1>5, <1>6, <1>7, Made DEF p, s

LEMMA EndEffect ==
    ASSUME Sane, TypeOK, NEW n \in Nights, Over(n)
    PROVE  Now(n, "idle", {}, <<>>, {}, None, night[n].run, night[n].on)
<1> DEFINE r == Asleep(night[n].run, night[n].on)
<1>1. <<>> \in Seq(Entities)
  OBVIOUS
<1>2. /\ r \in NightStates /\ r.stage = "idle" /\ r.snapshot = {} /\ r.items = <<>>
      /\ r.edited = {} /\ r.tmp = None /\ r.run = night[n].run /\ r.on = night[n].on
  BY <1>1 DEF Asleep, NightStates, Stages, TypeOK
<1>3. night' = [night EXCEPT ![n] = r]
  BY DEF Over
<1> HIDE DEF r
<1> QED
  BY <1>2, <1>3 DEF Now, TypeOK

LEMMA GotoEffect ==
    ASSUME Sane, TypeOK, NEW n \in Nights, NEW stage \in Stages, NEW new \in Logs,
           Goto(n, stage, Changed(new)), night[n].tmp = None
    PROVE  /\ Now(n, stage, night[n].snapshot, night[n].items, night[n].edited, Changed(new),
                  night[n].run, night[n].on)
           /\ Changed(new) \in {None, new} /\ (Changed(new) = None => new = log) /\ new # None
<1> DEFINE c == Changed(new)
           r == [night[n] EXCEPT !.stage = stage, !.tmp = c]
<1>1. c \in {None, new} /\ (c = None => new = log) /\ new # None /\ night[n] \in NightStates
  BY DEF Changed, Sane, TypeOK
<1>2. night' = [night EXCEPT ![n] = r]
  BY DEF Goto
<1> HIDE DEF c
<1>3. /\ r \in NightStates /\ r.stage = stage /\ r.tmp = c /\ r.snapshot = night[n].snapshot
      /\ r.items = night[n].items /\ r.edited = night[n].edited /\ r.run = night[n].run
      /\ r.on = night[n].on
  BY <1>1 DEF NightStates
<1> HIDE DEF r
<1> QED
  BY <1>1, <1>2, <1>3, Made DEF c

LEMMA OtherEffects ==
    ASSUME Sane, TypeOK, NEW n \in Nights
    PROVE  /\ Rename(n) => Now(n, night[n].stage, night[n].snapshot, night[n].items,
                               night[n].edited, None, night[n].run, night[n].on)
           /\ EditSucceeds(n) => Now(n, "marking", night[n].snapshot, night[n].items,
                                     night[n].edited, night[n].tmp, night[n].run, night[n].on)
           /\ ProposeConflicts(n) => Now(n, "feedback", night[n].snapshot, night[n].items,
                                         night[n].edited, night[n].tmp, night[n].run, night[n].on)
<1>1. CASE Rename(n)
  BY <1>1 DEF Rename, Now, TypeOK, NightStates, EditSucceeds, ProposeConflicts, Ready
<1>2. CASE EditSucceeds(n)
  BY <1>2 DEF EditSucceeds, Now, TypeOK, NightStates, Stages, Rename, ProposeConflicts, Ready
<1>3. CASE ProposeConflicts(n)
  BY <1>3 DEF ProposeConflicts, Now, TypeOK, NightStates, Stages, Rename, EditSucceeds, Ready
<1> QED
  BY <1>1, <1>2, <1>3

LEMMA TailEffects ==
    ASSUME Sane, TypeOK, NEW n \in Nights, night[n].items # <<>>
    PROVE  /\ Head(night[n].items) \in Entities
           /\ EditFails(n) => Now(n, night[n].stage, night[n].snapshot, Tail(night[n].items),
                                  night[n].edited, night[n].tmp, night[n].run, night[n].on)
           /\ commitEntityEdit(n) =>
                 Now(n, "edit", night[n].snapshot, Tail(night[n].items),
                     night[n].edited \cup {Head(night[n].items)}, night[n].tmp, night[n].run,
                     night[n].on)
<1>1. /\ Head(night[n].items) \in Entities /\ Tail(night[n].items) \in Seq(Entities)
      /\ night[n].edited \cup {Head(night[n].items)} \in SUBSET Entities
  BY DEF TypeOK, NightStates
<1>2. CASE EditFails(n)
  BY <1>1, <1>2 DEF EditFails, commitEntityEdit, Ready, Now, TypeOK, NightStates
<1>3. CASE commitEntityEdit(n)
  <2>1. night' = [night EXCEPT ![n].stage = "edit", ![n].items = Tail(@),
                               ![n].edited = @ \cup {Head(night[n].items)}]
    BY <1>3 DEF commitEntityEdit
  <2> DEFINE rest == Tail(night[n].items)
             done == night[n].edited \cup {Head(night[n].items)}
             r == [night[n] EXCEPT !.stage = "edit", !.items = rest, !.edited = done]
  <2>2. ~EditFails(n) /\ night[n] \in NightStates /\ night' = [night EXCEPT ![n] = r]
    BY <1>3, <2>1 DEF EditFails, commitEntityEdit, Ready, TypeOK
  <2>3. rest \in Seq(Entities) /\ done \in SUBSET Entities
    BY <1>1
  <2> HIDE DEF rest, done
  <2>4. /\ r \in NightStates /\ r.stage = "edit" /\ r.items = rest /\ r.edited = done
        /\ r.tmp = night[n].tmp /\ r.snapshot = night[n].snapshot /\ r.run = night[n].run
        /\ r.on = night[n].on
    BY <2>2, <2>3 DEF NightStates, Stages
  <2> HIDE DEF r
  <2>5. Now(n, "edit", night[n].snapshot, rest, done, night[n].tmp, night[n].run, night[n].on)
    BY <2>2, <2>4, Made
  <2> QED
    BY <2>2, <2>5, <1>1 DEF rest, done
<1> QED
  BY <1>1, <1>2, <1>3

---------------------------------------------------------------------------
(* The types, and what has been found.                                         *)

EditsOK == /\ edits \in [Entities -> [before : Logs, after : Logs] \cup {None}]
           /\ \A e \in Entities : edits[e] # None =>
                 Claimed(edits[e].before) /\ Claimed(edits[e].after)

UsesOK == uses \in [Ids -> SUBSET Nat] /\ \A i \in Ids : uses[i] # {} => claim[i] # None

\* A step of a night that finds nothing new.
LEMMA NightBase ==
    ASSUME Sane, Base, NEW n \in setting.nights,
           NEW stage, NEW snapshot, NEW items, NEW edited, NEW tmp, NEW run, NEW on,
           Now(n, stage, snapshot, items, edited, tmp, run, on),
           UNCHANGED <<setting, day, claim, reverts, rejected>>,
           log' \in Logs, Claimed(log)', head' \in Logs, Claimed(head)', EditsOK', UsesOK',
           proposed' \in SUBSET Entities,
           tmp # None => Claimed(tmp), \A i \in snapshot : claim[i] # None,
           stage \in {"idle", "scout"} => snapshot = {},
           stage \in {"marking", "commit"} => items # <<>>,
           stage = "idle" => tmp = None
    PROVE  Base'
<1>1. n \in Nights
  BY SettingType DEF Base
<1>2. TypeOK'
  BY <1>1 DEF Base, TypeOK, Now, Claimed, EditsOK, UsesOK
<1>3. AllClaimed'
  <2>1. \A m \in Nights : night'[m].tmp # None => Claimed(night[m].tmp)'
    BY <1>1 DEF Now, Base, AllClaimed, Claimed
  <2>2. \A m \in Nights : \A i \in night'[m].snapshot : claim'[i] # None
    BY <1>1 DEF Now, Base, AllClaimed
  <2>3. \A i \in rejected' : claim'[i] # None
    BY DEF Base, AllClaimed
  <2> QED
    BY <2>1, <2>2, <2>3 DEF AllClaimed, EditsOK, UsesOK
<1>4. Shapes'
  BY <1>1 DEF Now, Base, Shapes
<1> QED
  BY <1>2, <1>3, <1>4 DEF Base

\* What the lemma above asks, as it is before the step.
LEMMA BaseFacts ==
    ASSUME Sane, Base
    PROVE  /\ setting.nights \subseteq Nights
           /\ log \in Logs /\ Claimed(log) /\ head \in Logs /\ Claimed(head) /\ EditsOK /\ UsesOK
           /\ proposed \in SUBSET Entities
           /\ \A n \in Nights : /\ night[n].tmp # None => Claimed(night[n].tmp)
                                /\ \A i \in night[n].snapshot : claim[i] # None
                                /\ night[n].stage \in {"idle", "scout"} => night[n].snapshot = {}
                                /\ night[n].stage \in {"marking", "commit"} => night[n].items # <<>>
                                /\ night[n].stage = "idle" => night[n].tmp = None
                                /\ night[n] \in NightStates
<1>1. Claimed(log)
  BY DEF Base, TypeOK, Claimed
<1> QED
  BY <1>1, SettingType DEF Base, TypeOK, AllClaimed, Shapes, EditsOK, UsesOK

LEMMA PickBase ==
    ASSUME Sane, Base, NEW n \in setting.nights, PickEntities(n)
    PROVE  Base'
<1>1. n \in Nights /\ Claimed(Pruned(setting.yieldDays))
  BY BaseFacts, Rewrites, SettingType DEF Claimed, Base
<1>2. /\ Now(n, "scout", {}, <<>>, {}, Pruned(setting.yieldDays), LastRun + 1, day)
  BY <1>1, PickEffect DEF Base
<1>3. UNCHANGED <<setting, day, claim, log, head, edits, reverts, proposed, uses, rejected>>
  BY DEF PickEntities
<1> HIDE DEF PickEntities
<1> QED
  BY <1>1, <1>2, <1>3, BaseFacts, NightBase DEF Claimed, EditsOK, UsesOK

LEMMA TriageBase ==
    ASSUME Sane, Base, NEW n \in setting.nights, Triage(n)
    PROVE  Base'
<1> DEFINE s == Unapplied(Recent(setting.triageDays))
<1>1. n \in Nights /\ Claimed(Pruned(setting.triageDays))
  BY BaseFacts, Rewrites, SettingType DEF Claimed, Base
<1>2. PICK items \in Seq(Entities) :
          Now(n, "edit", s, items, night[n].edited, Pruned(setting.triageDays), night[n].run,
              night[n].on)
  BY <1>1, TriageEffect DEF Base
<1>3. UNCHANGED <<setting, day, claim, log, head, edits, reverts, proposed, uses, rejected>>
  BY DEF Triage
<1>4. \A i \in s : claim[i] # None
  BY BaseFacts DEF Unapplied, Recent, Logged, Claimed
<1> HIDE DEF s
<1> QED
  BY <1>1, <1>2, <1>3, <1>4, BaseFacts, NightBase DEF Claimed, EditsOK, UsesOK

LEMMA GotoBase ==
    ASSUME Sane, Base, NEW n \in setting.nights, MarkAppliedAll(n) \/ DetectReverts(n)
    PROVE  Base'
<1>0. n \in Nights /\ night[n].tmp = None
  BY BaseFacts DEF MarkAppliedAll, DetectReverts, Ready
<1>1. PICK stage \in {"commit", "judge"}, new \in Logs :
          /\ Goto(n, stage, Changed(new)) /\ Claimed(new)
          /\ stage = "commit" => night[n].items # <<>>
          /\ UNCHANGED <<setting, day, claim, log, head, edits, reverts, proposed, uses, rejected>>
  <2>1. CASE MarkAppliedAll(n)
    <3>1. night[n].items # <<>> /\ Head(night[n].items) \in Entities
      BY <2>1, <1>0, BaseFacts, TailEffects DEF MarkAppliedAll, Ready, Base
    <3>2. /\ AppliedAll(Head(night[n].items)) \in Logs
          /\ Claimed(AppliedAll(Head(night[n].items)))
      BY <3>1, Rewrites, BaseFacts DEF Base, Claimed
    <3> QED
      BY <2>1, <3>1, <3>2 DEF MarkAppliedAll
  <2>2. CASE DetectReverts(n)
    <3>1. RevertedLately \in SUBSET Entities
      BY DEF RevertedLately, Base, TypeOK
    <3>2. Reverted(RevertedLately) \in Logs /\ Claimed(Reverted(RevertedLately))
      BY <3>1, Rewrites, BaseFacts DEF Base, Claimed
    <3> QED
      BY <2>2, <3>2 DEF DetectReverts
  <2> QED
    BY <2>1, <2>2
<1>2. /\ Now(n, stage, night[n].snapshot, night[n].items, night[n].edited, Changed(new),
             night[n].run, night[n].on)
      /\ Changed(new) \in {None, new}
  BY <1>0, <1>1, GotoEffect DEF Base, Stages
<1>3. Changed(new) # None => Claimed(Changed(new))
  BY <1>1, <1>2
<1> QED
  BY <1>0, <1>1, <1>2, <1>3, BaseFacts, NightBase DEF Claimed, EditsOK, UsesOK

LEMMA EndBase ==
    ASSUME Sane, Base, NEW n \in setting.nights, Judge(n) \/ Kill(n)
    PROVE  Base'
<1>1. n \in Nights
  BY BaseFacts
<1>2. Now(n, "idle", {}, <<>>, {}, None, night[n].run, night[n].on)
  BY <1>1, EndEffect DEF Base, Judge, Kill
<1>3. /\ UNCHANGED <<setting, day, claim, log, edits, reverts, proposed, uses, rejected>>
      /\ head' \in {head, log}
  BY DEF Judge, Kill
<1> QED
  BY <1>1, <1>2, <1>3, BaseFacts, NightBase DEF Claimed, EditsOK, UsesOK

LEMMA EditBase ==
    ASSUME Sane, Base, NEW n \in setting.nights,
           Rename(n) \/ EditSucceeds(n) \/ EditFails(n) \/ commitEntityEdit(n) \/ ProposeConflicts(n)
    PROVE  Base'
<1>n. n \in Nights
  BY BaseFacts
<1> USE BaseFacts
<1>1. CASE Rename(n)
  <2>1. /\ UNCHANGED <<setting, day, claim, head, edits, reverts, proposed, uses, rejected>>
        /\ log' = night[n].tmp /\ night[n].tmp # None /\ night[n].tmp \in Logs
    BY <1>1, <1>n DEF Rename, NightStates
  <2>2. Now(n, night[n].stage, night[n].snapshot, night[n].items, night[n].edited, None,
            night[n].run, night[n].on)
    BY <1>1, <1>n, OtherEffects DEF Base
  <2> QED
    BY <1>n, <2>1, <2>2, NightBase DEF Claimed, EditsOK, UsesOK
<1>2. CASE EditSucceeds(n)
  <2>1. /\ UNCHANGED <<setting, day, claim, log, head, edits, reverts, proposed, rejected>>
        /\ night[n].items # <<>> /\ night[n].run \in Nat
        /\ uses' = [i \in Ids |-> IF i \in night[n].snapshot \cap About(Head(night[n].items))
                                  THEN uses[i] \cup {night[n].run} ELSE uses[i]]
    BY <1>2, <1>n DEF EditSucceeds, NightStates, Sane
  <2>2. UsesOK'
    BY <2>1, <1>n DEF UsesOK
  <2>3. Now(n, "marking", night[n].snapshot, night[n].items, night[n].edited, night[n].tmp,
            night[n].run, night[n].on)
    BY <1>2, <1>n, OtherEffects DEF Base
  <2> QED
    BY <1>n, <2>1, <2>2, <2>3, NightBase DEF Claimed, EditsOK
<1>3. CASE EditFails(n)
  <2>1. /\ UNCHANGED <<setting, day, claim, log, head, edits, reverts, proposed, uses, rejected>>
        /\ night[n].items # <<>> /\ night[n].stage = "edit"
    BY <1>3 DEF EditFails, Ready
  <2>2. Now(n, night[n].stage, night[n].snapshot, Tail(night[n].items), night[n].edited,
            night[n].tmp, night[n].run, night[n].on)
    BY <1>3, <1>n, <2>1, TailEffects DEF Base
  <2> QED
    BY <1>n, <2>1, <2>2, NightBase DEF Claimed, EditsOK, UsesOK
<1>4. CASE commitEntityEdit(n)
  <2>1. /\ UNCHANGED <<setting, day, claim, log, reverts, proposed, uses, rejected>>
        /\ night[n].items # <<>> /\ head' = log
        /\ edits' = [edits EXCEPT ![Head(night[n].items)] = [before |-> head, after |-> log]]
    BY <1>4, <1>n DEF commitEntityEdit, Ready
  <2>2. Head(night[n].items) \in Entities
    BY <1>n, <2>1, TailEffects DEF Base
  <2>3. Now(n, "edit", night[n].snapshot, Tail(night[n].items),
            night[n].edited \cup {Head(night[n].items)}, night[n].tmp, night[n].run, night[n].on)
    BY <1>4, <1>n, <2>1, TailEffects DEF Base
  <2>4. EditsOK'
    BY <2>1, <2>2 DEF EditsOK, Claimed
  <2> QED
    BY <1>n, <2>1, <2>3, <2>4, NightBase DEF Claimed, UsesOK
<1>5. CASE ProposeConflicts(n)
  <2>1. /\ UNCHANGED <<setting, day, claim, log, head, edits, reverts, uses, rejected>>
        /\ proposed' = proposed \cup Conflicts(n)
    BY <1>5 DEF ProposeConflicts
  <2>2. proposed' \in SUBSET Entities
    BY <2>1, <1>n DEF Conflicts, Base, TypeOK, NightStates, Claims
  <2>3. Now(n, "feedback", night[n].snapshot, night[n].items, night[n].edited, night[n].tmp,
            night[n].run, night[n].on)
    BY <1>5, <1>n, OtherEffects DEF Base
  <2> QED
    BY <1>n, <2>1, <2>2, <2>3, NightBase DEF Claimed, EditsOK, UsesOK
<1> QED
  BY <1>1, <1>2, <1>3, <1>4, <1>5

\* A claim that is found has been nowhere before.
LEMMA AppendBase ==
    ASSUME Sane, Base, NEW n \in setting.nights, Append1(n)
    PROVE  /\ Base'
           /\ \A i \in Ids : claim[i] # None => claim'[i] = claim[i]
           /\ \A i \in Ids : claim[i] # None => log'[i] = log[i]
           /\ \A i \in Ids : claim[i] = None /\ log'[i] # None =>
                 ~log'[i].applied /\ ~log'[i].reverted
<1>1. PICK i \in Ids, c \in Claims, l \in Lines :
          /\ claim[i] = None /\ claim' = [claim EXCEPT ![i] = c] /\ log' = [log EXCEPT ![i] = l]
          /\ ~l.applied /\ ~l.reverted
  <2>1. PICK i \in 1 .. setting.entries, e \in Entities, v \in Verdicts :
            /\ claim[i] = None
            /\ claim' = [claim EXCEPT ![i] = [entity |-> e, verdict |-> v, day |-> day]]
            /\ log' = [log EXCEPT ![i] = [applied |-> FALSE, reverted |-> FALSE]]
    BY DEF Append1
  <2>2. i \in Ids
    BY SettingType DEF Ids, Base, Sane
  <2>3. [entity |-> e, verdict |-> v, day |-> day] \in Claims
    BY DEF Claims, Base, TypeOK
  <2>4. [applied |-> FALSE, reverted |-> FALSE] \in Lines
    BY DEF Lines
  <2> QED
    BY <2>1, <2>2, <2>3, <2>4
<1>2. UNCHANGED <<setting, day, head, edits, reverts, proposed, night, uses, rejected>>
  BY DEF Append1
<1>3. c # None /\ l # None
  BY DEF Sane
<1>4. \A j \in Ids : claim[j] # None => claim'[j] # None
  BY <1>1, <1>3 DEF Base, TypeOK
<1>5. TypeOK'
  BY <1>1, <1>2, <1>3 DEF Base, TypeOK, Logs
<1>6. AllClaimed'
  BY <1>2, <1>4, BaseFacts DEF Base, AllClaimed, Claimed, NightStates, TypeOK
<1>7. Shapes'
  BY <1>2 DEF Base, Shapes
<1>8. \A j \in Ids : log[j] # None => claim[j] # None
  BY DEF Base, TypeOK
<1> QED
  BY <1>1, <1>5, <1>6, <1>7, <1>8 DEF Base, TypeOK, Logs

\* The owner and the calendar.
LEMMA OwnerBase ==
    ASSUME Sane, Base, NEW e \in Entities, RevertNote(e) \/ RevertCommit(e)
    PROVE  Base'
<1>1. /\ UNCHANGED <<setting, day, claim, proposed, night, uses>> /\ edits[e] # None
      /\ reverts' = reverts \cup {[entity |-> e, day |-> day]}
      /\ rejected' = rejected \cup AppliedBy(e) /\ edits' = [edits EXCEPT ![e] = None]
  BY DEF RevertNote, RevertCommit
<1>2. log' \in Logs /\ Claimed(log)' /\ head' \in Logs /\ Claimed(head)'
  <2>1. CASE RevertNote(e)
    BY <2>1, <1>1, BaseFacts DEF RevertNote, Claimed
  <2>2. CASE RevertCommit(e)
    <3>1. edits[e].before \in Logs /\ Claimed(edits[e].before)
      BY <1>1, BaseFacts DEF EditsOK
    <3>2. /\ log' = [i \in Ids |-> IF i \in Touched(edits[e]) THEN edits[e].before[i] ELSE log[i]]
          /\ head' = log'
      BY <2>2 DEF RevertCommit
    <3> QED
      BY <3>1, <3>2, <1>1, BaseFacts DEF Logs, Claimed
  <2> QED
    BY <2>1, <2>2
<1>3. AppliedBy(e) \subseteq {i \in Ids : claim[i] # None}
  BY <1>1, BaseFacts DEF AppliedBy, Touched, EditsOK, Claimed, About
<1>4. [entity |-> e, day |-> day] \in [entity : Entities, day : Days]
  BY DEF Base, TypeOK
<1>5. TypeOK'
  BY <1>1, <1>2, <1>3, <1>4 DEF Base, TypeOK, Claimed
<1>6. AllClaimed'
  BY <1>1, <1>2, <1>3 DEF Base, AllClaimed, Claimed, TypeOK
<1>7. Shapes'
  BY <1>1 DEF Base, Shapes
<1> QED
  BY <1>5, <1>6, <1>7 DEF Base

LEMMA DayBase ==
    ASSUME Sane, Base, NextDay
    PROVE  Base' /\ day' = day + 1 /\ day \in Nat
<1>1. day' \in Days /\ day' = day + 1 /\ day \in Nat
  BY SettingType DEF NextDay, Base, Days, Sane
<1>2. TypeOK'
  BY <1>1 DEF NextDay, Base, TypeOK
<1>3. AllClaimed' /\ Shapes'
  BY DEF NextDay, Base, AllClaimed, Shapes, Claimed
<1> QED
  BY <1>1, <1>2, <1>3 DEF Base

LEMMA InitBase ==
    ASSUME Sane, Init
    PROVE  Base
<1>1. <<>> \in Seq(Entities) /\ Asleep(0, None) \in NightStates /\ 0 \in Days
  <2>1. <<>> \in Seq(Entities)
    OBVIOUS
  <2> QED
    BY <2>1 DEF Asleep, NightStates, Stages, Sane, Days
<1>2. \A n \in Nights : /\ night[n] = Asleep(0, None) /\ night[n].stage = "idle"
                        /\ night[n].snapshot = {} /\ night[n].tmp = None /\ night[n].on = None
  BY DEF Init, Asleep
<1>3. \A i \in Ids : log[i] = None /\ head[i] = None /\ uses[i] = {}
  BY DEF Init
<1>4. TypeOK
  BY <1>1, <1>2, <1>3 DEF Init, TypeOK, Logs
<1>5. AllClaimed /\ Shapes
  BY <1>2, <1>3 DEF Init, AllClaimed, Shapes, Claimed
<1> QED
  BY <1>4, <1>5 DEF Base

LEMMA NextBase ==
    ASSUME Sane, Base, [Next]_vars
    PROVE  Base'
<1>1. CASE Next
  BY <1>1, PickBase, TriageBase, GotoBase, EndBase, EditBase, AppendBase, OwnerBase, DayBase
     DEF Next
<1>2. CASE UNCHANGED vars
  BY <1>2 DEF vars, Base, TypeOK, AllClaimed, Shapes, Claimed
<1> QED
  BY <1>1, <1>2

---------------------------------------------------------------------------
(* Conflicts.                                                                  *)

\* The memory of every other night, and of this one where a step leaves it.
LEMMA ConflictsStep ==
    ASSUME Sane, Base, ConflictsReviewed, NEW n \in setting.nights,
           NEW stage, NEW snapshot, NEW items, NEW edited, NEW tmp, NEW run, NEW on,
           Now(n, stage, snapshot, items, edited, tmp, run, on),
           UNCHANGED <<setting, day, claim>>, proposed \subseteq proposed',
           stage \in {"feedback", "judge"} =>
              \/ /\ night[n].stage \in {"feedback", "judge"} /\ snapshot = night[n].snapshot
                 /\ edited = night[n].edited /\ on = night[n].on
              \/ \A i \in snapshot : claim[i].verdict = "conflicting" =>
                    claim[i].entity \in edited \cup proposed'
    PROVE  ConflictsReviewed'
<1>1. ASSUME NEW m \in Nights, night'[m].stage \in {"feedback", "judge"},
             NEW i \in night'[m].snapshot, claim'[i].verdict = "conflicting",
             night'[m].on = day'
      PROVE  claim'[i].entity \in night'[m].edited \cup proposed'
  <2>1. CASE m = n
    BY <2>1, <1>1, BaseFacts DEF Now, ConflictsReviewed
  <2>2. CASE m # n
    BY <2>2, <1>1 DEF Now, ConflictsReviewed
  <2> QED
    BY <2>1, <2>2
<1> QED
  BY <1>1 DEF ConflictsReviewed

LEMMA ConflictsNext ==
    ASSUME Sane, Base, ConflictsReviewed, [Next]_vars
    PROVE  ConflictsReviewed'
<1> USE BaseFacts
<1>1. ASSUME NEW n \in setting.nights, PickEntities(n)
      PROVE  ConflictsReviewed'
  <2>1. Now(n, "scout", {}, <<>>, {}, Pruned(setting.yieldDays), LastRun + 1, day)
    BY <1>1, PickEffect DEF Base
  <2> QED
    BY <2>1, <1>1, ConflictsStep DEF PickEntities
<1>2. ASSUME NEW n \in setting.nights, Triage(n)
      PROVE  ConflictsReviewed'
  <2>1. PICK items : Now(n, "edit", Unapplied(Recent(setting.triageDays)), items, night[n].edited,
                         Pruned(setting.triageDays), night[n].run, night[n].on)
    BY <1>2, TriageEffect DEF Base
  <2> QED
    BY <2>1, <1>2, ConflictsStep DEF Triage
<1>3. ASSUME NEW n \in setting.nights, MarkAppliedAll(n)
      PROVE  ConflictsReviewed'
  <2>1. /\ Goto(n, "commit", Changed(AppliedAll(Head(night[n].items))))
        /\ night[n].stage = "marking" /\ night[n].tmp = None
        /\ UNCHANGED <<setting, day, claim, proposed>>
    BY <1>3 DEF MarkAppliedAll, Ready
  <2>2. AppliedAll(Head(night[n].items)) \in Logs
    BY <2>1, TailEffects, Rewrites DEF Base
  <2>3. Now(n, "commit", night[n].snapshot, night[n].items, night[n].edited,
            Changed(AppliedAll(Head(night[n].items))), night[n].run, night[n].on)
    BY <2>1, <2>2, GotoEffect DEF Base, Stages
  <2> QED
    BY <2>1, <2>3, ConflictsStep
<1>4. ASSUME NEW n \in setting.nights, DetectReverts(n)
      PROVE  ConflictsReviewed'
  <2>1. /\ Goto(n, "judge", Changed(Reverted(RevertedLately)))
        /\ night[n].stage = "feedback" /\ night[n].tmp = None
        /\ UNCHANGED <<setting, day, claim, proposed>>
    BY <1>4 DEF DetectReverts, Ready
  <2>2. RevertedLately \in SUBSET Entities
    BY DEF RevertedLately, Base, TypeOK
  <2>3. Reverted(RevertedLately) \in Logs
    BY <2>2, Rewrites DEF Base
  <2>4. Now(n, "judge", night[n].snapshot, night[n].items, night[n].edited,
            Changed(Reverted(RevertedLately)), night[n].run, night[n].on)
    BY <2>1, <2>3, GotoEffect DEF Base, Stages
  <2> QED
    BY <2>1, <2>4, ConflictsStep
<1>5. ASSUME NEW n \in setting.nights, Judge(n) \/ Kill(n)
      PROVE  ConflictsReviewed'
  <2>1. Now(n, "idle", {}, <<>>, {}, None, night[n].run, night[n].on)
    BY <1>5, EndEffect DEF Base, Judge, Kill
  <2> QED
    BY <2>1, <1>5, ConflictsStep DEF Judge, Kill
<1>6. ASSUME NEW n \in setting.nights, Rename(n)
      PROVE  ConflictsReviewed'
  <2>1. Now(n, night[n].stage, night[n].snapshot, night[n].items, night[n].edited, None,
            night[n].run, night[n].on)
    BY <1>6, OtherEffects DEF Base
  <2> QED
    BY <2>1, <1>6, ConflictsStep DEF Rename
<1>7. ASSUME NEW n \in setting.nights, EditSucceeds(n)
      PROVE  ConflictsReviewed'
  <2>1. Now(n, "marking", night[n].snapshot, night[n].items, night[n].edited, night[n].tmp,
            night[n].run, night[n].on)
    BY <1>7, OtherEffects DEF Base
  <2> QED
    BY <2>1, <1>7, ConflictsStep DEF EditSucceeds
<1>8. ASSUME NEW n \in setting.nights, EditFails(n)
      PROVE  ConflictsReviewed'
  <2>1. /\ Now(n, night[n].stage, night[n].snapshot, Tail(night[n].items), night[n].edited,
               night[n].tmp, night[n].run, night[n].on)
        /\ night[n].stage = "edit"
    BY <1>8, TailEffects DEF Base, EditFails, Ready
  <2> QED
    BY <2>1, <1>8, ConflictsStep DEF EditFails
<1>9. ASSUME NEW n \in setting.nights, commitEntityEdit(n)
      PROVE  ConflictsReviewed'
  <2>1. Now(n, "edit", night[n].snapshot, Tail(night[n].items),
            night[n].edited \cup {Head(night[n].items)}, night[n].tmp, night[n].run, night[n].on)
    BY <1>9, TailEffects DEF Base, commitEntityEdit, Ready
  <2> QED
    BY <2>1, <1>9, ConflictsStep DEF commitEntityEdit
<1>10. ASSUME NEW n \in setting.nights, ProposeConflicts(n)
       PROVE  ConflictsReviewed'
  <2>1. Now(n, "feedback", night[n].snapshot, night[n].items, night[n].edited, night[n].tmp,
            night[n].run, night[n].on)
    BY <1>10, OtherEffects DEF Base
  <2>2. \A i \in night[n].snapshot : claim[i].verdict = "conflicting" =>
            claim[i].entity \in night[n].edited \cup proposed'
    BY <1>10 DEF ProposeConflicts, Conflicts
  <2>3. UNCHANGED <<setting, day, claim>> /\ proposed \subseteq proposed'
    BY <1>10 DEF ProposeConflicts
  <2> QED
    BY <2>1, <2>2, <2>3, ConflictsStep
<1>11. ASSUME NEW n \in setting.nights, Append1(n)
       PROVE  ConflictsReviewed'
  <2>1. UNCHANGED <<day, proposed, night>> /\ \A i \in Ids : claim[i] # None => claim'[i] = claim[i]
    BY <1>11, AppendBase DEF Append1
  <2> QED
    BY <2>1 DEF ConflictsReviewed, NightStates
<1>12. ASSUME NEW e \in Entities, RevertNote(e) \/ RevertCommit(e)
       PROVE  ConflictsReviewed'
  BY <1>12 DEF RevertNote, RevertCommit, ConflictsReviewed
<1>13. CASE NextDay
  BY <1>13 DEF NextDay, ConflictsReviewed
<1>14. CASE UNCHANGED vars
  BY <1>14 DEF vars, ConflictsReviewed
<1> QED
  BY <1>1, <1>2, <1>3, <1>4, <1>5, <1>6, <1>7, <1>8, <1>9, <1>10, <1>11, <1>12, <1>13, <1>14
     DEF Next

\* A night that gets through its edits drops no conflict it read: ProposeConflicts goes through
\* what triage read, and nothing takes an edited entity or a proposal of today away
\* (internal/brain/edit, cmd/sloptools/brain_night_triage.go), whatever runs beside it.
THEOREM NoConflictDropped ==
    ASSUME Sane
    PROVE  Spec => []ConflictsReviewed
<1>1. Init => Base /\ ConflictsReviewed
  BY InitBase DEF Init, Asleep, ConflictsReviewed
<1>2. Base /\ ConflictsReviewed /\ [Next]_vars => (Base /\ ConflictsReviewed)'
  BY NextBase, ConflictsNext
<1> QED
  BY <1>1, <1>2, PTL DEF Spec

---------------------------------------------------------------------------
(* What rewrites drop.                                                         *)

Old(i) == claim[i].day + setting.triageDays <= day

Lost(l, m) == \A i \in Ids : l[i] # None /\ m[i] = None => Old(i)

\* Since the last commit, in a rewrite under way and by the edits only old lines are lost.
OnlyOldLost == /\ Lost(head, log)
               /\ \A n \in setting.nights : Lost(log, File(n))
               /\ \A e \in Entities : edits[e] # None => Lost(edits[e].before, edits[e].after)

\* Old claims stay old.
LEMMA OldStays ==
    ASSUME Sane, Base, [Next]_vars, NEW i \in Ids, claim[i] # None
    PROVE  claim'[i] = claim[i] /\ (Old(i) => Old(i)')
<1>1. CASE \E n \in setting.nights : Append1(n)
  BY <1>1, AppendBase DEF Append1, Old
<1>2. CASE NextDay
  <2>1. /\ day' = day + 1 /\ day \in Nat /\ UNCHANGED <<claim, setting>>
        /\ claim[i].day + setting.triageDays \in Nat
    BY <1>2, DayBase, SettingType DEF NextDay, Base
  <2> QED
    BY <2>1 DEF Old
<1>3. CASE UNCHANGED <<claim, setting, day>>
  BY <1>3 DEF Old
<1> QED
  BY <1>1, <1>2, <1>3 DEF Next, vars, PickEntities, Triage, Rename, EditSucceeds, EditFails,
     MarkAppliedAll, commitEntityEdit, ProposeConflicts, DetectReverts, Judge, Kill, RevertNote,
     RevertCommit

\* The lines of l that m has lost are old after the step.
LostNext(l, m) == \A i \in Ids : l[i] # None /\ m[i] = None => Old(i)'

LEMMA LostStays ==
    ASSUME Sane, Base, [Next]_vars, NEW l, NEW m, Claimed(l), Lost(l, m)
    PROVE  LostNext(l, m)
  BY OldStays DEF Lost, LostNext, Claimed

\* A rewrite drops old lines alone.
LEMMA RewriteLoses ==
    ASSUME Sane, Base
    PROVE  /\ Lost(log, Pruned(setting.yieldDays)) /\ Lost(log, Pruned(setting.triageDays))
           /\ \A e \in Entities : Lost(log, AppliedAll(e))
           /\ \A es \in SUBSET Entities : Lost(log, Reverted(es))
<1>1. ASSUME NEW d \in Nat, setting.triageDays <= d
      PROVE  Lost(log, Pruned(d))
  <2>1. ASSUME NEW i \in Ids, log[i] # None, Pruned(d)[i] = None
        PROVE  Old(i)
    <3>1. ~(claim[i].day + d > day) /\ claim[i].day \in Nat
      BY <2>1, PrunedLine, BaseFacts, SettingType DEF Base, Claimed
    <3> QED
      BY <3>1, <1>1, SettingType DEF Old, Base
  <2> QED
    BY <2>1 DEF Lost
<1>2. \A e \in Entities : Lost(log, AppliedAll(e))
  BY AppliedLine DEF Lost, Base
<1>3. \A es \in SUBSET Entities : Lost(log, Reverted(es))
  BY RevertedLine DEF Lost, Base
<1> QED
  BY <1>1, <1>2, <1>3, SettingType DEF Base

\* Night n is the only one.
LEMMA LostStep ==
    ASSUME Sane, Base, Alone, OnlyOldLost, [Next]_vars, NEW n \in setting.nights,
           UNCHANGED setting, LostNext(head', log'), NEW f, File(n)' = f, LostNext(log', f),
           \A e \in Entities : edits'[e] # None => LostNext(edits'[e].before, edits'[e].after)
    PROVE  OnlyOldLost'
<1>1. \A m \in setting'.nights : m = n
  BY DEF Alone
<1> QED
  BY <1>1 DEF OnlyOldLost, Lost, LostNext

LEMMA LostNight ==
    ASSUME Sane, Base, Alone, OnlyOldLost, NEW n \in setting.nights,
           \/ PickEntities(n) \/ Append1(n) \/ Triage(n) \/ Rename(n) \/ EditSucceeds(n)
           \/ EditFails(n) \/ MarkAppliedAll(n) \/ commitEntityEdit(n) \/ ProposeConflicts(n)
           \/ DetectReverts(n) \/ Judge(n) \/ Kill(n)
    PROVE  OnlyOldLost'
<1>0. n \in Nights /\ [Next]_vars
  BY BaseFacts DEF Next
<1>1. /\ LostNext(head, log) /\ LostNext(log, File(n)) /\ LostNext(log, log)
      /\ \A e \in Entities : edits[e] # None => LostNext(edits[e].before, edits[e].after)
  <2>1. Lost(log, log)
    BY DEF Lost
  <2> QED
    BY <1>0, <2>1, LostStays, BaseFacts DEF OnlyOldLost, EditsOK
<1>2. /\ LostNext(log, Pruned(setting.yieldDays)) /\ LostNext(log, Pruned(setting.triageDays))
      /\ \A e \in Entities : LostNext(log, AppliedAll(e))
      /\ \A es \in SUBSET Entities : LostNext(log, Reverted(es))
  BY <1>0, RewriteLoses, LostStays, BaseFacts
<1>s. ASSUME UNCHANGED <<setting, log, head, edits>>, NEW f, File(n)' = f, LostNext(log, f)
      PROVE  OnlyOldLost'
  BY <1>s, <1>0, <1>1, LostStep
<1>3. CASE PickEntities(n)
  <2>1. File(n)' = Pruned(setting.yieldDays)
    BY <1>3, <1>0, PickEffect DEF Now, File, Base
  <2> QED
    BY <2>1, <1>2, <1>3, <1>s DEF PickEntities
<1>4. CASE Triage(n)
  <2>1. File(n)' = Pruned(setting.triageDays)
    BY <1>4, <1>0, TriageEffect DEF Now, File, Base
  <2> QED
    BY <2>1, <1>2, <1>4, <1>s DEF Triage
<1>5. CASE MarkAppliedAll(n)
  <2>1. Head(night[n].items) \in Entities
    BY <1>5, <1>0, TailEffects, BaseFacts DEF MarkAppliedAll, Ready, Base
  <2>2. AppliedAll(Head(night[n].items)) \in Logs
    BY <2>1, Rewrites DEF Base
  <2>3. File(n)' \in {log, AppliedAll(Head(night[n].items))}
    BY <1>5, <1>0, <2>2, GotoEffect DEF MarkAppliedAll, Ready, Base, Stages, Now, File
  <2> QED
    BY <2>1, <2>3, <1>1, <1>2, <1>5, <1>s DEF MarkAppliedAll
<1>6. CASE DetectReverts(n)
  <2>1. RevertedLately \in SUBSET Entities
    BY DEF RevertedLately, Base, TypeOK
  <2>2. Reverted(RevertedLately) \in Logs
    BY <2>1, Rewrites DEF Base
  <2>3. File(n)' \in {log, Reverted(RevertedLately)}
    BY <1>6, <1>0, <2>2, GotoEffect DEF DetectReverts, Ready, Base, Stages, Now, File
  <2> QED
    BY <2>1, <2>3, <1>1, <1>2, <1>6, <1>s DEF DetectReverts
<1>7. CASE Judge(n) \/ Kill(n)
  <2>1. File(n)' = log /\ log' = log /\ head' \in {head, log} /\ UNCHANGED <<setting, edits>>
    BY <1>7, <1>0, EndEffect DEF Judge, Kill, Now, File, Base
  <2> QED
    BY <2>1, <1>0, <1>1, LostStep
<1>8. CASE EditSucceeds(n) \/ EditFails(n) \/ ProposeConflicts(n)
  <2>1. File(n)' = File(n) /\ UNCHANGED <<setting, log, head, edits>>
    BY <1>8, <1>0, OtherEffects, TailEffects
       DEF EditSucceeds, EditFails, ProposeConflicts, Now, File, Base
  <2> QED
    BY <2>1, <1>1, <1>s
<1>9. CASE commitEntityEdit(n)
  <2>1. /\ File(n)' = log /\ log' = log /\ head' = log /\ UNCHANGED setting
        /\ Head(night[n].items) \in Entities
        /\ edits' = [edits EXCEPT ![Head(night[n].items)] = [before |-> head, after |-> log]]
    BY <1>9, <1>0, TailEffects, BaseFacts DEF commitEntityEdit, Ready, Now, File, Base
  <2>2. \A e \in Entities : edits'[e] # None => LostNext(edits'[e].before, edits'[e].after)
    BY <2>1, <1>1 DEF Base, TypeOK
  <2> QED
    BY <2>1, <2>2, <1>0, <1>1, LostStep
<1>10. CASE Rename(n)
  <2>1. /\ File(n)' = night[n].tmp /\ log' = night[n].tmp /\ File(n) = night[n].tmp
        /\ UNCHANGED <<setting, head, edits>>
    BY <1>10, <1>0, OtherEffects DEF Rename, Now, File, Base
  <2>2. LostNext(head, night[n].tmp)
    BY <2>1, <1>1 DEF LostNext
  <2>3. LostNext(night[n].tmp, night[n].tmp)
    BY DEF LostNext
  <2> QED
    BY <2>1, <2>2, <2>3, <1>0, <1>1, LostStep
<1>11. CASE Append1(n)
  <2>1. /\ File(n)' = log' /\ UNCHANGED <<setting, head, edits>>
        /\ \A i \in Ids : log[i] # None => log'[i] = log[i]
    <3>1. \A i \in Ids : log[i] # None => claim[i] # None
      BY DEF Base, TypeOK
    <3> QED
      BY <1>11, <3>1, AppendBase DEF Append1, Ready, File
  <2>2. LostNext(head, log')
    BY <2>1, <1>1 DEF LostNext
  <2>3. LostNext(log', log')
    BY DEF LostNext
  <2> QED
    BY <2>1, <2>2, <2>3, <1>0, <1>1, LostStep
<1> QED
  BY <1>3, <1>4, <1>5, <1>6, <1>7, <1>8, <1>9, <1>10, <1>11

\* A commit that is taken back brings back what was old or is still there.
LEMMA LostRevert ==
    ASSUME Sane, Base, OnlyOldLost, NEW e \in Entities, RevertNote(e) \/ RevertCommit(e)
    PROVE  OnlyOldLost'
<1>0. /\ UNCHANGED <<setting, day, claim, night>> /\ edits[e] # None
      /\ edits' = [edits EXCEPT ![e] = None]
  BY DEF RevertNote, RevertCommit
<1>1. \A d \in Entities : edits'[d] # None => LostNext(edits'[d].before, edits'[d].after)
  BY <1>0 DEF OnlyOldLost, Lost, LostNext, Old, Base, TypeOK
<1>2. CASE RevertNote(e)
  BY <1>0, <1>1, <1>2 DEF RevertNote, OnlyOldLost, Lost, LostNext, Old, File
<1>3. CASE RevertCommit(e)
  <2> DEFINE b == edits[e].before
             a == edits[e].after
  <2>1. /\ b \in Logs /\ a \in Logs /\ log \in Logs /\ Lost(b, a) /\ head' = log'
        /\ log' = [i \in Ids |-> IF i \in Touched(edits[e]) THEN b[i] ELSE log[i]]
        /\ \A i \in Touched(edits[e]) : log[i] = a[i]
    BY <1>0, <1>3 DEF RevertCommit, OnlyOldLost, Base, TypeOK
  <2>2. ASSUME NEW n \in setting.nights, NEW i \in Ids, log'[i] # None, (File(n)[i])' = None
        PROVE  Old(i)
    <3>1. CASE night[n].tmp = None
      BY <3>1, <2>2, <1>0 DEF File
    <3>2. CASE night[n].tmp # None
      <4>1. File(n)[i] = None /\ Lost(log, File(n))
        BY <3>2, <2>2, <1>0 DEF File, OnlyOldLost
      <4>2. log[i] # None \/ (b[i] # None /\ a[i] = None)
        BY <2>1, <2>2
      <4> QED
        BY <4>1, <4>2, <2>1 DEF Lost
    <3> QED
      BY <3>1, <3>2
  <2> QED
    BY <2>1, <2>2, <1>0, <1>1 DEF OnlyOldLost, Lost, LostNext, Old
<1> QED
  BY <1>2, <1>3

LEMMA LostCalendar ==
    ASSUME Sane, Base, OnlyOldLost, NextDay \/ UNCHANGED vars
    PROVE  OnlyOldLost'
<1>1. UNCHANGED <<setting, claim, log, head, edits, night>> /\ [Next]_vars
  BY DEF NextDay, vars, Next
<1>2. /\ LostNext(head, log) /\ \A n \in setting.nights : LostNext(log, File(n))
      /\ \A e \in Entities : edits[e] # None => LostNext(edits[e].before, edits[e].after)
  BY <1>1, LostStays, BaseFacts DEF OnlyOldLost, EditsOK
<1> QED
  BY <1>1, <1>2 DEF OnlyOldLost, Lost, LostNext, File

LEMMA SameSetting == ASSUME [Next]_vars PROVE setting' = setting
  BY DEF Next, vars, PickEntities, Append1, Triage, Rename, EditSucceeds, EditFails,
     MarkAppliedAll, commitEntityEdit, ProposeConflicts, DetectReverts, Judge, Kill, RevertNote,
     RevertCommit, NextDay

LEMMA LostInvariant ==
    ASSUME Sane
    PROVE  Spec => [](Base /\ (Alone => OnlyOldLost))
<1>1. Init => Base /\ OnlyOldLost
  <2>1. ASSUME Init PROVE OnlyOldLost
    <3>1. \A i \in Ids : head[i] = None /\ log[i] = None
      BY <2>1 DEF Init
    <3>2. \A e \in Entities : edits[e] = None
      BY <2>1 DEF Init
    <3> QED
      BY <3>1, <3>2 DEF OnlyOldLost, Lost
  <2> QED
    BY <2>1, InitBase
<1>2. ASSUME Base, Alone => OnlyOldLost, [Next]_vars
      PROVE  Base' /\ (Alone' => OnlyOldLost')
  <2>1. Base' /\ (Alone' => Alone)
    BY <1>2, NextBase, SameSetting DEF Alone
  <2>2. CASE Alone
    BY <2>1, <2>2, <1>2, LostNight, LostRevert, LostCalendar DEF Next
  <2> QED
    BY <2>1, <2>2
<1> QED
  BY <1>1, <1>2, PTL DEF Spec

\* One night at a time: no rewrite drops a line that triage would still read
\* (internal/brain/evidence, Prune, MarkAppliedAll and MarkReverted), also when nights are killed
\* between a rewrite and its rename or the owner reverts commits.
THEOREM NothingFreshDropped ==
    ASSUME Sane
    PROVE  Spec => FreshKept
<1>1. ASSUME Base, Alone => OnlyOldLost, [Next]_vars
      PROVE  [Alone => KeepFresh]_vars
  <2>1. SUFFICES ASSUME Alone, OnlyOldLost, Next, NEW i \in Ids, log[i] # None, log'[i] = None,
                        ~TakingBack
                 PROVE  Old(i)
    BY <1>1 DEF KeepFresh, Old
  <2>2. \A e \in Entities : ~RevertNote(e) /\ ~RevertCommit(e)
    BY <2>1, <1>1 DEF TakingBack, RevertNote, RevertCommit, Base, TypeOK
  <2>3. \A n \in setting.nights : ~Append1(n)
    BY <2>1, <1>1, AppendBase, BaseFacts DEF Claimed
  <2>4. CASE \E n \in setting.nights : Rename(n)
    BY <2>1, <2>4 DEF Rename, OnlyOldLost, Lost, File
  <2>5. CASE log' = log
    BY <2>1, <2>5
  <2> QED
    BY <2>1, <2>2, <2>3, <2>4, <2>5
       DEF Next, PickEntities, Triage, EditSucceeds, EditFails, MarkAppliedAll, commitEntityEdit,
           ProposeConflicts, DetectReverts, Judge, Kill, NextDay
<1> QED
  BY <1>1, LostInvariant, PTL DEF Spec, FreshKept

---------------------------------------------------------------------------
(* One night at a time, and the owner takes back notes, not commits.           *)

\* Night n after a step: what the log is for it, and its memory.
Turn(n, f, stage, snapshot, items, run, on) ==
    /\ File(n)' = f /\ night'[n].stage = stage /\ night'[n].snapshot = snapshot
    /\ night'[n].items = items /\ night'[n].run = run /\ night'[n].on = on

LEMMA PickTurn ==
    ASSUME Sane, Base, NEW n \in Nights, PickEntities(n)
    PROVE  /\ Turn(n, Pruned(setting.yieldDays), "scout", {}, <<>>, LastRun + 1, day)
           /\ night[n].tmp = None
  BY PickEffect DEF Base, Turn, Now, File, PickEntities, Ready

LEMMA TriageTurn ==
    ASSUME Sane, Base, NEW n \in Nights, Triage(n)
    PROVE  /\ \E items : Turn(n, Pruned(setting.triageDays), "edit",
                              Unapplied(Recent(setting.triageDays)), items, night[n].run, night[n].on)
           /\ night[n].tmp = None /\ night[n].stage = "scout"
  BY TriageEffect DEF Base, Turn, Now, File, Triage, Ready

LEMMA MarkTurn ==
    ASSUME Sane, Base, NEW n \in Nights, MarkAppliedAll(n)
    PROVE  /\ Turn(n, AppliedAll(Head(night[n].items)), "commit", night[n].snapshot, night[n].items,
                   night[n].run, night[n].on)
           /\ night[n].tmp = None /\ night[n].stage = "marking" /\ Head(night[n].items) \in Entities
<1>1. night[n].tmp = None /\ night[n].stage = "marking" /\ Head(night[n].items) \in Entities
  BY TailEffects, BaseFacts DEF MarkAppliedAll, Ready, Base
<1>2. AppliedAll(Head(night[n].items)) \in Logs
  BY <1>1, Rewrites DEF Base
<1> QED
  BY <1>1, <1>2, GotoEffect DEF MarkAppliedAll, Base, Stages, Now, File, Turn

LEMMA DetectTurn ==
    ASSUME Sane, Base, NEW n \in Nights, DetectReverts(n)
    PROVE  /\ Turn(n, Reverted(RevertedLately), "judge", night[n].snapshot, night[n].items,
                   night[n].run, night[n].on)
           /\ night[n].tmp = None /\ night[n].stage = "feedback" /\ RevertedLately \in SUBSET Entities
<1>1. /\ night[n].tmp = None /\ night[n].stage = "feedback" /\ RevertedLately \in SUBSET Entities
  BY DEF DetectReverts, Ready, RevertedLately, Base, TypeOK
<1>2. Reverted(RevertedLately) \in Logs
  BY <1>1, Rewrites DEF Base
<1> QED
  BY <1>1, <1>2, GotoEffect DEF DetectReverts, Base, Stages, Now, File, Turn

LEMMA OtherTurns ==
    ASSUME Sane, Base, NEW n \in Nights
    PROVE  /\ Rename(n) => Turn(n, File(n), night[n].stage, night[n].snapshot, night[n].items,
                                night[n].run, night[n].on)
           /\ EditSucceeds(n) => Turn(n, log, "marking", night[n].snapshot, night[n].items,
                                      night[n].run, night[n].on)
           /\ EditFails(n) => Turn(n, log, "edit", night[n].snapshot, Tail(night[n].items),
                                   night[n].run, night[n].on)
           /\ commitEntityEdit(n) => Turn(n, log, "edit", night[n].snapshot, Tail(night[n].items),
                                          night[n].run, night[n].on)
           /\ ProposeConflicts(n) => Turn(n, log, "feedback", night[n].snapshot, night[n].items,
                                          night[n].run, night[n].on)
           /\ Judge(n) \/ Kill(n) => Turn(n, log, "idle", {}, <<>>, night[n].run, night[n].on)
<1>1. ASSUME Rename(n)
      PROVE  Turn(n, File(n), night[n].stage, night[n].snapshot, night[n].items, night[n].run,
                   night[n].on)
  BY <1>1, OtherEffects DEF Base, Rename, Now, File, Turn
<1>2. ASSUME EditSucceeds(n)
      PROVE  Turn(n, log, "marking", night[n].snapshot, night[n].items, night[n].run, night[n].on)
  BY <1>2, OtherEffects DEF Base, EditSucceeds, Ready, Now, File, Turn
<1>3. ASSUME EditFails(n)
      PROVE  Turn(n, log, "edit", night[n].snapshot, Tail(night[n].items), night[n].run,
                   night[n].on)
  BY <1>3, TailEffects DEF Base, EditFails, Ready, Now, File, Turn
<1>4. ASSUME commitEntityEdit(n)
      PROVE  Turn(n, log, "edit", night[n].snapshot, Tail(night[n].items), night[n].run,
                   night[n].on)
  BY <1>4, TailEffects, BaseFacts DEF Base, commitEntityEdit, Ready, Now, File, Turn
<1>5. ASSUME ProposeConflicts(n)
      PROVE  Turn(n, log, "feedback", night[n].snapshot, night[n].items, night[n].run, night[n].on)
  BY <1>5, OtherEffects DEF Base, ProposeConflicts, Ready, Now, File, Turn
<1>6. ASSUME Judge(n) \/ Kill(n)
      PROVE  Turn(n, log, "idle", {}, <<>>, night[n].run, night[n].on)
  BY <1>6, EndEffect DEF Base, Judge, Kill, Now, File, Turn
<1> QED
  BY <1>1, <1>2, <1>3, <1>4, <1>5, <1>6

\* An edit commit or the owner has entry i as applied.
Committed(i) == \E e \in Entities : /\ edits[e] # None /\ edits[e].after[i] # None
                                    /\ edits[e].after[i].applied
Taken(i) == Committed(i) \/ i \in rejected

\* The marks of a log: what is applied was used, what is reverted or was taken is applied.
Sound(l) == \A i \in Ids : l[i] # None =>
               /\ l[i].applied => uses[i] # {}
               /\ l[i].reverted => l[i].applied
               /\ Taken(i) => l[i].applied

\* What a night holds: of what it read, that which was marked or taken was marked in this run;
\* the lines that it did not read were used; what it is about to mark it has used.
Hand(f, stage, snapshot, items, run) ==
    /\ \A i \in snapshot : (f[i] # None /\ f[i].applied) \/ Taken(i) => run \in uses[i]
    /\ stage \notin {"idle", "scout"} =>
          \A i \in Ids : f[i] # None => i \in snapshot \/ uses[i] # {}
    /\ stage = "marking" =>
          \A i \in snapshot : claim[i].entity = Head(items) => run \in uses[i]

InHand(n) == Hand(File(n), night[n].stage, night[n].snapshot, night[n].items, night[n].run)

Marks == Sound(log) /\ \A n \in setting.nights : Sound(File(n)) /\ InHand(n)

\* The rewrites that only drop lines or mark what was applied.
LEMMA TamedSound ==
    ASSUME Sane, Base, Sound(log), NEW l, \/ \E d \in Nat : l = Pruned(d)
                                          \/ \E es \in SUBSET Entities : l = Reverted(es)
    PROVE  /\ Sound(l)
           /\ \A i \in Ids : l[i] # None => log[i] # None /\ l[i].applied = log[i].applied
<1>1. ASSUME NEW i \in Ids, l[i] # None
      PROVE  /\ log[i] # None /\ l[i].applied = log[i].applied
             /\ l[i].reverted => log[i].reverted \/ log[i].applied
  <2>1. log[i] # None /\ (l[i].reverted => log[i].reverted \/ log[i].applied)
    BY <1>1, Rewrites DEF Base
  <2>2. l[i].applied = log[i].applied
    BY <1>1, <2>1, PrunedLine, RevertedLine DEF Base
  <2> QED
    BY <2>1, <2>2
<1> QED
  BY <1>1 DEF Sound

\* A step after which nothing is taken that was not applied in the log, and no use forgotten.
Mild == /\ \A i \in Ids : Taken(i)' => Taken(i) \/ (log[i] # None /\ log[i].applied)
        /\ \A i \in Ids : uses[i] \subseteq uses'[i]

Calm == /\ \A i \in Ids : Taken(i)' => Taken(i)
        /\ UNCHANGED <<uses, claim, setting>>

LEMMA SoundStays ==
    ASSUME Calm, NEW l, Sound(l)
    PROVE  Sound(l)'
  BY DEF Calm, Sound

LEMMA HandStays ==
    ASSUME Calm, NEW f, NEW stage, NEW snapshot, snapshot \subseteq Ids, NEW items, NEW run,
           Hand(f, stage, snapshot, items, run)
    PROVE  Hand(f, stage, snapshot, items, run)'
  BY DEF Calm, Hand

LEMMA UnchangedCalm ==
    ASSUME UNCHANGED <<uses, claim, setting, edits, rejected>>
    PROVE  Calm
  BY DEF Calm, Taken, Committed

\* Night n is the only one.
LEMMA MarksStep ==
    ASSUME Sane, Alone, NEW n \in setting.nights, UNCHANGED setting, Sound(log)',
           NEW f, NEW stage, NEW snapshot, NEW items, NEW run, NEW on,
           Turn(n, f, stage, snapshot, items, run, on),
           Sound(f)', Hand(f, stage, snapshot, items, run)'
    PROVE  Marks'
<1>1. \A m \in setting'.nights : m = n
  BY DEF Alone
<1>2. Sound(File(n))'
  BY DEF Turn, Sound
<1>3. InHand(n)'
  BY DEF Turn, InHand, Hand
<1> QED
  BY <1>1, <1>2, <1>3 DEF Marks

LEMMA MarksCalm ==
    ASSUME Sane, Base, Alone, Marks, NEW n \in setting.nights, Calm, UNCHANGED log,
           NEW f, NEW stage, NEW snapshot, snapshot \subseteq Ids, NEW items, NEW run, NEW on,
           Turn(n, f, stage, snapshot, items, run, on),
           Sound(f), Hand(f, stage, snapshot, items, run)
    PROVE  Marks'
<1>1. Sound(log)'
  <2>1. PICK l : l = log
    OBVIOUS
  <2>2. Sound(l)'
    BY <2>1, SoundStays DEF Marks
  <2> QED
    BY <2>1, <2>2 DEF Sound
<1>2. Sound(f)' /\ Hand(f, stage, snapshot, items, run)' /\ setting' = setting
  BY SoundStays, HandStays DEF Calm
<1> QED
  BY <1>1, <1>2, MarksStep

LEMMA MarksNight ==
    ASSUME Sane, Base, Alone, Marks, NEW n \in setting.nights,
           \/ PickEntities(n) \/ Triage(n) \/ EditFails(n) \/ ProposeConflicts(n)
           \/ MarkAppliedAll(n) \/ DetectReverts(n) \/ Judge(n) \/ Kill(n)
    PROVE  Marks'
<1>0. /\ n \in Nights /\ Sound(log) /\ Sound(File(n)) /\ InHand(n) /\ night[n].snapshot \subseteq Ids
      /\ File(n) = IF night[n].tmp = None THEN log ELSE night[n].tmp
  BY BaseFacts DEF Marks, File, NightStates
<1>1. Calm /\ UNCHANGED log
  BY UnchangedCalm DEF PickEntities, Triage, EditFails, ProposeConflicts, MarkAppliedAll,
     DetectReverts, Judge, Kill
<1>2. CASE PickEntities(n)
  <2>1. Sound(Pruned(setting.yieldDays))
    BY <1>0, TamedSound, SettingType DEF Base
  <2>2. Hand(Pruned(setting.yieldDays), "scout", {}, <<>>, LastRun + 1)
    BY DEF Hand
  <2> QED
    BY <1>0, <1>1, <1>2, <2>1, <2>2, PickTurn, MarksCalm
<1>3. CASE Triage(n)
  <2> DEFINE p == Pruned(setting.triageDays)
             s == Unapplied(Recent(setting.triageDays))
  <2>1. Sound(p) /\ \A i \in Ids : p[i] # None => log[i] # None /\ p[i].applied = log[i].applied
    BY <1>0, TamedSound, SettingType DEF Base
  <2>2. s \subseteq Ids /\ \A i \in s : log[i] # None /\ ~log[i].applied
    BY DEF Unapplied, Recent, Logged
  <2>3. \A i \in Ids : p[i] # None => i \in s \/ uses[i] # {}
    <3>1. \A i \in Ids : p[i] # None => i \in Recent(setting.triageDays)
      BY DEF Pruned
    <3>2. \A i \in Ids : log[i] # None /\ i \in Recent(setting.triageDays) =>
              i \in s \/ log[i].applied \/ log[i].reverted
      BY DEF Unapplied
    <3>3. \A i \in Ids : log[i] # None /\ (log[i].applied \/ log[i].reverted) => uses[i] # {}
      BY <1>0 DEF Sound
    <3> HIDE DEF p, s
    <3> QED
      BY <3>1, <3>2, <3>3, <2>1
  <2>4. PICK items : Turn(n, p, "edit", s, items, night[n].run, night[n].on)
    BY <1>0, <1>3, TriageTurn
  <2> HIDE DEF p, s
  <2>5. Hand(p, "edit", s, items, night[n].run)
    <3>1. \A i \in s : ~(p[i] # None /\ p[i].applied) /\ ~Taken(i)
      BY <2>1, <2>2, <1>0 DEF Sound
    <3> QED
      BY <3>1, <2>3 DEF Hand
  <2> QED
    BY <1>0, <1>1, <2>1, <2>2, <2>4, <2>5, MarksCalm
<1>4. CASE EditFails(n)
  <2>1. night[n].stage = "edit" /\ File(n) = log
    BY <1>0, <1>4 DEF EditFails, Ready
  <2>2. Hand(log, "edit", night[n].snapshot, Tail(night[n].items), night[n].run)
    BY <2>1, <1>0 DEF InHand, Hand
  <2> QED
    BY <1>0, <1>1, <1>4, <2>2, OtherTurns, MarksCalm
<1>5. CASE ProposeConflicts(n)
  <2>1. night[n].stage = "edit" /\ File(n) = log
    BY <1>0, <1>5 DEF ProposeConflicts, Ready
  <2>2. Hand(log, "feedback", night[n].snapshot, night[n].items, night[n].run)
    BY <2>1, <1>0 DEF InHand, Hand
  <2> QED
    BY <1>0, <1>1, <1>5, <2>2, OtherTurns, MarksCalm
<1>6. CASE Judge(n) \/ Kill(n)
  <2>1. Hand(log, "idle", {}, <<>>, night[n].run)
    BY DEF Hand
  <2> QED
    BY <1>0, <1>1, <1>6, <2>1, OtherTurns, MarksCalm
<1>7. CASE MarkAppliedAll(n)
  <2> DEFINE e == Head(night[n].items)
             p == AppliedAll(e)
  <2>1. /\ Turn(n, p, "commit", night[n].snapshot, night[n].items, night[n].run, night[n].on)
        /\ File(n) = log /\ night[n].stage = "marking" /\ e \in Entities
    BY <1>0, <1>7, MarkTurn
  <2>2. \A i \in Ids : p[i] # None =>
            /\ log[i] # None /\ p[i].reverted = log[i].reverted
            /\ p[i].applied <=> log[i].applied \/ claim[i].entity = e
    <3>1. \A i \in Ids : p[i] # None => log[i] # None /\ claim[i] # None
      BY <2>1, Rewrites, BaseFacts DEF Base, Claimed
    <3> QED
      BY <3>1, <2>1, AppliedLine DEF Base, About
  <2> HIDE DEF p
  <2>3. /\ \A i \in Ids : log[i] # None => i \in night[n].snapshot \/ uses[i] # {}
        /\ \A i \in night[n].snapshot : claim[i].entity = e => night[n].run \in uses[i]
        /\ \A i \in night[n].snapshot :
              (log[i] # None /\ log[i].applied) \/ Taken(i) => night[n].run \in uses[i]
    BY <2>1, <1>0 DEF InHand, Hand
  <2> HIDE DEF e
  <2>4. Sound(p)
    BY <2>2, <2>3, <1>0 DEF Sound
  <2>5. Hand(p, "commit", night[n].snapshot, night[n].items, night[n].run)
    BY <2>2, <2>3, <1>0 DEF Hand
  <2> QED
    BY <1>0, <1>1, <2>1, <2>4, <2>5, MarksCalm
<1>8. CASE DetectReverts(n)
  <2> DEFINE p == Reverted(RevertedLately)
  <2>1. /\ Turn(n, p, "judge", night[n].snapshot, night[n].items, night[n].run, night[n].on)
        /\ File(n) = log /\ night[n].stage = "feedback" /\ RevertedLately \in SUBSET Entities
    BY <1>0, <1>8, DetectTurn
  <2>2. Sound(p) /\ \A i \in Ids : p[i] # None => log[i] # None /\ p[i].applied = log[i].applied
    BY <1>0, <2>1, TamedSound
  <2> HIDE DEF p
  <2>3. Hand(p, "judge", night[n].snapshot, night[n].items, night[n].run)
    BY <2>1, <2>2, <1>0 DEF InHand, Hand
  <2> QED
    BY <1>0, <1>1, <2>1, <2>2, <2>3, MarksCalm
<1> QED
  BY <1>2, <1>3, <1>4, <1>5, <1>6, <1>7, <1>8

\* The steps that rename, use, commit or find.
LEMMA MarksEdit ==
    ASSUME Sane, Base, Alone, Marks, NEW n \in setting.nights,
           Rename(n) \/ EditSucceeds(n) \/ commitEntityEdit(n) \/ Append1(n)
    PROVE  Marks'
<1>0. /\ n \in Nights /\ Sound(log) /\ Sound(File(n)) /\ InHand(n) /\ night[n].snapshot \subseteq Ids
      /\ File(n) = IF night[n].tmp = None THEN log ELSE night[n].tmp
  BY BaseFacts DEF Marks, File, NightStates
<1>1. PICK f, stage, snapshot, items, run, on, rest :
          /\ f = File(n) /\ stage = night[n].stage /\ snapshot = night[n].snapshot
          /\ items = night[n].items /\ run = night[n].run /\ on = night[n].on
          /\ rest = Tail(night[n].items)
  OBVIOUS
<1>2. /\ Sound(f) /\ Hand(f, stage, snapshot, items, run) /\ snapshot \subseteq Ids
      /\ \A i \in snapshot : claim[i] # None
  BY <1>0, <1>1, BaseFacts DEF InHand
<1>3. CASE Rename(n)
  <2>1. Calm /\ log' = f /\ Turn(n, f, stage, snapshot, items, run, on)
    BY <1>0, <1>1, <1>3, UnchangedCalm, OtherTurns DEF Rename
  <2>2. Sound(f)' /\ Hand(f, stage, snapshot, items, run)'
    BY <1>2, <2>1, SoundStays, HandStays
  <2> QED
    BY <2>1, <2>2, MarksStep DEF Calm, Sound
<1>4. CASE EditSucceeds(n)
  <2>1. /\ log' = f /\ Turn(n, f, "marking", snapshot, items, run, on) /\ stage = "edit"
        /\ UNCHANGED <<claim, setting, edits, rejected>>
        /\ uses' = [i \in Ids |-> IF i \in snapshot \cap About(Head(items))
                                  THEN uses[i] \cup {run} ELSE uses[i]]
    BY <1>0, <1>1, <1>4, OtherTurns DEF EditSucceeds, Ready
  <2>2. \A i \in Ids : Taken(i)' => Taken(i)
    BY <2>1 DEF Taken, Committed
  <2>3. /\ \A i \in Ids : uses[i] \subseteq uses'[i]
        /\ \A i \in snapshot : claim[i].entity = Head(items) => run \in uses'[i]
    BY <2>1, <1>2 DEF About
  <2>4. Sound(f)'
    BY <1>2, <2>2, <2>3 DEF Sound
  <2>5. Hand(f, "marking", snapshot, items, run)'
    BY <1>2, <2>1, <2>2, <2>3 DEF Hand
  <2> QED
    BY <2>1, <2>4, <2>5, MarksStep DEF Sound
<1>5. CASE commitEntityEdit(n)
  <2>1. /\ log = f /\ log' = f /\ Turn(n, f, "edit", snapshot, rest, run, on) /\ stage = "commit"
        /\ Head(night[n].items) \in Entities
        /\ edits' = [edits EXCEPT ![Head(night[n].items)] = [before |-> head, after |-> log]]
        /\ UNCHANGED <<claim, setting, uses, rejected>>
    BY <1>0, <1>1, <1>5, OtherTurns, TailEffects, BaseFacts DEF commitEntityEdit, Ready, Base
  <2>2. \A i \in Ids : Taken(i)' => Taken(i) \/ (f[i] # None /\ f[i].applied)
    BY <2>1 DEF Taken, Committed, Base, TypeOK
  <2>3. Sound(f)'
    BY <1>2, <2>1, <2>2 DEF Sound
  <2>4. Hand(f, "edit", snapshot, rest, run)'
    BY <1>2, <2>1, <2>2 DEF Hand
  <2> QED
    BY <2>1, <2>3, <2>4, MarksStep DEF Sound
<1>6. CASE Append1(n)
  <2>1. PICK l : l = log'
    OBVIOUS
  <2>2. /\ UNCHANGED <<setting, uses, edits, rejected, night>> /\ night[n].tmp = None
        /\ stage = "scout"
    BY <1>1, <1>6 DEF Append1, Ready
  <2>3. Turn(n, l, "scout", snapshot, items, run, on)
    BY <1>1, <2>1, <2>2 DEF Turn, File
  <2>4. snapshot = {} /\ Hand(l, "scout", snapshot, items, run)'
    BY <1>0, <1>1, <2>2, BaseFacts DEF Hand
  <2>5. \A i \in Ids : claim[i] = None => uses[i] = {} /\ ~Taken(i)
    BY BaseFacts DEF Base, AllClaimed, Taken, Committed, Claimed
  <2>6. \A i \in Ids : Taken(i)' => Taken(i)
    BY <2>2 DEF Taken, Committed
  <2>7. ASSUME NEW i \in Ids, l[i] # None
        PROVE  /\ l[i].applied => uses'[i] # {}
               /\ l[i].reverted => l[i].applied
               /\ Taken(i)' => l[i].applied
    <3>1. CASE claim[i] # None
      BY <3>1, <1>6, <2>1, <2>2, <2>6, <2>7, <1>0, AppendBase DEF Sound
    <3>2. CASE claim[i] = None
      BY <3>2, <1>6, <2>1, <2>5, <2>6, <2>7, AppendBase
    <3> QED
      BY <3>1, <3>2
  <2>8. Sound(l)'
    BY <2>7 DEF Sound
  <2> QED
    BY <2>1, <2>2, <2>3, <2>4, <2>8, MarksStep DEF Sound
<1> QED
  BY <1>3, <1>4, <1>5, <1>6

LEMMA MarksOther ==
    ASSUME Sane, Base, Marks,
           (\E e \in Entities : RevertNote(e)) \/ NextDay \/ UNCHANGED vars
    PROVE  Marks'
<1>1. /\ UNCHANGED <<setting, claim, log, night, uses>>
      /\ \A i \in Ids : Taken(i)' => Taken(i)
  <2>1. CASE NextDay \/ UNCHANGED vars
    BY <2>1 DEF NextDay, vars, Taken, Committed
  <2>2. ASSUME NEW e \in Entities, RevertNote(e)
        PROVE  /\ UNCHANGED <<setting, claim, log, night, uses>>
               /\ \A i \in Ids : Taken(i)' => Taken(i)
    <3>1. /\ edits[e] # None /\ edits' = [edits EXCEPT ![e] = None]
          /\ rejected' = rejected \cup AppliedBy(e)
      BY <2>2 DEF RevertNote
    <3>2. \A i \in Ids : Committed(i)' => Committed(i)
      BY <3>1 DEF Committed, Base, TypeOK
    <3>3. \A i \in AppliedBy(e) : Committed(i)
      BY <3>1 DEF AppliedBy, Committed
    <3> QED
      BY <2>2, <3>1, <3>2, <3>3 DEF Taken, RevertNote
  <2> QED
    BY <2>1, <2>2
<1>2. Calm
  BY <1>1 DEF Calm
<1>3. PICK l : l = log
  OBVIOUS
<1>4. Sound(l)'
  BY <1>2, <1>3, SoundStays DEF Marks
<1>5. ASSUME NEW n \in setting.nights
      PROVE  Sound(File(n))' /\ InHand(n)'
  <2>1. PICK f, stage, snapshot, items, run :
          /\ f = File(n) /\ stage = night[n].stage /\ snapshot = night[n].snapshot
          /\ items = night[n].items /\ run = night[n].run
    OBVIOUS
  <2>2. Sound(f) /\ Hand(f, stage, snapshot, items, run) /\ snapshot \subseteq Ids
    BY <2>1, BaseFacts DEF Marks, InHand, NightStates
  <2>3. Sound(f)' /\ Hand(f, stage, snapshot, items, run)'
    BY <1>2, <2>2, SoundStays, HandStays
  <2>4. File(n)' = f
    BY <1>1, <2>1 DEF File
  <2> QED
    BY <1>1, <2>1, <2>3, <2>4 DEF Sound, InHand, Hand
<1> QED
  BY <1>1, <1>3, <1>4, <1>5 DEF Marks, Sound

---------------------------------------------------------------------------
(* One night at a time that is not killed: a claim is used by one night.       *)

\* What a night read was not used before it, and a used line of the log is applied, but for
\* what the night is about to mark.
Once(f, stage, snapshot, items, run) ==
    /\ \A i \in snapshot : uses[i] \subseteq {run}
    /\ \A i \in Ids : f[i] # None /\ uses[i] # {} =>
          f[i].applied \/ (stage = "marking" /\ claim[i].entity = Head(items))

UsedOnce == /\ \A i \in Ids : \A r, q \in uses[i] : r = q
            /\ \A n \in setting.nights :
                  Once(File(n), night[n].stage, night[n].snapshot, night[n].items, night[n].run)

\* Night n is the only one.
LEMMA OnceStep ==
    ASSUME Alone, NEW n \in setting.nights, UNCHANGED setting,
           \A i \in Ids : \A r, q \in uses'[i] : r = q,
           NEW f, NEW stage, NEW snapshot, NEW items, NEW run, NEW on,
           Turn(n, f, stage, snapshot, items, run, on), Once(f, stage, snapshot, items, run)'
    PROVE  UsedOnce'
<1>1. \A m \in setting'.nights : m = n
  BY DEF Alone
<1>2. Once(File(n), night[n].stage, night[n].snapshot, night[n].items, night[n].run)'
  BY DEF Turn, Once
<1> QED
  BY <1>1, <1>2 DEF UsedOnce

LEMMA OnceCalm ==
    ASSUME Alone, UsedOnce, NEW n \in setting.nights, UNCHANGED <<setting, uses, claim>>,
           NEW f, NEW stage, NEW snapshot, NEW items, NEW run, NEW on,
           Turn(n, f, stage, snapshot, items, run, on), Once(f, stage, snapshot, items, run)
    PROVE  UsedOnce'
<1>1. Once(f, stage, snapshot, items, run)'
  BY DEF Once
<1> QED
  BY <1>1, OnceStep DEF UsedOnce

LEMMA OnceNight ==
    ASSUME Sane, Base, Alone, ~setting.kills, UsedOnce, NEW n \in setting.nights,
           \/ PickEntities(n) \/ Append1(n) \/ Triage(n) \/ Rename(n) \/ EditSucceeds(n)
           \/ EditFails(n) \/ MarkAppliedAll(n) \/ commitEntityEdit(n) \/ ProposeConflicts(n)
           \/ DetectReverts(n) \/ Judge(n) \/ Kill(n)
    PROVE  UsedOnce'
<1>0. /\ n \in Nights /\ Once(File(n), night[n].stage, night[n].snapshot, night[n].items, night[n].run)
      /\ File(n) = IF night[n].tmp = None THEN log ELSE night[n].tmp
  BY BaseFacts DEF UsedOnce, File
<1>1. CASE PickEntities(n)
  <2> DEFINE p == Pruned(setting.yieldDays)
  <2>1. \A i \in Ids : p[i] # None => p[i] = log[i]
    BY DEF Pruned
  <2> HIDE DEF p
  <2>2. Turn(n, p, "scout", {}, <<>>, LastRun + 1, day) /\ File(n) = log /\ night[n].stage = "idle"
    BY <1>0, <1>1, PickTurn DEF p, PickEntities, Ready
  <2>3. Once(p, "scout", {}, <<>>, LastRun + 1)
    BY <1>0, <2>1, <2>2 DEF Once
  <2> QED
    BY <1>1, <2>2, <2>3, OnceCalm DEF PickEntities
<1>2. CASE Triage(n)
  <2> DEFINE p == Pruned(setting.triageDays)
             s == Unapplied(Recent(setting.triageDays))
  <2>1. \A i \in Ids : p[i] # None => p[i] = log[i]
    BY DEF Pruned
  <2>2. \A i \in s : i \in Ids /\ log[i] # None /\ ~log[i].applied
    BY DEF Unapplied, Recent, Logged
  <2>3. PICK items : Turn(n, p, "edit", s, items, night[n].run, night[n].on)
    BY <1>0, <1>2, TriageTurn
  <2>4. File(n) = log /\ night[n].stage = "scout"
    BY <1>0, <1>2, TriageTurn
  <2> HIDE DEF p, s
  <2>5. Once(p, "edit", s, items, night[n].run)
    BY <1>0, <2>1, <2>2, <2>4 DEF Once
  <2> QED
    BY <1>2, <2>3, <2>5, OnceCalm DEF Triage
<1>3. CASE MarkAppliedAll(n)
  <2> DEFINE e == Head(night[n].items)
             p == AppliedAll(e)
  <2>1. /\ Turn(n, p, "commit", night[n].snapshot, night[n].items, night[n].run, night[n].on)
        /\ File(n) = log /\ night[n].stage = "marking" /\ e \in Entities
    BY <1>0, <1>3, MarkTurn
  <2>2. \A i \in Ids : p[i] # None =>
            log[i] # None /\ (p[i].applied <=> log[i].applied \/ claim[i].entity = e)
    <3>1. \A i \in Ids : p[i] # None => log[i] # None /\ claim[i] # None
      BY <2>1, Rewrites, BaseFacts DEF Base, Claimed
    <3> QED
      BY <3>1, <2>1, AppliedLine DEF Base, About
  <2> HIDE DEF p
  <2>3. Once(p, "commit", night[n].snapshot, night[n].items, night[n].run)
    BY <1>0, <2>1, <2>2 DEF Once
  <2> QED
    BY <1>3, <2>1, <2>3, OnceCalm DEF MarkAppliedAll
<1>4. CASE DetectReverts(n)
  <2> DEFINE p == Reverted(RevertedLately)
  <2>1. /\ Turn(n, p, "judge", night[n].snapshot, night[n].items, night[n].run, night[n].on)
        /\ File(n) = log /\ night[n].stage = "feedback" /\ RevertedLately \in SUBSET Entities
    BY <1>0, <1>4, DetectTurn
  <2>2. \A i \in Ids : p[i] # None => log[i] # None /\ p[i].applied = log[i].applied
    <3>1. \A i \in Ids : p[i] # None => log[i] # None
      BY <2>1, Rewrites DEF Base
    <3> QED
      BY <3>1, <2>1, RevertedLine DEF Base
  <2> HIDE DEF p
  <2>3. Once(p, "judge", night[n].snapshot, night[n].items, night[n].run)
    BY <1>0, <2>1, <2>2 DEF Once
  <2> QED
    BY <1>4, <2>1, <2>3, OnceCalm DEF DetectReverts
<1>5. CASE Rename(n)
  BY <1>0, <1>5, OtherTurns, OnceCalm DEF Rename
<1>6. CASE EditFails(n)
  <2>1. Once(log, "edit", night[n].snapshot, Tail(night[n].items), night[n].run)
    BY <1>0, <1>6 DEF EditFails, Ready, Once
  <2> QED
    BY <1>0, <1>6, <2>1, OtherTurns, OnceCalm DEF EditFails
<1>7. CASE commitEntityEdit(n)
  <2>1. Once(log, "edit", night[n].snapshot, Tail(night[n].items), night[n].run)
    BY <1>0, <1>7 DEF commitEntityEdit, Ready, Once
  <2> QED
    BY <1>0, <1>7, <2>1, OtherTurns, OnceCalm DEF commitEntityEdit
<1>8. CASE ProposeConflicts(n)
  <2>1. Once(log, "feedback", night[n].snapshot, night[n].items, night[n].run)
    BY <1>0, <1>8 DEF ProposeConflicts, Ready, Once
  <2> QED
    BY <1>0, <1>8, <2>1, OtherTurns, OnceCalm DEF ProposeConflicts
<1>9. CASE Judge(n) \/ Kill(n)
  <2>1. Judge(n)
    BY <1>9 DEF Kill
  <2>2. Once(log, "idle", {}, <<>>, night[n].run)
    BY <1>0, <2>1 DEF Judge, Ready, Once
  <2> QED
    BY <1>0, <2>1, <2>2, OtherTurns, OnceCalm DEF Judge
<1>10. CASE EditSucceeds(n)
  <2>1. PICK snapshot, items, run, on, l :
            /\ snapshot = night[n].snapshot /\ items = night[n].items /\ run = night[n].run
            /\ on = night[n].on /\ l = log
    OBVIOUS
  <2>2. /\ Turn(n, l, "marking", snapshot, items, run, on) /\ Once(l, "edit", snapshot, items, run)
        /\ UNCHANGED <<claim, setting>>
        /\ uses' = [i \in Ids |-> IF i \in snapshot \cap About(Head(items))
                                  THEN uses[i] \cup {run} ELSE uses[i]]
    BY <1>0, <1>10, <2>1, OtherTurns DEF EditSucceeds, Ready
  <2>3. snapshot \subseteq Ids
    BY <1>0, <2>1, BaseFacts DEF NightStates
  <2>4. \A i \in snapshot : uses'[i] \subseteq {run}
    BY <2>2, <2>3 DEF Once
  <2>5. \A i \in Ids : \A r, q \in uses'[i] : r = q
    BY <2>2, <2>4 DEF UsedOnce
  <2>6. Once(l, "marking", snapshot, items, run)'
    BY <2>2, <2>4 DEF Once, About
  <2> QED
    BY <2>2, <2>5, <2>6, OnceStep
<1>11. CASE Append1(n)
  <2>1. PICK snapshot, items, run, on, l :
            /\ snapshot = night[n].snapshot /\ items = night[n].items /\ run = night[n].run
            /\ on = night[n].on /\ l = log'
    OBVIOUS
  <2>2. UNCHANGED <<setting, uses, night>> /\ Ready(n, "scout")
    BY <1>11 DEF Append1
  <2>3. Turn(n, l, "scout", snapshot, items, run, on)
    BY <2>1, <2>2 DEF Turn, File, Ready
  <2>4. \A i \in Ids : uses[i] # {} => claim[i] # None /\ l[i] = log[i]
    BY <1>11, <2>1, AppendBase, BaseFacts DEF UsesOK
  <2>5. Once(l, "scout", snapshot, items, run)'
    BY <1>0, <2>1, <2>2, <2>4 DEF Once, Ready
  <2> QED
    BY <2>2, <2>3, <2>5, OnceStep DEF UsedOnce
<1> QED
  BY <1>1, <1>2, <1>3, <1>4, <1>5, <1>6, <1>7, <1>8, <1>9, <1>10, <1>11

LEMMA OnceOther ==
    ASSUME UsedOnce, (\E e \in Entities : RevertNote(e)) \/ NextDay \/ UNCHANGED vars
    PROVE  UsedOnce'
<1>1. UNCHANGED <<setting, claim, log, night, uses>>
  BY DEF RevertNote, NextDay, vars
<1> QED
  BY <1>1 DEF UsedOnce, Once, File

---------------------------------------------------------------------------
(* A night every day that is not killed: reverts are recorded.                 *)

\* The revert of entry i is recent enough for the feedback stage that is still to come.
Waits(i, stage, on) ==
    \E d \in Days : /\ [entity |-> claim[i].entity, day |-> d] \in reverts
                    /\ \/ d = day
                       \/ d + 1 = day /\ (on = day => stage \notin {"judge", "idle"})

Noted(f, stage, on) == /\ on # None => on <= day
                       /\ \A i \in rejected : f[i] # None => f[i].reverted \/ Waits(i, stage, on)

Recorded == \A n \in setting.nights : Noted(File(n), night[n].stage, night[n].on)

\* Night n is the only one.
LEMMA RecordedStep ==
    ASSUME Alone, NEW n \in setting.nights, UNCHANGED setting,
           NEW f, NEW stage, NEW snapshot, NEW items, NEW run, NEW on,
           Turn(n, f, stage, snapshot, items, run, on), Noted(f, stage, on)'
    PROVE  Recorded'
<1>1. \A m \in setting'.nights : m = n
  BY DEF Alone
<1>2. Noted(File(n), night[n].stage, night[n].on)'
  BY DEF Turn, Noted, Waits
<1> QED
  BY <1>1, <1>2 DEF Recorded

\* A step to lines f that are reverted wherever those of the log were.
LEMMA RecordedCalm ==
    ASSUME Alone, Recorded, NEW n \in setting.nights,
           UNCHANGED <<setting, day, claim, reverts, rejected>>,
           NEW f, NEW stage, NEW snapshot, NEW items, NEW run, NEW on,
           Turn(n, f, stage, snapshot, items, run, on),
           \A i \in rejected : f[i] # None => \/ f[i].reverted
                                              \/ File(n)[i] # None /\ ~File(n)[i].reverted,
           on = night[n].on, stage \in {"judge", "idle"} => night[n].stage \in {"judge", "idle"}
    PROVE  Recorded'
<1>1. Noted(f, stage, on)
  BY DEF Recorded, Noted, Waits
<1>2. Noted(f, stage, on)'
  BY <1>1 DEF Noted, Waits
<1> QED
  BY <1>2, RecordedStep

\* The feedback stage marks all that was rejected.
LEMMA DetectMarks ==
    ASSUME Sane, Base, Marks, Recorded, NEW n \in setting.nights, DetectReverts(n),
           NEW i \in rejected, Reverted(RevertedLately)[i] # None
    PROVE  Reverted(RevertedLately)[i].reverted
<1>1. /\ RevertedLately \in SUBSET Entities /\ File(n) = log /\ day \in Nat /\ i \in Ids
      /\ Noted(log, night[n].stage, night[n].on)
  <2>1. n \in Nights
    BY BaseFacts
  <2>2. RevertedLately \in SUBSET Entities /\ File(n) = log
    BY <2>1, DetectTurn DEF File
  <2> QED
    BY <2>2, SettingType DEF Recorded, Base, TypeOK
<1>2. log[i] # None /\ log[i].applied
  BY <1>1, Rewrites DEF Base, Marks, Sound, Taken
<1>3. log[i].reverted \/ claim[i].entity \in RevertedLately
  <2>1. CASE Waits(i, night[n].stage, night[n].on)
    <3>1. PICK d \in Days : [entity |-> claim[i].entity, day |-> d] \in reverts /\ d + 1 >= day
      BY <1>1, <2>1 DEF Waits, Days
    <3> QED
      BY <3>1 DEF RevertedLately
  <2> QED
    BY <2>1, <1>1, <1>2 DEF Noted
<1> QED
  BY <1>1, <1>2, <1>3, RevertedLine DEF Base

LEMMA RecordedNight ==
    ASSUME Sane, Base, Alone, ~setting.kills, Marks, Recorded, NEW n \in setting.nights,
           \/ PickEntities(n) \/ Append1(n) \/ Triage(n) \/ Rename(n) \/ EditSucceeds(n)
           \/ EditFails(n) \/ MarkAppliedAll(n) \/ commitEntityEdit(n) \/ ProposeConflicts(n)
           \/ DetectReverts(n) \/ Judge(n) \/ Kill(n)
    PROVE  Recorded'
<1>0. /\ n \in Nights /\ Noted(File(n), night[n].stage, night[n].on) /\ day \in Nat
      /\ File(n) = IF night[n].tmp = None THEN log ELSE night[n].tmp
      /\ rejected \subseteq Ids
  BY BaseFacts, SettingType DEF Recorded, File, Base, TypeOK
<1>1. CASE PickEntities(n)
  <2>1. PICK p : p = Pruned(setting.yieldDays)
    OBVIOUS
  <2>2. \A i \in Ids : p[i] # None => p[i] = log[i]
    BY <2>1 DEF Pruned
  <2>3. /\ Turn(n, p, "scout", {}, <<>>, LastRun + 1, day) /\ File(n) = log
        /\ UNCHANGED <<setting, day, claim, reverts, rejected>>
    BY <1>0, <1>1, <2>1, PickTurn DEF PickEntities
  <2>4. PICK today : today = day
    OBVIOUS
  <2>5. Noted(p, "scout", today)'
    <3>1. today <= day' /\ rejected' = rejected /\ reverts' = reverts /\ claim' = claim /\ day' = day
      BY <1>0, <2>3, <2>4
    <3>2. ASSUME NEW i \in rejected, p[i] # None
          PROVE  p[i].reverted \/ Waits(i, "scout", today)'
      <4>1. p[i] = log[i] /\ (log[i].reverted \/ Waits(i, night[n].stage, night[n].on))
        BY <1>0, <2>2, <2>3, <3>2 DEF Noted
      <4>2. Waits(i, night[n].stage, night[n].on) => Waits(i, "scout", today)'
        BY <3>1 DEF Waits
      <4> QED
        BY <4>1, <4>2
    <3> QED
      BY <3>1, <3>2 DEF Noted
  <2> QED
    BY <2>3, <2>4, <2>5, RecordedStep
<1>2. CASE Triage(n)
  <2> DEFINE p == Pruned(setting.triageDays)
             s == Unapplied(Recent(setting.triageDays))
  <2>1. \A i \in Ids : p[i] # None => p[i] = log[i]
    BY DEF Pruned
  <2>2. PICK items : Turn(n, p, "edit", s, items, night[n].run, night[n].on)
    BY <1>0, <1>2, TriageTurn
  <2>3. File(n) = log /\ UNCHANGED <<setting, day, claim, reverts, rejected>>
    BY <1>0, <1>2, TriageTurn DEF Triage
  <2> HIDE DEF p, s
  <2>4. \A i \in rejected :
            p[i] # None => p[i].reverted \/ (File(n)[i] # None /\ ~File(n)[i].reverted)
    BY <1>0, <2>1, <2>3
  <2> QED
    BY <2>2, <2>3, <2>4, RecordedCalm
<1>3. CASE MarkAppliedAll(n)
  <2> DEFINE e == Head(night[n].items)
             p == AppliedAll(e)
  <2>1. /\ Turn(n, p, "commit", night[n].snapshot, night[n].items, night[n].run, night[n].on)
        /\ File(n) = log /\ e \in Entities
    BY <1>0, <1>3, MarkTurn
  <2>2. \A i \in Ids : p[i] # None => log[i] # None /\ p[i].reverted = log[i].reverted
    <3>1. \A i \in Ids : p[i] # None => log[i] # None
      BY <2>1, Rewrites DEF Base
    <3> QED
      BY <3>1, <2>1, AppliedLine DEF Base
  <2> HIDE DEF p
  <2> QED
    BY <1>0, <1>3, <2>1, <2>2, RecordedCalm DEF MarkAppliedAll
<1>4. CASE DetectReverts(n)
  <2> DEFINE p == Reverted(RevertedLately)
  <2>1. /\ Turn(n, p, "judge", night[n].snapshot, night[n].items, night[n].run, night[n].on)
        /\ File(n) = log /\ RevertedLately \in SUBSET Entities
        /\ UNCHANGED <<setting, day, claim, reverts, rejected>>
    BY <1>0, <1>4, DetectTurn DEF DetectReverts
  <2>2. \A i \in rejected : p[i] # None => p[i].reverted
    BY <1>0, <1>4, DetectMarks DEF Recorded
  <2> HIDE DEF p
  <2>3. PICK f, on : f = p /\ on = night[n].on
    OBVIOUS
  <2>4. Noted(f, "judge", on)'
    BY <1>0, <2>1, <2>2, <2>3 DEF Noted
  <2> QED
    BY <2>1, <2>3, <2>4, RecordedStep
<1>5. CASE Rename(n)
  <2>1. Turn(n, File(n), night[n].stage, night[n].snapshot, night[n].items, night[n].run, night[n].on)
    BY <1>0, <1>5, OtherTurns
  <2>2. PICK f, stage, on : f = File(n) /\ stage = night[n].stage /\ on = night[n].on
    OBVIOUS
  <2>3. Noted(f, stage, on)'
    BY <1>0, <1>5, <2>2 DEF Rename, Noted, Waits
  <2> QED
    BY <1>5, <2>1, <2>2, <2>3, RecordedStep DEF Rename
<1>6. CASE EditFails(n) \/ commitEntityEdit(n) \/ ProposeConflicts(n) \/ EditSucceeds(n)
  <2>1. /\ \E stage \in {"edit", "feedback", "marking"} : \E items :
              Turn(n, log, stage, night[n].snapshot, items, night[n].run, night[n].on)
        /\ File(n) = log /\ UNCHANGED <<setting, day, claim, reverts, rejected>>
    BY <1>0, <1>6, OtherTurns DEF EditFails, commitEntityEdit, ProposeConflicts, EditSucceeds, Ready
  <2> QED
    BY <1>0, <2>1, RecordedCalm DEF Noted
<1>7. CASE Judge(n) \/ Kill(n)
  <2>1. /\ Turn(n, log, "idle", {}, <<>>, night[n].run, night[n].on) /\ night[n].stage = "judge"
        /\ File(n) = log /\ UNCHANGED <<setting, day, claim, reverts, rejected>>
    BY <1>0, <1>7, OtherTurns DEF Judge, Kill, Ready
  <2> QED
    BY <1>0, <2>1, RecordedCalm
<1>8. CASE Append1(n)
  <2>1. PICK f, stage, on : f = log' /\ stage = night[n].stage /\ on = night[n].on
    OBVIOUS
  <2>2. /\ UNCHANGED <<setting, day, reverts, rejected, night>> /\ night[n].tmp = None
        /\ \A i \in rejected : claim'[i] = claim[i] /\ f[i] = log[i]
    BY <1>0, <1>8, <2>1, AppendBase DEF Append1, Ready, Base, AllClaimed
  <2>3. Noted(f, stage, on)'
    BY <1>0, <2>1, <2>2 DEF Noted, Waits
  <2>4. File(n)' = f
    BY <2>1, <2>2 DEF File
  <2>5. Turn(n, f, stage, night[n].snapshot, night[n].items, night[n].run, on)
    BY <2>1, <2>2, <2>4 DEF Turn
  <2> QED
    BY <2>2, <2>3, <2>5, RecordedStep
<1> QED
  BY <1>1, <1>2, <1>3, <1>4, <1>5, <1>6, <1>7, <1>8

LEMMA RecordedOwner ==
    ASSUME Sane, Base, Recorded, NEW e \in Entities, RevertNote(e)
    PROVE  Recorded'
<1>1. /\ UNCHANGED <<setting, day, claim, log, night>> /\ day \in Days /\ rejected \subseteq Ids
      /\ reverts' = reverts \cup {[entity |-> e, day |-> day]}
      /\ rejected' = rejected \cup AppliedBy(e)
  BY DEF RevertNote, Base, TypeOK
<1>2. ASSUME NEW n \in setting.nights
      PROVE  Noted(File(n), night[n].stage, night[n].on)'
  <2>1. PICK f, stage, on : f = File(n) /\ stage = night[n].stage /\ on = night[n].on
    OBVIOUS
  <2>2. \A i \in AppliedBy(e) : Waits(i, stage, on)'
    BY <1>1 DEF AppliedBy, About, Waits
  <2>3. \A i \in rejected : Waits(i, stage, on) => Waits(i, stage, on)'
    BY <1>1 DEF Waits
  <2>4. Noted(f, stage, on)'
    BY <1>1, <2>1, <2>2, <2>3 DEF Recorded, Noted
  <2>5. File(n)' = f /\ night'[n].stage = stage /\ night'[n].on = on
    BY <1>1, <2>1 DEF File
  <2> QED
    BY <2>4, <2>5 DEF Noted, Waits
<1> QED
  BY <1>1, <1>2 DEF Recorded

LEMMA RecordedDay ==
    ASSUME Sane, Base, Alone, ~setting.gaps, Recorded, NextDay
    PROVE  Recorded'
<1>1. /\ UNCHANGED <<setting, claim, log, night, reverts, rejected>> /\ day' = day + 1 /\ day \in Nat
  BY DayBase DEF NextDay
<1>2. ASSUME NEW n \in setting.nights
      PROVE  Noted(File(n), night[n].stage, night[n].on)'
  <2>1. PICK f, stage, on : f = File(n) /\ stage = night[n].stage /\ on = night[n].on
    OBVIOUS
  <2>2. n \in Nights /\ on = day /\ stage = "idle"
    <3>1. PICK m \in Nights : night[m].on = day /\ night[m].stage = "idle"
      BY DEF NextDay
    <3>2. m \in setting.nights
      BY <3>1 DEF Base, Shapes, Sane, TypeOK
    <3> QED
      BY <2>1, <3>1, <3>2 DEF Alone
  <2>3. \A i \in rejected : Waits(i, stage, on) => Waits(i, stage, on)'
    BY <1>1, <2>2 DEF Waits
  <2>4. Noted(f, stage, on)'
    <3>1. Noted(f, stage, on)
      BY <2>1 DEF Recorded
    <3>2. on <= day'
      BY <1>1, <2>2
    <3> QED
      BY <3>1, <3>2, <1>1, <2>3 DEF Noted
  <2>5. File(n)' = f /\ night'[n].stage = stage /\ night'[n].on = on
    BY <1>1, <2>1 DEF File
  <2> QED
    BY <2>4, <2>5 DEF Noted, Waits
<1> QED
  BY <1>1, <1>2 DEF Recorded

---------------------------------------------------------------------------
(* What becomes of a claim.                                                    *)

Kept == Alone /\ ~setting.whole

History == /\ Base
           /\ Kept => Marks
           /\ Kept /\ ~setting.kills => UsedOnce
           /\ Kept /\ ~setting.kills /\ ~setting.gaps => Recorded

LEMMA HistoryInit ==
    ASSUME Sane, Init
    PROVE  History
<1>1. /\ \A i \in Ids : log[i] = None /\ uses[i] = {}
      /\ \A e \in Entities : edits[e] = None
      /\ rejected = {}
  BY DEF Init
<1>2. \A n \in Nights : /\ night[n].stage = "idle" /\ night[n].snapshot = {} /\ night[n].tmp = None
                        /\ night[n].on = None /\ File(n) = log
  BY DEF Init, Asleep, File
<1>3. Sound(log)
  BY <1>1 DEF Sound
<1>4. \A n \in Nights : InHand(n)
  BY <1>2 DEF InHand, Hand
<1>5. \A n \in Nights : /\ Once(File(n), night[n].stage, night[n].snapshot, night[n].items, night[n].run)
                        /\ Noted(File(n), night[n].stage, night[n].on)
  BY <1>1, <1>2 DEF Once, Noted
<1>6. Base /\ setting.nights \subseteq Nights
  BY InitBase, BaseFacts
<1> QED
  BY <1>1, <1>2, <1>3, <1>4, <1>5, <1>6 DEF History, Marks, UsedOnce, Recorded

LEMMA HistoryNext ==
    ASSUME Sane, History, [Next]_vars
    PROVE  History'
<1>1. Base /\ Base' /\ setting' = setting
  BY NextBase, SameSetting DEF History
<1>2. (Kept' => Kept) /\ (Alone' => Alone)
  BY <1>1 DEF Kept, Alone
<1>3. ASSUME Kept, Marks
      PROVE  Marks'
  <2>1. \A e \in Entities : ~RevertCommit(e)
    BY <1>3 DEF RevertCommit, Kept
  <2> QED
    BY <2>1, <1>1, <1>3, MarksNight, MarksEdit, MarksOther DEF Next, Kept
<1>4. ASSUME Kept, ~setting.kills, UsedOnce
      PROVE  UsedOnce'
  <2>1. \A e \in Entities : ~RevertCommit(e)
    BY <1>4 DEF RevertCommit, Kept
  <2> QED
    BY <2>1, <1>1, <1>4, OnceNight, OnceOther DEF Next, Kept
<1>5. ASSUME Kept, ~setting.kills, ~setting.gaps, Marks, Recorded
      PROVE  Recorded'
  <2>1. \A e \in Entities : ~RevertCommit(e)
    BY <1>5 DEF RevertCommit, Kept
  <2>2. CASE UNCHANGED vars
    BY <2>2, <1>5 DEF vars, Recorded, Noted, Waits, File
  <2> QED
    BY <2>1, <2>2, <1>1, <1>5, RecordedNight, RecordedOwner, RecordedDay DEF Next, Kept
<1>6. setting'.kills = setting.kills /\ setting'.gaps = setting.gaps
  BY <1>1
<1> QED
  BY <1>1, <1>2, <1>3, <1>4, <1>5, <1>6 DEF History

LEMMA HistoryInvariant == ASSUME Sane PROVE Spec => []History
  BY HistoryInit, HistoryNext, PTL DEF Spec

\* One night at a time and no commit reverted: a line is marked applied only after an edit that
\* succeeded was given its claim, whatever triage lists and wherever nights are killed, and
\* without kills one night uses it (internal/brain/edit, MarkAppliedAll, ReadUnapplied).
THEOREM ClaimsUsedOnce ==
    ASSUME Sane
    PROVE  Spec => []AppliedOnce
<1>1. ASSUME History
      PROVE  AppliedOnce
  <2>1. SUFFICES ASSUME Alone, ~setting.whole, NEW i \in Ids
                 PROVE  /\ log[i] # None /\ log[i].applied => uses[i] # {}
                        /\ setting.kills \/ Cardinality(uses[i]) <= 1
    BY DEF AppliedOnce
  <2>2. log[i] # None /\ log[i].applied => uses[i] # {}
    BY <1>1, <2>1 DEF History, Kept, Marks, Sound
  <2>3. CASE ~setting.kills
    <3>1. \A r, q \in uses[i] : r = q
      BY <1>1, <2>1, <2>3 DEF History, Kept, UsedOnce
    <3>2. Cardinality(uses[i]) \in {0, 1}
      <4>1. CASE uses[i] = {}
        BY <4>1, FS_EmptySet
      <4>2. CASE uses[i] # {}
        <5>1. PICK r : uses[i] = {r}
          BY <3>1, <4>2
        <5> QED
          BY <5>1, FS_Singleton
      <4> QED
        BY <4>1, <4>2
    <3> QED
      BY <2>2, <3>2
  <2> QED
    BY <2>2, <2>3
<1> QED
  BY <1>1, HistoryInvariant, PTL

\* What the owner took back is not given to the edits of a later night, however many nights are
\* killed and days skipped: it is marked in the log that triage reads, or was read in this run.
THEOREM TakenBackStaysOut ==
    ASSUME Sane
    PROVE  Spec => RejectedStays
<1>1. ASSUME History, [Next]_vars
      PROVE  [Alone /\ ~setting.whole => Respect]_vars
  <2>1. SUFFICES ASSUME Kept, Next, NEW i \in rejected
                 PROVE  uses'[i] = uses[i]
    BY <1>1 DEF Respect, Kept
  <2>2. CASE \E n \in setting.nights : EditSucceeds(n)
    <3>1. PICK n \in setting.nights : EditSucceeds(n)
      BY <2>2
    <3>2. i \in Ids /\ InHand(n)
      BY <1>1, <2>1 DEF History, Base, TypeOK, Marks
    <3>3. i \in night[n].snapshot => night[n].run \in uses[i]
      BY <3>2 DEF InHand, Hand, Taken
    <3> QED
      BY <3>1, <3>2, <3>3 DEF EditSucceeds
  <2>3. CASE uses' = uses
    BY <2>3
  <2> QED
    BY <2>1, <2>2, <2>3
       DEF Next, PickEntities, Append1, Triage, Rename, EditFails, MarkAppliedAll,
           commitEntityEdit, ProposeConflicts, DetectReverts, Judge, Kill, RevertNote,
           RevertCommit, NextDay
<1> QED
  BY <1>1, HistoryInvariant, PTL DEF Spec, RejectedStays

\* With a night every day that is not killed, the feedback stage marks the evidence of every edit
\* that the owner has taken back (internal/brain/edit, DetectReverts): the window of git log
\* reaches back over the day since the night before.
THEOREM RevertsAreRecorded ==
    ASSUME Sane
    PROVE  Spec => RevertsRecorded
<1>1. ASSUME History, History', [Next]_vars
      PROVE  [Alone /\ ~setting.kills /\ ~setting.gaps /\ ~setting.whole => RecordReverts]_vars
  <2>1. SUFFICES ASSUME Kept, ~setting.kills, ~setting.gaps, Next,
                        NEW n \in Nights, night[n].stage = "feedback", night'[n].stage = "judge",
                        NEW i \in rejected, log[i] # None
                 PROVE  (File(n)[i].reverted)'
    BY <1>1 DEF RecordReverts, Kept, Logged
  <2>2. n \in setting.nights /\ \A m \in setting.nights : m = n
    BY <1>1, <2>1 DEF History, Base, Shapes, Kept, Alone
  <2>3. CASE DetectReverts(n)
    <3>1. i \in Ids /\ Marks /\ Recorded /\ Base
      BY <1>1, <2>1 DEF History, Base, TypeOK
    <3>2. File(n)' = Reverted(RevertedLately) /\ RevertedLately \in SUBSET Entities
      BY <2>1, <2>3, <3>1, DetectTurn DEF Turn
    <3>3. Reverted(RevertedLately)[i].reverted
      BY <2>1, <2>2, <2>3, <3>1, <3>2, RevertedLine, DetectMarks DEF Base
    <3> QED
      BY <3>2, <3>3
  <2>4. CASE ~DetectReverts(n)
    <3>1. night'[n].stage # "judge" \/ night'[n].stage = night[n].stage
      BY <1>1, <2>1, <2>2, <2>4, PickTurn, TriageTurn, MarkTurn, OtherTurns
         DEF Next, Turn, History, Append1, RevertNote, RevertCommit, NextDay
    <3> QED
      BY <2>1, <3>1
  <2> QED
    BY <2>3, <2>4
<1> QED
  BY <1>1, HistoryInvariant, PTL DEF Spec, RevertsRecorded

=============================================================================
