----------------------------- MODULE WatcherProofs -----------------------------
(* Proofs about the programs that run for long: the trigger of `sloptools      *)
(* brief watch` (BriefTrigger), for any number of events, any window, interval *)
(* and retention, and the Exchange clients of a mailbox (EwsSession), for any  *)
(* number of clients, calls and jars.                                          *)
EXTENDS Watchers, Sequences, TLAPS

\* None is no time, no event and no Tick.
Sane == /\ Settings \subseteq SettingRecords /\ MaxTime \in Nat
        /\ None \notin Nat /\ None \notin Events /\ None \notin TickRecords

---------------------------------------------------------------------------
(* Types.                                                                      *)

\* A Tick that runs began when it was due; what it lists had not ended then.
Running == \A t \in Tickers : ~Idle(t) =>
              /\ tick[t].began <= now /\ Due(t)
              /\ tick[t].mark => tick[t].ev # None
              /\ \A e \in Events : tick[t].todo[e] # None =>
                    tick[t].todo[e] + setting.length > tick[t].began

Base == TypeOK /\ Running

LEMMA SettingType ==
    ASSUME Sane, TypeOK
    PROVE  /\ setting.window \in Nat /\ setting.retention \in Nat /\ setting.interval \in Nat
           /\ setting.interval > 0 /\ setting.length \in Nat /\ setting.length > 0
           /\ setting.tickers \subseteq Tickers /\ setting.outcomes \subseteq Outcomes
           /\ setting.until \in Times /\ Times \subseteq Nat /\ now \in Nat
  BY DEF Sane, TypeOK, SettingRecords, Times

\* The record of a Tick that runs.
LEMMA TickType ==
    ASSUME Sane, Base, NEW t \in Tickers, ~Idle(t), NEW q, q = tick[t]
    PROVE  /\ q \in TickRecords /\ q.began \in Times /\ q.todo \in [Events -> Times \cup {None}]
           /\ q.ev \in Events \cup {None} /\ q.mark \in BOOLEAN
           /\ q.ev # None => q.ev \in Events /\ q.todo[q.ev] \in Times
           /\ q.began <= now /\ Due(t) /\ (q.mark => q.ev # None)
           /\ \A e \in Events : q.todo[e] # None => q.todo[e] + setting.length > q.began
  BY DEF Base, TypeOK, TickRecords, Idle, Running, Sane

\* r is the record q without what it listed for e, with ev and mark.
Drops(q, r, e, ev, mark) ==
    /\ r \in TickRecords /\ r.began = q.began /\ r.ev = ev /\ r.mark = mark
    /\ r.todo[e] = None /\ \A d \in Events : d # e => r.todo[d] = q.todo[d]

\* r is the record q with ev and mark.
Sets(q, r, ev, mark) ==
    r \in TickRecords /\ r.began = q.began /\ r.ev = ev /\ r.mark = mark /\ r.todo = q.todo

LEMMA DropListed ==
    ASSUME NEW q \in TickRecords, NEW e \in Events
    PROVE  Drops(q, [q EXCEPT !.todo[e] = None], e, q.ev, q.mark)
<1>1. q.todo \in [Events -> Times \cup {None}]
  BY DEF TickRecords
<1>2. PICK todo \in [Events -> Times \cup {None}] : todo = [q.todo EXCEPT ![e] = None]
  BY <1>1
<1>3. todo[e] = None /\ \A d \in Events : d # e => todo[d] = q.todo[d]
  BY <1>1, <1>2
<1>4. [q EXCEPT !.todo[e] = None] = [q EXCEPT !.todo = todo]
  BY <1>2
<1>5. PICK r : r = [q EXCEPT !.todo = todo]
  OBVIOUS
<1>6. r \in TickRecords /\ r.began = q.began /\ r.ev = q.ev /\ r.mark = q.mark /\ r.todo = todo
  BY <1>5 DEF TickRecords
<1>7. Drops(q, r, e, q.ev, q.mark)
  BY <1>3, <1>6 DEF Drops
<1> QED
  BY <1>4, <1>5, <1>7

LEMMA DropEvent ==
    ASSUME NEW q \in TickRecords, NEW e \in Events
    PROVE  /\ q.mark = FALSE => Drops(q, [q EXCEPT !.todo[e] = None, !.ev = None], e, None, FALSE)
           /\ Drops(q, [q EXCEPT !.todo[e] = None, !.ev = None, !.mark = FALSE], e, None, FALSE)
<1>1. q.todo \in [Events -> Times \cup {None}]
  BY DEF TickRecords
<1>2. PICK todo \in [Events -> Times \cup {None}] : todo = [q.todo EXCEPT ![e] = None]
  BY <1>1
<1>3. todo[e] = None /\ \A d \in Events : d # e => todo[d] = q.todo[d]
  BY <1>1, <1>2
<1>4. /\ [q EXCEPT !.todo[e] = None, !.ev = None] = [q EXCEPT !.todo = todo, !.ev = None]
      /\ [q EXCEPT !.todo[e] = None, !.ev = None, !.mark = FALSE]
            = [q EXCEPT !.todo = todo, !.ev = None, !.mark = FALSE]
  BY <1>2
<1>5. PICK r : r = [q EXCEPT !.todo = todo, !.ev = None]
  OBVIOUS
<1>6. PICK p : p = [q EXCEPT !.todo = todo, !.ev = None, !.mark = FALSE]
  OBVIOUS
<1>7. r \in TickRecords /\ r.began = q.began /\ r.ev = None /\ r.mark = q.mark /\ r.todo = todo
  BY <1>5 DEF TickRecords
<1>8. p \in TickRecords /\ p.began = q.began /\ p.ev = None /\ p.mark = FALSE /\ p.todo = todo
  BY <1>6 DEF TickRecords
<1>9. (q.mark = FALSE => Drops(q, r, e, None, FALSE)) /\ Drops(q, p, e, None, FALSE)
  BY <1>3, <1>7, <1>8 DEF Drops
<1> QED
  BY <1>4, <1>5, <1>6, <1>9

---------------------------------------------------------------------------
(* What the steps of a Tick do to its record.                                  *)

\* r is the record of a Tick that has just listed the events of the window.
Lists(r) == /\ r \in TickRecords /\ r.began = now /\ r.ev = None /\ r.mark = FALSE
            /\ \A e \in Events : r.todo[e] = IF InWindow(e) THEN start[e] ELSE None

LEMMA Listing ==
    ASSUME Sane, Base, NEW t \in Tickers, Tick(t)
    PROVE  \E r : tick' = [tick EXCEPT ![t] = r] /\ Lists(r)
<1>1. PICK todo : todo = [e \in Events |-> IF InWindow(e) THEN start[e] ELSE None]
  OBVIOUS
<1>2. todo \in [Events -> Times \cup {None}]
  BY <1>1 DEF Base, TypeOK, InWindow
<1>3. \A e \in Events : todo[e] = IF InWindow(e) THEN start[e] ELSE None
  BY <1>1
<1>4. PICK r : r = [began |-> now, ev |-> None, mark |-> FALSE, todo |-> todo]
  OBVIOUS
<1>5. tick' = [tick EXCEPT ![t] = r]
  BY <1>1, <1>4 DEF Tick
<1>6. r \in TickRecords /\ r.began = now /\ r.ev = None /\ r.mark = FALSE /\ r.todo = todo
  BY <1>2, <1>4 DEF TickRecords, Base, TypeOK
<1> QED
  BY <1>3, <1>5, <1>6 DEF Lists

LEMMA LookingUp ==
    ASSUME Sane, Base, NEW t \in Tickers, NEW e \in Events, alreadyEmitted(t, e), NEW q, q = tick[t]
    PROVE  /\ ~Idle(t) /\ q.ev = None /\ q.mark = FALSE /\ q.todo[e] # None
           /\ \E r : /\ tick' = [tick EXCEPT ![t] = r]
                     /\ IF emitted[e] # None THEN Drops(q, r, e, None, FALSE)
                                             ELSE Sets(q, r, e, FALSE)
<1>1. /\ ~Idle(t) /\ q \in TickRecords /\ q.ev = None /\ q.mark = FALSE /\ q.todo[e] # None
      /\ tick \in [Tickers -> TickRecords \cup {None}]
  BY TickType DEF alreadyEmitted, Working, Base, TypeOK
<1>2. CASE emitted[e] # None
  <2>1. tick' = [tick EXCEPT ![t] = [q EXCEPT !.todo[e] = None]]
    BY <1>2 DEF alreadyEmitted
  <2>2. Drops(q, [q EXCEPT !.todo[e] = None], e, None, FALSE)
    BY <1>1, DropListed
  <2> QED
    BY <1>1, <1>2, <2>1, <2>2
<1>3. CASE emitted[e] = None
  <2>1. tick' = [tick EXCEPT ![t] = [q EXCEPT !.ev = e]]
    BY <1>3 DEF alreadyEmitted
  <2>2. Sets(q, [q EXCEPT !.ev = e], e, FALSE)
    BY <1>1 DEF TickRecords, Sets
  <2> QED
    BY <1>1, <1>3, <2>1, <2>2
<1> QED
  BY <1>2, <1>3

\* e is sent at s, or not.
Emits(t, q, e, s, outcome) ==
    \E r \in TickRecords :
        /\ sent' = IF outcome = "failed" THEN sent ELSE [sent EXCEPT ![e][s] = More(@)]
        /\ tick' = [tick EXCEPT ![t] = r]
        /\ IF outcome = "ok" THEN Sets(q, r, e, TRUE) ELSE Drops(q, r, e, None, FALSE)

LEMMA Emitting ==
    ASSUME Sane, Base, NEW t \in Tickers, Emit(t), NEW q, q = tick[t], NEW e, e = q.ev
    PROVE  /\ e \in Events /\ q.todo[e] \in Times /\ q.mark = FALSE /\ ~Idle(t)
           /\ \E outcome \in setting.outcomes : Emits(t, q, e, q.todo[e], outcome)
<1> PICK s : s = q.todo[e]
  OBVIOUS
<1>1. /\ q \in TickRecords /\ e \in Events /\ s \in Times /\ q.mark = FALSE
      /\ ~Idle(t) /\ tick \in [Tickers -> TickRecords \cup {None}]
  BY TickType DEF Emit, Base, TypeOK
<1>2. PICK outcome \in setting.outcomes :
         /\ sent' = IF outcome = "failed" THEN sent ELSE [sent EXCEPT ![e][s] = More(@)]
         /\ tick' = IF outcome = "ok" THEN [tick EXCEPT ![t].mark = TRUE]
                    ELSE [tick EXCEPT ![t].todo[e] = None, ![t].ev = None]
  BY DEF Emit
<1>3. CASE outcome = "ok"
  <2>1. tick' = [tick EXCEPT ![t] = [q EXCEPT !.mark = TRUE]]
    BY <1>2, <1>3
  <2>2. Sets(q, [q EXCEPT !.mark = TRUE], e, TRUE)
    BY <1>1 DEF TickRecords, Sets
  <2>3. Emits(t, q, e, s, outcome)
    BY <1>2, <1>3, <2>1, <2>2 DEF Emits, Sets
  <2> QED
    BY <1>1, <1>2, <2>3
<1>4. CASE outcome # "ok"
  <2>1. tick' = [tick EXCEPT ![t] = [q EXCEPT !.todo[e] = None, !.ev = None]]
    BY <1>1, <1>2, <1>4
  <2>2. Drops(q, [q EXCEPT !.todo[e] = None, !.ev = None], e, None, FALSE)
    BY <1>1, DropEvent
  <2>3. Emits(t, q, e, s, outcome)
    BY <1>2, <1>4, <2>1, <2>2 DEF Emits, Drops
  <2> QED
    BY <1>1, <1>2, <2>3
<1> QED
  BY <1>3, <1>4

LEMMA GivingUp ==
    ASSUME Sane, Base, NEW t \in Tickers, collectBriefsFails(t), NEW q, q = tick[t],
           NEW e, e = q.ev
    PROVE  /\ e \in Events /\ ~Idle(t) /\ q.mark = FALSE
           /\ \E r : tick' = [tick EXCEPT ![t] = r] /\ Drops(q, r, e, None, FALSE)
<1>1. /\ q \in TickRecords /\ e \in Events /\ q.mark = FALSE
      /\ ~Idle(t) /\ tick \in [Tickers -> TickRecords \cup {None}]
  BY TickType DEF collectBriefsFails, Base, TypeOK
<1>2. tick' = [tick EXCEPT ![t] = [q EXCEPT !.todo[e] = None, !.ev = None]]
  BY <1>1 DEF collectBriefsFails
<1>3. Drops(q, [q EXCEPT !.todo[e] = None, !.ev = None], e, None, FALSE)
  BY <1>1, DropEvent
<1> QED
  BY <1>1, <1>2, <1>3

LEMMA Marking ==
    ASSUME Sane, Base, NEW t \in Tickers, markEmitted(t), NEW q, q = tick[t],
           NEW e, e = q.ev
    PROVE  /\ e \in Events /\ q.todo[e] \in Times /\ ~Idle(t) /\ q.mark = TRUE
           /\ emitted' = [emitted EXCEPT ![e] = q.todo[e]]
           /\ \E r : tick' = [tick EXCEPT ![t] = r] /\ Drops(q, r, e, None, FALSE)
<1>1. /\ q \in TickRecords /\ e \in Events /\ q.todo[e] \in Times /\ q.mark = TRUE
      /\ ~Idle(t) /\ tick \in [Tickers -> TickRecords \cup {None}]
  BY TickType DEF markEmitted, Base, TypeOK
<1>2. /\ tick' = [tick EXCEPT ![t] = [q EXCEPT !.todo[e] = None, !.ev = None, !.mark = FALSE]]
      /\ emitted' = [emitted EXCEPT ![e] = q.todo[e]]
  BY <1>1 DEF markEmitted
<1>3. Drops(q, [q EXCEPT !.todo[e] = None, !.ev = None, !.mark = FALSE], e, None, FALSE)
  BY <1>1, DropEvent
<1> QED
  BY <1>1, <1>2, <1>3

---------------------------------------------------------------------------
(* The types and Running are kept.                                             *)

\* r can be the record of t.
Good(t, r) == /\ r \in TickRecords /\ r.began <= now /\ Due(t) /\ (r.mark => r.ev # None)
              /\ r.ev # None => r.todo[r.ev] # None
              /\ \A e \in Events : r.todo[e] # None => r.todo[e] + setting.length > r.began

Ticks == /\ tick \in [Tickers -> TickRecords \cup {None}] /\ Running
         /\ \A t \in Tickers : tick[t] # None /\ tick[t].ev # None => tick[t].todo[tick[t].ev] # None

LEMMA TicksGood ==
    ASSUME tick \in [Tickers -> TickRecords \cup {None}],
           \A t \in Tickers : tick[t] # None => Good(t, tick[t])
    PROVE  Ticks
  BY DEF Ticks, Running, Good, Idle

LEMMA TickGood ==
    ASSUME Sane, Base, NEW t \in Tickers, tick[t] # None
    PROVE  Good(t, tick[t])
<1>1. tick[t] \in TickRecords
  BY DEF Base, TypeOK
<1> QED
  BY <1>1 DEF Base, TypeOK, Running, Good, Idle

\* A Tick that goes on.
LEMMA TicksOn ==
    ASSUME Sane, Base, NEW t \in Tickers, NEW r, Good(t, r), tick' = [tick EXCEPT ![t] = r],
           UNCHANGED <<setting, now, due>>
    PROVE  Ticks'
<1>1. tick' \in [Tickers -> TickRecords \cup {None}] /\ tick'[t] = r
  BY DEF Base, TypeOK, Good
<1>2. ASSUME NEW u \in Tickers, tick'[u] # None
      PROVE  \E p : p = tick'[u] /\ Good(u, p)
  <2>1. CASE u = t
    BY <1>1, <2>1
  <2>2. CASE u # t
    BY <1>2, <2>2, TickGood DEF Base, TypeOK
  <2> QED
    BY <2>1, <2>2
<1>3. ASSUME NEW u \in Tickers, tick'[u] # None, NEW p, p = tick'[u]
      PROVE  /\ p.began <= now' /\ Due(u)' /\ (p.mark => p.ev # None)
             /\ p.ev # None => p.todo[p.ev] # None
             /\ \A e \in Events : p.todo[e] # None => p.todo[e] + setting'.length > p.began
  <2>1. Good(u, p)
    BY <1>2, <1>3
  <2> QED
    BY <2>1 DEF Good, Due
<1> QED
  BY <1>1, <1>3 DEF Ticks, Running, Idle

LEMMA DropsGood ==
    ASSUME Sane, Base, NEW t \in Tickers, ~Idle(t), NEW q, q = tick[t], NEW e \in Events, NEW r,
           Drops(q, r, e, None, FALSE)
    PROVE  Good(t, r)
<1>1. /\ r \in TickRecords /\ r.began = q.began /\ r.ev = None /\ r.mark = FALSE
      /\ r.todo[e] = None /\ \A d \in Events : d # e => r.todo[d] = q.todo[d]
  BY DEF Drops
<1>2. Good(t, q)
  BY TickGood DEF Idle
<1> QED
  BY <1>1, <1>2 DEF Good

LEMMA SetsGood ==
    ASSUME Sane, Base, NEW t \in Tickers, ~Idle(t), NEW q, q = tick[t], NEW e \in Events, NEW r,
           q.todo[e] # None, NEW mark \in BOOLEAN, Sets(q, r, e, mark)
    PROVE  Good(t, r)
<1>1. r \in TickRecords /\ r.began = q.began /\ r.ev = e /\ r.todo = q.todo /\ e # None
  BY DEF Sets, Sane
<1>2. Good(t, q)
  BY TickGood DEF Idle
<1> QED
  BY <1>1, <1>2 DEF Good

LEMMA NextDueType ==
    ASSUME Sane, TypeOK, NEW t \in Tickers, Due(t)
    PROVE  NextDue(t) \in Nat
<1>1. CASE due[t] = None
  BY <1>1, SettingType DEF NextDue, Interval
<1>2. CASE due[t] # None
  <2>1. due[t] \in Nat /\ now \in Nat /\ due[t] <= now /\ Interval \in Nat /\ Interval > 0
    BY <1>2, SettingType DEF TypeOK, Due, Interval
  <2>2. PICK missed : missed = (now - due[t]) \div Interval
    OBVIOUS
  <2>3. missed \in Nat
    <3>1. PICK late \in Nat : late = now - due[t]
      BY <2>1
    <3>2. PICK i \in Nat : i = Interval /\ i > 0
      BY <2>1
    <3>3. late \div i \in Nat
      BY <3>2
    <3> QED
      BY <2>2, <3>1, <3>2, <3>3
  <2>4. PICK n \in Nat : n = IF missed = 0 THEN 1 ELSE missed
    BY <2>3
  <2>5. Interval * n \in Nat
    BY <2>1, <2>4
  <2>6. NextDue(t) = due[t] + Interval * n
    BY <1>2, <2>2, <2>4 DEF NextDue
  <2> QED
    BY <2>1, <2>5, <2>6
<1> QED
  BY <1>1, <1>2

LEMMA Finishing ==
    ASSUME Sane, Base, NEW t \in Tickers, Due(t), Finishes(t), UNCHANGED <<setting, now>>
    PROVE  Ticks' /\ due' \in [Tickers -> Nat \cup {None}]
<1>1. /\ tick' \in [Tickers -> TickRecords \cup {None}] /\ tick'[t] = None
      /\ due' \in [Tickers -> Nat \cup {None}]
      /\ \A u \in Tickers : u # t => tick'[u] = tick[u] /\ due'[u] = due[u]
  BY NextDueType DEF Base, TypeOK, Finishes
<1>2. ASSUME NEW u \in Tickers, tick'[u] # None, NEW p, p = tick'[u]
      PROVE  /\ p.began <= now' /\ Due(u)' /\ (p.mark => p.ev # None)
             /\ p.ev # None => p.todo[p.ev] # None
             /\ \A e \in Events : p.todo[e] # None => p.todo[e] + setting'.length > p.began
  <2>1. Good(u, p) /\ due'[u] = due[u]
    BY <1>1, <1>2, TickGood
  <2> QED
    BY <2>1 DEF Good, Due
<1> QED
  BY <1>1, <1>2 DEF Ticks, Running, Idle

\* One more notification of e at s arrives.
Announces(e, s) == /\ sent' \in [Events -> [Times -> 0 .. 2]] /\ sent'[e][s] = More(sent[e][s])
                   /\ sent'[e][s] > 0
                   /\ \A d \in Events, u \in Times : d # e \/ u # s => sent'[d][u] = sent[d][u]

LEMMA Announcing ==
    ASSUME TypeOK, NEW e \in Events, NEW s \in Times,
           sent' = [sent EXCEPT ![e][s] = More(@)]
    PROVE  Announces(e, s)
<1>1. sent \in [Events -> [Times -> 0 .. 2]]
  BY DEF TypeOK
<1>2. PICK n \in 0 .. 2 : n = More(sent[e][s]) /\ n > 0
  <2>1. sent[e][s] \in 0 .. 2
    BY <1>1
  <2> QED
    BY <2>1 DEF More
<1>3. sent' = [sent EXCEPT ![e][s] = n]
  BY <1>2
<1> QED
  BY <1>1, <1>2, <1>3 DEF Announces

LEMMA InitBase == Sane /\ Init => Base
  BY DEF Sane, Init, Base, TypeOK, Running, Idle, SettingRecords, Times

LEMMA StepBase ==
    ASSUME Sane, Base, NEW t \in Tickers, Step(t)
    PROVE  Base'
<1> USE DEF Base
<1>1. TypeOK /\ Settings \subseteq SettingRecords
  BY DEF Sane
<1> PICK q : q = tick[t]
  OBVIOUS
<1>2. CASE Tick(t)
  <2>1. PICK r : tick' = [tick EXCEPT ![t] = r] /\ Lists(r)
    BY <1>2, Listing
  <2>2. Good(t, r)
    <3>1. /\ r \in TickRecords /\ r.began = now /\ r.ev = None /\ r.mark = FALSE
          /\ \A e \in Events : r.todo[e] = IF InWindow(e) THEN start[e] ELSE None
      BY <2>1 DEF Lists
    <3>2. now \in Nat /\ Due(t)
      BY <1>2, SettingType DEF Tick
    <3> QED
      BY <3>1, <3>2 DEF Good, InWindow
  <2>3. Ticks'
    BY <1>2, <2>1, <2>2, TicksOn DEF Tick
  <2> QED
    BY <1>1, <1>2, <2>3 DEF Tick, TypeOK, Ticks
<1>3. CASE ListFails(t)
  <2>1. Ticks' /\ due' \in [Tickers -> Nat \cup {None}]
    BY <1>3, Finishing DEF ListFails
  <2> QED
    BY <1>1, <1>3, <2>1 DEF ListFails, TypeOK, Ticks
<1>4. CASE Emit(t)
  <2> PICK e : e = q.ev
    OBVIOUS
  <2> PICK s : s = q.todo[e]
    OBVIOUS
  <2>1. /\ e \in Events /\ s \in Times /\ q.mark = FALSE /\ ~Idle(t) /\ s # None
        /\ UNCHANGED <<setting, now, start, since, emitted, due>>
    <3>1. e \in Events /\ s \in Times /\ q.mark = FALSE /\ ~Idle(t)
      BY <1>4, Emitting
    <3>2. UNCHANGED <<setting, now, start, since, emitted, due>>
      BY <1>4 DEF Emit
    <3>3. s # None
      BY <3>1 DEF Sane, Times
    <3> QED
      BY <3>1, <3>2, <3>3
  <2>2. PICK outcome \in setting.outcomes : Emits(t, q, e, s, outcome)
    BY <1>4, Emitting
  <2>3. PICK r \in TickRecords :
           /\ sent' = IF outcome = "failed" THEN sent ELSE [sent EXCEPT ![e][s] = More(@)]
           /\ tick' = [tick EXCEPT ![t] = r]
           /\ IF outcome = "ok" THEN Sets(q, r, e, TRUE) ELSE Drops(q, r, e, None, FALSE)
    BY <2>2 DEF Emits
  <2>4. Good(t, r)
    BY <2>1, <2>3, SetsGood, DropsGood
  <2>5. Ticks'
    BY <2>1, <2>3, <2>4, TicksOn
  <2>6. sent' \in [Events -> [Times -> 0 .. 2]]
    BY <1>1, <2>1, <2>3, Announcing DEF TypeOK, Announces
  <2> QED
    BY <1>1, <2>1, <2>5, <2>6 DEF TypeOK, Ticks
<1>5. CASE collectBriefsFails(t)
  <2> PICK e : e = q.ev
    OBVIOUS
  <2>1. PICK r : tick' = [tick EXCEPT ![t] = r] /\ Drops(q, r, e, None, FALSE)
    BY <1>5, GivingUp
  <2>2. Good(t, r)
    BY <1>5, <2>1, GivingUp, DropsGood
  <2>3. Ticks'
    BY <1>5, <2>1, <2>2, TicksOn DEF collectBriefsFails
  <2> QED
    BY <1>1, <1>5, <2>3 DEF collectBriefsFails, TypeOK, Ticks
<1>6. CASE markEmitted(t)
  <2> PICK e : e = q.ev
    OBVIOUS
  <2> PICK s : s = q.todo[e]
    OBVIOUS
  <2>1. e \in Events /\ s \in Times /\ ~Idle(t)
    BY <1>6, Marking
  <2>2. emitted' = [emitted EXCEPT ![e] = s]
    BY <1>6 DEF markEmitted
  <2>3. PICK r : tick' = [tick EXCEPT ![t] = r] /\ Drops(q, r, e, None, FALSE)
    BY <1>6, Marking
  <2>4. Good(t, r)
    BY <2>1, <2>3, DropsGood
  <2>5. Ticks'
    BY <1>6, <2>3, <2>4, TicksOn DEF markEmitted
  <2> QED
    BY <1>1, <1>6, <2>1, <2>2, <2>5 DEF markEmitted, TypeOK, Ticks
<1>7. CASE evict(t)
  <2>1. Ticks' /\ due' \in [Tickers -> Nat \cup {None}]
    <3>1. Due(t)
      BY <1>7 DEF evict, Working, Running
    <3> QED
      BY <1>7, <3>1, Finishing DEF evict
  <2>2. emitted' \in [Events -> Times \cup {None}]
    BY <1>1, <1>7 DEF evict, TypeOK
  <2> QED
    BY <1>1, <1>7, <2>1, <2>2 DEF evict, TypeOK, Ticks
<1>8. CASE \E e \in Events : alreadyEmitted(t, e)
  <2>1. PICK e \in Events : alreadyEmitted(t, e)
    BY <1>8
  <2>2. ~Idle(t) /\ q.todo[e] # None
    BY <2>1, LookingUp
  <2>3. PICK r : /\ tick' = [tick EXCEPT ![t] = r]
                 /\ IF emitted[e] # None THEN Drops(q, r, e, None, FALSE)
                                         ELSE Sets(q, r, e, FALSE)
    BY <2>1, LookingUp
  <2>4. Good(t, r)
    BY <2>2, <2>3, SetsGood, DropsGood
  <2>5. Ticks'
    BY <2>1, <2>3, <2>4, TicksOn DEF alreadyEmitted
  <2> QED
    BY <1>1, <2>1, <2>5 DEF alreadyEmitted, TypeOK, Ticks
<1> QED
  BY <1>2, <1>3, <1>4, <1>5, <1>6, <1>7, <1>8 DEF Step

LEMMA NextBase ==
    ASSUME Sane, Base, [Next]_vars
    PROVE  Base'
<1>1. /\ TypeOK /\ Running /\ Times \subseteq Nat /\ setting.tickers \subseteq Tickers
      /\ setting.events \subseteq Events /\ Settings \subseteq SettingRecords
  BY SettingType DEF Base, Sane, TypeOK, SettingRecords
<1>2. CASE \E t \in setting.tickers : Step(t)
  BY <1>1, <1>2, StepBase
<1>3. CASE \E e \in setting.events : Schedule(e)
  BY <1>1, <1>3 DEF Schedule, Base, TypeOK, Running, Idle, Due
<1>4. CASE Restart
  BY <1>1, <1>4 DEF Restart, Base, TypeOK, Running, Idle, Due
<1>5. CASE Clock
  <2>1. now \in Nat /\ now' = now + 1 /\ now' \in Times
    <3>1. /\ setting.until \in Nat /\ MaxTime \in Nat /\ setting.until <= MaxTime
          /\ now \in Nat /\ now < setting.until /\ now' = now + 1
      BY <1>1, <1>5 DEF Clock, TypeOK, SettingRecords, Times, Sane
    <3> QED
      BY <3>1 DEF Times
  <2>2. ASSUME NEW u \in Tickers, tick'[u] # None, NEW p, p = tick'[u]
        PROVE  /\ p.began <= now' /\ Due(u)' /\ (p.mark => p.ev # None)
               /\ p.ev # None => p.todo[p.ev] # None
               /\ \A e \in Events : p.todo[e] # None => p.todo[e] + setting'.length > p.began
    <3>1. tick' = tick /\ due' = due /\ setting' = setting
      BY <1>5 DEF Clock
    <3>2. Good(u, p)
      BY <2>2, <3>1, TickGood
    <3>3. p.began \in Nat /\ (due[u] # None => due[u] \in Nat)
      BY <1>1, <3>2 DEF Good, TickRecords, TypeOK
    <3> QED
      BY <2>1, <3>1, <3>2, <3>3 DEF Good, Due
  <2>3. Running' /\ \A t \in Tickers : tick'[t] # None /\ tick'[t].ev # None => tick'[t].todo[tick'[t].ev] # None
    BY <2>2 DEF Running, Idle
  <2> QED
    BY <1>1, <1>5, <2>1, <2>3 DEF Clock, Base, TypeOK
<1>6. CASE UNCHANGED vars
  BY <1>1, <1>6 DEF vars, Base, TypeOK, Running, Idle, Due
<1> QED
  BY <1>2, <1>3, <1>4, <1>5, <1>6 DEF Next

\* The variables keep their types, and a Tick began when it was due.
THEOREM BriefTypes == ASSUME Sane PROVE Spec => []TypeOK
<1>1. Sane /\ Init => Base
  BY InitBase
<1>2. ASSUME Base, [Next]_vars PROVE Base'
  BY <1>2, NextBase
<1>3. Base => TypeOK
  BY DEF Base
<1> QED
  BY <1>1, <1>2, <1>3, PTL DEF Spec

---------------------------------------------------------------------------
(* No event is announced twice for one start.                                  *)

\* The clock of t's next evict, if it began now.
Looked(t) == IF Idle(t) THEN now ELSE tick[t].began

\* The trigger knows that e was announced at s: it remembers it, or is about to, or e is so
\* long past that no Tick lists it any more.
Known(t, e, s) == \/ emitted[e] = s
                  \/ ~Idle(t) /\ tick[t].mark /\ tick[t].ev = e /\ tick[t].todo[e] = s
                  \/ s + Retention < Looked(t)

Remembered(t) ==
    /\ AnnouncedOnce
    /\ ~Idle(t) /\ tick[t].ev # None => emitted[tick[t].ev] = None
    /\ \A e \in Events, s \in Times : sent[e][s] # 0 => Known(t, e, s)

Remembers == Steady => AnnouncedOnce /\ \A t \in setting.tickers : Remembered(t)

\* A step of a Tick that neither sends nor remembers anything.
LEMMA SilentStep ==
    ASSUME Sane, Base, NEW t \in Tickers, Remembered(t), ~Idle(t), NEW q, q = tick[t], q.mark = FALSE,
           NEW r \in TickRecords, tick' = [tick EXCEPT ![t] = r], r.mark = FALSE, r.began = q.began,
           r.ev # None => emitted[r.ev] = None, UNCHANGED <<setting, now, emitted, sent>>
    PROVE  Remembered(t)'
<1>1. tick'[t] = r /\ ~Idle(t)' /\ Looked(t)' = q.began /\ Looked(t) = q.began
  BY DEF Base, TypeOK, Idle, Looked, Sane
<1>2. ASSUME NEW e \in Events, NEW s \in Times, sent[e][s] # 0
      PROVE  Known(t, e, s)'
  <2>1. emitted[e] = s \/ s + Retention < q.began
    BY <1>1, <1>2 DEF Remembered, Known
  <2> QED
    BY <1>1, <2>1 DEF Known, Retention
<1> QED
  BY <1>1, <1>2 DEF Remembered, AnnouncedOnce

LEMMA EmitRemembers ==
    ASSUME Sane, Base, Steady, NEW t \in Tickers, Remembered(t), Emit(t)
    PROVE  Remembered(t)'
<1> PICK q : q = tick[t]
  OBVIOUS
<1> PICK e : e = q.ev
  OBVIOUS
<1> PICK s : s = q.todo[e]
  OBVIOUS
<1>1. /\ q \in TickRecords /\ e \in Events /\ s \in Times /\ q.mark = FALSE /\ ~Idle(t) /\ s # None
      /\ s + setting.length > q.began /\ e # None
  <2>1. e \in Events /\ s \in Times /\ q.mark = FALSE /\ ~Idle(t)
    BY Emitting
  <2>2. s # None /\ e # None
    BY <2>1 DEF Sane, Times
  <2>3. q \in TickRecords /\ \A d \in Events : q.todo[d] # None => q.todo[d] + setting.length > q.began
    BY <2>1, TickType
  <2> QED
    BY <2>1, <2>2, <2>3
<1>2. UNCHANGED <<setting, now, start, since, emitted, due>>
  BY DEF Emit
<1>3. PICK outcome \in setting.outcomes : Emits(t, q, e, s, outcome)
  BY Emitting
<1>4. PICK r \in TickRecords :
         /\ sent' = IF outcome = "failed" THEN sent ELSE [sent EXCEPT ![e][s] = More(@)]
         /\ tick' = [tick EXCEPT ![t] = r]
         /\ IF outcome = "ok" THEN Sets(q, r, e, TRUE) ELSE Drops(q, r, e, None, FALSE)
  BY <1>3 DEF Emits
<1>5. outcome = "ok" \/ outcome = "failed"
  BY SettingType DEF Base, Steady, Outcomes
<1>6. emitted[e] = None
  BY <1>1 DEF Remembered
<1>7. CASE outcome = "failed"
  <2>1. Drops(q, r, e, None, FALSE) /\ sent' = sent
    BY <1>4, <1>7
  <2>2. r.mark = FALSE /\ r.ev = None /\ r.began = q.began
    BY <2>1 DEF Drops
  <2>3. tick' = [tick EXCEPT ![t] = r]
    BY <1>4
  <2> QED
    BY <1>1, <1>2, <2>1, <2>2, <2>3, SilentStep
<1>8. CASE outcome = "ok"
  <2>1. /\ r.began = q.began /\ r.ev = e /\ r.mark = TRUE /\ r.todo = q.todo
        /\ sent' = [sent EXCEPT ![e][s] = More(@)]
    BY <1>4, <1>8 DEF Sets
  <2>2. tick'[t] = r /\ ~Idle(t)' /\ Looked(t)' = q.began /\ Looked(t) = q.began
    BY <1>1, <1>4, <2>1 DEF Base, TypeOK, Idle, Looked, Sane
  <2>3. sent[e][s] = 0
    <3>1. SUFFICES ASSUME sent[e][s] # 0 PROVE FALSE
      OBVIOUS
    <3>2. Known(t, e, s)
      BY <1>1, <3>1 DEF Remembered
    <3>3. s + Retention < q.began
      BY <1>1, <1>6, <2>2, <3>2 DEF Known
    <3>4. setting.length \in Nat /\ Retention \in Nat /\ s \in Nat /\ q.began \in Nat
          /\ setting.length <= Retention
      BY <1>1, SettingType DEF Base, Retention, TickRecords, Steady
    <3> QED
      BY <1>1, <3>3, <3>4
  <2>4. /\ sent'[e][s] = 1
        /\ \A d \in Events, u \in Times : d # e \/ u # s => sent'[d][u] = sent[d][u]
    <3>1. /\ sent'[e][s] = More(sent[e][s])
          /\ \A d \in Events, u \in Times : d # e \/ u # s => sent'[d][u] = sent[d][u]
      <4>1. TypeOK
        BY DEF Base
      <4>2. Announces(e, s)
        BY <1>1, <2>1, <4>1, Announcing
      <4> QED
        BY <4>2 DEF Announces
    <3>2. More(0) = 1
      BY DEF More
    <3> QED
      BY <2>3, <3>1, <3>2
  <2>5. AnnouncedOnce'
    BY <2>4 DEF AnnouncedOnce, Remembered
  <2>6. ASSUME NEW d \in Events, NEW u \in Times, sent'[d][u] # 0
        PROVE  Known(t, d, u)'
    <3>1. CASE d = e /\ u = s
      BY <2>1, <2>2, <3>1 DEF Known
    <3>2. CASE d # e \/ u # s
      <4>1. Known(t, d, u)
        BY <2>4, <2>6, <3>2 DEF Remembered
      <4>2. emitted[d] = u \/ u + Retention < q.began
        BY <1>1, <2>2, <4>1 DEF Known
      <4> QED
        BY <1>2, <2>2, <4>2 DEF Known, Retention
    <3> QED
      BY <3>1, <3>2
  <2> QED
    BY <1>2, <1>6, <2>1, <2>2, <2>5, <2>6 DEF Remembered
<1> QED
  BY <1>5, <1>7, <1>8

LEMMA MarkRemembers ==
    ASSUME Sane, Base, NEW t \in Tickers, Remembered(t), markEmitted(t)
    PROVE  Remembered(t)'
<1> PICK q : q = tick[t]
  OBVIOUS
<1> PICK e : e = q.ev
  OBVIOUS
<1> PICK s : s = q.todo[e]
  OBVIOUS
<1>1. q \in TickRecords /\ e \in Events /\ s \in Times /\ ~Idle(t) /\ e # None
  BY Marking, TickType DEF Sane
<1>2. emitted' = [emitted EXCEPT ![e] = s] /\ UNCHANGED <<setting, now, sent>>
  BY DEF markEmitted
<1>3. PICK r : tick' = [tick EXCEPT ![t] = r] /\ Drops(q, r, e, None, FALSE)
  BY Marking
<1>4. /\ tick'[t] = r /\ ~Idle(t)' /\ Looked(t)' = q.began /\ Looked(t) = q.began
      /\ r.ev = None /\ emitted \in [Events -> Times \cup {None}]
  BY <1>1, <1>3 DEF Base, TypeOK, Idle, Looked, Drops, Sane
<1>5. emitted[e] = None
  BY <1>1 DEF Remembered
<1>6. ASSUME NEW d \in Events, NEW u \in Times, sent[d][u] # 0
      PROVE  Known(t, d, u)'
  <2>1. Known(t, d, u) /\ u # None
    BY <1>6 DEF Remembered, Sane, Times
  <2>2. CASE emitted[d] = u
    <3>1. emitted'[d] = u
      BY <1>2, <1>4, <1>5, <2>1, <2>2
    <3> QED
      BY <3>1 DEF Known
  <2>3. CASE e = d /\ s = u
    <3>1. emitted'[d] = u
      BY <1>1, <1>2, <1>4, <2>3
    <3> QED
      BY <3>1 DEF Known
  <2>4. CASE u + Retention < q.began
    BY <1>2, <1>4, <2>4 DEF Known, Retention
  <2> QED
    BY <1>4, <2>1, <2>2, <2>3, <2>4 DEF Known
<1> QED
  BY <1>2, <1>4, <1>6 DEF Remembered, AnnouncedOnce

LEMMA EvictRemembers ==
    ASSUME Sane, Base, NEW t \in Tickers, Remembered(t), evict(t)
    PROVE  Remembered(t)'
<1> PICK q : q = tick[t]
  OBVIOUS
<1>1. /\ q \in TickRecords /\ q.began \in Nat /\ q.began <= now /\ ~Idle(t) /\ q.ev = None
      /\ now \in Nat /\ Retention \in Nat /\ Times \subseteq Nat
      /\ emitted \in [Events -> Times \cup {None}]
  BY TickType, SettingType DEF evict, Working, Base, TypeOK, Retention
<1>2. /\ emitted' = [e \in Events |-> IF emitted[e] # None /\ emitted[e] + Retention < q.began
                                      THEN None ELSE emitted[e]]
      /\ UNCHANGED <<setting, now, sent>>
  BY DEF evict
<1>3. Idle(t)' /\ Looked(t)' = now /\ Looked(t) = q.began
  BY <1>1, <1>2 DEF evict, Finishes, Base, TypeOK, Idle, Looked
<1>4. ASSUME NEW e \in Events, NEW s \in Times, sent[e][s] # 0
      PROVE  Known(t, e, s)'
  <2>1. emitted[e] = s \/ s + Retention < q.began
    <3>1. ~tick[t].mark \/ tick[t].ev # e
      BY <1>1 DEF Sane
    <3> QED
      BY <1>3, <1>4, <3>1 DEF Remembered, Known
  <2>2. CASE s + Retention < q.began
    <3>1. s + Retention < now
      BY <1>1, <2>2
    <3> QED
      BY <1>2, <1>3, <3>1 DEF Known, Retention
  <2>3. CASE emitted[e] = s /\ ~(s + Retention < q.began)
    BY <1>2, <2>3 DEF Known
  <2> QED
    BY <2>1, <2>2, <2>3
<1> QED
  BY <1>2, <1>3, <1>4 DEF Remembered, AnnouncedOnce

LEMMA StepRemembers ==
    ASSUME Sane, Base, Steady, NEW t \in Tickers, Remembered(t), Step(t)
    PROVE  Remembered(t)'
<1> PICK q : q = tick[t]
  OBVIOUS
<1>1. CASE Tick(t)
  <2>1. PICK r : tick' = [tick EXCEPT ![t] = r] /\ Lists(r)
    BY <1>1, Listing
  <2>2. tick'[t] = r /\ ~Idle(t)' /\ Looked(t)' = now /\ Looked(t) = now /\ r.ev = None /\ Idle(t)
    <3>1. r \in TickRecords /\ r.began = now /\ r.ev = None /\ r # None
      BY <2>1 DEF Lists, Sane
    <3>2. Idle(t) /\ now' = now /\ tick'[t] = r
      BY <1>1, <2>1 DEF Tick, Base, TypeOK
    <3> QED
      BY <3>1, <3>2 DEF Idle, Looked
  <2>3. UNCHANGED <<setting, now, emitted, sent>>
    BY <1>1 DEF Tick
  <2>4. ASSUME NEW e \in Events, NEW s \in Times, sent[e][s] # 0
        PROVE  Known(t, e, s)'
    <3>1. emitted[e] = s \/ s + Retention < now
      BY <2>2, <2>4 DEF Remembered, Known
    <3> QED
      BY <2>2, <2>3, <3>1 DEF Known, Retention
  <2> QED
    BY <2>2, <2>3, <2>4 DEF Remembered, AnnouncedOnce
<1>2. CASE ListFails(t)
  <2>1. tick'[t] = None /\ Idle(t) /\ UNCHANGED <<setting, now, emitted, sent>>
    BY <1>2 DEF ListFails, Finishes, Base, TypeOK
  <2>2. Looked(t)' = now /\ Looked(t) = now /\ Idle(t)'
    BY <2>1 DEF Idle, Looked
  <2>3. ASSUME NEW e \in Events, NEW s \in Times, sent[e][s] # 0
        PROVE  Known(t, e, s)'
    <3>1. emitted[e] = s \/ s + Retention < now
      BY <2>1, <2>2, <2>3 DEF Remembered, Known
    <3> QED
      BY <2>1, <2>2, <3>1 DEF Known, Retention
  <2> QED
    BY <2>1, <2>2, <2>3 DEF Remembered, AnnouncedOnce
<1>3. CASE Emit(t)
  BY <1>3, EmitRemembers
<1>4. CASE collectBriefsFails(t)
  <2> PICK e : e = q.ev
    OBVIOUS
  <2>1. e \in Events /\ ~Idle(t) /\ q.mark = FALSE
    BY <1>4, GivingUp
  <2>2. PICK r : tick' = [tick EXCEPT ![t] = r] /\ Drops(q, r, e, None, FALSE)
    BY <1>4, GivingUp
  <2>3. r \in TickRecords /\ r.mark = FALSE /\ r.ev = None /\ r.began = q.began
    BY <2>2 DEF Drops
  <2>4. UNCHANGED <<setting, now, emitted, sent>>
    BY <1>4 DEF collectBriefsFails
  <2> QED
    BY <2>1, <2>2, <2>3, <2>4, SilentStep
<1>5. CASE markEmitted(t)
  BY <1>5, MarkRemembers
<1>6. CASE evict(t)
  BY <1>6, EvictRemembers
<1>7. CASE \E e \in Events : alreadyEmitted(t, e)
  <2>1. PICK e \in Events : alreadyEmitted(t, e)
    BY <1>7
  <2>2. ~Idle(t) /\ q.mark = FALSE
    BY <2>1, LookingUp
  <2>3. PICK r : /\ tick' = [tick EXCEPT ![t] = r]
                 /\ IF emitted[e] # None THEN Drops(q, r, e, None, FALSE)
                                         ELSE Sets(q, r, e, FALSE)
    BY <2>1, LookingUp
  <2>4. /\ r \in TickRecords /\ r.mark = FALSE /\ r.began = q.began
        /\ r.ev # None => emitted[r.ev] = None
    BY <2>3 DEF Drops, Sets
  <2>5. UNCHANGED <<setting, now, emitted, sent>>
    BY <2>1 DEF alreadyEmitted
  <2> QED
    BY <2>2, <2>3, <2>4, <2>5, SilentStep
<1> QED
  BY <1>1, <1>2, <1>3, <1>4, <1>5, <1>6, <1>7 DEF Step

LEMMA InitRemembers == Sane /\ Init => Remembers
  BY DEF Sane, Init, Remembers, AnnouncedOnce, Remembered, Known, Idle, SettingRecords

\* Nothing of the Ticks changes, and the clock does not go back.
LEMMA RestRemembers ==
    ASSUME Sane, Base, NEW t \in Tickers, Remembered(t), UNCHANGED <<setting, emitted, tick, sent>>,
           now' = now \/ now' = now + 1
    PROVE  Remembered(t)'
<1>1. /\ Looked(t) \in Nat /\ Looked(t)' \in Nat /\ Looked(t) <= Looked(t)' /\ Retention \in Nat
      /\ Times \subseteq Nat
  <2>1. now \in Nat /\ Times \subseteq Nat /\ Retention \in Nat
    BY SettingType DEF Base, Retention
  <2>2. CASE Idle(t)
    BY <2>1, <2>2 DEF Looked, Idle
  <2>3. CASE ~Idle(t)
    <3>1. tick[t].began \in Nat
      BY <2>1, <2>3, TickType
    <3> QED
      BY <2>1, <2>3, <3>1 DEF Looked, Idle
  <2> QED
    BY <2>1, <2>2, <2>3
<1>2. ASSUME NEW e \in Events, NEW s \in Times, sent[e][s] # 0
      PROVE  Known(t, e, s)'
  <2>1. CASE s + Retention < Looked(t)
    <3>1. s + Retention < Looked(t)'
      BY <1>1, <2>1
    <3> QED
      BY <3>1 DEF Known, Retention
  <2> QED
    BY <1>2, <2>1 DEF Known, Remembered, Idle
<1> QED
  BY <1>2 DEF Remembered, AnnouncedOnce, Idle

LEMMA NextRemembers ==
    ASSUME Sane, Base, Remembers, [Next]_vars
    PROVE  Remembers'
<1>1. setting' = setting /\ (Steady' <=> Steady)
  <2>1. setting' = setting
    <3>1. ASSUME NEW t \in setting.tickers, Step(t) PROVE setting' = setting
      BY <3>1 DEF Step, Tick, ListFails, Emit, collectBriefsFails, markEmitted, evict,
         alreadyEmitted
    <3> QED
      BY <3>1 DEF Next, vars, Schedule, Restart, Clock
  <2> QED
    BY <2>1 DEF Steady, Retention
<1>2. SUFFICES ASSUME Steady PROVE AnnouncedOnce' /\ \A t \in setting.tickers : Remembered(t)'
  BY <1>1, <1>2 DEF Remembers
<1>3. /\ AnnouncedOnce /\ setting.tickers \subseteq Tickers
      /\ \A t \in setting.tickers : Remembered(t)
      /\ \A t, u \in setting.tickers : t = u
  BY <1>2, SettingType DEF Remembers, Steady, Base
<1>4. CASE \E t \in setting.tickers : Step(t)
  <2>1. PICK t \in setting.tickers : Step(t)
    BY <1>4
  <2>2. t \in Tickers /\ Remembered(t)
    BY <1>3
  <2>3. Remembered(t)'
    BY <1>2, <2>1, <2>2, StepRemembers
  <2>4. AnnouncedOnce'
    BY <2>3 DEF Remembered
  <2> QED
    BY <1>3, <2>3, <2>4
<1>5. CASE \/ \E e \in setting.events : Schedule(e)
           \/ Clock \/ UNCHANGED vars
  <2>1. UNCHANGED <<setting, emitted, tick, sent>> /\ (now' = now \/ now' = now + 1)
    BY <1>5 DEF Schedule, Clock, vars
  <2>2. \A t \in setting.tickers : Remembered(t)'
    BY <1>3, <2>1, RestRemembers
  <2> QED
    BY <1>3, <2>1, <2>2 DEF AnnouncedOnce
<1>6. CASE Restart
  BY <1>2, <1>6 DEF Restart, Steady
<1> QED
  BY <1>4, <1>5, <1>6 DEF Next

\* One trigger that is not restarted announces no event twice for one start, if Emit reports
\* what it did and no event lasts longer than the retention: what evict forgets is so long
\* past that no Tick lists it.
THEOREM AnnouncedOncePerStart == ASSUME Sane PROVE Spec => []OncePerStart
<1>1. Sane /\ Init => Base /\ Remembers
  BY InitBase, InitRemembers
<1>2. ASSUME Base, Remembers, [Next]_vars PROVE Base' /\ Remembers'
  BY <1>2, NextBase, NextRemembers
<1>3. Remembers => OncePerStart
  BY DEF Remembers, OncePerStart
<1> QED
  BY <1>1, <1>2, <1>3, PTL DEF Spec

---------------------------------------------------------------------------
(* No event is missed.                                                         *)

IsSent(e) == \E s \in Times : sent[e][s] > 0
SoonSent(e) == \E s \in Times : sent'[e][s] > 0

\* t's next Tick is due within an interval, and one that runs takes no time.
Timely(t) == /\ Idle(t) /\ due[t] # None => now <= due[t] /\ due[t] <= now + Interval
             /\ ~Idle(t) => tick[t].began = now /\ (due[t] # None => due[t] = now)

\* e has to be announced before it starts.
Owed(e) == start[e] # None /\ since[e] + Interval <= start[e] /\ ~IsSent(e)

\* t's next Tick comes early enough to announce e, and so does the one that runs unless it has
\* listed e, or came before e was scheduled, or more than a window before e.
Awaits(t, e) == /\ Idle(t) /\ due[t] # None => due[t] <= start[e]
                /\ ~Idle(t) => \/ tick[t].todo[e] # None \/ since[e] = now
                               \/ start[e] >= now + Window

Expected == \A e \in Events : Owed(e) =>
               now <= start[e] /\ \A t \in setting.tickers : Awaits(t, e)

\* What is remembered, or about to be, was announced.
Announced == /\ \A e \in Events : emitted[e] # None => IsSent(e)
             /\ \A t \in Tickers : ~Idle(t) /\ tick[t].mark => IsSent(tick[t].ev)

OnTime == \A t \in setting.tickers : Timely(t)

Serves == Prompt => OnTime /\ Expected /\ Announced

LEMMA PromptType ==
    ASSUME Sane, Base, Prompt
    PROVE  /\ setting.tickers # {} /\ setting.slow = FALSE /\ setting.outcomes = {"ok"}
           /\ Interval \in Nat /\ Window \in Nat /\ Interval <= Window /\ Interval > 0 /\ now \in Nat
           /\ setting.tickers \subseteq Tickers /\ Times \subseteq Nat
  BY SettingType DEF Prompt, Interval, Window, Base, TypeOK, Sane, SettingRecords

\* A Tick goes on, and drops only events that were announced.
LEMMA GoesOn ==
    ASSUME Sane, Base, Prompt, OnTime, Expected, NEW t \in setting.tickers, ~Idle(t),
           NEW q, q = tick[t], NEW r \in TickRecords, tick' = [tick EXCEPT ![t] = r],
           r.began = q.began, UNCHANGED <<setting, now, start, since, due>>,
           \A e \in Events : IsSent(e) => SoonSent(e),
           \A e \in Events : q.todo[e] # None /\ r.todo[e] = None => SoonSent(e)
    PROVE  OnTime' /\ Expected'
<1>1. /\ t \in Tickers /\ setting.tickers \subseteq Tickers /\ tick'[t] = r /\ ~Idle(t)'
      /\ \A u \in Tickers : u # t => tick'[u] = tick[u]
  BY PromptType DEF Base, TypeOK, Idle, Sane
<1>2. ASSUME NEW u \in setting.tickers PROVE Timely(u)'
  <2>1. Timely(u)
    BY DEF OnTime
  <2>2. CASE u = t
    BY <1>1, <2>1, <2>2 DEF Timely, Idle, Interval
  <2>3. CASE u # t
    BY <1>1, <2>1, <2>3 DEF Timely, Idle, Interval
  <2> QED
    BY <2>2, <2>3
<1>3. ASSUME NEW e \in Events, start[e] # None, since[e] + Interval <= start[e], ~SoonSent(e)
      PROVE  now <= start[e] /\ \A u \in setting.tickers : Awaits(u, e)'
  <2>1. now <= start[e] /\ \A u \in setting.tickers : Awaits(u, e)
    BY <1>3 DEF Expected, Owed
  <2>2. ASSUME NEW u \in setting.tickers PROVE Awaits(u, e)'
    <3>1. Awaits(u, e)
      BY <2>1
    <3>2. CASE u = t
      <4>1. q.todo[e] # None => r.todo[e] # None
        BY <1>3
      <4> QED
        BY <1>1, <3>1, <3>2, <4>1 DEF Awaits, Idle, Window
    <3>3. CASE u # t
      BY <1>1, <3>1, <3>3 DEF Awaits, Idle, Window
    <3> QED
      BY <3>2, <3>3
  <2> QED
    BY <2>1, <2>2
<1> QED
  BY <1>2, <1>3 DEF OnTime, Expected, Owed, IsSent, SoonSent, Interval

LEMMA TickServes ==
    ASSUME Sane, Base, Prompt, OnTime, Expected, Announced, NEW t \in setting.tickers, Tick(t)
    PROVE  OnTime' /\ Expected' /\ Announced'
<1>1. /\ t \in Tickers /\ setting.tickers \subseteq Tickers /\ now \in Nat
      /\ Idle(t) /\ Due(t) /\ UNCHANGED <<setting, now, start, since, emitted, due, sent>>
  BY PromptType DEF Tick
<1>2. PICK r : tick' = [tick EXCEPT ![t] = r] /\ Lists(r)
  BY <1>1, Listing
<1>3. /\ r \in TickRecords /\ r.began = now /\ r.mark = FALSE /\ r # None
      /\ \A e \in Events : r.todo[e] = IF InWindow(e) THEN start[e] ELSE None
  BY <1>2 DEF Lists, Sane
<1>4. tick'[t] = r /\ ~Idle(t)' /\ \A u \in Tickers : u # t => tick'[u] = tick[u]
  BY <1>1, <1>2, <1>3 DEF Base, TypeOK, Idle
<1>5. ASSUME NEW u \in setting.tickers PROVE Timely(u)'
  <2>1. Timely(u)
    BY DEF OnTime
  <2>2. CASE u = t
    <3>1. due[t] # None => due[t] = now
      <4>1. due[t] # None => due[t] <= now /\ now <= due[t] /\ due[t] \in Nat
        BY <1>1, <2>1, <2>2 DEF Due, Timely, Base, TypeOK
      <4> QED
        BY <1>1, <4>1
    <3> QED
      BY <1>1, <1>3, <1>4, <2>2, <3>1 DEF Timely
  <2>3. CASE u # t
    BY <1>1, <1>4, <2>1, <2>3 DEF Timely, Idle, Interval
  <2> QED
    BY <2>2, <2>3
<1>6. ASSUME NEW e \in Events, Owed(e)
      PROVE  now <= start[e] /\ \A u \in setting.tickers : Awaits(u, e)'
  <2>1. now <= start[e] /\ \A u \in setting.tickers : Awaits(u, e)
    BY <1>6 DEF Expected
  <2>2. ASSUME NEW u \in setting.tickers PROVE Awaits(u, e)'
    <3>1. Awaits(u, e)
      BY <2>1
    <3>2. CASE u = t
      <4>1. start[e] # None /\ start[e] \in Nat /\ Window \in Nat /\ setting.length \in Nat
            /\ setting.length > 0
        BY <1>6, PromptType, SettingType DEF Owed, Base, TypeOK
      <4>2. start[e] < now + Window => InWindow(e)
        BY <1>1, <2>1, <4>1 DEF InWindow
      <4>3. r.todo[e] # None \/ start[e] >= now + Window
        BY <1>1, <1>3, <4>1, <4>2
      <4> QED
        BY <1>1, <1>4, <3>2, <4>3 DEF Awaits, Window
    <3>3. CASE u # t
      BY <1>1, <1>4, <3>1, <3>3 DEF Awaits, Idle, Window
    <3> QED
      BY <3>2, <3>3
  <2> QED
    BY <2>1, <2>2
<1>7. Announced'
  <2>1. ASSUME NEW u \in Tickers, tick'[u] # None, tick'[u].mark PROVE IsSent(tick'[u].ev)
    <3>1. u # t
      BY <1>3, <1>4, <2>1
    <3> QED
      BY <1>4, <2>1, <3>1 DEF Announced, Idle
  <2> QED
    BY <1>1, <2>1 DEF Announced, Idle, IsSent
<1> QED
  BY <1>1, <1>5, <1>6, <1>7 DEF OnTime, Expected, Owed, IsSent, Interval

LEMMA EmitServes ==
    ASSUME Sane, Base, Prompt, OnTime, Expected, Announced, NEW t \in setting.tickers, Emit(t)
    PROVE  OnTime' /\ Expected' /\ Announced'
<1> PICK q : q = tick[t]
  OBVIOUS
<1> PICK e : e = q.ev
  OBVIOUS
<1> PICK s : s = q.todo[e]
  OBVIOUS
<1>1. t \in Tickers /\ setting.outcomes = {"ok"}
  BY PromptType
<1>2. q \in TickRecords /\ e \in Events /\ s \in Times /\ ~Idle(t)
  BY <1>1, Emitting, TickType
<1>3. UNCHANGED <<setting, now, start, since, emitted, due>>
  BY DEF Emit
<1>4. Emits(t, q, e, s, "ok")
  BY <1>1, Emitting
<1>5. PICK r \in TickRecords :
         /\ sent' = [sent EXCEPT ![e][s] = More(@)] /\ tick' = [tick EXCEPT ![t] = r]
         /\ r.began = q.began /\ r.ev = e /\ r.todo = q.todo
  BY <1>4 DEF Emits, Sets
<1>6. Announces(e, s)
  BY <1>2, <1>5, Announcing DEF Base
<1>7. SoonSent(e) /\ \A d \in Events : IsSent(d) => SoonSent(d)
  <2>1. SoonSent(e)
    BY <1>2, <1>6 DEF Announces, SoonSent
  <2>2. ASSUME NEW d \in Events, d # e, IsSent(d) PROVE SoonSent(d)
    BY <1>6, <2>2 DEF Announces, SoonSent, IsSent
  <2> QED
    BY <2>1, <2>2
<1>8. OnTime' /\ Expected'
  BY <1>2, <1>3, <1>5, <1>7, GoesOn
<1>9. Announced'
  <2>1. tick'[t] = r /\ \A u \in Tickers : u # t => tick'[u] = tick[u]
    BY <1>1, <1>5 DEF Base, TypeOK
  <2>2. ASSUME NEW u \in Tickers, tick'[u] # None, tick'[u].mark PROVE SoonSent(tick'[u].ev)
    <3>1. CASE u = t
      BY <1>5, <1>7, <2>1, <3>1
    <3>2. CASE u # t
      <4>1. IsSent(tick[u].ev) /\ tick[u].ev \in Events
        BY <2>1, <2>2, <3>2, TickType DEF Announced, Idle
      <4> QED
        BY <1>7, <2>1, <3>2, <4>1
    <3> QED
      BY <3>1, <3>2
  <2>3. \A d \in Events : emitted'[d] # None => SoonSent(d)
    BY <1>3, <1>7 DEF Announced
  <2> QED
    BY <2>2, <2>3 DEF Announced, Idle, IsSent, SoonSent
<1> QED
  BY <1>8, <1>9

LEMMA LookServes ==
    ASSUME Sane, Base, Prompt, OnTime, Expected, Announced, NEW t \in setting.tickers,
           NEW e \in Events, alreadyEmitted(t, e)
    PROVE  OnTime' /\ Expected' /\ Announced'
<1> PICK q : q = tick[t]
  OBVIOUS
<1>1. t \in Tickers
  BY PromptType
<1>2. ~Idle(t) /\ UNCHANGED <<setting, now, start, since, emitted, due, sent>>
  BY <1>1, LookingUp DEF alreadyEmitted
<1>3. PICK r : /\ tick' = [tick EXCEPT ![t] = r]
               /\ IF emitted[e] # None THEN Drops(q, r, e, None, FALSE) ELSE Sets(q, r, e, FALSE)
  BY <1>1, LookingUp
<1>4. /\ r \in TickRecords /\ r.began = q.began /\ r.mark = FALSE
      /\ \A d \in Events : q.todo[d] # None /\ r.todo[d] = None => d = e /\ emitted[e] # None
  BY <1>3 DEF Drops, Sets
<1>5. \A d \in Events : IsSent(d) => SoonSent(d)
  BY <1>2 DEF IsSent, SoonSent
<1>6. \A d \in Events : q.todo[d] # None /\ r.todo[d] = None => SoonSent(d)
  BY <1>4, <1>5 DEF Announced
<1>7. OnTime' /\ Expected'
  BY <1>2, <1>3, <1>4, <1>5, <1>6, GoesOn
<1>8. Announced'
  <2>1. tick'[t] = r /\ \A u \in Tickers : u # t => tick'[u] = tick[u]
    BY <1>1, <1>3 DEF Base, TypeOK
  <2> QED
    BY <1>2, <1>4, <2>1 DEF Announced, Idle, IsSent
<1> QED
  BY <1>7, <1>8

LEMMA MarkServes ==
    ASSUME Sane, Base, Prompt, OnTime, Expected, Announced, NEW t \in setting.tickers,
           markEmitted(t)
    PROVE  OnTime' /\ Expected' /\ Announced'
<1> PICK q : q = tick[t]
  OBVIOUS
<1> PICK e : e = q.ev
  OBVIOUS
<1>1. t \in Tickers
  BY PromptType
<1>2. e \in Events /\ ~Idle(t) /\ q.mark = TRUE /\ IsSent(e)
  BY <1>1, Marking DEF Announced
<1>3. UNCHANGED <<setting, now, start, since, due, sent>> /\ emitted' = [emitted EXCEPT ![e] = q.todo[e]]
  BY DEF markEmitted
<1>4. PICK r : tick' = [tick EXCEPT ![t] = r] /\ Drops(q, r, e, None, FALSE)
  BY <1>1, Marking
<1>5. /\ r \in TickRecords /\ r.began = q.began /\ r.mark = FALSE
      /\ \A d \in Events : q.todo[d] # None /\ r.todo[d] = None => d = e
  BY <1>4 DEF Drops
<1>6. \A d \in Events : IsSent(d) => SoonSent(d)
  BY <1>3 DEF IsSent, SoonSent
<1>7. \A d \in Events : q.todo[d] # None /\ r.todo[d] = None => SoonSent(d)
  BY <1>2, <1>5, <1>6
<1>8. OnTime' /\ Expected'
  BY <1>2, <1>3, <1>4, <1>5, <1>6, <1>7, GoesOn
<1>9. Announced'
  <2>1. tick'[t] = r /\ \A u \in Tickers : u # t => tick'[u] = tick[u]
    BY <1>1, <1>4 DEF Base, TypeOK
  <2>2. \A d \in Events : emitted'[d] # None => IsSent(d)
    BY <1>2, <1>3 DEF Announced, Base, TypeOK
  <2>3. \A u \in Tickers : tick'[u] # None /\ tick'[u].mark => IsSent(tick'[u].ev)
    BY <1>5, <2>1 DEF Announced, Idle
  <2> QED
    BY <1>3, <2>2, <2>3 DEF Announced, Idle, IsSent
<1> QED
  BY <1>8, <1>9

\* A fast Tick ends when it is due, and the next one is due an interval later.
LEMMA EvictServes ==
    ASSUME Sane, Base, Prompt, OnTime, Expected, Announced, NEW t \in setting.tickers, evict(t)
    PROVE  OnTime' /\ Expected' /\ Announced'
<1> PICK q : q = tick[t]
  OBVIOUS
<1>1. /\ t \in Tickers /\ setting.tickers \subseteq Tickers /\ now \in Nat /\ Interval \in Nat
      /\ Window \in Nat /\ Interval > 0 /\ Interval <= Window
  BY PromptType
<1>2. /\ ~Idle(t) /\ UNCHANGED <<setting, now, start, since, sent>>
      /\ \A e \in Events : q.todo[e] = None
  BY DEF evict, Working
<1>3. due[t] # None => due[t] = now
  BY <1>2 DEF OnTime, Timely
<1>4. NextDue(t) = now + Interval
  <2>1. CASE due[t] = None
    BY <2>1 DEF NextDue
  <2>2. CASE due[t] # None
    <3>1. PICK i \in Nat : i = Interval /\ i > 0
      BY <1>1
    <3>2. now - due[t] = 0 /\ 0 \div i = 0
      BY <1>1, <1>3, <2>2, <3>1
    <3>3. NextDue(t) = due[t] + i * 1
      BY <2>2, <3>1, <3>2 DEF NextDue
    <3> QED
      BY <1>1, <1>3, <2>2, <3>1, <3>3
  <2> QED
    BY <2>1, <2>2
<1>5. /\ tick'[t] = None /\ due'[t] = now + Interval
      /\ \A u \in Tickers : u # t => tick'[u] = tick[u] /\ due'[u] = due[u]
  BY <1>1, <1>4 DEF evict, Finishes, Base, TypeOK
<1>6. ASSUME NEW u \in setting.tickers PROVE Timely(u)'
  <2>1. Timely(u)
    BY DEF OnTime
  <2>2. CASE u = t
    BY <1>1, <1>2, <1>5, <2>2 DEF Timely, Idle, Interval
  <2>3. CASE u # t
    BY <1>1, <1>2, <1>5, <2>1, <2>3 DEF Timely, Idle, Interval
  <2> QED
    BY <2>2, <2>3
<1>7. ASSUME NEW e \in Events, Owed(e)
      PROVE  now <= start[e] /\ \A u \in setting.tickers : Awaits(u, e)'
  <2>1. now <= start[e] /\ \A u \in setting.tickers : Awaits(u, e)
    BY <1>7 DEF Expected
  <2>2. ASSUME NEW u \in setting.tickers PROVE Awaits(u, e)'
    <3>1. Awaits(u, e)
      BY <2>1
    <3>2. CASE u = t
      <4>1. since[e] = now \/ start[e] >= now + Window
        BY <1>2, <3>1, <3>2 DEF Awaits
      <4>2. start[e] \in Nat /\ since[e] + Interval <= start[e]
        BY <1>7, PromptType DEF Owed, Base, TypeOK
      <4>3. now + Interval <= start[e]
        BY <1>1, <4>1, <4>2
      <4> QED
        BY <1>2, <1>5, <3>2, <4>3 DEF Awaits, Idle
    <3>3. CASE u # t
      BY <1>1, <1>2, <1>5, <3>1, <3>3 DEF Awaits, Idle, Window
    <3> QED
      BY <3>2, <3>3
  <2> QED
    BY <2>1, <2>2
<1>8. Announced'
  <2>1. \A e \in Events : emitted'[e] # None => emitted[e] # None
    BY DEF evict
  <2>2. \A u \in Tickers : tick'[u] # None => tick'[u] = tick[u]
    BY <1>5
  <2> QED
    BY <1>2, <2>1, <2>2 DEF Announced, Idle, IsSent
<1> QED
  BY <1>2, <1>6, <1>7, <1>8 DEF OnTime, Expected, Owed, IsSent, Interval

LEMMA StepServes ==
    ASSUME Sane, Base, Prompt, OnTime, Expected, Announced, NEW t \in setting.tickers, Step(t)
    PROVE  OnTime' /\ Expected' /\ Announced'
<1>1. ~ListFails(t) /\ ~collectBriefsFails(t)
  BY PromptType DEF ListFails, collectBriefsFails
<1> QED
  BY <1>1, TickServes, EmitServes, MarkServes, EvictServes, LookServes DEF Step

LEMMA ScheduleServes ==
    ASSUME Sane, Base, Prompt, OnTime, Expected, Announced, NEW d \in Events, Schedule(d)
    PROVE  OnTime' /\ Expected' /\ Announced'
<1>1. /\ UNCHANGED <<setting, now, emitted, tick, due, sent>> /\ now \in Nat /\ Interval \in Nat
      /\ setting.tickers \subseteq Tickers
  BY PromptType DEF Schedule
<1>2. PICK s \in Times \cup {None} : start' = [start EXCEPT ![d] = s] /\ (s # None => s > now /\ s \in Nat)
  BY PromptType DEF Schedule
<1>3. /\ start'[d] = s /\ since'[d] = now
      /\ \A e \in Events : e # d => start'[e] = start[e] /\ since'[e] = since[e]
  BY <1>2 DEF Schedule, Base, TypeOK
<1>4. ASSUME NEW e \in Events, start'[e] # None, since'[e] + Interval <= start'[e], ~IsSent(e)
      PROVE  now <= start'[e] /\ \A u \in setting.tickers : Awaits(u, e)'
  <2>1. CASE e = d
    <3>1. s # None /\ s \in Nat /\ now <= s /\ now + Interval <= s
      BY <1>1, <1>2, <1>3, <1>4, <2>1
    <3>2. ASSUME NEW u \in setting.tickers PROVE Awaits(u, e)'
      <4>1. Idle(u) /\ due[u] # None => due[u] \in Nat /\ due[u] <= now + Interval
        BY <1>1 DEF OnTime, Timely, Base, TypeOK
      <4>2. Idle(u) /\ due[u] # None => due[u] <= s
        BY <1>1, <3>1, <4>1
      <4> QED
        BY <1>1, <1>3, <2>1, <4>2 DEF Awaits, Idle
    <3> QED
      BY <1>3, <2>1, <3>1, <3>2
  <2>2. CASE e # d
    <3>1. now <= start[e] /\ \A u \in setting.tickers : Awaits(u, e)
      BY <1>3, <1>4, <2>2 DEF Expected, Owed
    <3>2. ASSUME NEW u \in setting.tickers PROVE Awaits(u, e)'
      <4>1. Awaits(u, e)
        BY <3>1
      <4> QED
        BY <1>1, <1>3, <2>2, <4>1 DEF Awaits, Idle, Window
    <3> QED
      BY <1>3, <2>2, <3>1, <3>2
  <2> QED
    BY <2>1, <2>2
<1>5. OnTime'
  BY <1>1 DEF OnTime, Timely, Idle, Interval
<1>6. Announced'
  BY <1>1 DEF Announced, Idle, IsSent
<1>7. Expected'
  BY <1>1, <1>4 DEF Expected, Owed, IsSent, Interval
<1> QED
  BY <1>5, <1>6, <1>7

LEMMA ClockServes ==
    ASSUME Sane, Base, Prompt, OnTime, Expected, Announced, Clock
    PROVE  OnTime' /\ Expected' /\ Announced'
<1>1. /\ UNCHANGED <<setting, start, since, emitted, tick, due, sent>> /\ now \in Nat
      /\ Interval \in Nat /\ Window \in Nat /\ setting.tickers \subseteq Tickers
      /\ setting.tickers # {} /\ now' = now + 1
  BY PromptType DEF Clock
<1>2. ASSUME NEW u \in setting.tickers
      PROVE  Idle(u) /\ due[u] # None /\ due[u] \in Nat /\ now + 1 <= due[u] /\ due[u] <= now + Interval
  <2>1. Idle(u) /\ ~Due(u)
    BY PromptType DEF Clock
  <2>2. due[u] # None /\ due[u] \in Nat /\ ~(due[u] <= now)
    BY <1>1, <2>1 DEF Due, Base, TypeOK
  <2>3. due[u] <= now + Interval
    BY <2>1, <2>2 DEF OnTime, Timely
  <2> QED
    BY <1>1, <2>1, <2>2, <2>3
<1>3. OnTime'
  <2>1. ASSUME NEW u \in setting.tickers PROVE Timely(u)'
    BY <1>1, <1>2 DEF Timely, Idle, Interval
  <2> QED
    BY <1>1, <2>1 DEF OnTime
<1>4. ASSUME NEW e \in Events, Owed(e)
      PROVE  now + 1 <= start[e] /\ \A u \in setting.tickers : Awaits(u, e)'
  <2>1. \A u \in setting.tickers : Awaits(u, e)
    BY <1>4 DEF Expected
  <2>2. ASSUME NEW u \in setting.tickers PROVE due[u] <= start[e]
    BY <1>2, <2>1 DEF Awaits
  <2>3. start[e] \in Nat
    BY <1>4, PromptType DEF Owed, Base, TypeOK
  <2>4. now + 1 <= start[e]
    <3>1. PICK u \in setting.tickers : TRUE
      BY <1>1
    <3>2. due[u] <= start[e] /\ now + 1 <= due[u] /\ due[u] \in Nat
      BY <1>2, <2>2
    <3> QED
      BY <1>1, <2>3, <3>2
  <2>5. ASSUME NEW u \in setting.tickers PROVE Awaits(u, e)'
    BY <1>1, <1>2, <2>2 DEF Awaits, Idle
  <2> QED
    BY <2>4, <2>5
<1>5. Announced'
  BY <1>1 DEF Announced, Idle, IsSent
<1>6. Expected'
  BY <1>1, <1>4 DEF Expected, Owed, IsSent, Interval
<1> QED
  BY <1>3, <1>5, <1>6

\* A daemon that starts again has its first Tick at once.
LEMMA RestartServes ==
    ASSUME Sane, Base, Prompt, OnTime, Expected, Announced, Restart
    PROVE  OnTime' /\ Expected' /\ Announced'
<1>1. /\ setting.tickers \subseteq Tickers /\ UNCHANGED <<setting, now, start, since, sent>>
      /\ \A u \in Tickers : tick'[u] = None /\ due'[u] = None
      /\ \A e \in Events : emitted'[e] = None
  BY PromptType DEF Restart
<1>2. OnTime'
  BY <1>1 DEF OnTime, Timely, Idle
<1>3. Announced'
  BY <1>1 DEF Announced, Idle
<1>4. ASSUME NEW e \in Events, Owed(e)
      PROVE  now <= start[e] /\ \A u \in setting.tickers : Awaits(u, e)'
  BY <1>1, <1>4 DEF Expected, Awaits, Idle
<1>5. Expected'
  BY <1>1, <1>4 DEF Expected, Owed, IsSent, Interval
<1> QED
  BY <1>2, <1>3, <1>5

LEMMA InitServes == Sane /\ Init => Serves
<1> SUFFICES ASSUME Sane, Init PROVE OnTime /\ Expected /\ Announced
  BY DEF Serves
<1>1. setting.tickers \subseteq Tickers
  BY DEF Init, Sane, SettingRecords
<1> QED
  BY <1>1 DEF Init, OnTime, Timely, Idle, Expected, Owed, Announced

LEMMA NextServes ==
    ASSUME Sane, Base, Serves, [Next]_vars
    PROVE  Serves'
<1>1. setting' = setting /\ (Prompt' <=> Prompt)
  <2>1. ASSUME NEW t \in setting.tickers, Step(t) PROVE setting' = setting
    BY <2>1 DEF Step, Tick, ListFails, Emit, collectBriefsFails, markEmitted, evict, alreadyEmitted
  <2>2. setting' = setting
    BY <2>1 DEF Next, vars, Schedule, Restart, Clock
  <2> QED
    BY <2>2 DEF Prompt, Interval, Window
<1>2. SUFFICES ASSUME Prompt PROVE OnTime' /\ Expected' /\ Announced'
  BY <1>1, <1>2 DEF Serves
<1>3. /\ OnTime /\ Expected /\ Announced
      /\ setting.events \subseteq Events
  BY <1>2 DEF Serves, Base, TypeOK, Sane, SettingRecords
<1>4. CASE \E t \in setting.tickers : Step(t)
  BY <1>2, <1>3, <1>4, StepServes
<1>5. CASE \E e \in setting.events : Schedule(e)
  BY <1>2, <1>3, <1>5, ScheduleServes
<1>6. CASE Restart
  BY <1>2, <1>3, <1>6, RestartServes
<1>7. CASE Clock
  BY <1>2, <1>3, <1>7, ClockServes
<1>8. CASE UNCHANGED vars
  <2>1. UNCHANGED <<setting, now, start, since, emitted, tick, due, sent>>
    BY <1>8 DEF vars
  <2>2. OnTime'
    BY <1>3, <2>1 DEF OnTime, Timely, Idle, Interval
  <2>3. Announced'
    BY <1>3, <2>1 DEF Announced, Idle, IsSent
  <2>4. Expected'
    BY <1>3, <2>1 DEF Expected, Owed, Awaits, Idle, IsSent, Interval, Window
  <2> QED
    BY <2>2, <2>3, <2>4
<1> QED
  BY <1>4, <1>5, <1>6, <1>7, <1>8 DEF Next

\* With Ticks that are fast, succeed and are no further apart than the window is long, an event
\* that was in the calendar for an interval before it starts was announced when it has
\* started, however often the daemon is restarted: the clock does not pass a start that is
\* owed, because a Tick is due before it, and that Tick lists the event.
THEOREM NothingMissed == ASSUME Sane PROVE Spec => []NoEventMissed
<1>1. Sane /\ Init => Base /\ Serves
  BY InitBase, InitServes
<1>2. ASSUME Base, Serves, [Next]_vars PROVE Base' /\ Serves'
  BY <1>2, NextBase, NextServes
<1>3. Base /\ Serves => NoEventMissed
  <2> SUFFICES ASSUME Base, Serves, Prompt, NEW e \in Events, start[e] # None, now > start[e],
                      since[e] + Interval <= start[e]
               PROVE  \E s \in Times : sent[e][s] > 0
    BY DEF NoEventMissed
  <2>1. now \in Nat /\ start[e] \in Nat
    BY PromptType DEF Base, TypeOK
  <2>2. Owed(e) => now <= start[e]
    BY DEF Serves, Expected
  <2>3. ~Owed(e)
    BY <2>1, <2>2
  <2> QED
    BY <2>3 DEF Owed, IsSent
<1> QED
  BY <1>1, <1>2, <1>3, PTL DEF Spec

---------------------------------------------------------------------------
(* Clients of a mailbox (EwsSession).                                          *)

Distinct == None \notin Ews!CallRecords /\ None \notin [Ews!Kinds -> Jars] /\ Jars # {}

\* A call is of a client that exists; it waits only for a request through the gate, and knows
\* the jar of a reset it is in.
PlacedIn(jars, r) == /\ jars[r.client] # None
                     /\ r.step = "wait" => r.kind = "http"
                     /\ r.step = "peer" => r.new \in Jars

CallsPlaced == \A k \in Calls : call[k] # None => PlacedIn(jar, call[k])

IInv == Ews!TypeOK /\ Ews!OneAtATime /\ CallsPlaced

\* No client is lost.
Kept == /\ jar' \in [Clients -> [Ews!Kinds -> Jars] \cup {None}]
        /\ \A c \in Clients : jar[c] # None => jar'[c] # None

CallsOK == call' \in [Calls -> Ews!CallRecords \cup {None}] /\ Ews!OneAtATime' /\ CallsPlaced'

\* What a step of one call leaves of the others.
LEMMA OneCall ==
    ASSUME IInv, NEW k \in Calls, NEW r \in Ews!CallRecords \cup {None},
           call' = [call EXCEPT ![k] = r], Kept, r # None => PlacedIn(jar', r)
    PROVE  /\ call' \in [Calls -> Ews!CallRecords \cup {None}] /\ call'[k] = r
           /\ \A l \in Calls : l # k => call'[l] = call[l]
           /\ CallsPlaced'
<1>1. /\ call' \in [Calls -> Ews!CallRecords \cup {None}] /\ call'[k] = r
      /\ \A l \in Calls : l # k => call'[l] = call[l]
  BY DEF IInv, Ews!TypeOK
<1>2. ASSUME NEW l \in Calls, call'[l] # None
      PROVE  PlacedIn(jar', call'[l])
  <2>1. CASE l = k
    BY <2>1, <1>1, <1>2
  <2>2. CASE l # k
    <3>1. call'[l] = call[l] /\ call[l] \in Ews!CallRecords /\ PlacedIn(jar, call[l])
      BY <2>2, <1>1, <1>2 DEF IInv, Ews!TypeOK, CallsPlaced
    <3>2. call[l].client \in Clients
      BY <3>1 DEF Ews!CallRecords
    <3> QED
      BY <3>1, <3>2 DEF Kept, PlacedIn
  <2> QED
    BY <2>1, <2>2
<1> QED
  BY <1>1, <1>2 DEF CallsPlaced

\* A step of one call that keeps its http client, and its place before or past the gate.
LEMMA SamePlace ==
    ASSUME Distinct, IInv, NEW k \in Calls, NEW r \in Ews!CallRecords, call[k] # None,
           call' = [call EXCEPT ![k] = r], r.kind = call[k].kind, Kept, PlacedIn(jar', r),
           (r.step = "wait") <=> (call[k].step = "wait"), UNCHANGED gate
    PROVE  CallsOK
<1>1. /\ call' \in [Calls -> Ews!CallRecords \cup {None}] /\ call'[k] = r /\ CallsPlaced'
      /\ \A l \in Calls : l # k => call'[l] = call[l]
  BY OneCall
<1>2. r # None
  BY DEF Distinct
<1>3. Ews!Inside' = Ews!Inside
  BY <1>1, <1>2 DEF Ews!Inside
<1> QED
  BY <1>1, <1>3 DEF IInv, Ews!OneAtATime, CallsOK

\* A call that is not past the gate, before and after.
LEMMA Outside ==
    ASSUME IInv, NEW k \in Calls, NEW r \in Ews!CallRecords \cup {None},
           call' = [call EXCEPT ![k] = r], k \notin Ews!Inside, Kept, r # None => PlacedIn(jar', r),
           r # None => r.kind = "streaming" \/ r.step = "wait", UNCHANGED gate
    PROVE  CallsOK
<1>1. /\ call' \in [Calls -> Ews!CallRecords \cup {None}] /\ call'[k] = r /\ CallsPlaced'
      /\ \A l \in Calls : l # k => call'[l] = call[l]
  BY OneCall
<1>2. Ews!Inside' = Ews!Inside
  BY <1>1 DEF Ews!Inside
<1> QED
  BY <1>1, <1>2 DEF IInv, Ews!OneAtATime, CallsOK

\* The call that is past the gate leaves it, and gives the place back.
LEMMA Leaves ==
    ASSUME IInv, NEW k \in Calls, NEW r \in Ews!CallRecords \cup {None},
           call' = [call EXCEPT ![k] = r], k \in Ews!Inside, Kept, r # None => PlacedIn(jar', r),
           r # None => r.kind = "streaming" \/ r.step = "wait", gate' = FALSE
    PROVE  CallsOK
<1>1. /\ call' \in [Calls -> Ews!CallRecords \cup {None}] /\ call'[k] = r /\ CallsPlaced'
      /\ \A l \in Calls : l # k => call'[l] = call[l]
  BY OneCall
<1>2. Ews!Inside = {k}
  BY DEF IInv, Ews!OneAtATime
<1>3. Ews!Inside' = {}
  BY <1>1, <1>2 DEF Ews!Inside
<1> QED
  BY <1>1, <1>3 DEF Ews!OneAtATime, CallsOK

\* The first call of the queue gets in when nobody is.
LEMMA Enters ==
    ASSUME IInv, NEW k \in Calls, NEW r \in Ews!CallRecords, r # None,
           call' = [call EXCEPT ![k] = r], Kept, PlacedIn(jar', r), r.kind = "http",
           r.step # "wait", ~gate, gate' = TRUE
    PROVE  CallsOK
<1>1. /\ call' \in [Calls -> Ews!CallRecords \cup {None}] /\ call'[k] = r /\ CallsPlaced'
      /\ \A l \in Calls : l # k => call'[l] = call[l]
  BY OneCall
<1>2. Ews!Inside = {}
  BY DEF IInv, Ews!OneAtATime
<1>3. Ews!Inside' = {k}
  BY <1>1, <1>2 DEF Ews!Inside
<1> QED
  BY <1>1, <1>3 DEF Ews!OneAtATime, CallsOK

\* The steps of a call that is past the gate, or of a stream, until it returns.
LEMMA Under ==
    ASSUME Distinct, IInv, NEW k \in Calls,
           Ews!Send(k) \/ Ews!Receive(k) \/ Ews!Serve(k) \/ Ews!resetSessionCookies(k)
           \/ Ews!resetPeer(k)
    PROVE  IInv'
<1> DEFINE r == call'[k]
<1>t. /\ call[k] \in Ews!CallRecords /\ call[k] # None /\ mailbox' \in SessionSettings
      /\ gate' = gate /\ gate' \in BOOLEAN /\ queue' \in Seq(Calls) /\ call[k].client \in Clients
      /\ call[k].kind \in Ews!Kinds /\ PlacedIn(jar, call[k])
  BY DEF Ews!Send, Ews!Receive, Ews!Serve, Ews!resetSessionCookies, Ews!resetPeer, Ews!At, IInv,
     Ews!TypeOK, Ews!CallRecords, CallsPlaced
<1>j. jar[call[k].client] \in [Ews!Kinds -> Jars]
  BY <1>t DEF IInv, Ews!TypeOK, PlacedIn
<1>1. CASE Ews!Send(k)
  <2>0. PICK b \in BOOLEAN : call' = [call EXCEPT ![k].step = "server", ![k].sent = b]
    <3>1. (jar[call[k].client][call[k].kind] \in cookie) \in BOOLEAN
      OBVIOUS
    <3> QED
      BY <3>1, <1>1, Zenon DEF Ews!Send
  <2>a. call[k].step = "send"
    BY <1>1 DEF Ews!Send, Ews!At
  <2>1. /\ r \in Ews!CallRecords /\ r.kind = call[k].kind /\ r.client = call[k].client
        /\ r.step = "server" /\ call' = [call EXCEPT ![k] = r] /\ call[k].step # "wait"
    BY <2>0, <2>a, <1>t DEF Ews!CallRecords, IInv, Ews!TypeOK
  <2>2. Kept /\ PlacedIn(jar', r) /\ session' \in Jars /\ cookie' \subseteq Jars
    BY <2>1, <1>1, <1>t DEF Ews!Send, Kept, IInv, Ews!TypeOK, PlacedIn
  <2> QED
    BY <2>1, <2>2, <1>t, SamePlace DEF IInv, Ews!TypeOK, Kept, CallsOK
<1>2. CASE Ews!Receive(k)
  <2>1. /\ r \in Ews!CallRecords /\ r.kind = call[k].kind /\ r.client = call[k].client
        /\ r.step \in {"reset", "done"} /\ call' = [call EXCEPT ![k] = r] /\ call[k].step # "wait"
    BY <1>2, <1>t DEF Ews!Receive, Ews!At, Ews!CallRecords, IInv, Ews!TypeOK
  <2>2. Kept /\ PlacedIn(jar', r) /\ session' \in Jars
    BY <2>1, <1>2, <1>t DEF Ews!Receive, Kept, IInv, Ews!TypeOK, PlacedIn
  <2>3. cookie' \subseteq Jars
    BY <1>2, <1>t, <1>j DEF Ews!Receive, IInv, Ews!TypeOK
  <2> QED
    BY <2>1, <2>2, <2>3, <1>t, SamePlace DEF IInv, Ews!TypeOK, Kept, CallsOK
<1>3. CASE Ews!Serve(k)
  <2>1. /\ r \in Ews!CallRecords /\ r.kind = call[k].kind /\ r.client = call[k].client
        /\ r.step \in {"answered", "done"} /\ call' = [call EXCEPT ![k] = r]
        /\ call[k].step # "wait"
    BY <1>3, <1>t DEF Ews!Serve, Ews!Fails, Ews!At, Ews!CallRecords, IInv, Ews!TypeOK
  <2>2. Kept /\ PlacedIn(jar', r) /\ session' \in Jars /\ cookie' \subseteq Jars
    BY <2>1, <1>3, <1>t DEF Ews!Serve, Kept, IInv, Ews!TypeOK, PlacedIn
  <2> QED
    BY <2>1, <2>2, <1>t, SamePlace DEF IInv, Ews!TypeOK, Kept, CallsOK
<1>4. CASE Ews!resetSessionCookies(k)
  <2>0. session' \in Jars
    BY <1>4 DEF Ews!resetSessionCookies, Ews!Unused
  <2>1. /\ r \in Ews!CallRecords /\ r.kind = call[k].kind /\ r.client = call[k].client
        /\ r.step = "peer" /\ r.new = session'
        /\ call' = [call EXCEPT ![k] = r] /\ call[k].step # "wait"
    BY <1>4, <1>t, <2>0 DEF Ews!resetSessionCookies, Ews!At, Ews!CallRecords, IInv, Ews!TypeOK
  <2>2. Kept
    <3> DEFINE c == call[k].client
               js == [jar[c] EXCEPT ![call[k].kind] = session']
    <3>1. js \in [Ews!Kinds -> Jars] /\ jar' = [jar EXCEPT ![c] = js]
      BY <1>4, <1>j, <2>0 DEF Ews!resetSessionCookies
    <3>2. js # None
      BY <3>1 DEF Distinct
    <3> HIDE DEF js
    <3> QED
      BY <3>1, <3>2, <1>t DEF Kept, IInv, Ews!TypeOK
  <2>3. PlacedIn(jar', r) /\ cookie' \subseteq Jars
    BY <2>0, <2>1, <2>2, <1>4, <1>t DEF Ews!resetSessionCookies, Kept, IInv, Ews!TypeOK, PlacedIn
  <2> QED
    BY <2>0, <2>1, <2>2, <2>3, <1>t, SamePlace DEF IInv, Ews!TypeOK, Kept, CallsOK
<1>5. CASE Ews!resetPeer(k)
  <2>1. /\ r \in Ews!CallRecords /\ r.kind = call[k].kind /\ r.client = call[k].client
        /\ r.step = "send" /\ call' = [call EXCEPT ![k] = r] /\ call[k].step = "peer"
    BY <1>5, <1>t DEF Ews!resetPeer, Ews!Retries, Ews!At, Ews!CallRecords, IInv, Ews!TypeOK
  <2>2. Kept
    <3> DEFINE c == call[k].client
               js == [jar[c] EXCEPT ![Ews!Other(call[k].kind)] = call[k].new]
    <3>1. call[k].new \in Jars
      BY <2>1, <1>t DEF PlacedIn
    <3>2. js \in [Ews!Kinds -> Jars] /\ jar' = [jar EXCEPT ![c] = js]
      BY <1>5, <1>j, <3>1 DEF Ews!resetPeer
    <3>3. js # None
      BY <3>2 DEF Distinct
    <3> HIDE DEF js
    <3> QED
      BY <3>2, <3>3, <1>t DEF Kept, IInv, Ews!TypeOK
  <2>3. PlacedIn(jar', r) /\ session' \in Jars /\ cookie' \subseteq Jars
    BY <2>1, <2>2, <1>5, <1>t DEF Ews!resetPeer, Kept, IInv, Ews!TypeOK, PlacedIn
  <2> QED
    BY <2>1, <2>2, <2>3, <1>t, SamePlace DEF IInv, Ews!TypeOK, Kept, CallsOK
<1> QED
  BY <1>1, <1>2, <1>3, <1>4, <1>5

\* Calls that begin, get in, give up and return.
LEMMA Around ==
    ASSUME Distinct, IInv, NEW k \in Calls,
           (\E c \in Clients : Ews!Begin(k, c)) \/ Ews!Acquire(k) \/ Ews!Cancel(k) \/ Ews!Return(k)
    PROVE  IInv'
<1>k. Kept /\ jar' = jar
  BY DEF Ews!Begin, Ews!Acquire, Ews!Cancel, Ews!Return, Kept, IInv, Ews!TypeOK
<1>u. mailbox' \in SessionSettings /\ session' \in Jars /\ cookie' \subseteq Jars
  BY DEF Ews!Begin, Ews!Acquire, Ews!Cancel, Ews!Return, IInv, Ews!TypeOK
<1>q. SUFFICES CallsOK /\ gate' \in BOOLEAN /\ queue' \in Seq(Calls)
  BY <1>k, <1>u DEF IInv, Ews!TypeOK, Kept, CallsOK
<1> DEFINE New(c, kind) == Ews!Request(c, kind, IF Ews!acquireRequestSlot(kind) THEN "wait" ELSE "send")
<1>n. \A c \in Clients, kind \in Ews!Kinds :
          /\ New(c, kind) \in Ews!CallRecords /\ New(c, kind).client = c /\ New(c, kind).new = None
          /\ New(c, kind).kind = kind
          /\ New(c, kind).step = IF kind = "http" THEN "wait" ELSE "send"
  BY DEF Ews!Request, Ews!CallRecords, Ews!acquireRequestSlot, Ews!Kinds
<1>p. \A c \in Clients, kind \in Ews!Kinds : jar[c] # None => PlacedIn(jar', New(c, kind))
  BY <1>n, <1>k DEF PlacedIn
<1>e. \A c \in Clients, kind \in Ews!Kinds :
          Ews!Enter(k, c, kind) => /\ call' = [call EXCEPT ![k] = New(c, kind)]
                                   /\ queue' \in Seq(Calls)
  BY DEF Ews!Enter, IInv, Ews!TypeOK
<1> HIDE DEF New
<1>1. ASSUME NEW c \in Clients, Ews!Begin(k, c)
      PROVE  CallsOK /\ gate' \in BOOLEAN /\ queue' \in Seq(Calls)
  <2>1. /\ call' = [call EXCEPT ![k] = New(c, "http")] /\ queue' \in Seq(Calls)
        /\ gate' = gate /\ gate' \in BOOLEAN /\ k \notin Ews!Inside
    BY <1>1, <1>e DEF Ews!Begin, Ews!Kinds, Ews!Inside, IInv, Ews!TypeOK
  <2>2. /\ New(c, "http") \in Ews!CallRecords /\ New(c, "http").step = "wait"
        /\ PlacedIn(jar', New(c, "http"))
    BY <1>1, <1>n, <1>p DEF Ews!Kinds, Ews!Begin
  <2> QED
    BY <2>1, <2>2, <1>k, Outside
<1>2. CASE Ews!Acquire(k)
  <2> DEFINE r == [call[k] EXCEPT !.step = "send"]
  <2>1. call[k] \in Ews!CallRecords /\ call[k].step = "wait" /\ PlacedIn(jar, call[k])
    BY <1>2 DEF Ews!Acquire, Ews!At, IInv, Ews!TypeOK, CallsPlaced
  <2>2. /\ r \in Ews!CallRecords /\ r.kind = "http" /\ r.step = "send" /\ r.client = call[k].client
        /\ call' = [call EXCEPT ![k] = r]
    BY <2>1, <1>2 DEF Ews!Acquire, Ews!Goes, Ews!CallRecords, PlacedIn
  <2>3. r # None /\ PlacedIn(jar', r)
    BY <2>1, <2>2, <1>k DEF Distinct, PlacedIn
  <2>4. ~gate /\ gate' = TRUE /\ queue' \in Seq(Calls)
    BY <1>2 DEF Ews!Acquire, IInv, Ews!TypeOK
  <2> QED
    BY <2>2, <2>3, <2>4, <1>k, Enters
<1>3. CASE Ews!Cancel(k)
  <2>1. call[k] \in Ews!CallRecords /\ call[k] # None /\ PlacedIn(jar, call[k]) /\ gate' = gate
    BY <1>3 DEF Ews!Cancel, Ews!At, IInv, Ews!TypeOK, CallsPlaced
  <2>2. CASE Ews!At(k, "wait")
    <3>1. call' = [call EXCEPT ![k] = None] /\ k \notin Ews!Inside
      BY <2>2, <1>3 DEF Ews!Cancel, Ews!At, Ews!Inside
    <3>2. PICK i \in 1 .. Len(queue) :
              queue' = SubSeq(queue, 1, i - 1) \o SubSeq(queue, i + 1, Len(queue))
      BY <2>2, <1>3 DEF Ews!Cancel, Ews!At
    <3>3. SubSeq(queue, 1, i - 1) \in Seq(Calls) /\ SubSeq(queue, i + 1, Len(queue)) \in Seq(Calls)
      BY DEF IInv, Ews!TypeOK
    <3>4. queue' \in Seq(Calls)
      BY <3>2, <3>3
    <3> QED
      BY <3>1, <3>4, <2>1, <1>k, Outside DEF IInv, Ews!TypeOK
  <2>3. CASE (Ews!At(k, "send") \/ Ews!At(k, "server")) /\ Ews!Fails(k) /\ UNCHANGED queue
    <3> DEFINE r == [call[k] EXCEPT !.step = "done", !.answer = "failed", !.sent = FALSE]
    <3>1. /\ r \in Ews!CallRecords /\ r.kind = call[k].kind /\ r.step = "done"
          /\ r.client = call[k].client /\ call' = [call EXCEPT ![k] = r]
          /\ call[k].step # "wait"
      BY <2>1, <2>3 DEF Ews!Fails, Ews!At, Ews!CallRecords
    <3>2. PlacedIn(jar', r)
      BY <3>1, <2>1, <1>k DEF PlacedIn
    <3> QED
      BY <3>1, <3>2, <2>1, <2>3, <1>k, SamePlace DEF IInv, Ews!TypeOK
  <2> QED
    BY <2>2, <2>3, <1>3 DEF Ews!Cancel
<1>4. CASE Ews!Return(k)
  <2>1. /\ call[k] \in Ews!CallRecords /\ call[k] # None /\ PlacedIn(jar, call[k])
        /\ call[k].step = "done" /\ call[k].client \in Clients /\ call[k].kind \in Ews!Kinds
    BY <1>4 DEF Ews!Return, Ews!At, IInv, Ews!TypeOK, CallsPlaced, Ews!CallRecords
  <2>2. gate' = (gate /\ call[k].kind # "http") /\ gate' \in BOOLEAN
    BY <1>4 DEF Ews!Return, Ews!acquireRequestSlot
  <2>3. PICK r \in Ews!CallRecords \cup {None} :
            /\ call' = [call EXCEPT ![k] = r] /\ queue' \in Seq(Calls)
            /\ r # None => r.kind = "streaming" /\ PlacedIn(jar', r)
    <3>1. CASE Ews!Enter(k, call[k].client, "streaming")
      BY <3>1, <1>e, <1>n, <1>p, <2>1 DEF Ews!Kinds, PlacedIn
    <3>2. CASE call' = [call EXCEPT ![k] = None] /\ UNCHANGED queue
      BY <3>2 DEF IInv, Ews!TypeOK
    <3> QED
      BY <3>1, <3>2, <1>4 DEF Ews!Return
  <2>4. CASE call[k].kind = "http"
    <3>1. k \in Ews!Inside
      BY <2>1, <2>4 DEF Ews!Inside
    <3> QED
      BY <3>1, <2>2, <2>3, <2>4, <1>k, Leaves
  <2>5. CASE call[k].kind # "http"
    <3>1. k \notin Ews!Inside /\ gate' = gate
      BY <2>2, <2>5 DEF Ews!Inside, IInv, Ews!TypeOK
    <3> QED
      BY <3>1, <2>2, <2>3, <1>k, Outside
  <2> QED
    BY <2>4, <2>5
<1> QED
  BY <1>1, <1>2, <1>3, <1>4

LEMMA NewClients ==
    ASSUME Distinct, IInv, NEW c \in Clients, Ews!NewClient(c)
    PROVE  IInv'
<1> DEFINE js == [kind \in Ews!Kinds |-> session]
<1>1. js \in [Ews!Kinds -> Jars] /\ jar' = [jar EXCEPT ![c] = js]
  BY DEF Ews!NewClient, IInv, Ews!TypeOK
<1>2. js # None
  BY <1>1 DEF Distinct
<1> HIDE DEF js
<1>3. Kept
  BY <1>1, <1>2 DEF Kept, IInv, Ews!TypeOK
<1>4. CallsPlaced'
  BY <1>3 DEF Ews!NewClient, Kept, CallsPlaced, PlacedIn, IInv, Ews!TypeOK, Ews!CallRecords
<1>5. Ews!TypeOK' /\ Ews!OneAtATime'
  BY <1>3 DEF Ews!NewClient, Kept, IInv, Ews!TypeOK, Ews!OneAtATime, Ews!Inside
<1> QED
  BY <1>4, <1>5 DEF IInv

LEMMA Starts ==
    ASSUME Distinct, Ews!Init
    PROVE  IInv
<1>1. (CHOOSE j \in Jars : TRUE) \in Jars
  BY DEF Distinct
<1>2. Ews!TypeOK
  <2>1. mailbox \in SessionSettings /\ session \in Jars /\ cookie \subseteq Jars
    BY <1>1, Zenon DEF Ews!Init
  <2>2. /\ jar \in [Clients -> [Ews!Kinds -> Jars] \cup {None}]
        /\ call \in [Calls -> Ews!CallRecords \cup {None}]
    BY DEF Ews!Init
  <2>3. gate \in BOOLEAN
    BY Zenon DEF Ews!Init
  <2>4. queue \in Seq(Calls)
    <3>1. queue = <<>>
      BY DEF Ews!Init
    <3> QED
      BY <3>1
  <2> QED
    BY <2>1, <2>2, <2>3, <2>4 DEF Ews!TypeOK
<1>3. \A k \in Calls : call[k] = None
  BY DEF Ews!Init
<1> QED
  BY <1>2, <1>3 DEF Ews!Init, IInv, Ews!OneAtATime, Ews!Inside, CallsPlaced

LEMMA Steps ==
    ASSUME Distinct, IInv, [Ews!Next]_(Ews!vars)
    PROVE  IInv'
<1>1. CASE Ews!Next
  BY <1>1, Under, Around, NewClients DEF Ews!Next
<1>2. CASE UNCHANGED Ews!vars
  BY <1>2 DEF Ews!vars, IInv, Ews!TypeOK, Ews!OneAtATime, Ews!Inside, CallsPlaced, PlacedIn
<1> QED
  BY <1>1, <1>2

\* One request of a mailbox at a time is past the gate, whatever fails, is cancelled or is tried
\* again (internal/ews/ews_03.go, callWithHTTPClient and acquireRequestSlot).
THEOREM OneRequestAtATime ==
    ASSUME Distinct
    PROVE  Ews!Spec => []OneAtATime
<1>1. IInv => OneAtATime
  BY DEF IInv, OneAtATime
<1> QED
  BY <1>1, Starts, Steps, PTL DEF Ews!Spec

---------------------------------------------------------------------------
(* The second attempt.                                                         *)

\* A request of a mailbox that nobody watches. It waits for its first attempt; from the reset to
\* the sending of the second one there are no cookies in the jar it will use.
Shaken(jars, cookies, r) ==
    /\ r.kind = "http"
    /\ r.step = "wait" => r.attempt = 0
    /\ r.step = "peer" \/ (r.step = "send" /\ r.attempt = 1) => jars[r.client]["http"] \notin cookies
    /\ r.step = "server" /\ r.attempt = 1 => ~r.sent

Handshakes == mailbox.watch = {} => \A k \in Calls : call[k] # None => Shaken(jar, cookie, call[k])

\* A step of one call keeps those of the others: if it changes a jar then they wait.
LEMMA OthersShaken ==
    ASSUME IInv, Handshakes, mailbox.watch = {}, NEW k \in Calls, NEW r \in Ews!CallRecords \cup {None},
           call' = [call EXCEPT ![k] = r], r # None => Shaken(jar', cookie', r),
           UNCHANGED <<jar, cookie>> \/ k \in Ews!Inside
    PROVE  Handshakes'
<1>1. ASSUME NEW l \in Calls, call'[l] # None
      PROVE  Shaken(jar', cookie', call'[l])
  <2>1. CASE l = k
    BY <2>1, <1>1 DEF IInv, Ews!TypeOK
  <2>2. CASE l # k
    <3>1. call'[l] = call[l] /\ call[l] # None /\ Shaken(jar, cookie, call[l])
      BY <2>2, <1>1 DEF IInv, Ews!TypeOK, Handshakes
    <3>2. CASE UNCHANGED <<jar, cookie>>
      BY <3>1, <3>2
    <3>3. CASE k \in Ews!Inside
      <4>1. l \notin Ews!Inside
        BY <3>3, <2>2 DEF IInv, Ews!OneAtATime
      <4>2. call[l].step = "wait"
        BY <4>1, <3>1 DEF Ews!Inside, Shaken
      <4> QED
        BY <4>2, <3>1 DEF Shaken
    <3> QED
      BY <3>2, <3>3
  <2> QED
    BY <2>1, <2>2
<1> QED
  BY <1>1 DEF Handshakes

LEMMA UnderShaken ==
    ASSUME Distinct, IInv, Handshakes, mailbox.watch = {}, NEW k \in Calls,
           Ews!Send(k) \/ Ews!Receive(k) \/ Ews!Serve(k) \/ Ews!resetSessionCookies(k)
           \/ Ews!resetPeer(k)
    PROVE  Handshakes'
<1> DEFINE r == call'[k]
<1>t. /\ call[k] \in Ews!CallRecords /\ call[k] # None /\ call[k].client \in Clients
      /\ Shaken(jar, cookie, call[k]) /\ PlacedIn(jar, call[k]) /\ call[k].kind = "http"
  BY DEF Ews!Send, Ews!Receive, Ews!Serve, Ews!resetSessionCookies, Ews!resetPeer, Ews!At, IInv,
     Ews!TypeOK, Ews!CallRecords, CallsPlaced, Handshakes, Shaken
<1>j. jar[call[k].client] \in [Ews!Kinds -> Jars]
  BY <1>t DEF IInv, Ews!TypeOK, PlacedIn
<1>i. k \in Ews!Inside
  BY <1>t DEF Ews!Send, Ews!Receive, Ews!Serve, Ews!resetSessionCookies, Ews!resetPeer, Ews!At,
     Ews!Inside
<1>r. r \in Ews!CallRecords \cup {None} /\ call' = [call EXCEPT ![k] = r]
  <2>1. call' \in [Calls -> Ews!CallRecords \cup {None}]
    BY Steps DEF Ews!Next, IInv, Ews!TypeOK
  <2> QED
    BY <2>1 DEF Ews!Send, Ews!Receive, Ews!Serve, Ews!Fails, Ews!resetSessionCookies,
       Ews!resetPeer, Ews!Retries, IInv, Ews!TypeOK
<1>s. SUFFICES Shaken(jar', cookie', r)
  BY <1>r, <1>i, OthersShaken
<1>1. CASE Ews!Send(k)
  <2>0. PICK b \in BOOLEAN : /\ call' = [call EXCEPT ![k].step = "server", ![k].sent = b]
                             /\ b = (jar[call[k].client][call[k].kind] \in cookie)
    <3>1. (jar[call[k].client][call[k].kind] \in cookie) \in BOOLEAN
      OBVIOUS
    <3> QED
      BY <3>1, <1>1, Zenon DEF Ews!Send
  <2>1. /\ r.step = "server" /\ r.kind = "http" /\ r.attempt = call[k].attempt /\ r.sent = b
        /\ call[k].step = "send"
    BY <2>0, <1>1, <1>t DEF Ews!Send, Ews!At, Ews!CallRecords, IInv, Ews!TypeOK
  <2>2. call[k].attempt = 1 => ~b
    BY <2>0, <2>1, <1>t DEF Shaken
  <2> QED
    BY <2>1, <2>2 DEF Shaken
<1>2. CASE Ews!Receive(k)
  <2>1. r.kind = "http" /\ r.step \in {"reset", "done"}
    BY <1>2, <1>t DEF Ews!Receive, Ews!CallRecords, IInv, Ews!TypeOK
  <2> QED
    BY <2>1 DEF Shaken
<1>3. CASE Ews!Serve(k)
  <2>1. r.kind = "http" /\ r.step \in {"answered", "done"}
    BY <1>3, <1>t DEF Ews!Serve, Ews!Fails, Ews!CallRecords, IInv, Ews!TypeOK
  <2> QED
    BY <2>1 DEF Shaken
<1>4. CASE Ews!resetSessionCookies(k)
  <2>1. r.kind = "http" /\ r.step = "peer" /\ r.client = call[k].client
    BY <1>4, <1>t DEF Ews!resetSessionCookies, Ews!CallRecords, IInv, Ews!TypeOK
  <2>2. jar'[call[k].client]["http"] = session'
    <3> DEFINE c == call[k].client
               js == [jar[c] EXCEPT !["http"] = session']
    <3>1. jar' = [jar EXCEPT ![c] = js] /\ js["http"] = session'
      BY <1>4, <1>j, <1>t DEF Ews!resetSessionCookies, Ews!Kinds
    <3> HIDE DEF js
    <3> QED
      BY <3>1, <1>t DEF IInv, Ews!TypeOK
  <2>3. session' \notin cookie'
    BY <1>4 DEF Ews!resetSessionCookies
  <2> QED
    BY <2>1, <2>2, <2>3 DEF Shaken
<1>5. CASE Ews!resetPeer(k)
  <2>1. /\ r.kind = "http" /\ r.step = "send" /\ r.client = call[k].client
        /\ call[k].step = "peer" /\ cookie' = cookie
    BY <1>5, <1>t DEF Ews!resetPeer, Ews!Retries, Ews!At, Ews!CallRecords, IInv, Ews!TypeOK
  <2>2. jar'[call[k].client]["http"] = jar[call[k].client]["http"]
    <3> DEFINE c == call[k].client
               js == [jar[c] EXCEPT !["streaming"] = call[k].new]
    <3>1. jar' = [jar EXCEPT ![c] = js] /\ js["http"] = jar[c]["http"]
      BY <1>5, <1>j, <1>t DEF Ews!resetPeer, Ews!Other, Ews!Kinds
    <3> HIDE DEF js
    <3> QED
      BY <3>1, <1>t DEF IInv, Ews!TypeOK
  <2> QED
    BY <2>1, <2>2, <1>t DEF Shaken
<1> QED
  BY <1>1, <1>2, <1>3, <1>4, <1>5

LEMMA AroundShaken ==
    ASSUME Distinct, IInv, Handshakes, mailbox.watch = {}, NEW k \in Calls,
           (\E c \in Clients : Ews!Begin(k, c)) \/ Ews!Acquire(k) \/ Ews!Cancel(k) \/ Ews!Return(k)
    PROVE  Handshakes'
<1> DEFINE r == call'[k]
<1>u. UNCHANGED <<jar, cookie>>
  BY DEF Ews!Begin, Ews!Acquire, Ews!Cancel, Ews!Return
<1>t. call[k] # None => call[k] \in Ews!CallRecords /\ Shaken(jar, cookie, call[k])
  BY DEF IInv, Ews!TypeOK, Handshakes
<1>s. ASSUME r \in Ews!CallRecords \cup {None}, call' = [call EXCEPT ![k] = r],
             r # None => Shaken(jar, cookie, r)
      PROVE  Handshakes'
  BY <1>s, <1>u, OthersShaken
<1>1. ASSUME NEW c \in Clients, Ews!Begin(k, c)
      PROVE  Handshakes'
  <2>1. call' = [call EXCEPT ![k] = Ews!Request(c, "http", "wait")]
    BY <1>1 DEF Ews!Begin, Ews!Enter, Ews!acquireRequestSlot
  <2>2. r = Ews!Request(c, "http", "wait") /\ r \in Ews!CallRecords
    BY <2>1 DEF IInv, Ews!TypeOK, Ews!Request, Ews!CallRecords, Ews!Kinds
  <2>3. Shaken(jar, cookie, r)
    BY <2>2 DEF Ews!Request, Shaken
  <2> QED
    BY <2>1, <2>2, <2>3, <1>s
<1>2. CASE Ews!Acquire(k)
  <2>1. call[k].step = "wait" /\ call[k] # None /\ call' = [call EXCEPT ![k].step = "send"]
    BY <1>2 DEF Ews!Acquire, Ews!At, Ews!Goes
  <2>2. /\ r \in Ews!CallRecords /\ r.step = "send" /\ r.kind = "http" /\ r.attempt = 0
        /\ call' = [call EXCEPT ![k] = r]
    BY <2>1, <1>t DEF IInv, Ews!TypeOK, Ews!CallRecords, Shaken
  <2> QED
    BY <2>2, <1>s DEF Shaken
<1>3. CASE Ews!Cancel(k)
  <2>1. CASE call' = [call EXCEPT ![k] = None]
    BY <2>1, <1>s DEF IInv, Ews!TypeOK
  <2>2. CASE (Ews!At(k, "send") \/ Ews!At(k, "server")) /\ Ews!Fails(k)
    <3>1. /\ r \in Ews!CallRecords /\ r.step = "done" /\ r.kind = "http"
          /\ call' = [call EXCEPT ![k] = r]
      BY <2>2, <1>t DEF Ews!At, Ews!Fails, IInv, Ews!TypeOK, Ews!CallRecords, Shaken
    <3> QED
      BY <3>1, <1>s DEF Shaken
  <2> QED
    BY <2>1, <2>2, <1>3 DEF Ews!Cancel
<1>4. CASE Ews!Return(k)
  <2>1. call' = [call EXCEPT ![k] = None]
    BY <1>4 DEF Ews!Return
  <2> QED
    BY <2>1, <1>s DEF IInv, Ews!TypeOK
<1> QED
  BY <1>1, <1>2, <1>3, <1>4

LEMMA NewClientsShaken ==
    ASSUME Distinct, IInv, Handshakes, mailbox.watch = {}, NEW c \in Clients, Ews!NewClient(c)
    PROVE  Handshakes'
<1> DEFINE js == [kind \in Ews!Kinds |-> session]
<1>1. call' = call /\ cookie' = cookie /\ jar[c] = None /\ jar' = [jar EXCEPT ![c] = js]
  BY DEF Ews!NewClient
<1> HIDE DEF js
<1>2. ASSUME NEW k \in Calls, call[k] # None
      PROVE  Shaken(jar', cookie', call[k])
  <2>1. /\ call[k].client \in Clients /\ jar[call[k].client] # None
        /\ Shaken(jar, cookie, call[k])
    BY <1>2 DEF IInv, Ews!TypeOK, Ews!CallRecords, CallsPlaced, PlacedIn, Handshakes
  <2>2. jar'[call[k].client] = jar[call[k].client]
    BY <2>1, <1>1 DEF IInv, Ews!TypeOK
  <2> QED
    BY <2>1, <2>2, <1>1 DEF Shaken
<1> QED
  BY <1>1, <1>2 DEF Handshakes

\* The second attempt is sent without the cookies of the session that the first one had: nothing
\* fills the new jar before, as long as nobody watches the mailbox (internal/ews/ews_03.go,
\* resetSessionCookies).
THEOREM RetriesAreHandshakes ==
    ASSUME Distinct
    PROVE  Ews!Spec => []RetriesFresh
<1>1. Ews!Init => IInv /\ Handshakes
  BY Starts DEF Ews!Init, Handshakes
<1>2. ASSUME IInv /\ Handshakes, [Ews!Next]_(Ews!vars)
      PROVE  (IInv /\ Handshakes)'
  <2>1. IInv'
    BY <1>2, Steps
  <2>2. mailbox' = mailbox
    BY <1>2 DEF Ews!Next, Ews!vars, Ews!NewClient, Ews!Begin, Ews!Acquire, Ews!Cancel, Ews!Send,
       Ews!Receive, Ews!Serve, Ews!resetSessionCookies, Ews!resetPeer, Ews!Return
  <2>3. CASE mailbox.watch # {}
    BY <2>1, <2>2, <2>3 DEF Handshakes
  <2>4. CASE mailbox.watch = {} /\ Ews!Next
    BY <2>1, <2>4, <1>2, UnderShaken, AroundShaken, NewClientsShaken DEF Ews!Next
  <2>5. CASE UNCHANGED Ews!vars
    BY <2>1, <2>5, <1>2 DEF Ews!vars, Handshakes
  <2> QED
    BY <2>1, <2>3, <2>4, <2>5, <1>2
<1>3. Handshakes => RetriesFresh
  BY DEF Handshakes, RetriesFresh, Ews!RetriesFresh, Shaken, Ews!At
<1> QED
  BY <1>1, <1>2, <1>3, PTL DEF Ews!Spec

---------------------------------------------------------------------------
(* Both.                                                                       *)

\* What is proved of the trigger and of the clients by themselves is true of a machine that has
\* both running.
THEOREM ProgramsApart == WatcherSpec => Spec /\ Ews!Spec
<1>1. WatcherInit => Init /\ Ews!Init
  BY DEF WatcherInit
<1>2. [WatcherNext]_watcherVars => [Next]_vars /\ [Ews!Next]_(Ews!vars)
  BY DEF WatcherNext, watcherVars, sessionVars, vars, Ews!vars
<1> QED
  BY <1>1, <1>2, PTL DEF WatcherSpec, Spec, Ews!Spec

=============================================================================
