----------------------------- MODULE BriefTrigger -----------------------------
(* The pre-meeting brief (internal/calendarbrief/trigger.go, run by            *)
(* `sloptools brief watch`): a ticker lists the calendar's next window and     *)
(* emits one notification for every event with a known participant.  What was  *)
(* emitted is remembered in memory, under a mutex that is held to look an      *)
(* event up and to mark it, not in between.                                    *)
EXTENDS Naturals

CONSTANTS Tickers,     \* goroutines calling Tick; the daemon has one
          Events,      \* calendar event ids that pass shouldSkip and have a known participant
          Settings,    \* the circumstances the trigger runs under
          MaxTime,     \* bound: the clock runs from 0 to MaxTime
          None

Times == 0 .. MaxTime
Outcomes == {"ok", "failed", "unanswered"}

\* window, retention, interval: of the trigger, in units of the clock; length: how long an
\* event lasts; tickers, events: those that are there; outcomes: what Emit can do;
\* restarts: whether the daemon can restart; slow: whether time can pass while a Tick runs;
\* until: a bound on the clock.
SettingRecords == [window : Nat, retention : Nat, interval : Nat \ {0}, length : Nat \ {0},
                   tickers : SUBSET Tickers, events : SUBSET Events, outcomes : SUBSET Outcomes,
                   restarts : BOOLEAN, slow : BOOLEAN, until : Times]

VARIABLES setting,  \* one of the Settings, the same all the time
          now,
          start,    \* start[e]: when e starts in the calendar, or None
          since,    \* since[e]: when the calendar got that start
          emitted,  \* emitted[e]: the start e was emitted with, or None
          tick,     \* tick[t]: the Tick t is in, or None
          due,      \* due[t]: when t's next Tick is due, or None before its first
          sent      \* sent[e][s]: notifications of e at s that arrived, up to 2

vars == <<setting, now, start, since, emitted, tick, due, sent>>

Window == setting.window
Retention == setting.retention
Interval == setting.interval

\* began: the clock when the Tick read it; todo: listed events; ev: the one that was looked
\* up, and marked after it is emitted.
TickRecords == [began : Times, todo : [Events -> Times \cup {None}],
                ev : Events \cup {None}, mark : BOOLEAN]

TypeOK == /\ setting \in Settings /\ now \in Times
          /\ start \in [Events -> Times \cup {None}] /\ since \in [Events -> Times]
          /\ emitted \in [Events -> Times \cup {None}]
          /\ tick \in [Tickers -> TickRecords \cup {None}]
          /\ due \in [Tickers -> Nat \cup {None}]
          /\ sent \in [Events -> [Times -> 0 .. 2]]
          /\ \A t \in Tickers : tick[t] # None /\ tick[t].ev # None => tick[t].todo[tick[t].ev] # None

Init == /\ setting \in Settings /\ now = 0
        /\ start = [e \in Events |-> None] /\ since = [e \in Events |-> 0]
        /\ emitted = [e \in Events |-> None]
        /\ tick = [t \in Tickers |-> None] /\ due = [t \in Tickers |-> None]
        /\ sent = [e \in Events |-> [s \in Times |-> 0]]

Due(t) == due[t] # None => due[t] <= now

Idle(t) == tick[t] = None

\* Lister, over the half-open window: an event that is running is listed too.
InWindow(e) == start[e] # None /\ start[e] < now + Window /\ start[e] + setting.length > now

-----------------------------------------------------------------------------
\* A goroutine starts its Tick when it is due; a failing List ends it.
Tick(t) ==
    /\ Idle(t) /\ Due(t)
    /\ tick' = [tick EXCEPT ![t] =
                  [began |-> now, ev |-> None, mark |-> FALSE,
                   todo |-> [e \in Events |-> IF InWindow(e) THEN start[e] ELSE None]]]
    /\ UNCHANGED <<setting, now, start, since, emitted, due, sent>>

\* Faulty variant: ticks are counted from the end of the last one, with an interval to spare.
NextDueLate(t) == now + Interval + 1

\* time.Ticker starts after the first Tick and drops the ticks a slow Tick misses, but one.
NextDue(t) == IF due[t] = None THEN now + Interval
              ELSE due[t] + Interval * (LET missed == (now - due[t]) \div Interval
                                        IN  IF missed = 0 THEN 1 ELSE missed)

Finishes(t) == /\ tick' = [tick EXCEPT ![t] = None]
               /\ due' = [due EXCEPT ![t] = NextDue(t)]

ListFails(t) == /\ "failed" \in setting.outcomes /\ Idle(t) /\ Due(t)
                /\ Finishes(t)
                /\ UNCHANGED <<setting, now, start, since, emitted, sent>>

Working(t) == ~Idle(t) /\ tick[t].ev = None

\* processEvent: e was not emitted, and its briefs are collected next.
alreadyEmitted(t, e) ==
    /\ Working(t) /\ tick[t].todo[e] # None
    /\ tick' = IF emitted[e] # None THEN [tick EXCEPT ![t].todo[e] = None]
               ELSE [tick EXCEPT ![t].ev = e]
    /\ UNCHANGED <<setting, now, start, since, emitted, due, sent>>

More(n) == IF n = 2 THEN 2 ELSE n + 1

\* Emit: it is delivered, it fails, or it is delivered and the answer is lost.
Emit(t) ==
    LET e == tick[t].ev
        s == tick[t].todo[e]
    IN  /\ ~Idle(t) /\ tick[t].ev # None /\ ~tick[t].mark
        /\ \E outcome \in setting.outcomes :
              /\ sent' = IF outcome = "failed" THEN sent ELSE [sent EXCEPT ![e][s] = More(@)]
              /\ tick' = IF outcome = "ok" THEN [tick EXCEPT ![t].mark = TRUE]
                         ELSE [tick EXCEPT ![t].todo[e] = None, ![t].ev = None]
        /\ UNCHANGED <<setting, now, start, since, emitted, due>>

\* Resolve or Build fails: the event is left to the next Tick.
collectBriefsFails(t) ==
    /\ "failed" \in setting.outcomes /\ ~Idle(t) /\ tick[t].ev # None /\ ~tick[t].mark
    /\ tick' = [tick EXCEPT ![t].todo[tick[t].ev] = None, ![t].ev = None]
    /\ UNCHANGED <<setting, now, start, since, emitted, due, sent>>

\* Faulty variant: the mark does not keep the event's start.
markZero(t) ==
    LET e == tick[t].ev
    IN  /\ ~Idle(t) /\ tick[t].mark
        /\ emitted' = [emitted EXCEPT ![e] = 0]
        /\ tick' = [tick EXCEPT ![t].todo[e] = None, ![t].ev = None, ![t].mark = FALSE]
        /\ UNCHANGED <<setting, now, start, since, due, sent>>

markEmitted(t) ==
    LET e == tick[t].ev
    IN  /\ ~Idle(t) /\ tick[t].mark
        /\ emitted' = [emitted EXCEPT ![e] = tick[t].todo[e]]
        /\ tick' = [tick EXCEPT ![t].todo[e] = None, ![t].ev = None, ![t].mark = FALSE]
        /\ UNCHANGED <<setting, now, start, since, due, sent>>

\* evict, with the clock the Tick began with.
evict(t) ==
    /\ Working(t) /\ \A e \in Events : tick[t].todo[e] = None
    /\ emitted' = [e \in Events |-> IF emitted[e] # None /\ emitted[e] + Retention < tick[t].began
                                    THEN None ELSE emitted[e]]
    /\ Finishes(t)
    /\ UNCHANGED <<setting, now, start, since, sent>>

\* The daemon is stopped and started: only the calendar is still known.
Restart == /\ setting.restarts
           /\ emitted' = [e \in Events |-> None]
           /\ tick' = [t \in Tickers |-> None] /\ due' = [t \in Tickers |-> None]
           /\ UNCHANGED <<setting, now, start, since, sent>>

-----------------------------------------------------------------------------
\* Someone schedules, moves or cancels an event.
Schedule(e) == /\ \E s \in {u \in Times : u > now} \cup {None} :
                     s # start[e] /\ start' = [start EXCEPT ![e] = s]
               /\ since' = [since EXCEPT ![e] = now]
               /\ UNCHANGED <<setting, now, emitted, tick, due, sent>>

\* The clock does not run past a Tick that is due, nor past one that runs, if it is fast.
Clock == /\ now < setting.until /\ now' = now + 1
         /\ \A t \in setting.tickers : IF Idle(t) THEN ~Due(t) ELSE setting.slow
         /\ UNCHANGED <<setting, start, since, emitted, tick, due, sent>>

Step(t) == \/ Tick(t) \/ ListFails(t) \/ Emit(t) \/ collectBriefsFails(t) \/ markEmitted(t)
           \/ evict(t) \/ \E e \in Events : alreadyEmitted(t, e)

Next == \/ \E t \in setting.tickers : Step(t)
        \/ \E e \in setting.events : Schedule(e)
        \/ Restart \/ Clock

Spec == Init /\ [][Next]_vars

-----------------------------------------------------------------------------
\* No event is announced twice for one start.
AnnouncedOnce == \A e \in Events, s \in Times : sent[e][s] <= 1

\* One goroutine that is not restarted, Emit calls that report what they did, events no
\* longer than the retention.
Steady == /\ \A t, u \in setting.tickers : t = u
          /\ ~setting.restarts /\ "unanswered" \notin setting.outcomes
          /\ setting.length <= Retention

\* Under steady circumstances no event is announced twice for one start, however it is moved
\* and moved back, and however slow and however often failing the Ticks are.
OncePerStart == Steady => AnnouncedOnce

\* Fast Ticks that succeed, no further apart than the window is long.
Prompt == /\ setting.tickers # {} /\ ~setting.slow /\ setting.outcomes = {"ok"}
          /\ Interval <= Window

\* Under prompt circumstances an event that was in the calendar for an interval before it
\* starts has been announced when it has started; a restart delays nothing.
NoEventMissed ==
    Prompt => \A e \in Events :
       (start[e] # None /\ now > start[e] /\ since[e] + Interval <= start[e]) =>
          \E s \in Times : sent[e][s] > 0

=============================================================================
