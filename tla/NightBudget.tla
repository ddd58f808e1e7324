----------------------------- MODULE NightBudget -----------------------------
(* The budget of paid model calls in the brain nights: internal/brain/ledger,  *)
(* a file with a line per call in the vault's git repository, and              *)
(* internal/brain/routing, whose Pick asks the ledger's Guard before it hands  *)
(* a stage a paid model.  Every process on the vault (night, sleep, bench) has *)
(* a router and a session of its own; they share the file only.                *)
EXTENDS Naturals, Sequences, FiniteSets, FiniteSetsExt

CONSTANTS Processes,
          Settings,      \* the circumstances the nights run under
          MaxCalls,      \* paid calls per night; 0 turns the gate off
          NightTokens,   \* tokens that the weekly share of one night stands for
          Nights, Week,  \* the rolling week: its length, and the nights' shares it may hold
          CallTokens,    \* what a call can use
          MaxTime, MaxLedger, MaxPicks,   \* bounds on the clock, the file and each counter
          None

Times == 0 .. MaxTime

\* processes: those on the vault; pool: the models of one stage, each by its provider;
\* fail: whether a paid call can end without an answer; rollback: whether a command on the
\* vault can fail and be rolled back; ledger: a bound on the file.
SettingRecords == [processes : SUBSET Processes, pool : Seq({"openai", "local"}) \ {<<>>},
                   fail : BOOLEAN, rollback : BOOLEAN, ledger : 0 .. MaxLedger]

VARIABLES setting,    \* one of the Settings, the same all the time
          now,
          ledger,     \* the paid calls in the file, oldest first
          committed,  \* how many of them the last commit holds, None while no command runs
          proc        \* proc[p]: the session of p, kept when it is over, and its router

vars == <<setting, now, ledger, committed, proc>>

Entries == [at : Times, tokens : CallTokens]
Pool == setting.pool
Indices == DOMAIN Pool

\* call: the paid call in flight, by its place in the pool; made: paid calls of the session.
Sessions == [start : Times \cup {None}, live : BOOLEAN, rr : Indices, call : Indices \cup {None},
             made : Nat, picks : [Indices -> 0 .. MaxPicks]]

TypeOK == /\ setting \in Settings /\ now \in Times
          /\ ledger \in Seq(Entries) /\ Len(ledger) <= MaxLedger
          /\ committed \in 0 .. Len(ledger) \cup {None}
          /\ proc \in [Processes -> Sessions]
          /\ \A p \in Processes : proc[p].call # None => proc[p].live

NoSession == [start |-> None, live |-> FALSE, rr |-> 1, call |-> None, made |-> 0,
              picks |-> [i \in Indices |-> 0]]

Init == /\ setting \in Settings /\ now = 0 /\ ledger = <<>> /\ committed = None
        /\ proc = [p \in Processes |-> NoSession]

-----------------------------------------------------------------------------
\* scan: what the entries of the file add up to, each with its amount.
Total(amount) == LET sum[k \in 0 .. Len(amount)] == IF k = 0 THEN 0 ELSE sum[k - 1] + amount[k]
                 IN  sum[Len(amount)]

\* The calls since a time, and the tokens that they used.
CountCalls(t) == Total([i \in DOMAIN ledger |-> IF ledger[i].at >= t THEN 1 ELSE 0])
Tokens(t) == Total([i \in DOMAIN ledger |-> IF ledger[i].at >= t THEN ledger[i].tokens ELSE 0])
WeekStart == IF now > Week THEN now - Week ELSE 0

\* Faulty variant: no gate on the week.
GuardNight(start) == /\ MaxCalls > 0 => CountCalls(start) < MaxCalls
                     /\ Tokens(start) < NightTokens

\* Guard lets a session's call through.
Guard(start) == /\ MaxCalls > 0 => CountCalls(start) < MaxCalls
                /\ Tokens(start) < NightTokens
                /\ Tokens(WeekStart) < Nights * NightTokens

\* A process makes one call at a time.
Session(p) == proc[p].live /\ proc[p].call = None

\* A local model is never saturated.
Eligible(p) == {i \in Indices : Pool[i] = "openai" => Guard(proc[p].start)}

\* How far i is from the place where the round-robin of p stands.
Distance(p, i) == (i + Len(Pool) - proc[p].rr) % Len(Pool)

\* Faulty variant: the counter stays at the model that was picked.
AfterSame(i) == i

After(i) == (i % Len(Pool)) + 1

StartSession(p) == [NoSession EXCEPT !.start = now, !.live = TRUE]

\* A process starts its session: brain night, brain sleep, brain bench.
SetSessionStart(p) == /\ ~proc[p].live
                      /\ proc' = [proc EXCEPT ![p] = StartSession(p)]
                      /\ UNCHANGED <<setting, now, ledger, committed>>

EndSession(p) == /\ Session(p)
                 /\ proc' = [proc EXCEPT ![p].live = FALSE]
                 /\ UNCHANGED <<setting, now, ledger, committed>>

\* roundRobin: the next model that is not saturated; if all are, the local fallback, which
\* leaves no trace here.
Pick(p) ==
    /\ Session(p)
    /\ \E i \in Eligible(p) :
          /\ \A j \in Eligible(p) : Distance(p, i) <= Distance(p, j)
          /\ proc[p].picks[i] < MaxPicks
          /\ proc' = [proc EXCEPT ![p].rr = After(i),
                                  ![p].picks[i] = @ + 1,
                                  ![p].call = IF Pool[i] = "openai" THEN i ELSE None,
                                  ![p].made = IF Pool[i] = "openai" THEN @ + 1 ELSE @]
    /\ UNCHANGED <<setting, now, ledger, committed>>

\* The call is answered, and the process appends its entry.
AppendEntry(p) ==
    /\ proc[p].call # None /\ Len(ledger) < setting.ledger
    /\ \E n \in CallTokens : ledger' = Append(ledger, [at |-> now, tokens |-> n])
    /\ proc' = [proc EXCEPT ![p].call = None]
    /\ UNCHANGED <<setting, now, committed>>

\* The call fails, or its answer is empty: the caller returns before it appends.
CallFails(p) == /\ setting.fail /\ proc[p].call # None
                /\ proc' = [proc EXCEPT ![p].call = None]
                /\ UNCHANGED <<setting, now, ledger, committed>>

\* WithGitCommit around a command of some process: a commit before, and after it a commit
\* or a hard reset.
PrepareBrainGit == /\ setting.rollback /\ committed = None
                   /\ committed' = Len(ledger)
                   /\ UNCHANGED <<setting, now, ledger, proc>>

CommitBrainGit == /\ committed # None
                  /\ committed' = None
                  /\ UNCHANGED <<setting, now, ledger, proc>>

RollbackBrainGit == /\ committed # None
                    /\ ledger' = SubSeq(ledger, 1, committed) /\ committed' = None
                    /\ UNCHANGED <<setting, now, proc>>

Clock == /\ now < MaxTime /\ now' = now + 1
         /\ UNCHANGED <<setting, ledger, committed, proc>>

Next == \/ \E p \in setting.processes : \/ SetSessionStart(p) \/ EndSession(p) \/ Pick(p)
                                \/ AppendEntry(p) \/ CallFails(p)
        \/ PrepareBrainGit \/ CommitBrainGit \/ RollbackBrainGit \/ Clock

Spec == Init /\ [][Next]_vars

-----------------------------------------------------------------------------
\* Every call that is made has its entry in the file, or is in flight.
Accounted == ~setting.fail /\ ~setting.rollback

Newest == Max({0} \cup {proc[p].start : p \in {q \in Processes : proc[q].start # None}})
Crowd == Cardinality(setting.processes)
Largest == Max(CallTokens)

\* No session makes more paid calls than a night may, whatever the other processes of the
\* vault record, as long as every call is answered and nothing is rolled back. The gate is asked
\* before a call and the call recorded after it, so processes that run at once overshoot what
\* the vault may use, but by no more than the calls they have in flight: in number and in tokens
\* since the newest session began, and in tokens over the rolling week.
OvershootBounded ==
    /\ Accounted /\ MaxCalls > 0 => \A p \in Processes : proc[p].made <= MaxCalls
    /\ MaxCalls > 0 => CountCalls(Newest) < MaxCalls + Crowd
    /\ Tokens(Newest) < NightTokens + Crowd * Largest
    /\ Tokens(WeekStart) < Nights * NightTokens + Crowd * Largest

\* The even split: however the paid provider saturates and recovers, a paid model is never
\* more than one pick ahead of a local model of the same pool.
EvenSplit == \A p \in Processes, i, j \in Indices :
                Pool[j] = "local" => proc[p].picks[i] <= proc[p].picks[j] + 1

=============================================================================
