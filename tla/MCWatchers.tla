----------------------------- MODULE MCWatchers -----------------------------
(* Watchers with two clients and two calls, one ticker and two events.         *)
EXTENDS Watchers

CONSTANTS c1, c2, k1, k2, t1, e1, e2

\* Two clients of one mailbox, whose contexts are cancelled; a client that watches it, and calls.
Peers == [clients |-> {c1, c2}, calls |-> {k1, k2}, watch |-> {}, cancels |-> TRUE]
Watching == [clients |-> {c1}, calls |-> {k1, k2}, watch |-> {k1}, cancels |-> FALSE]

TwoClients == {c1, c2}
TwoCalls == {k1, k2}
AllSessions == {Peers, Watching}

\* Slow and failing Ticks; Ticks as far apart as the window is long; a daemon that restarts.
Slow == [window |-> 2, retention |-> 2, interval |-> 1, length |-> 2, tickers |-> {t1},
         events |-> {e1}, outcomes |-> {"ok", "failed"}, restarts |-> FALSE, slow |-> TRUE,
         until |-> 7]
Far == [window |-> 2, retention |-> 2, interval |-> 2, length |-> 1, tickers |-> {t1},
        events |-> {e1, e2}, outcomes |-> {"ok"}, restarts |-> FALSE, slow |-> FALSE,
        until |-> 5]
Restarting == [Far EXCEPT !.window = 3, !.retention = 4, !.interval = 1, !.events = {e1},
                          !.restarts = TRUE]

OneTicker == {t1}
TwoEvents == {e1, e2}
AllBriefs == {Slow, Far, Restarting}

\* While one program runs, the other is at rest in one of its settings.
MCInit == /\ WatcherInit
          /\ \/ part = "session" /\ setting = Far
             \/ part = "briefs" /\ mailbox = Peers

MCSpec == MCInit /\ [][WatcherNext]_watcherVars /\ Ews!Fairness

=============================================================================
