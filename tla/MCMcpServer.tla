----------------------------- MODULE MCMcpServer ----------------------------
(* McpServer with two messages, two passes of the sync and two mail actions.   *)
EXTENDS McpServer

CONSTANTS s1, s2, a1, a2, m1, m2

\* One at a time, with two messages per action.
Careful == [syncers |-> {s1}, actors |-> {a1}, messages |-> {m1, m2}, batch |-> 2, versions |-> 2,
            kinds |-> {"archive", "move_to_inbox"}, overlap |-> FALSE, owner |-> FALSE,
            deletes |-> FALSE, cleanup |-> FALSE, restarts |-> FALSE, outcomes |-> {"ok"}]
\* Bindings get stale, items are deleted.
Cleaning == [Careful EXCEPT !.messages = {m1}, !.batch = 1, !.cleanup = TRUE, !.deletes = TRUE]
\* A pass and an action at once, which fail and stop.
Rough == [Careful EXCEPT !.overlap = TRUE, !.restarts = TRUE, !.outcomes = {"ok", "failed"},
                         !.versions = 1]
\* A message that its owner moves too, stale bindings, answers that are lost.
Aging == [Rough EXCEPT !.messages = {m1}, !.batch = 1, !.cleanup = TRUE, !.owner = TRUE,
                       !.kinds = {"archive", "move_to_inbox", "delete", "recover"},
                       !.versions = 2, !.outcomes = {"ok", "failed", "unanswered"}]
\* Two passes at once, and two actions.
Crowded == [Careful EXCEPT !.syncers = {s1, s2}, !.actors = {a1, a2}, !.messages = {m1},
                           !.batch = 1, !.versions = 1, !.overlap = TRUE]
\* An action of two messages, which their owner moves too.
Moving == [Careful EXCEPT !.syncers = {}, !.owner = TRUE]

TwoSyncers == {s1, s2}
TwoActors == {a1, a2}
TwoMessages == {m1, m2}
AllMail == {Careful, Cleaning, Rough, Aging, Crowded}
OnlyMoving == {Moving}

\* While handoffs are used, the bindings are at rest in a setting of the run.
MCInit == /\ part = "mail" \/ (part = "handoffs" /\ setting \in {Careful, Moving})
          /\ ServerInit

MCSpec == MCInit /\ [][ServerNext]_serverVars

=============================================================================
