---------------------------- MODULE MCItemLifecycle ----------------------------
(* Requests for TLC's instances of ItemLifecycle.                              *)
EXTENDS ItemLifecycle

Set(s, va) == [KeepAll EXCEPT !.state = s, !.visibleAfter = va]

\* Reopen with and without a time of its own, defer, finish, and hand a source over.
MCUpdates == {Set("inbox", Keep), Set("inbox", 1), Set("waiting", 1), Set("done", Keep)}
             \cup {[KeepAll EXCEPT !.state = "inbox", !.source = s] : s \in Sources}
             \cup {[KeepAll EXCEPT !.actor = a, !.source = None] : a \in Actors}
=============================================================================
