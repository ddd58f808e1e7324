--------------------------- MODULE MCCanvasBroadcast ---------------------------
(* Two loads of the daemon: one request at a time on two sessions, and two     *)
(* requests at a time on one.                                                  *)
EXTENDS CanvasBroadcast

CONSTANTS h1, h2, s1, s2

TwoHandlers == {h1, h2}
TwoSessions == {s1, s2}

OneByOne == [handlers |-> {h1}, sessions |-> {s1, s2}, events |-> 3]
Concurrent == [handlers |-> {h1, h2}, sessions |-> {s1}, events |-> 2]
AllSettings == {OneByOne, Concurrent}

=============================================================================
