------------------------------ MODULE Watchers ------------------------------
(* Two parts of programs that run for long and share nothing: the trigger of   *)
(* `sloptools brief watch` (BriefTrigger), and the Exchange clients of one     *)
(* mailbox, of which one may keep a stream open (EwsSession).  A behaviour is  *)
(* one of the two.                                                             *)
EXTENDS BriefTrigger

CONSTANTS Clients, Calls, Jars, SessionSettings

VARIABLES mailbox, jar, session, cookie, gate, queue, call,
          part   \* the program that runs

Ews == INSTANCE EwsSession WITH Settings <- SessionSettings, setting <- mailbox

sessionVars == <<mailbox, jar, session, cookie, gate, queue, call>>

ASSUME ConstantsAssumption ==
    /\ MaxTime \in Nat /\ Settings \subseteq SettingRecords
    /\ SessionSettings \subseteq Ews!SettingRecords /\ Jars # {}

WatcherInit == Init /\ Ews!Init /\ part \in {"briefs", "session"}

WatcherNext == /\ UNCHANGED part
               /\ \/ part = "briefs" /\ Next /\ UNCHANGED sessionVars
                  \/ part = "session" /\ Ews!Next /\ UNCHANGED vars

watcherVars == <<vars, sessionVars, part>>

WatcherSpec == WatcherInit /\ [][WatcherNext]_watcherVars /\ Ews!Fairness

\* One request of a mailbox at a time is past the gate.
OneAtATime == Ews!OneAtATime

\* The second attempt of a request goes without the cookies of the first.
RetriesFresh == Ews!RetriesFresh

\* Every call returns, unless it waits for the server.
CallsReturn == Ews!CallsReturn

=============================================================================
