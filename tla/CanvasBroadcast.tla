---------------------------- MODULE CanvasBroadcast ----------------------------
(* The daemon's canvas: tool calls arrive as HTTP requests, show artifacts in  *)
(* sessions (internal/canvas/adapter.go) and push every event to all browser   *)
(* connections before they answer (internal/serve/app.go).  Each request runs  *)
(* in a goroutine of its own.  It takes the lock to flush the queue, and again *)
(* to list the connections; it writes to them without a lock, and two writers  *)
(* on one connection are a data race in the websocket library, whose outcome   *)
(* is a panic of the later request or a frame that carries the wrong event.    *)
EXTENDS Naturals, Sequences, SequencesExt, FiniteSets

CONSTANTS Handlers,   \* request goroutines
          Sessions,
          MaxConns,   \* bound: connections are numbered in the order they open
          MaxEvents,  \* bound: artifacts shown
          Settings,   \* the loads of the daemon, of which a behaviour has one
          None

Conns  == 1 .. MaxConns
Events == 1 .. MaxEvents

\* handlers: the requests served at a time; sessions: those in use; events: how many artifacts
\* are shown.
ASSUME ConstantsAssumption ==
    /\ MaxConns \in Nat /\ MaxEvents \in Nat /\ None \notin Nat
    /\ Settings \subseteq [handlers : SUBSET Handlers, sessions : SUBSET Sessions,
                           events : 0 .. MaxEvents]

VARIABLES setting,   \* the load of the daemon, which does not change
          shown,     \* every session's History in one sequence: event n is shown[n]
          active,    \* active[s]: the session's ActiveArtifact, or None
          pending,   \* the queue of events not yet flushed
          wsClients, \* the registered connections
          joined,    \* joined[w]: how many events were shown when w opened, or None
          received,  \* received[w]: the events the browser behind w has got
          handler,   \* handler[h]: what the request does next
          overlap    \* whether two requests were ever writing to one connection

vars == <<setting, shown, active, pending, wsClients, joined, received, handler, overlap>>

Idle == [at |-> "idle", events |-> <<>>, clients |-> {}, left |-> {}, ws |-> None]

TypeOK == /\ setting \in Settings
          /\ shown \in Seq([session : Sessions, clear : BOOLEAN]) /\ Len(shown) <= setting.events
          /\ active \in [Sessions -> Events \cup {None}]
          /\ pending \in Seq(Events)
          /\ wsClients \in SUBSET Conns
          /\ joined \in [Conns -> 0 .. MaxEvents \cup {None}]
          /\ received \in [Conns -> Seq(Events)]
          /\ handler \in [Handlers -> [at : {"idle", "flush", "list", "write"},
                                       events : Seq(Events), clients : SUBSET Conns,
                                       left : SUBSET Conns, ws : Conns \cup {None}]]
          /\ \A h \in Handlers : handler[h].at \in {"list", "write"} => handler[h].events # <<>>
          /\ overlap \in BOOLEAN

Init == /\ setting \in Settings
        /\ shown = <<>>
        /\ active = [s \in Sessions |-> None]
        /\ pending = <<>>
        /\ wsClients = {}
        /\ joined = [w \in Conns |-> None]
        /\ received = [w \in Conns |-> <<>>]
        /\ handler = [h \in Handlers |-> Idle]
        /\ overlap = FALSE

At(h, at) == handler[h].at = at
Becomes(h, r) == handler' = [handler EXCEPT ![h] = r]

-----------------------------------------------------------------------------
(* Tool calls.                                                                 *)

\* Faulty variant: clearing leaves the artifact the session status reports.
ShowKeepingActive(h, s, clear) ==
    LET n == Len(shown) + 1
    IN  /\ At(h, "idle") /\ n <= setting.events
        /\ shown' = Append(shown, [session |-> s, clear |-> clear])
        /\ active' = IF clear THEN active ELSE [active EXCEPT ![s] = n]
        /\ pending' = Append(pending, n)
        /\ Becomes(h, [Idle EXCEPT !.at = "flush"])
        /\ UNCHANGED <<setting, wsClients, joined, received, overlap>>

\* Faulty variant: answered without a broadcast.
ShowQueueOnly(h, s, clear) ==
    LET n == Len(shown) + 1
    IN  /\ At(h, "idle") /\ n <= setting.events
        /\ shown' = Append(shown, [session |-> s, clear |-> clear])
        /\ active' = [active EXCEPT ![s] = IF clear THEN None ELSE n]
        /\ pending' = Append(pending, n)
        /\ UNCHANGED <<setting, wsClients, joined, received, handler, overlap>>

\* CanvasArtifactShow under the adapter's lock, which queueEvent is called with.
CanvasArtifactShow(h, s, clear) ==
    LET n == Len(shown) + 1
    IN  /\ At(h, "idle") /\ n <= setting.events
        /\ shown' = Append(shown, [session |-> s, clear |-> clear])
        /\ active' = [active EXCEPT ![s] = IF clear THEN None ELSE n]
        /\ pending' = Append(pending, n)
        /\ Becomes(h, [Idle EXCEPT !.at = "flush"])
        /\ UNCHANGED <<setting, wsClients, joined, received, overlap>>

\* Any other request: it shows nothing, and broadcasts what others have queued.
handleMCPPost(h) ==
    /\ At(h, "idle")
    /\ Becomes(h, [Idle EXCEPT !.at = "flush"])
    /\ UNCHANGED <<setting, shown, active, pending, wsClients, joined, received, overlap>>

-----------------------------------------------------------------------------
(* broadcastPending                                                            *)

flushEvents(h) ==
    /\ At(h, "flush")
    /\ Becomes(h, IF pending = <<>> THEN Idle
                  ELSE [Idle EXCEPT !.at = "list", !.events = pending])
    /\ pending' = <<>>
    /\ UNCHANGED <<setting, shown, active, wsClients, joined, received, overlap>>

\* Faulty variant: without the case of no connection.
listClientsAnyway(h) ==
    /\ At(h, "list")
    /\ Becomes(h, [handler[h] EXCEPT !.at = "write", !.clients = wsClients, !.left = wsClients])
    /\ UNCHANGED <<setting, shown, active, pending, wsClients, joined, received, overlap>>

listClients(h) ==
    /\ At(h, "list")
    /\ Becomes(h, IF wsClients = {} THEN Idle
                  ELSE [handler[h] EXCEPT !.at = "write", !.clients = wsClients,
                                          !.left = wsClients])
    /\ UNCHANGED <<setting, shown, active, pending, wsClients, joined, received, overlap>>

Writing(w) == \E h \in Handlers : handler[h].ws = w

\* WriteMessage fills the connection's buffer; a writer already there makes it a race.
beginWrite(h, w) ==
    /\ At(h, "write") /\ handler[h].ws = None /\ w \in handler[h].left
    /\ overlap' = (overlap \/ Writing(w))
    /\ \/ Becomes(h, [handler[h] EXCEPT !.ws = w, !.left = @ \ {w}])
       \/ Writing(w) /\ Becomes(h, Idle)
    /\ UNCHANGED <<setting, shown, active, pending, wsClients, joined, received>>

\* Faulty variant: only the first event of a batch is sent.
DoneAfterFirst(r) == IF r.left = {} THEN Idle ELSE [r EXCEPT !.ws = None]

\* After a connection the next one, after the last connection the next event.
AfterWrite(r) ==
    IF r.left # {} THEN [r EXCEPT !.ws = None]
    ELSE IF Len(r.events) = 1 THEN Idle
    ELSE [r EXCEPT !.ws = None, !.events = Tail(@), !.left = r.clients]

\* The frame leaves: with this event, or with one another writer put in the buffer.  A
\* connection that is gone takes nothing, and the error is ignored.
endWrite(h) ==
    LET w == handler[h].ws
        buffer == {handler[g].events[1] : g \in {g \in Handlers : handler[g].ws = w}}
    IN  /\ w # None
        /\ \E n \in buffer :
              received' = IF w \in wsClients THEN [received EXCEPT ![w] = Append(@, n)]
                          ELSE received
        /\ Becomes(h, AfterWrite(handler[h]))
        /\ UNCHANGED <<setting, shown, active, pending, wsClients, joined, overlap>>

-----------------------------------------------------------------------------
(* handleCanvasWS                                                              *)

Join(w) ==
    /\ joined[w] = None /\ \A v \in Conns : v < w => joined[v] # None
    /\ wsClients' = wsClients \cup {w}
    /\ joined' = [joined EXCEPT ![w] = Len(shown)]
    /\ UNCHANGED <<setting, shown, active, pending, received, handler, overlap>>

Leave(w) ==
    /\ w \in wsClients
    /\ wsClients' = wsClients \ {w}
    /\ UNCHANGED <<setting, shown, active, pending, joined, received, handler, overlap>>

Progress(h) == \/ flushEvents(h) \/ listClients(h) \/ endWrite(h)
               \/ \E w \in Conns : beginWrite(h, w)

Next == \/ \E h \in setting.handlers : \/ \E s \in setting.sessions, clear \in BOOLEAN :
                                             CanvasArtifactShow(h, s, clear)
                                       \/ handleMCPPost(h)
                                       \/ Progress(h)
        \/ \E w \in Conns : Join(w) \/ Leave(w)

\* Goroutines are scheduled and browsers read what is sent to them.
Fairness == \A h \in Handlers : WF_vars(Progress(h))

Spec == Init /\ [][Next]_vars /\ Fairness

-----------------------------------------------------------------------------
Quiet == \A h \in Handlers : handler[h] = Idle
Count(n, seq) == Cardinality({k \in DOMAIN seq : seq[k] = n})

\* No event stays in the queue once every request is answered, whichever request flushed it.
NothingStranded == Quiet => pending = <<>>

\* Unless two requests wrote to one connection at a time, every open connection has got
\* every event shown since it opened, exactly once, when every request is answered.
DeliveredOnce ==
    (Quiet /\ ~overlap) =>
       \A w \in wsClients : \A n \in joined[w] + 1 .. Len(shown) : Count(n, received[w]) = 1

\* One request at a time: the last event a browser got for a session is the artifact that
\* CanvasStatus reports for it, or its clearing.
ScreenAgrees ==
    Quiet /\ (\A g, h \in setting.handlers : g = h) => \A w \in wsClients, s \in Sessions :
       LET mine == {k \in DOMAIN received[w] : shown[received[w][k]].session = s}
       IN  \A k \in mine : (\A j \in mine : j <= k) =>
             LET n == received[w][k]
             IN  active[s] = IF shown[n].clear THEN None ELSE n

\* Every request is answered, provided that the browsers read.
Answered == \A h \in Handlers : handler[h] # Idle ~> handler[h] = Idle

=============================================================================
