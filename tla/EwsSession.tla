------------------------------- MODULE EwsSession ------------------------------
(* The Exchange clients of a process that share a mailbox (internal/ews).  One *)
(* request at a time goes through the gate of their session; the streams that  *)
(* watch a mailbox go past it.  The cookies of a server session are kept in a  *)
(* jar, which a client drops when the server answers 401, to try once more     *)
(* with a new handshake.                                                       *)
EXTENDS Naturals, Sequences

CONSTANTS Clients,   \* of one mailbox; each has an http client and a streaming one
          Calls,     \* goroutines that call a client, one call after the other
          Jars,      \* enough that one is always unused
          Settings,  \* the circumstances they work under
          None

\* clients, calls: those there are; watch: the calls that Watch a mailbox, the others are single
\* requests; cancels: whether contexts are cancelled.
SettingRecords == [clients : SUBSET Clients, calls : SUBSET Calls, watch : SUBSET Calls,
                   cancels : BOOLEAN]

VARIABLES setting,   \* one of the Settings, the same all the time
          jar,       \* jar[c]: the jars of the two http clients of c, None before NewClient
          session,   \* the jar of the shared session
          cookie,    \* jars that have the cookies of a session of the server
          gate,      \* whether the one place of requestGate is taken
          queue,     \* calls that wait for it
          call       \* call[k]: what k is doing, or None

vars == <<setting, jar, session, cookie, gate, queue, call>>

Kinds == {"http", "streaming"}

\* client, kind: the http client it goes through; attempt: the number of the attempt; sent, got:
\* the cookies of the request that is under way and of its answer; new: the jar of a reset.
CallRecords == [step : {"wait", "send", "server", "answered", "reset", "peer", "done"},
                client : Clients, kind : Kinds, attempt : {0, 1},
                sent : BOOLEAN, got : BOOLEAN, new : Jars \cup {None},
                answer : {"ok", "unauthorized", "failed"}]

TypeOK == /\ setting \in Settings
          /\ jar \in [Clients -> [Kinds -> Jars] \cup {None}] /\ session \in Jars
          /\ cookie \subseteq Jars
          /\ gate \in BOOLEAN /\ queue \in Seq(Calls)
          /\ call \in [Calls -> CallRecords \cup {None}]

Init == /\ setting \in Settings
        /\ jar = [c \in Clients |-> None] /\ session = (CHOOSE j \in Jars : TRUE)
        /\ cookie = {}
        /\ gate = FALSE /\ queue = <<>> /\ call = [k \in Calls |-> None]

At(k, step) == call[k] # None /\ call[k].step = step
Goes(k, step) == call' = [call EXCEPT ![k].step = step]
Fails(k) == call' = [call EXCEPT ![k].step = "done", ![k].answer = "failed", ![k].sent = FALSE]

---------------------------------------------------------------------------
(* Clients and their calls.                                                    *)

\* NewClient gives both http clients the jar that the session has now.
NewClient(c) ==
    /\ c \in setting.clients /\ jar[c] = None
    /\ jar' = [jar EXCEPT ![c] = [kind \in Kinds |-> session]]
    /\ UNCHANGED <<setting, session, cookie, gate, queue, call>>

Request(c, kind, step) ==
    [step |-> step, client |-> c, kind |-> kind, attempt |-> 0, sent |-> FALSE, got |-> FALSE,
     new |-> None, answer |-> "failed"]

\* Faulty variant: streams too.
Gated(kind) == TRUE

\* acquireRequestSlot: every request but those of streams waits for the gate.
acquireRequestSlot(kind) == kind = "http"

\* callWithHTTPClient.
Enter(k, c, kind) ==
    /\ call' = [call EXCEPT ![k] = Request(c, kind, IF acquireRequestSlot(kind) THEN "wait"
                                                    ELSE "send")]
    /\ queue' = IF acquireRequestSlot(kind) THEN Append(queue, k) ELSE queue

\* A method of a client; Watch begins with the Subscribe request.
Begin(k, c) ==
    /\ k \in setting.calls /\ call[k] = None /\ jar[c] # None
    /\ Enter(k, c, "http")
    /\ UNCHANGED <<setting, jar, session, cookie, gate>>

\* A channel gives its place to the sender that has waited longest.
Acquire(k) ==
    /\ At(k, "wait") /\ queue # <<>> /\ k = Head(queue) /\ ~gate
    /\ gate' = TRUE /\ queue' = Tail(queue) /\ Goes(k, "send")
    /\ UNCHANGED <<setting, jar, session, cookie>>

\* The context is cancelled: a call that waits returns without the gate, a request that is
\* under way fails.
Cancel(k) ==
    /\ setting.cancels
    /\ \/ /\ At(k, "wait")
          /\ call' = [call EXCEPT ![k] = None]
          /\ \E i \in 1 .. Len(queue) :
                /\ queue[i] = k
                /\ queue' = SubSeq(queue, 1, i - 1) \o SubSeq(queue, i + 1, Len(queue))
       \/ (At(k, "send") \/ At(k, "server")) /\ Fails(k) /\ UNCHANGED queue
    /\ UNCHANGED <<setting, jar, session, cookie, gate>>

\* http.Client.Do adds the cookies that are in its jar now.
Send(k) ==
    /\ At(k, "send")
    /\ LET r == call[k]
       IN  call' = [call EXCEPT ![k].step = "server", ![k].sent = jar[r.client][r.kind] \in cookie]
    /\ UNCHANGED <<setting, jar, session, cookie, gate, queue>>

\* It puts the cookies of the answer into the jar it has by then. The first 401 is for another
\* attempt.
Receive(k) ==
    /\ At(k, "answered")
    /\ LET r == call[k]
       IN  /\ cookie' = IF r.got THEN cookie \cup {jar[r.client][r.kind]} ELSE cookie
           /\ call' = [call EXCEPT ![k].sent = FALSE, ![k].got = FALSE,
                  ![k].step = IF r.answer = "unauthorized" /\ r.attempt = 0 THEN "reset" ELSE "done"]
    /\ UNCHANGED <<setting, jar, session, gate, queue>>

\* Any jar that is unused is a new one.
Unused == {j \in Jars : /\ j # session
                        /\ \A c \in Clients, kind \in Kinds : jar[c] # None => j # jar[c][kind]
                        /\ \A k \in Calls : call[k] # None => j # call[k].new}

\* Faulty variant: only the session gets the new jar.
resetSessionOnly(k) ==
    /\ At(k, "reset")
    /\ Unused # {} /\ session' = (CHOOSE j \in Unused : TRUE) /\ cookie' = cookie \ {session'}
    /\ call' = [call EXCEPT ![k].step = "peer", ![k].new = jar[call[k].client][call[k].kind]]
    /\ UNCHANGED <<setting, jar, gate, queue>>

\* resetSessionCookies: the session and the http client in hand get a new jar,
resetSessionCookies(k) ==
    /\ At(k, "reset")
    /\ Unused # {} /\ session' = (CHOOSE j \in Unused : TRUE) /\ cookie' = cookie \ {session'}
    /\ jar' = [jar EXCEPT ![call[k].client][call[k].kind] = session']
    /\ call' = [call EXCEPT ![k].step = "peer", ![k].new = session']
    /\ UNCHANGED <<setting, gate, queue>>

Other(kind) == IF kind = "http" THEN "streaming" ELSE "http"
Retries(k) == call' = [call EXCEPT ![k].step = "send", ![k].attempt = 1, ![k].new = None]

\* Faulty variant: a retry leaves the gate.
resetPeerReleasing(k) ==
    /\ At(k, "peer")
    /\ jar' = [jar EXCEPT ![call[k].client][Other(call[k].kind)] = call[k].new]
    /\ Retries(k) /\ gate' = FALSE
    /\ UNCHANGED <<setting, session, cookie, queue>>

\* then, without a lock, the other http client of this client does. Its peers keep theirs.
resetPeer(k) ==
    /\ At(k, "peer")
    /\ jar' = [jar EXCEPT ![call[k].client][Other(call[k].kind)] = call[k].new]
    /\ Retries(k)
    /\ UNCHANGED <<setting, session, cookie, gate, queue>>

\* The deferred release takes the place of the gate back, and the call returns. Watch asks for
\* events until a request or the handling of the events fails.
Return(k) ==
    /\ At(k, "done")
    /\ LET r == call[k]
       IN  /\ gate' = (gate /\ ~acquireRequestSlot(r.kind))
           /\ \/ k \in setting.watch /\ r.answer = "ok" /\ Enter(k, r.client, "streaming")
              \/ /\ k \in setting.watch /\ r.kind = "http" => r.answer # "ok"
                 /\ call' = [call EXCEPT ![k] = None] /\ UNCHANGED queue
    /\ UNCHANGED <<setting, jar, session, cookie>>

---------------------------------------------------------------------------
(* The Exchange server.                                                        *)

\* It makes a session for a request without cookies, answers those of a session that lives, and
\* those of one that has expired with a bare 401. Or the request fails: a fault, a busy server, a
\* time-out.
Serve(k) ==
    /\ At(k, "server")
    /\ \/ call' = [call EXCEPT ![k].step = "answered", ![k].answer = "ok", ![k].got = TRUE]
       \/ /\ call[k].sent
          /\ call' = [call EXCEPT ![k].step = "answered", ![k].answer = "unauthorized"]
       \/ Fails(k)
    /\ UNCHANGED <<setting, jar, session, cookie, gate, queue>>

---------------------------------------------------------------------------
Next == \/ \E c \in Clients : NewClient(c) \/ \E k \in Calls : Begin(k, c)
        \/ \E k \in Calls : \/ Acquire(k) \/ Cancel(k) \/ Send(k) \/ Receive(k) \/ Serve(k)
                            \/ resetSessionCookies(k) \/ resetPeer(k) \/ Return(k)

\* Goroutines run, and a request through the gate is answered or runs into its time-out of 90
\* seconds. A stream may stay open as long as it likes, and nobody has to call.
Progress(k) == \/ Acquire(k) \/ Send(k) \/ Receive(k) \/ resetSessionCookies(k) \/ resetPeer(k)
               \/ Return(k) \/ (At(k, "server") /\ call[k].kind = "http" /\ Serve(k))

Fairness == \A k \in Calls : WF_vars(Progress(k))

Spec == Init /\ [][Next]_vars /\ Fairness

---------------------------------------------------------------------------
\* The calls that are past the gate.
Inside == {k \in Calls : call[k] # None /\ call[k].kind = "http" /\ call[k].step # "wait"}

\* One request of a mailbox at a time is past the gate, and the gate is taken exactly then:
\* whatever fails, is cancelled or tried again, no place is given back twice or never.
OneAtATime == IF gate THEN \E k \in Calls : Inside = {k} ELSE Inside = {}

\* The second attempt is a new handshake: nothing puts the cookies that were dropped into the
\* new jar before, unless a stream of the same client has an answer under way.
RetriesFresh ==
    \A k \in Calls : setting.watch = {} /\ At(k, "server") /\ call[k].attempt = 1 => ~call[k].sent

\* Every call that does not watch returns, although others watch the mailbox all the time.
CallsReturn == \A k \in Calls : (call[k] # None /\ k \notin setting.watch) ~> (call[k] = None)

\* resetSessionCookies says: "peer clients that still point at the previous jar will pick up the
\* fresh jar on their next call because the shared session holds the canonical reference".
PeersFollow == [][\A k \in Calls : Send(k) => jar[call[k].client][call[k].kind] = session]_vars

=============================================================================
