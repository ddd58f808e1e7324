---------------------------- MODULE HandoffRegistry ----------------------------
(* Handoffs (internal/mcp/mail_bindings.go, mail_list.go): an agent leaves a   *)
(* payload under an id, with a policy that bounds how often and how long it    *)
(* can be consumed; another agent, or the canvas of another server over HTTP   *)
(* (canvas_import_handoff, internal/mcp/canvas.go), consumes it.  A call takes *)
(* the registry's lock twice, to look the record up and to consume or revoke   *)
(* it, and a reply over HTTP can be lost.  The history variable served names   *)
(* every consume by its number and the client that got its payload.            *)
EXTENDS Naturals

CONSTANTS Clients,
          Handoffs,     \* handoff ids
          MaxConsumes,  \* bound: max_consumes asked for
          MaxTime,      \* bound: the clock runs from 0 to MaxTime
          None

Times == 0 .. MaxTime

VARIABLES handoffs,  \* handoffs[h]: the stored record, or None
          now,
          call,      \* call[c]: where c's call is
          served     \* served[h]: <<n, c>> for the n-th consume of h, received by c

vars == <<handoffs, now, call, served>>

defaultHandoffMaxConsumes == 1

Records == [expiresAt : Nat \cup {None}, maxConsumes : Nat, consumedCount : Nat,
            revoked : BOOLEAN]

\* at: the next step; over: HTTP when the call is part of an import; n: the consume's number.
Calls == [at : {"none", "store", "peek", "lookup", "consume", "revoke", "reply"},
          over : {"stdio", "http"}, id : Handoffs \cup {None},
          record : Records \cup {None}, n : Nat]

NoCall == [at |-> "none", over |-> "stdio", id |-> None, record |-> None, n |-> 0]

TypeOK == /\ handoffs \in [Handoffs -> Records \cup {None}]
          /\ now \in Times
          /\ call \in [Clients -> Calls]
          /\ served \in [Handoffs -> SUBSET (Nat \X Clients)]

Init == /\ handoffs = [h \in Handoffs |-> None]
        /\ now = 0
        /\ call = [c \in Clients |-> NoCall]
        /\ served = [h \in Handoffs |-> {}]

\* parseHandoffPolicy: the earlier of the two ways to say when it ends.
Policy(max, expiresAt, ttl) ==
    LET ttlExpiry == now + ttl
    IN  [expiresAt |-> IF ttl # None /\ (expiresAt = None \/ ttlExpiry < expiresAt)
                       THEN ttlExpiry ELSE expiresAt,
         maxConsumes |-> IF max = None THEN defaultHandoffMaxConsumes ELSE max,
         consumedCount |-> 0, revoked |-> FALSE]

Expired(r) == r.expiresAt # None /\ now >= r.expiresAt

Consumable(r) == ~r.revoked /\ ~Expired(r) /\ r.consumedCount < r.maxConsumes

At(c, at) == call[c].at = at
Goes(c, r) == call' = [call EXCEPT ![c] = r]
Return(c)  == Goes(c, NoCall)

-----------------------------------------------------------------------------
\* mailHandoffCreate has fetched the messages: the policy's clock is read first, then the
\* record is stored.
mailHandoffCreate(c, max, expiresAt, ttl) ==
    /\ At(c, "none")
    /\ max # 0 /\ ttl # 0
    /\ Goes(c, [NoCall EXCEPT !.at = "store", !.record = Policy(max, expiresAt, ttl)])
    /\ UNCHANGED <<handoffs, now, served>>

\* A new id is random: it is not in use.
store(c, h) ==
    /\ At(c, "store") /\ handoffs[h] = None
    /\ handoffs' = [handoffs EXCEPT ![h] = call[c].record]
    /\ Return(c)
    /\ UNCHANGED <<now, served>>

\* handoffConsume, handoffRevoke, and canvas_import_handoff, which peeks first.
canvasImportHandoff(c, h) ==
    /\ At(c, "none") /\ handoffs[h] # None
    /\ Goes(c, [NoCall EXCEPT !.at = "peek", !.over = "http", !.id = h])
    /\ UNCHANGED <<handoffs, now, served>>

\* handoffPeek answered: the import asks for the payload, whatever the summary says.
handoffPeek(c) ==
    /\ At(c, "peek")
    /\ Goes(c, [call[c] EXCEPT !.at = "lookup"])
    /\ UNCHANGED <<handoffs, now, served>>

handoffConsume(c, h) ==
    /\ At(c, "none") \/ (At(c, "lookup") /\ call[c].id = h)
    /\ handoffs[h] # None
    /\ Goes(c, [call[c] EXCEPT !.at = "consume", !.id = h])
    /\ UNCHANGED <<handoffs, now, served>>

handoffRevoke(c, h) ==
    /\ At(c, "none")
    /\ handoffs[h] # None
    /\ Goes(c, [NoCall EXCEPT !.at = "revoke", !.id = h])
    /\ UNCHANGED <<handoffs, now, served>>

\* Faulty variant: the reply is sent before the consume is counted.
consumeUncounted(c) ==
    LET r == handoffs[call[c].id]
    IN  /\ At(c, "consume")
        /\ IF Consumable(r) THEN Goes(c, [call[c] EXCEPT !.at = "reply", !.n = r.consumedCount + 1])
           ELSE Return(c)
        /\ UNCHANGED <<handoffs, now, served>>

consume(c) ==
    LET h == call[c].id
        r == handoffs[h]
    IN  /\ At(c, "consume")
        /\ IF Consumable(r)
           THEN /\ handoffs' = [handoffs EXCEPT ![h].consumedCount = @ + 1]
                /\ Goes(c, [call[c] EXCEPT !.at = "reply", !.n = r.consumedCount + 1])
           ELSE Return(c) /\ UNCHANGED handoffs
        /\ UNCHANGED <<now, served>>

\* The caller gets the payload.  What an import does with it, or fails to do (a kind it does
\* not know, a hash that differs), gives nothing back to the registry.
reply(c) ==
    /\ At(c, "reply")
    /\ served' = [served EXCEPT ![call[c].id] = @ \cup {<<call[c].n, c>>}]
    /\ Return(c)
    /\ UNCHANGED <<handoffs, now>>

\* mcpToolCall fails: the request or its reply is lost, or 20 seconds pass.
mcpToolCallFails(c) ==
    /\ call[c].over = "http"
    /\ Return(c)
    /\ UNCHANGED <<handoffs, now, served>>

\* Faulty variant: a revoke undoes a revoke.
revokeToggle(c) ==
    /\ At(c, "revoke")
    /\ handoffs' = [handoffs EXCEPT ![call[c].id].revoked = ~@]
    /\ Return(c)
    /\ UNCHANGED <<now, served>>

revoke(c) ==
    /\ At(c, "revoke")
    /\ handoffs' = [handoffs EXCEPT ![call[c].id].revoked = TRUE]
    /\ Return(c)
    /\ UNCHANGED <<now, served>>

Tick == now < MaxTime /\ now' = now + 1 /\ UNCHANGED <<handoffs, call, served>>

Next == \/ \E c \in Clients :
              \/ \E max \in (0 .. MaxConsumes) \cup {None}, expiresAt, ttl \in Times \cup {None} :
                    mailHandoffCreate(c, max, expiresAt, ttl)
              \/ \E h \in Handoffs : \/ store(c, h) \/ canvasImportHandoff(c, h)
                                     \/ handoffConsume(c, h) \/ handoffRevoke(c, h)
              \/ handoffPeek(c) \/ consume(c) \/ reply(c) \/ mcpToolCallFails(c) \/ revoke(c)
        \/ Tick

Spec == Init /\ [][Next]_vars

-----------------------------------------------------------------------------
\* However clients interleave and replies get lost, a payload is handed out at most
\* max_consumes times: every consume has its own number, which is within the limit.
ConsumesBounded ==
    \A h \in Handoffs : \A s \in served[h] :
       /\ handoffs[h] # None /\ s[1] \in 1 .. handoffs[h].maxConsumes
       /\ \A t \in served[h] : s[1] = t[1] => s = t

\* What ends a handoff ends it for good: once it is revoked, expired or used up, no call,
\* not even one that looked it up before, is counted as a consume, and it stays so.
EndedSteps == \A h \in Handoffs :
    (handoffs[h] # None /\ ~Consumable(handoffs[h])) =>
       /\ handoffs'[h] # None /\ ~Consumable(handoffs[h])'
       /\ handoffs'[h].consumedCount = handoffs[h].consumedCount
EndedForGood == [][EndedSteps]_vars

=============================================================================
