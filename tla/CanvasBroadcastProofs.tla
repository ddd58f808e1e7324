------------------------- MODULE CanvasBroadcastProofs -------------------------
(* Proofs about CanvasBroadcast for every number of requests, sessions and     *)
(* connections.  Only the queue is in question here: whatever the writers do,  *)
(* while an event is queued some request has still to flush.                   *)
EXTENDS CanvasBroadcast, FiniteSetTheorems, TLAPS

Requests == [at : {"idle", "flush", "list", "write"}, events : Seq(Events),
             clients : SUBSET Conns, left : SUBSET Conns, ws : Conns \cup {None}]

\* A request that is writing to a connection is past its flush, with a batch in hand.
WritersFlushed == \A h \in Handlers : handler[h].ws # None => At(h, "write")

\* An event in the queue has a request that will flush it.
SomeoneFlushes == pending # <<>> => \E h \in Handlers : At(h, "flush")

IInv == TypeOK /\ WritersFlushed /\ SomeoneFlushes

LEMMA IdleType == Idle \in Requests
BY DEF Idle, Requests

LEMMA NoEvents == \A S : <<>> \in Seq(S)
OBVIOUS

\* A request that is about to flush, with nothing in hand.
LEMMA FlushType ==
    LET r == [Idle EXCEPT !.at = "flush"]
    IN  r \in Requests /\ r.at = "flush" /\ r.ws = None
<1>1. \A q \in Requests : LET r == [q EXCEPT !.at = "flush"]
                          IN  r \in Requests /\ r.at = "flush" /\ r.ws = q.ws
  BY DEF Requests
<1>2. Idle.ws = None
  BY DEF Idle
<1> QED
  BY <1>1, <1>2, IdleType

\* The queue's events are numbers of events shown.
LEMMA ShownBound == ASSUME TypeOK PROVE setting.events \in 0 .. MaxEvents /\ Len(shown) \in Nat
BY ConstantsAssumption DEF TypeOK

LEMMA InitInv == Init => IInv
<1> SUFFICES ASSUME Init PROVE IInv
  OBVIOUS
<1>1. \A h \in Handlers : handler[h] = Idle
  BY DEF Init
<1>2. handler \in [Handlers -> Requests]
  BY IdleType DEF Init
<1>3. setting.events \in Nat
  BY ConstantsAssumption DEF Init
<1>4. TypeOK
  <2>1. shown \in Seq([session : Sessions, clear : BOOLEAN]) /\ Len(shown) = 0
    BY NoEvents DEF Init
  <2>2. pending \in Seq(Events) /\ received \in [Conns -> Seq(Events)]
    BY NoEvents DEF Init
  <2>3. setting.events \in Nat
    BY ConstantsAssumption DEF Init
  <2>4. \A h \in Handlers : handler[h].at \notin {"list", "write"}
    BY <1>1 DEF Idle
  <2>5. /\ active \in [Sessions -> Events \cup {None}]
        /\ joined \in [Conns -> 0 .. MaxEvents \cup {None}]
    BY DEF Init
  <2>6. setting \in Settings /\ wsClients \in SUBSET Conns /\ overlap \in BOOLEAN
    BY DEF Init
  <2> QED
    BY <1>2, <1>3, <2>1, <2>2, <2>4, <2>5, <2>6 DEF TypeOK, Requests
<1>5. WritersFlushed /\ SomeoneFlushes
  BY <1>1 DEF Init, WritersFlushed, SomeoneFlushes, Idle
<1> QED
  BY <1>4, <1>5 DEF IInv

\* A step that moves one request on, past its flush if the queue is not emptied by it.
LEMMA MoveOn ==
    ASSUME IInv, NEW h \in Handlers, NEW r \in Requests, Becomes(h, r),
           r.at \in {"list", "write"} => r.events # <<>>,
           r.ws # None => r.at = "write",
           \/ pending' = <<>>
           \/ pending' = pending /\ ~At(h, "flush")
           \/ pending' \in Seq(Events) /\ r.at = "flush",
           setting' = setting,
           shown' \in Seq([session : Sessions, clear : BOOLEAN]),
           Len(shown') <= setting.events,
           active' \in [Sessions -> Events \cup {None}],
           wsClients' = wsClients, joined' = joined,
           received' \in [Conns -> Seq(Events)], overlap' \in BOOLEAN
    PROVE  IInv'
<1>1. /\ handler' \in [Handlers -> Requests]
      /\ handler'[h] = r /\ \A g \in Handlers : g # h => handler'[g] = handler[g]
  BY DEF IInv, TypeOK, Becomes, Requests
<1>2. pending' \in Seq(Events)
  BY NoEvents DEF IInv, TypeOK
<1>3. \A g \in Handlers : handler'[g].at \in {"list", "write"} => handler'[g].events # <<>>
  BY <1>1 DEF IInv, TypeOK
<1>4. TypeOK'
  BY <1>1, <1>2, <1>3 DEF IInv, TypeOK, Requests
<1>5. WritersFlushed'
  BY <1>1 DEF IInv, WritersFlushed, At
<1>6. SomeoneFlushes'
  BY <1>1 DEF IInv, SomeoneFlushes, At
<1> QED
  BY <1>4, <1>5, <1>6 DEF IInv

\* A show leaves its own request to flush.
LEMMA ShowInv ==
    ASSUME IInv, NEW h \in Handlers, NEW s \in Sessions, NEW clear \in BOOLEAN,
           CanvasArtifactShow(h, s, clear)
    PROVE  IInv'
<1> DEFINE r == [Idle EXCEPT !.at = "flush"]
           n == Len(shown) + 1
<1>1. r \in Requests /\ r.at = "flush" /\ r.ws = None
  BY FlushType
<1>2. n \in Events /\ n <= setting.events /\ shown \in Seq([session : Sessions, clear : BOOLEAN])
  BY ShownBound, ConstantsAssumption DEF IInv, TypeOK, CanvasArtifactShow, Events
<1>3. pending' \in Seq(Events)
  BY <1>2 DEF IInv, TypeOK, CanvasArtifactShow
<1>4. active' \in [Sessions -> Events \cup {None}]
  BY <1>2 DEF IInv, TypeOK, CanvasArtifactShow
<1>5. [session |-> s, clear |-> clear] \in [session : Sessions, clear : BOOLEAN]
  OBVIOUS
<1>6. shown' = Append(shown, [session |-> s, clear |-> clear])
  BY DEF CanvasArtifactShow
<1>7. shown' \in Seq([session : Sessions, clear : BOOLEAN]) /\ Len(shown') = n
  BY <1>2, <1>5, <1>6
<1>8. Becomes(h, r)
  BY DEF CanvasArtifactShow
<1> HIDE DEF r, n
<1> QED
  BY <1>1, <1>2, <1>3, <1>4, <1>7, <1>8, MoveOn DEF IInv, TypeOK, CanvasArtifactShow

\* A flush empties the queue, so that nobody else need flush.
LEMMA FlushInv == ASSUME IInv, NEW h \in Handlers, flushEvents(h) PROVE IInv'
<1> DEFINE r == IF pending = <<>> THEN Idle ELSE [Idle EXCEPT !.at = "list", !.events = pending]
<1>1. r \in Requests /\ r.ws = None /\ (r.at \in {"list", "write"} => r.events # <<>>)
  BY DEF IInv, TypeOK, Idle, Requests
<1>2. Becomes(h, r) /\ pending' = <<>>
  BY DEF flushEvents
<1> HIDE DEF r
<1> QED
  BY <1>1, <1>2, MoveOn DEF IInv, TypeOK, flushEvents

LEMMA ListInv == ASSUME IInv, NEW h \in Handlers, listClients(h) PROVE IInv'
<1> DEFINE r == IF wsClients = {} THEN Idle
                ELSE [handler[h] EXCEPT !.at = "write", !.clients = wsClients, !.left = wsClients]
<1>1. handler[h] \in Requests /\ At(h, "list") /\ handler[h].ws = None /\ handler[h].events # <<>>
  BY DEF IInv, TypeOK, WritersFlushed, listClients, At, Requests
<1>2. r \in Requests /\ r.ws = None /\ (r.at \in {"list", "write"} => r.events # <<>>)
  BY <1>1, IdleType DEF IInv, TypeOK, Idle, Requests
<1>3. Becomes(h, r) /\ ~At(h, "flush")
  BY <1>1 DEF listClients, At
<1> HIDE DEF r
<1> QED
  BY <1>2, <1>3, MoveOn DEF IInv, TypeOK, listClients

LEMMA BeginWriteInv ==
    ASSUME IInv, NEW h \in Handlers, NEW w \in Conns, beginWrite(h, w) PROVE IInv'
<1>1. handler[h] \in Requests /\ At(h, "write") /\ handler[h].events # <<>> /\ ~At(h, "flush")
  BY DEF IInv, TypeOK, beginWrite, At, Requests
<1>2. PICK r \in {Idle, [handler[h] EXCEPT !.ws = w, !.left = @ \ {w}]} : Becomes(h, r)
  BY DEF beginWrite
<1>3. /\ r \in Requests /\ (r.at \in {"list", "write"} => r.events # <<>>)
      /\ r.ws # None => r.at = "write"
  <2>1. CASE r = Idle
    BY <2>1, IdleType DEF Idle
  <2>2. CASE r = [handler[h] EXCEPT !.ws = w, !.left = @ \ {w}]
    BY <1>1, <2>2 DEF Requests, At
  <2> QED
    BY <2>1, <2>2
<1>4. overlap' \in BOOLEAN
  BY DEF beginWrite, Writing, IInv, TypeOK
<1> QED
  BY <1>1, <1>2, <1>3, <1>4, MoveOn DEF IInv, TypeOK, beginWrite

\* After a frame the request is done, or has the rest of its batch to write.
LEMMA AfterWriteType ==
    ASSUME NEW r \in Requests, r.at = "write", r.events # <<>>
    PROVE  /\ AfterWrite(r) \in Requests
           /\ AfterWrite(r).ws = None
           /\ AfterWrite(r).at \in {"list", "write"} => AfterWrite(r).events # <<>>
<1>1. CASE r.left # {}
  BY <1>1 DEF AfterWrite, Requests
<1>2. CASE r.left = {} /\ Len(r.events) = 1
  BY <1>2, IdleType DEF AfterWrite, Idle
<1>3. CASE r.left = {} /\ Len(r.events) # 1
  <2>1. Tail(r.events) \in Seq(Events) /\ Len(Tail(r.events)) # 0
    BY <1>3 DEF Requests
  <2>2. Tail(r.events) # <<>>
    <3>1. Len(<<>>) = 0
      OBVIOUS
    <3> QED
      BY <2>1, <3>1
  <2> QED
    BY <1>3, <2>1, <2>2 DEF AfterWrite, Requests
<1> QED
  BY <1>1, <1>2, <1>3

\* After a frame the request goes on with the connections that are left, is done, or goes on with
\* the next event of its batch.
LEMMA AfterWriteCases ==
    ASSUME NEW q \in Requests, q.at = "write", q.events # <<>>
    PROVE  LET r == AfterWrite(q)
           IN  /\ r \in Requests /\ r.ws = None
               /\ \/ /\ q.left # {} /\ r.at = "write" /\ r.events = q.events /\ r.left = q.left
                     /\ r.clients = q.clients
                  \/ q.left = {} /\ Len(q.events) = 1 /\ r.at = "idle" /\ r.events = <<>> /\ r.left = {}
                  \/ /\ q.left = {} /\ Len(q.events) # 1 /\ r.at = "write" /\ r.events = Tail(q.events)
                     /\ r.left = q.clients /\ r.clients = q.clients
<1> DEFINE r == AfterWrite(q)
<1>1. r \in Requests /\ r.ws = None
  BY AfterWriteType
<1>2. CASE q.left # {}
  <2>1. r = [q EXCEPT !.ws = None]
    BY <1>2 DEF AfterWrite
  <2>2. r.at = "write" /\ r.events = q.events /\ r.left = q.left /\ r.clients = q.clients
    BY <2>1 DEF Requests
  <2> QED
    BY <1>1, <1>2, <2>2
<1>3. CASE q.left = {} /\ Len(q.events) = 1
  <2>1. r = Idle
    BY <1>3 DEF AfterWrite
  <2> QED
    BY <1>1, <1>3, <2>1 DEF Idle
<1>4. CASE q.left = {} /\ Len(q.events) # 1
  <2>1. r = [q EXCEPT !.ws = None, !.events = Tail(@), !.left = q.clients]
    BY <1>4 DEF AfterWrite
  <2>2. r.at = "write" /\ r.events = Tail(q.events) /\ r.left = q.clients /\ r.clients = q.clients
    BY <2>1 DEF Requests
  <2> QED
    BY <1>1, <1>4, <2>2
<1> QED
  BY <1>2, <1>3, <1>4

LEMMA EndWriteInv == ASSUME IInv, NEW h \in Handlers, endWrite(h) PROVE IInv'
<1> DEFINE w == handler[h].ws
           r == AfterWrite(handler[h])
<1>1. \A g \in Handlers : handler[g].ws # None =>
         handler[g] \in Requests /\ handler[g].at = "write" /\ handler[g].events # <<>>
  BY DEF IInv, TypeOK, WritersFlushed, At, Requests
<1>2. w # None /\ w \in Conns /\ ~At(h, "flush")
  BY <1>1 DEF IInv, TypeOK, endWrite, Requests, At
<1>3. r \in Requests /\ r.ws = None /\ (r.at \in {"list", "write"} => r.events # <<>>)
  BY <1>1, <1>2, AfterWriteType
<1>4. \A g \in Handlers : handler[g].ws = w => handler[g].events[1] \in Events
  BY <1>1, <1>2 DEF Requests
<1>5. received' \in [Conns -> Seq(Events)]
  <2>1. PICK n \in {handler[g].events[1] : g \in {g \in Handlers : handler[g].ws = w}} :
           received' = IF w \in wsClients THEN [received EXCEPT ![w] = Append(@, n)] ELSE received
    BY DEF endWrite
  <2>2. n \in Events
    BY <1>4
  <2> QED
    BY <1>2, <2>1, <2>2 DEF IInv, TypeOK
<1>6. Becomes(h, r)
  BY DEF endWrite
<1> HIDE DEF w, r
<1> QED
  BY <1>2, <1>3, <1>5, <1>6, MoveOn DEF IInv, TypeOK, endWrite

\* Every step keeps the invariant.
LEMMA NextInv == IInv /\ [Next]_vars => IInv'
<1> SUFFICES ASSUME IInv, [Next]_vars PROVE IInv'
  OBVIOUS
<1>1. setting.handlers \subseteq Handlers /\ setting.sessions \subseteq Sessions
  BY ConstantsAssumption DEF IInv, TypeOK
<1>2. CASE \E h \in setting.handlers, s \in setting.sessions, clear \in BOOLEAN :
              CanvasArtifactShow(h, s, clear)
  BY <1>1, <1>2, ShowInv
<1>3. CASE \E h \in setting.handlers : handleMCPPost(h)
  <2>1. PICK h \in Handlers : handleMCPPost(h)
    BY <1>1, <1>3
  <2> QED
    BY <2>1, FlushType, MoveOn DEF IInv, TypeOK, handleMCPPost
<1>4. CASE \E h \in setting.handlers : Progress(h)
  BY <1>1, <1>4, FlushInv, ListInv, BeginWriteInv, EndWriteInv DEF Progress
<1>5. CASE \E w \in Conns : Join(w)
  <2>1. Len(shown) \in 0 .. MaxEvents
    BY ShownBound, ConstantsAssumption DEF IInv, TypeOK
  <2>2. TypeOK'
    BY <1>5, <2>1 DEF IInv, TypeOK, Join
  <2> QED
    BY <1>5, <2>2 DEF IInv, Join, WritersFlushed, SomeoneFlushes, At
<1>6. CASE \E w \in Conns : Leave(w)
  <2>1. TypeOK'
    BY <1>6 DEF IInv, TypeOK, Leave
  <2> QED
    BY <1>6, <2>1 DEF IInv, Leave, WritersFlushed, SomeoneFlushes, At
<1>7. CASE UNCHANGED vars
  BY <1>7 DEF vars, IInv, TypeOK, WritersFlushed, SomeoneFlushes, At
<1> QED
  BY <1>2, <1>3, <1>4, <1>5, <1>6, <1>7 DEF Next

\* The invariant of every behaviour: a queued event has a request still to flush
\* (internal/serve/app.go, broadcastPending after every call).
THEOREM Invariance == Spec => []IInv
BY InitInv, NextInv, PTL DEF Spec

\* Every state of the canvas and its requests is of its type.
THEOREM TypeCorrect == Spec => []TypeOK
<1>1. IInv => TypeOK
  BY DEF IInv
<1> QED
  BY <1>1, Invariance, PTL

\* No event is left in the queue once every request is answered, for any number of
\* requests that flush each other's events (internal/serve/app.go, broadcastPending).
THEOREM QueueDrained == Spec => []NothingStranded
<1>1. IInv => NothingStranded
  BY DEF IInv, SomeoneFlushes, NothingStranded, Quiet, At, Idle
<1> QED
  BY <1>1, Invariance, PTL
-----------------------------------------------------------------------------
(* Deliveries.                                                                 *)

Batch(h) == handler[h].events

\* No event is queued or in a batch twice, and none is there or at a browser before it was shown.
NoneTwice ==
    /\ \A i, j \in DOMAIN pending : pending[i] = pending[j] => i = j
    /\ \A i \in DOMAIN pending : pending[i] <= Len(shown)
    /\ \A w \in Conns : \A k \in DOMAIN received[w] : received[w][k] <= Len(shown)
    /\ \A h \in Handlers : /\ \A i, j \in DOMAIN Batch(h) : Batch(h)[i] = Batch(h)[j] => i = j
                           /\ \A i \in DOMAIN Batch(h) : Batch(h)[i] <= Len(shown)
                           /\ \A i \in DOMAIN Batch(h), j \in DOMAIN pending : Batch(h)[i] # pending[j]
    /\ \A g, h \in Handlers : g # h =>
          \A i \in DOMAIN Batch(g), j \in DOMAIN Batch(h) : Batch(g)[i] # Batch(h)[j]

\* A request that writes has each frame of its batch for the connections it has listed: the first
\* frame for those that are left and the one it is writing to.
Owes(h, w, n) ==
    /\ At(h, "list") \/ At(h, "write")
    /\ \E i \in DOMAIN Batch(h) :
          /\ Batch(h)[i] = n
          /\ \/ At(h, "list")
             \/ i = 1 /\ (w \in handler[h].left \/ w = handler[h].ws)
             \/ i # 1 /\ w \in handler[h].clients

Owed(w, n) == \/ \E i \in DOMAIN pending : pending[i] = n
              \/ \E h \in Handlers : Owes(h, w, n)

Frames(w, n) == {k \in DOMAIN received[w] : received[w][k] = n}

\* Whatever a connection was open for is either owed to it or has been sent, once.
OwedOrSent ==
    \A w \in wsClients : \A n \in joined[w] + 1 .. Len(shown) :
       IF Owed(w, n) THEN Frames(w, n) = {} ELSE \E k \in DOMAIN received[w] : Frames(w, n) = {k}

\* Two requests write to different connections, none to one that it has left to write to.
WritersApart ==
    /\ \A g, h \in Handlers : g # h /\ handler[g].ws # None => handler[g].ws # handler[h].ws
    /\ \A h \in Handlers : handler[h].ws \notin handler[h].left

\* The numbers at which connections opened.
JoinedShown == \A w \in Conns : /\ joined[w] # None => joined[w] <= Len(shown)
                                /\ w \in wsClients => joined[w] # None

DeliveryInv == ~overlap => /\ NoneTwice /\ OwedOrSent /\ WritersApart

FullInv == IInv /\ JoinedShown /\ DeliveryInv

LEMMA OthersKept ==
    ASSUME IInv, NEW h \in Handlers, NEW r, Becomes(h, r)
    PROVE  /\ handler'[h] = r
           /\ \A g \in Handlers : g # h => handler'[g] = handler[g]
           /\ \A g \in Handlers : g # h => \A w, n : Owes(g, w, n)' <=> Owes(g, w, n)
<1>1. handler'[h] = r /\ \A g \in Handlers : g # h => handler'[g] = handler[g]
  BY DEF IInv, TypeOK, Becomes
<1> QED
  BY <1>1 DEF Owes, At, Batch

\* A step that sends nothing and shows nothing keeps what is owed.
LEMMA SameOwed ==
    ASSUME OwedOrSent, received' = received, wsClients' \subseteq wsClients, joined' = joined,
           shown' = shown, \A w, n : Owed(w, n)' <=> Owed(w, n)
    PROVE  OwedOrSent'
BY DEF OwedOrSent, Frames

\* What one request does to its own record, when nothing is shown and the queue does not change.
LEMMA StepOfOne ==
    ASSUME IInv, DeliveryInv, NEW h \in Handlers, NEW r \in Requests, Becomes(h, r),
           UNCHANGED <<shown, pending, joined, received>>, wsClients' \subseteq wsClients,
           ~overlap' => ~overlap,
           r.events = <<>> \/ r.events = Batch(h),
           ~overlap' => /\ \A w \in wsClients : \A n : Owes(h, w, n)' <=> Owes(h, w, n)
                        /\ r.ws \notin r.left
                        /\ \A g \in Handlers : g # h /\ r.ws # None => handler[g].ws # r.ws
    PROVE  DeliveryInv'
<1> SUFFICES ASSUME ~overlap' PROVE NoneTwice' /\ OwedOrSent' /\ WritersApart'
  BY DEF DeliveryInv
<1>1. NoneTwice /\ OwedOrSent /\ WritersApart
  BY DEF DeliveryInv
<1>2. /\ handler'[h] = r
      /\ \A g \in Handlers : g # h => handler'[g] = handler[g]
      /\ \A g \in Handlers : g # h => \A w, n : Owes(g, w, n)' <=> Owes(g, w, n)
  BY OthersKept
<1>3. DOMAIN <<>> = {}
  OBVIOUS
<1>4. NoneTwice'
  <2>1. \A g \in Handlers : Batch(g)' = <<>> \/ Batch(g)' = Batch(g)
    BY <1>2 DEF Batch
  <2> QED
    BY <1>1, <1>3, <2>1 DEF NoneTwice
<1>5. \A w \in wsClients : \A n : Owed(w, n)' <=> Owed(w, n)
  BY <1>2 DEF Owed
<1>6. OwedOrSent'
  BY <1>1, <1>5 DEF OwedOrSent, Frames
<1>7. WritersApart'
  BY <1>1, <1>2 DEF WritersApart
<1> QED
  BY <1>4, <1>6, <1>7

\* The rest of a batch is its elements from the second on.
LEMMA TailFacts ==
    ASSUME NEW S, NEW seq \in Seq(S), seq # <<>>
    PROVE  /\ Tail(seq) \in Seq(S) /\ Len(seq) \in Nat \ {0} /\ Len(Tail(seq)) = Len(seq) - 1
           /\ DOMAIN Tail(seq) = 1 .. Len(seq) - 1 /\ DOMAIN seq = 1 .. Len(seq)
           /\ \A i \in 1 .. Len(seq) - 1 : i + 1 \in DOMAIN seq /\ Tail(seq)[i] = seq[i + 1]
OBVIOUS

LEMMA ShowDelivery ==
    ASSUME FullInv, NEW h \in Handlers, NEW s \in Sessions, NEW clear \in BOOLEAN,
           CanvasArtifactShow(h, s, clear)
    PROVE  DeliveryInv'
<1> DEFINE r == [Idle EXCEPT !.at = "flush"]
           new == Len(shown) + 1
<1> SUFFICES ASSUME ~overlap' PROVE NoneTwice' /\ OwedOrSent' /\ WritersApart'
  BY DEF DeliveryInv
<1>1. IInv /\ TypeOK /\ NoneTwice /\ OwedOrSent /\ WritersApart /\ Becomes(h, r) /\ At(h, "idle")
  BY DEF FullInv, IInv, DeliveryInv, CanvasArtifactShow
<1>2. /\ r \in Requests /\ r.at = "flush" /\ r.ws = None /\ r.left = {} /\ r.events = <<>>
  BY FlushType DEF Idle
<1>3. /\ handler'[h] = r
      /\ \A g \in Handlers : g # h => handler'[g] = handler[g]
      /\ \A g \in Handlers : g # h => \A w, n : Owes(g, w, n)' <=> Owes(g, w, n)
  <2> HIDE DEF r
  <2> QED
    BY <1>1, OthersKept
<1>4. /\ new \in Nat /\ Len(shown') = new /\ Len(shown) \in Nat
      /\ pending \in Seq(Events) /\ pending' = Append(pending, new)
      /\ received' = received /\ joined' = joined /\ wsClients' = wsClients
  <2>1. shown \in Seq([session : Sessions, clear : BOOLEAN])
    BY <1>1 DEF TypeOK
  <2> QED
    BY <1>1, <2>1 DEF CanvasArtifactShow, TypeOK
<1> HIDE DEF r, new
<1>5. /\ DOMAIN pending' = DOMAIN pending \cup {Len(pending) + 1}
      /\ pending'[Len(pending) + 1] = new /\ Len(pending) + 1 \notin DOMAIN pending
      /\ \A i \in DOMAIN pending : pending'[i] = pending[i]
  BY <1>4
<1>6. /\ \A i \in DOMAIN pending : pending[i] \in Nat /\ pending[i] < new
      /\ \A g \in Handlers : \A i \in DOMAIN Batch(g) : Batch(g)[i] \in Nat /\ Batch(g)[i] < new
      /\ \A w \in Conns : \A k \in DOMAIN received[w] : received[w][k] \in Nat /\ received[w][k] < new
  <2>1. \A i \in DOMAIN pending : pending[i] \in Nat
    BY <1>4, ConstantsAssumption DEF Events
  <2>2. \A w \in Conns : \A k \in DOMAIN received[w] : received[w][k] \in Nat
    BY <1>1, ConstantsAssumption DEF TypeOK, Events
  <2>3. \A g \in Handlers : \A i \in DOMAIN Batch(g) : Batch(g)[i] \in Nat
    <3>1. \A g \in Handlers : Batch(g) \in Seq(Events)
      BY <1>1 DEF TypeOK, Batch
    <3> QED
      BY <3>1, ConstantsAssumption DEF Events
  <2> QED
    BY <1>1, <1>4, <2>1, <2>2, <2>3 DEF NoneTwice, new
<1>7. \A g \in Handlers : Batch(g)' = <<>> \/ Batch(g)' = Batch(g)
  BY <1>2, <1>3 DEF Batch
<1>8. DOMAIN <<>> = {}
  OBVIOUS
<1>9. NoneTwice'
  <2>1. \A i, j \in DOMAIN pending' : pending'[i] = pending'[j] => i = j
    BY <1>1, <1>5, <1>6 DEF NoneTwice
  <2>2. /\ \A i \in DOMAIN pending' : pending'[i] <= Len(shown')
        /\ \A w \in Conns : \A k \in DOMAIN received'[w] : received'[w][k] <= Len(shown')
    BY <1>4, <1>5, <1>6
  <2>3. \A g \in Handlers : /\ \A i, j \in DOMAIN Batch(g)' : Batch(g)'[i] = Batch(g)'[j] => i = j
                            /\ \A i \in DOMAIN Batch(g)' : Batch(g)'[i] <= Len(shown')
    BY <1>1, <1>4, <1>6, <1>7, <1>8 DEF NoneTwice
  <2>4. \A g \in Handlers : \A i \in DOMAIN Batch(g)', j \in DOMAIN pending' :
           Batch(g)'[i] # pending'[j]
    BY <1>1, <1>5, <1>6, <1>7, <1>8 DEF NoneTwice
  <2>5. \A f, g \in Handlers : f # g =>
           \A i \in DOMAIN Batch(f)', j \in DOMAIN Batch(g)' : Batch(f)'[i] # Batch(g)'[j]
    BY <1>1, <1>7, <1>8 DEF NoneTwice
  <2> QED
    BY <2>1, <2>2, <2>3, <2>4, <2>5 DEF NoneTwice
<1>10. OwedOrSent'
  <2> SUFFICES ASSUME NEW w \in wsClients', NEW n \in (joined[w] + 1 .. Len(shown))'
               PROVE  (IF Owed(w, n) THEN Frames(w, n) = {}
                       ELSE \E k \in DOMAIN received[w] : Frames(w, n) = {k})'
    BY DEF OwedOrSent
  <2>1. w \in wsClients /\ w \in Conns /\ joined[w] \in Nat
    BY <1>1, <1>4 DEF FullInv, JoinedShown, TypeOK
  <2>2. Frames(w, n)' = Frames(w, n)
    BY <1>4 DEF Frames
  <2>3. CASE n = new
    <3>1. Owed(w, n)'
      BY <1>5, <2>3 DEF Owed
    <3>2. Frames(w, n) = {}
      BY <1>6, <2>1, <2>3 DEF Frames
    <3> QED
      BY <2>2, <3>1, <3>2
  <2>4. CASE n # new
    <3>1. n \in joined[w] + 1 .. Len(shown)
      BY <1>4, <2>1, <2>4 DEF new
    <3>2. Owed(w, n)' <=> Owed(w, n)
      <4>1. ~Owes(h, w, n) /\ ~Owes(h, w, n)'
        BY <1>1, <1>2, <1>3 DEF Owes, At
      <4> QED
        BY <1>3, <1>5, <2>4, <4>1 DEF Owed
    <3> QED
      BY <1>1, <1>4, <2>1, <2>2, <3>1, <3>2 DEF OwedOrSent
  <2> QED
    BY <2>3, <2>4
<1>11. WritersApart'
  BY <1>1, <1>2, <1>3 DEF WritersApart
<1> QED
  BY <1>9, <1>10, <1>11

\* A flush moves the queue into the batch of its request.
LEMMA FlushDelivery == ASSUME FullInv, NEW h \in Handlers, flushEvents(h) PROVE DeliveryInv'
<1> DEFINE r == IF pending = <<>> THEN Idle ELSE [Idle EXCEPT !.at = "list", !.events = pending]
<1> SUFFICES ASSUME ~overlap' PROVE NoneTwice' /\ OwedOrSent' /\ WritersApart'
  BY DEF DeliveryInv
<1>1. /\ IInv /\ TypeOK /\ NoneTwice /\ OwedOrSent /\ WritersApart /\ Becomes(h, r) /\ At(h, "flush")
      /\ pending' = <<>> /\ UNCHANGED <<shown, received, joined, wsClients>>
  BY DEF FullInv, IInv, DeliveryInv, flushEvents
<1>2. /\ r.events = pending /\ r.ws = None /\ r.left = {}
      /\ r.at = IF pending = <<>> THEN "idle" ELSE "list"
  BY DEF Idle
<1> HIDE DEF r
<1>3. /\ handler'[h] = r
      /\ \A g \in Handlers : g # h => handler'[g] = handler[g]
      /\ \A g \in Handlers : g # h => \A w, n : Owes(g, w, n)' <=> Owes(g, w, n)
  BY <1>1, OthersKept
<1>4. DOMAIN <<>> = {}
  OBVIOUS
<1>5. Batch(h)' = pending /\ \A g \in Handlers : g # h => Batch(g)' = Batch(g)
  BY <1>2, <1>3 DEF Batch
<1>6. NoneTwice'
  BY <1>1, <1>4, <1>5 DEF NoneTwice
<1>7. \A w, n : Owed(w, n)' <=> Owed(w, n)
  <2>1. \A w, n : ~Owes(h, w, n)
    BY <1>1 DEF Owes, At
  <2>2. \A w, n : Owes(h, w, n)' <=> \E i \in DOMAIN pending : pending[i] = n
    BY <1>2, <1>3, <1>4, <1>5 DEF Owes, At
  <2> QED
    BY <1>1, <1>3, <1>4, <2>1, <2>2 DEF Owed
<1>8. OwedOrSent'
  BY <1>1, <1>7, SameOwed
<1>9. WritersApart'
  BY <1>1, <1>2, <1>3 DEF WritersApart
<1> QED
  BY <1>6, <1>8, <1>9

LEMMA PostDelivery == ASSUME FullInv, NEW h \in Handlers, handleMCPPost(h) PROVE DeliveryInv'
<1> DEFINE r == [Idle EXCEPT !.at = "flush"]
<1>1. r \in Requests /\ r.at = "flush" /\ r.ws = None /\ r.left = {} /\ r.events = <<>>
  BY FlushType DEF Idle
<1>2. IInv /\ TypeOK /\ DeliveryInv /\ Becomes(h, r) /\ At(h, "idle")
  BY DEF FullInv, IInv, handleMCPPost
<1> HIDE DEF r
<1>3. \A w, n : Owes(h, w, n)' <=> Owes(h, w, n)
  BY <1>1, <1>2, OthersKept DEF Owes, At
<1> QED
  BY <1>1, <1>2, <1>3, StepOfOne DEF handleMCPPost

\* A connection that is listed is owed the batch; without any, nothing is owed to anyone.
LEMMA ListDelivery == ASSUME FullInv, NEW h \in Handlers, listClients(h) PROVE DeliveryInv'
<1> DEFINE r == IF wsClients = {} THEN Idle
                ELSE [handler[h] EXCEPT !.at = "write", !.clients = wsClients, !.left = wsClients]
<1>1. /\ IInv /\ TypeOK /\ DeliveryInv /\ Becomes(h, r) /\ At(h, "list")
      /\ handler[h] \in Requests /\ handler[h].ws = None /\ wsClients \subseteq Conns
  BY DEF FullInv, IInv, TypeOK, WritersFlushed, listClients, At, Requests
<1>2. CASE wsClients = {}
  <2>1. r = Idle /\ r \in Requests /\ r.events = <<>> /\ r.ws = None /\ r.left = {}
    BY <1>2, IdleType DEF Idle
  <2> HIDE DEF r
  <2> QED
    BY <1>1, <1>2, <2>1, StepOfOne DEF listClients
<1>3. CASE wsClients # {}
  <2>1. /\ r \in Requests /\ r.events = Batch(h) /\ r.ws = None
        /\ r.at = "write" /\ r.clients = wsClients /\ r.left = wsClients
    BY <1>1, <1>3 DEF Requests, Batch
  <2> HIDE DEF r
  <2>2. handler'[h] = r
    BY <1>1, OthersKept
  <2>3. \A w \in wsClients : \A n : Owes(h, w, n)' <=> Owes(h, w, n)
    BY <1>1, <2>1, <2>2 DEF Owes, At, Batch
  <2>4. r.ws \notin r.left
    <3>1. None \notin Conns
      BY ConstantsAssumption DEF Conns
    <3> QED
      BY <1>1, <2>1, <3>1
  <2> QED
    BY <1>1, <2>1, <2>3, <2>4, StepOfOne DEF listClients
<1> QED
  BY <1>2, <1>3

LEMMA BeginWriteDelivery ==
    ASSUME FullInv, NEW h \in Handlers, NEW v \in Conns, beginWrite(h, v) PROVE DeliveryInv'
<1>1. /\ IInv /\ TypeOK /\ DeliveryInv /\ At(h, "write") /\ handler[h].ws = None /\ v \in handler[h].left
      /\ handler[h] \in Requests /\ overlap' = (overlap \/ Writing(v)) /\ v # None
      /\ UNCHANGED <<shown, pending, wsClients, joined, received>>
  <2>1. v # None
    BY ConstantsAssumption DEF Conns
  <2> QED
    BY <2>1 DEF FullInv, IInv, TypeOK, beginWrite, Requests
<1>2. CASE overlap'
  BY <1>2 DEF DeliveryInv
<1>3. CASE ~overlap'
  <2> DEFINE r == [handler[h] EXCEPT !.ws = v, !.left = @ \ {v}]
  <2>1. Becomes(h, r) /\ ~overlap /\ \A g \in Handlers : handler[g].ws # v
    BY <1>1, <1>3 DEF beginWrite, Writing
  <2>2. /\ r \in Requests /\ r.events = Batch(h) /\ r.ws = v /\ r.ws \notin r.left
        /\ r.at = "write" /\ r.clients = handler[h].clients /\ r.left = handler[h].left \ {v}
    BY <1>1 DEF Requests, Batch, At
  <2> HIDE DEF r
  <2>3. handler'[h] = r
    BY <1>1, <2>1, OthersKept
  <2>4. \A w \in wsClients : w \in Conns /\ w # None
    BY <1>1, ConstantsAssumption DEF TypeOK, Conns
  <2>5. \A w \in wsClients : \A n : Owes(h, w, n)' <=> Owes(h, w, n)
    BY <1>1, <2>2, <2>3, <2>4 DEF Owes, At, Batch
  <2> QED
    BY <1>1, <2>1, <2>2, <2>5, StepOfOne
<1> QED
  BY <1>2, <1>3

LEMMA JoinDelivery == ASSUME FullInv, NEW v \in Conns, Join(v) PROVE DeliveryInv'
<1>1. /\ TypeOK /\ UNCHANGED <<shown, pending, received, handler, overlap>>
      /\ wsClients' = wsClients \cup {v} /\ joined' = [joined EXCEPT ![v] = Len(shown)]
      /\ shown \in Seq([session : Sessions, clear : BOOLEAN])
  BY DEF FullInv, IInv, TypeOK, Join
<1>2. \A w, n : Owed(w, n)' <=> Owed(w, n)
  BY <1>1 DEF Owed, Owes, At, Batch
<1>3. NoneTwice => NoneTwice'
  BY <1>1 DEF NoneTwice, Batch
<1>4. WritersApart => WritersApart'
  BY <1>1 DEF WritersApart
<1>5. OwedOrSent => OwedOrSent'
  <2>1. joined'[v] = Len(shown) /\ Len(shown) \in Nat /\ \A w \in Conns : w # v => joined'[w] = joined[w]
    BY <1>1 DEF TypeOK
  <2>2. joined'[v] + 1 .. Len(shown) = {}
    BY <2>1
  <2>3. \A w \in wsClients : w \in Conns
    BY <1>1 DEF TypeOK
  <2> QED
    BY <1>1, <1>2, <2>1, <2>2, <2>3 DEF OwedOrSent, Frames
<1> QED
  BY <1>1, <1>3, <1>4, <1>5 DEF DeliveryInv, FullInv

LEMMA LeaveDelivery == ASSUME FullInv, NEW v \in Conns, Leave(v) PROVE DeliveryInv'
<1>1. /\ UNCHANGED <<shown, pending, joined, received, handler, overlap>>
      /\ wsClients' \subseteq wsClients
  BY DEF Leave
<1>2. \A w, n : Owed(w, n)' <=> Owed(w, n)
  BY <1>1 DEF Owed, Owes, At, Batch
<1>3. NoneTwice => NoneTwice'
  BY <1>1 DEF NoneTwice, Batch
<1>4. WritersApart => WritersApart'
  BY <1>1 DEF WritersApart
<1>5. OwedOrSent => OwedOrSent'
  BY <1>1, <1>2, SameOwed
<1> QED
  BY <1>1, <1>3, <1>4, <1>5 DEF DeliveryInv, FullInv

\* The frame that leaves is the one the connection was owed, which is then owed no more.
LEMMA EndWriteDelivery == ASSUME FullInv, NEW h \in Handlers, endWrite(h) PROVE DeliveryInv'
<1> DEFINE q == handler[h]
           v == q.ws
           n == q.events[1]
           r == AfterWrite(q)
<1> SUFFICES ASSUME ~overlap' PROVE NoneTwice' /\ OwedOrSent' /\ WritersApart'
  BY DEF DeliveryInv
<1>1. /\ IInv /\ TypeOK /\ NoneTwice /\ OwedOrSent /\ WritersApart /\ Becomes(h, r) /\ v # None
      /\ UNCHANGED <<shown, pending, joined, wsClients>>
  BY DEF FullInv, IInv, DeliveryInv, endWrite
<1>2. /\ q \in Requests /\ q.at = "write" /\ q.events # <<>> /\ v \in Conns /\ v \notin q.left
  BY <1>1 DEF IInv, TypeOK, WritersFlushed, WritersApart, At, Requests
<1>3. q.events \in Seq(Events) /\ Len(q.events) \in Nat \ {0} /\ 1 \in DOMAIN q.events /\ n \in Events
  <2>1. q.events \in Seq(Events)
    BY <1>2 DEF Requests
  <2> QED
    BY <1>2, <2>1
<1>4. received' = IF v \in wsClients THEN [received EXCEPT ![v] = Append(@, n)] ELSE received
  <2>1. {handler[g].events[1] : g \in {g \in Handlers : handler[g].ws = v}} = {n}
    BY <1>1 DEF WritersApart
  <2> QED
    BY <2>1 DEF endWrite
<1>5. /\ r \in Requests /\ r.ws = None
      /\ \/ /\ q.left # {} /\ r.at = "write" /\ r.events = q.events /\ r.left = q.left
            /\ r.clients = q.clients
         \/ q.left = {} /\ Len(q.events) = 1 /\ r.at = "idle" /\ r.events = <<>> /\ r.left = {}
         \/ /\ q.left = {} /\ Len(q.events) # 1 /\ r.at = "write" /\ r.events = Tail(q.events)
            /\ r.left = q.clients /\ r.clients = q.clients
  BY <1>2, AfterWriteCases
<1>6. /\ handler'[h] = r
      /\ \A g \in Handlers : g # h => handler'[g] = handler[g]
      /\ \A g \in Handlers : g # h => \A w, m : Owes(g, w, m)' <=> Owes(g, w, m)
  <2> HIDE DEF r
  <2> QED
    BY <1>1, OthersKept
<1> HIDE DEF r
<1>7. /\ r.ws = None /\ \/ r.events = Batch(h)
                        \/ r.events = <<>>
                        \/ r.events = Tail(Batch(h)) /\ Len(Batch(h)) \in Nat \ {0, 1}
  BY <1>3, <1>5 DEF Batch
<1>8. DOMAIN <<>> = {}
  OBVIOUS
<1>9. /\ Batch(h)' = r.events /\ \A g \in Handlers : g # h => Batch(g)' = Batch(g)
      /\ Batch(h) = q.events
  BY <1>6 DEF Batch
<1>10. ASSUME r.events = Tail(Batch(h)), Len(Batch(h)) \in Nat \ {0, 1}
       PROVE  /\ \A i \in DOMAIN r.events : \E j \in DOMAIN Batch(h) : r.events[i] = Batch(h)[j]
              /\ \A i, j \in DOMAIN r.events : r.events[i] = r.events[j] => i = j
  <2> DEFINE more == Len(Batch(h)) - 1
  <2>1. /\ DOMAIN r.events = 1 .. more /\ more \in Nat
        /\ \A i \in 1 .. more : i + 1 \in DOMAIN Batch(h) /\ r.events[i] = Batch(h)[i + 1]
    BY <1>2, <1>3, <1>9, <1>10, TailFacts
  <2> HIDE DEF more
  <2>2. \A i \in DOMAIN r.events : \E j \in DOMAIN Batch(h) : r.events[i] = Batch(h)[j]
    BY <2>1
  <2>3. \A i, j \in DOMAIN r.events : r.events[i] = r.events[j] => i = j
    <3> SUFFICES ASSUME NEW i \in 1 .. more, NEW j \in 1 .. more, r.events[i] = r.events[j]
                 PROVE  i = j
      BY <2>1
    <3>1. i + 1 \in DOMAIN Batch(h) /\ j + 1 \in DOMAIN Batch(h) /\ Batch(h)[i + 1] = Batch(h)[j + 1]
      BY <2>1
    <3>2. i + 1 = j + 1
      BY <1>1, <3>1 DEF NoneTwice
    <3> QED
      BY <2>1, <3>2
  <2> QED
    BY <2>2, <2>3
<1>11. /\ \A i \in DOMAIN r.events : \E j \in DOMAIN Batch(h) : r.events[i] = Batch(h)[j]
       /\ \A i, j \in DOMAIN r.events : r.events[i] = r.events[j] => i = j
  BY <1>1, <1>7, <1>8, <1>10 DEF NoneTwice
<1>12. \A w \in Conns : \A k \in DOMAIN received'[w] : received'[w][k] <= Len(shown)
  <2>1. n <= Len(shown)
    BY <1>1, <1>3, <1>9 DEF NoneTwice
  <2>2. received \in [Conns -> Seq(Events)]
    BY <1>1 DEF TypeOK
  <2>3. \A w \in Conns : \A k \in DOMAIN received'[w] :
           \/ received'[w][k] = n
           \/ k \in DOMAIN received[w] /\ received'[w][k] = received[w][k]
    BY <1>3, <1>4, <2>2
  <2> QED
    BY <1>1, <2>1, <2>3 DEF NoneTwice
<1>13. NoneTwice'
  <2>1. \A g \in Handlers : \A i \in DOMAIN Batch(g)' : \E j \in DOMAIN Batch(g) : Batch(g)'[i] = Batch(g)[j]
    BY <1>9, <1>11
  <2> QED
    BY <1>1, <1>9, <1>11, <1>12, <2>1 DEF NoneTwice
<1>14. \A w \in wsClients : \A m : Owes(h, w, m)' <=> Owes(h, w, m) /\ ~(w = v /\ m = n)
  <2>1. \A w \in wsClients : w # None /\ w \in Conns
    BY <1>1, ConstantsAssumption DEF TypeOK, Conns
  <2>2. \A i \in DOMAIN Batch(h) : Batch(h)[i] = n => i = 1
    BY <1>1, <1>3, <1>9 DEF NoneTwice
  <2>3. \A w, m : Owes(h, w, m) <=>
           \E i \in DOMAIN Batch(h) : /\ Batch(h)[i] = m
                                      /\ \/ i = 1 /\ (w \in q.left \/ w = v)
                                         \/ i # 1 /\ w \in q.clients
    BY <1>2 DEF Owes, At
  <2>4. \A w, m : Owes(h, w, m)' <=>
           /\ r.at = "write"
           /\ \E i \in DOMAIN r.events : /\ r.events[i] = m
                                         /\ \/ i = 1 /\ (w \in r.left \/ w = None)
                                            \/ i # 1 /\ w \in r.clients
    BY <1>5, <1>6, <1>9 DEF Owes, At
  <2>5. CASE q.left # {}
    BY <1>2, <1>5, <1>9, <2>1, <2>2, <2>3, <2>4, <2>5
  <2>6. CASE q.left = {} /\ Len(q.events) = 1
    <3>1. \A i \in DOMAIN Batch(h) : i = 1
      BY <1>3, <1>9, <2>6
    <3> QED
      BY <1>3, <1>5, <1>9, <2>1, <2>2, <2>3, <2>4, <2>6, <3>1
  <2>7. CASE q.left = {} /\ Len(q.events) # 1
    <3> DEFINE more == Len(Batch(h)) - 1
    <3>1. /\ r.events = Tail(Batch(h)) /\ r.left = q.clients /\ r.clients = q.clients /\ r.at = "write"
      BY <1>5, <1>9, <2>7
    <3>2. /\ DOMAIN r.events = 1 .. more /\ more \in Nat /\ DOMAIN Batch(h) = 1 .. more + 1
          /\ \A i \in 1 .. more : i + 1 \in DOMAIN Batch(h) /\ r.events[i] = Batch(h)[i + 1]
      BY <1>2, <1>3, <1>9, <3>1, TailFacts
    <3> HIDE DEF more
    <3> SUFFICES ASSUME NEW w \in wsClients, NEW m
                 PROVE  Owes(h, w, m)' <=> Owes(h, w, m) /\ ~(w = v /\ m = n)
      OBVIOUS
    <3>3. Owes(h, w, m)' <=> w \in q.clients /\ \E i \in 1 .. more : Batch(h)[i + 1] = m
      <4>1. Owes(h, w, m)' <=> \E i \in DOMAIN r.events : r.events[i] = m /\ w \in q.clients
        BY <2>1, <2>4, <3>1, Zenon
      <4> QED
        BY <3>2, <4>1
    <3>4. Owes(h, w, m) /\ ~(w = v /\ m = n) <=>
             w \in q.clients /\ \E j \in DOMAIN Batch(h) : j # 1 /\ Batch(h)[j] = m
      BY <1>9, <2>2, <2>3, <2>7
    <3>5. (\E i \in 1 .. more : Batch(h)[i + 1] = m) <=> \E j \in DOMAIN Batch(h) : j # 1 /\ Batch(h)[j] = m
      <4>1. \A j \in DOMAIN Batch(h) : j # 1 => j - 1 \in 1 .. more /\ (j - 1) + 1 = j
        BY <3>2
      <4>2. \A i \in 1 .. more : i + 1 \in DOMAIN Batch(h) /\ i + 1 # 1
        BY <3>2
      <4> QED
        BY <4>1, <4>2
    <3> QED
      BY <3>3, <3>4, <3>5
  <2> QED
    BY <2>5, <2>6, <2>7
<1>15. OwedOrSent'
  <2>1. /\ \A w \in wsClients : \A m : Owed(w, m)' => Owed(w, m)
        /\ \A w \in wsClients : \A m : Owed(w, m) /\ ~(w = v /\ m = n) => Owed(w, m)'
    BY <1>1, <1>6, <1>14 DEF Owed
  <2>2. \A w \in wsClients : \A m : w = v /\ m = n => Owed(w, m) /\ ~Owed(w, m)'
    <3>1. Owes(h, v, n)
      BY <1>2, <1>3, <1>9 DEF Owes, At
    <3>2. \A g \in Handlers : g # h => ~Owes(g, v, n)
      BY <1>1, <1>3, <1>9 DEF Owes, NoneTwice
    <3>3. \A i \in DOMAIN pending : pending[i] # n
      BY <1>1, <1>3, <1>9 DEF NoneTwice
    <3> QED
      BY <1>1, <1>6, <1>14, <3>1, <3>2, <3>3 DEF Owed
  <2> SUFFICES ASSUME NEW w \in wsClients, NEW m \in joined[w] + 1 .. Len(shown)
               PROVE  (IF Owed(w, m) THEN Frames(w, m) = {}
                       ELSE \E k \in DOMAIN received[w] : Frames(w, m) = {k})'
    BY <1>1 DEF OwedOrSent
  <2>3. IF Owed(w, m) THEN Frames(w, m) = {} ELSE \E k \in DOMAIN received[w] : Frames(w, m) = {k}
    BY <1>1 DEF OwedOrSent
  <2>4. received[w] \in Seq(Events) /\ w \in Conns /\ received \in [Conns -> Seq(Events)]
    BY <1>1 DEF TypeOK
  <2>5. CASE w # v
    <3>1. received'[w] = received[w]
      BY <1>4, <2>4, <2>5
    <3> QED
      BY <2>1, <2>3, <2>5, <3>1 DEF Frames
  <2>6. CASE w = v
    <3> DEFINE last == Len(received[w]) + 1
    <3>1. received'[w] = Append(received[w], n)
      BY <1>4, <2>4, <2>6
    <3>2. /\ DOMAIN received'[w] = DOMAIN received[w] \cup {last} /\ last \notin DOMAIN received[w]
          /\ received'[w][last] = n /\ last \in Nat
          /\ \A k \in DOMAIN received[w] : received'[w][k] = received[w][k]
      BY <1>3, <2>4, <3>1
    <3> HIDE DEF last
    <3>3. Frames(w, m)' = IF m = n THEN Frames(w, m) \cup {last} ELSE Frames(w, m)
      BY <3>2 DEF Frames
    <3> QED
      BY <2>1, <2>2, <2>3, <2>6, <3>2, <3>3
  <2> QED
    BY <2>5, <2>6
<1>16. WritersApart'
  BY <1>1, <1>5, <1>6, ConstantsAssumption DEF WritersApart, Requests, Conns
<1> QED
  BY <1>13, <1>15, <1>16

LEMMA OneFrame == \A k : Cardinality({k}) = 1
BY FS_Singleton

LEMMA FullInit == Init => FullInv
<1> SUFFICES ASSUME Init PROVE FullInv
  OBVIOUS
<1>1. IInv /\ wsClients = {} /\ pending = <<>> /\ \A h \in Handlers : handler[h] = Idle
  BY InitInv DEF Init
<1>2. \A h \in Handlers : Batch(h) = <<>> /\ handler[h].ws = None /\ handler[h].left = {}
  BY <1>1 DEF Batch, Idle
<1>3. DOMAIN <<>> = {}
  OBVIOUS
<1>4. \A w \in Conns : received[w] = <<>> /\ joined[w] = None
  BY DEF Init
<1> QED
  BY <1>1, <1>2, <1>3, <1>4 DEF FullInv, JoinedShown, DeliveryInv, NoneTwice, OwedOrSent, WritersApart

LEMMA JoinedNext == ASSUME TypeOK, JoinedShown, [Next]_vars PROVE JoinedShown'
<1> USE DEF JoinedShown
<1>1. shown \in Seq([session : Sessions, clear : BOOLEAN]) /\ Len(shown) \in Nat
  BY DEF TypeOK
<1>2. CASE \E h \in setting.handlers, s \in setting.sessions, clear \in BOOLEAN :
              CanvasArtifactShow(h, s, clear)
  <2>1. \A w \in Conns : joined[w] # None => joined[w] \in Nat
    BY ConstantsAssumption DEF TypeOK
  <2>2. Len(shown') = Len(shown) + 1 /\ UNCHANGED <<wsClients, joined>>
    BY <1>1, <1>2 DEF CanvasArtifactShow
  <2> QED
    BY <1>1, <2>1, <2>2
<1>3. CASE \E w \in Conns : Join(w)
  BY <1>1, <1>3, ConstantsAssumption DEF Join, TypeOK
<1>4. CASE \E w \in Conns : Leave(w)
  BY <1>4 DEF Leave
<1>5. CASE (\E h \in setting.handlers : handleMCPPost(h) \/ Progress(h)) \/ UNCHANGED vars
  BY <1>5 DEF vars, handleMCPPost, Progress, flushEvents, listClients, endWrite, beginWrite
<1> QED
  BY <1>2, <1>3, <1>4, <1>5 DEF Next

LEMMA FullNext == FullInv /\ [Next]_vars => FullInv'
<1> SUFFICES ASSUME FullInv, [Next]_vars PROVE FullInv'
  OBVIOUS
<1>1. IInv' /\ JoinedShown'
  BY NextInv, JoinedNext DEF FullInv, IInv
<1>2. setting.handlers \subseteq Handlers /\ setting.sessions \subseteq Sessions
  BY ConstantsAssumption DEF FullInv, IInv, TypeOK
<1>3. DeliveryInv'
  <2>1. CASE UNCHANGED vars
    BY <2>1 DEF vars, FullInv, DeliveryInv, NoneTwice, OwedOrSent, WritersApart, Owed, Owes, At,
                Batch, Frames
  <2>2. CASE \E h \in setting.handlers : Progress(h)
    BY <1>2, <2>2, FlushDelivery, ListDelivery, BeginWriteDelivery, EndWriteDelivery DEF Progress
  <2> QED
    BY <1>2, <2>1, <2>2, ShowDelivery, PostDelivery, JoinDelivery, LeaveDelivery DEF Next
<1> QED
  BY <1>1, <1>3 DEF FullInv

\* While no two requests ever wrote to one connection, every event is owed or sent exactly once.
THEOREM Deliveries == Spec => []FullInv
BY FullInit, FullNext, PTL DEF Spec

\* Every browser has got every event shown since it connected exactly once, whichever requests
\* flushed and sent it (internal/serve/app.go, broadcastPending and broadcastToAll).
THEOREM EachEventOnce == Spec => []DeliveredOnce
<1>1. FullInv => DeliveredOnce
  <2> SUFFICES ASSUME FullInv, Quiet, ~overlap, NEW w \in wsClients,
                      NEW n \in joined[w] + 1 .. Len(shown)
               PROVE  Count(n, received[w]) = 1
    BY DEF DeliveredOnce
  <2>1. pending = <<>> /\ \A h \in Handlers : handler[h].at = "idle"
    BY DEF FullInv, IInv, SomeoneFlushes, Quiet, At, Idle
  <2>2. DOMAIN <<>> = {}
    OBVIOUS
  <2>3. ~Owed(w, n)
    BY <2>1, <2>2 DEF Owed, Owes, At
  <2>4. \E k : Frames(w, n) = {k}
    BY <2>3 DEF FullInv, DeliveryInv, OwedOrSent
  <2> QED
    BY <2>4, OneFrame DEF Count, Frames
<1> QED
  BY <1>1, Deliveries, PTL
-----------------------------------------------------------------------------
(* The screens, when there is one request at a time.                           *)

OneByOneSetting == \A g, h \in setting.handlers : g = h

\* The last event of a session is its artifact.
ActiveIsLast ==
    \A n \in 1 .. Len(shown) :
       (\A m \in n + 1 .. Len(shown) : shown[m].session # shown[n].session) =>
          active[shown[n].session] = IF shown[n].clear THEN None ELSE n

\* The number of events that are neither queued nor in hand.
Waiting(h) == Len(shown) - Len(pending) - Len(Batch(h))

\* What is in hand and what is queued are the last events shown, in their order.
InOrder(h) ==
    /\ \A i \in DOMAIN pending : pending[i] = Len(shown) - Len(pending) + i
    /\ \A i \in DOMAIN Batch(h) : Batch(h)[i] = Waiting(h) + i

\* The last event that a connection can have got.
LastGot(h, w) ==
    IF At(h, "write") /\ w \notin handler[h].left /\ w # handler[h].ws THEN Waiting(h) + 1
    ELSE Waiting(h)

\* A connection has got events in order and without a gap, up to that one.
NoGaps(h) ==
    \A w \in wsClients :
       /\ At(h, "write") /\ w \notin handler[h].clients => received[w] = <<>>
       /\ \A k \in DOMAIN received[w] : received[w][k] = LastGot(h, w) - Len(received[w]) + k

Listed(h) ==
    /\ At(h, "idle") \/ At(h, "flush") => Batch(h) = <<>>
    /\ At(h, "write") => handler[h].left \cup ({handler[h].ws} \ {None}) \subseteq handler[h].clients
    /\ At(h, "write") => handler[h].ws \notin handler[h].left

ScreenInv ==
    /\ IInv
    /\ ActiveIsLast
    /\ \A w \in Conns : joined[w] = None => w \notin wsClients /\ received[w] = <<>>
    /\ \A h \in Handlers : h \notin setting.handlers => handler[h] = Idle
    /\ setting.handlers = {} => \A w \in Conns : received[w] = <<>>
    /\ OneByOneSetting => \A h \in setting.handlers : InOrder(h) /\ NoGaps(h) /\ Listed(h)

LEMMA NoneNoConn == None \notin Conns
BY ConstantsAssumption DEF Conns

LEMMA ShowScreen ==
    ASSUME ScreenInv, NEW h \in Handlers, InOrder(h), NoGaps(h), Listed(h),
           NEW s \in Sessions, NEW clear \in BOOLEAN, CanvasArtifactShow(h, s, clear)
    PROVE  InOrder(h)' /\ NoGaps(h)' /\ Listed(h)'
<1> DEFINE r == [Idle EXCEPT !.at = "flush"]
<1>1. r.at = "flush" /\ r.events = <<>> /\ r \in Requests
  BY FlushType DEF Idle
<1>2. IInv /\ TypeOK /\ Becomes(h, r) /\ At(h, "idle") /\ UNCHANGED <<received, wsClients>>
  BY DEF ScreenInv, IInv, CanvasArtifactShow
<1> HIDE DEF r
<1>3. handler'[h] = r /\ Batch(h) = <<>> /\ Batch(h)' = <<>>
  BY <1>1, <1>2, OthersKept DEF Batch, Listed
<1>4. /\ Len(shown) \in Nat /\ Len(shown') = Len(shown) + 1 /\ Len(pending) \in Nat
      /\ pending' = Append(pending, Len(shown) + 1) /\ pending \in Seq(Events)
  BY <1>2 DEF CanvasArtifactShow, TypeOK
<1>5. /\ DOMAIN pending' = 1 .. Len(pending) + 1 /\ Len(pending') = Len(pending) + 1
      /\ \A i \in 1 .. Len(pending) : pending'[i] = pending[i] /\ i \in DOMAIN pending
      /\ pending'[Len(pending) + 1] = Len(shown) + 1
  BY <1>4
<1>6. DOMAIN <<>> = {} /\ Len(<<>>) = 0
  OBVIOUS
<1>7. Waiting(h)' = Waiting(h)
  BY <1>3, <1>4, <1>5, <1>6 DEF Waiting
<1>8. InOrder(h)'
  BY <1>3, <1>4, <1>5, <1>6 DEF InOrder
<1>9. ~At(h, "write") /\ ~At(h, "write")'
  BY <1>1, <1>2, <1>3 DEF At
<1>10. NoGaps(h)'
  BY <1>2, <1>7, <1>9 DEF NoGaps, LastGot
<1> QED
  BY <1>1, <1>3, <1>8, <1>9, <1>10 DEF Listed

LEMMA FlushScreen ==
    ASSUME ScreenInv, NEW h \in Handlers, InOrder(h), NoGaps(h), Listed(h), flushEvents(h)
    PROVE  InOrder(h)' /\ NoGaps(h)' /\ Listed(h)'
<1> DEFINE r == IF pending = <<>> THEN Idle ELSE [Idle EXCEPT !.at = "list", !.events = pending]
<1>1. r.events = pending /\ r.at = IF pending = <<>> THEN "idle" ELSE "list"
  BY DEF Idle
<1>2. /\ IInv /\ TypeOK /\ Becomes(h, r) /\ At(h, "flush")
      /\ UNCHANGED <<received, wsClients, shown>> /\ pending' = <<>>
  BY DEF ScreenInv, IInv, flushEvents
<1> HIDE DEF r
<1>3. handler'[h] = r /\ Batch(h) = <<>> /\ Batch(h)' = pending
  BY <1>1, <1>2, OthersKept DEF Batch, Listed
<1>4. Len(shown) \in Nat /\ Len(pending) \in Nat
  BY <1>2 DEF TypeOK
<1>5. DOMAIN <<>> = {} /\ Len(<<>>) = 0
  OBVIOUS
<1>6. Waiting(h)' = Waiting(h) /\ Waiting(h) = Len(shown) - Len(pending)
  BY <1>2, <1>3, <1>4, <1>5 DEF Waiting
<1>7. InOrder(h)'
  BY <1>2, <1>3, <1>5, <1>6 DEF InOrder
<1>8. ~At(h, "write") /\ ~At(h, "write")'
  BY <1>1, <1>2, <1>3 DEF At
<1>9. NoGaps(h)'
  BY <1>2, <1>6, <1>8 DEF NoGaps, LastGot
<1> QED
  BY <1>1, <1>3, <1>7, <1>8, <1>9 DEF Listed, At

LEMMA ListScreen ==
    ASSUME ScreenInv, NEW h \in Handlers, InOrder(h), NoGaps(h), Listed(h), listClients(h)
    PROVE  InOrder(h)' /\ NoGaps(h)' /\ Listed(h)'
<1> DEFINE r == IF wsClients = {} THEN Idle
                ELSE [handler[h] EXCEPT !.at = "write", !.clients = wsClients, !.left = wsClients]
<1>1. /\ IInv /\ TypeOK /\ Becomes(h, r) /\ At(h, "list") /\ handler[h] \in Requests
      /\ UNCHANGED <<received, wsClients, shown, pending>> /\ handler[h].ws = None
  BY DEF ScreenInv, IInv, TypeOK, WritersFlushed, listClients, At, Requests
<1>2. handler'[h] = r /\ Len(shown) \in Nat /\ Len(pending) \in Nat
  <2> HIDE DEF r
  <2> QED
    BY <1>1, OthersKept DEF TypeOK
<1>3. CASE wsClients = {}
  <2>1. Batch(h)' = <<>> /\ handler'[h].at = "idle"
    BY <1>2, <1>3 DEF Batch, Idle
  <2>2. DOMAIN <<>> = {}
    OBVIOUS
  <2> QED
    BY <1>1, <1>3, <2>1, <2>2 DEF InOrder, NoGaps, Listed, At
<1>4. CASE wsClients # {}
  <2>1. /\ r.events = Batch(h) /\ r.at = "write" /\ r.left = wsClients /\ r.clients = wsClients
        /\ r.ws = None
    BY <1>1, <1>4 DEF Batch, Requests
  <2> HIDE DEF r
  <2>2. Batch(h)' = Batch(h) /\ Waiting(h)' = Waiting(h)
    BY <1>1, <1>2, <2>1 DEF Batch, Waiting
  <2>3. \A w \in wsClients : LastGot(h, w)' = Waiting(h) /\ LastGot(h, w) = Waiting(h)
    BY <1>1, <1>2, <2>1, <2>2 DEF LastGot, At
  <2>4. r.ws \notin r.left
    BY <1>1, <2>1, NoneNoConn DEF TypeOK
  <2>5. InOrder(h)'
    BY <1>1, <2>2 DEF InOrder
  <2>6. NoGaps(h)'
    BY <1>1, <1>2, <2>1, <2>3 DEF NoGaps, At
  <2>7. Listed(h)'
    BY <1>2, <2>1, <2>4 DEF Listed, At
  <2> QED
    BY <2>5, <2>6, <2>7
<1> QED
  BY <1>3, <1>4

LEMMA BeginWriteScreen ==
    ASSUME ScreenInv, NEW h \in Handlers, InOrder(h), NoGaps(h), Listed(h), NEW v \in Conns,
           beginWrite(h, v), \A g \in Handlers : g # h => handler[g] = Idle
    PROVE  InOrder(h)' /\ NoGaps(h)' /\ Listed(h)'
<1> DEFINE r == [handler[h] EXCEPT !.ws = v, !.left = @ \ {v}]
<1>1. v # None /\ Idle.ws = None
  BY ConstantsAssumption DEF Conns, Idle
<1>2. /\ IInv /\ TypeOK /\ At(h, "write") /\ handler[h] \in Requests
      /\ UNCHANGED <<received, wsClients, shown, pending>> /\ v \in handler[h].left
      /\ handler[h].ws = None
  BY DEF ScreenInv, IInv, TypeOK, beginWrite, Requests
<1>3. ~Writing(v)
  BY <1>1, <1>2 DEF Writing
<1>4. Becomes(h, r)
  BY <1>3 DEF beginWrite
<1>5. /\ r.events = Batch(h) /\ r.at = "write" /\ r.left = handler[h].left \ {v} /\ r.ws = v
      /\ r.clients = handler[h].clients
  BY <1>2 DEF Batch, Requests, At
<1> HIDE DEF r
<1>6. handler'[h] = r
  BY <1>2, <1>4, OthersKept
<1>7. Batch(h)' = Batch(h) /\ Waiting(h)' = Waiting(h)
  BY <1>2, <1>5, <1>6 DEF Batch, Waiting
<1>8. \A w \in wsClients : LastGot(h, w)' = LastGot(h, w)
  <2>1. None \notin wsClients
    BY <1>2, NoneNoConn DEF TypeOK
  <2> QED
    BY <1>2, <1>5, <1>6, <1>7, <2>1 DEF LastGot, At
<1> QED
  BY <1>2, <1>5, <1>6, <1>7, <1>8 DEF InOrder, NoGaps, Listed, At

\* After its frame a connection has got the event in hand; after the last connection's, the
\* next one is in hand.
LEMMA EndWriteScreen ==
    ASSUME ScreenInv, NEW h \in Handlers, InOrder(h), NoGaps(h), Listed(h), endWrite(h),
           \A g \in Handlers : g # h => handler[g] = Idle
    PROVE  InOrder(h)' /\ NoGaps(h)' /\ Listed(h)'
<1> DEFINE q == handler[h]
           v == q.ws
           n == q.events[1]
           r == AfterWrite(q)
<1>1. /\ IInv /\ TypeOK /\ Becomes(h, r) /\ v # None
      /\ UNCHANGED <<shown, pending, joined, wsClients>>
  BY DEF ScreenInv, IInv, endWrite
<1>2. /\ q \in Requests /\ q.at = "write" /\ q.events # <<>> /\ q.events = Batch(h)
      /\ v \in Conns /\ v \in q.clients /\ q.left \subseteq q.clients
  BY <1>1 DEF IInv, TypeOK, WritersFlushed, Listed, At, Requests, Batch
<1>3. /\ q.events \in Seq(Events) /\ Len(q.events) \in Nat \ {0} /\ Tail(q.events) \in Seq(Events)
      /\ Len(Tail(q.events)) = Len(q.events) - 1
      /\ DOMAIN Tail(q.events) = 1 .. Len(q.events) - 1 /\ DOMAIN q.events = 1 .. Len(q.events)
      /\ \A i \in 1 .. Len(q.events) - 1 : Tail(q.events)[i] = q.events[i + 1]
  <2>1. q.events \in Seq(Events)
    BY <1>2 DEF Requests
  <2> QED
    BY <1>2, <2>1, TailFacts
<1>4. received' = IF v \in wsClients THEN [received EXCEPT ![v] = Append(@, n)] ELSE received
  <2>1. {handler[g].events[1] : g \in {g \in Handlers : handler[g].ws = v}} = {n}
    BY <1>1 DEF Idle
  <2> QED
    BY <2>1 DEF endWrite
<1>5. /\ r.ws = None
      /\ \/ /\ q.left # {} /\ r.at = "write" /\ r.events = q.events /\ r.left = q.left
            /\ r.clients = q.clients
         \/ q.left = {} /\ Len(q.events) = 1 /\ r.at = "idle" /\ r.events = <<>> /\ r.left = {}
         \/ /\ q.left = {} /\ Len(q.events) # 1 /\ r.at = "write" /\ r.events = Tail(q.events)
            /\ r.left = q.clients /\ r.clients = q.clients
  BY <1>2, AfterWriteCases
<1> HIDE DEF r
<1>6. handler'[h] = r /\ Batch(h)' = r.events
  BY <1>1, OthersKept DEF Batch
<1>7. Len(shown) \in Nat /\ Len(pending) \in Nat /\ Waiting(h) \in Int /\ n = Waiting(h) + 1
  <2>1. Len(shown) \in Nat /\ Len(pending) \in Nat
    BY <1>1 DEF TypeOK
  <2>2. 1 \in DOMAIN Batch(h)
    BY <1>2, <1>3
  <2> QED
    BY <1>2, <1>3, <2>1, <2>2 DEF InOrder, Waiting
<1>8. /\ DOMAIN <<>> = {} /\ Len(<<>>) = 0
      /\ None \notin wsClients
  BY <1>1, NoneNoConn DEF TypeOK
<1>9. /\ Waiting(h)' = IF q.left = {} THEN Waiting(h) + 1 ELSE Waiting(h)
      /\ \A i \in DOMAIN r.events : r.events[i] = Waiting(h)' + i
  <2>1. CASE q.left # {}
    BY <1>1, <1>2, <1>5, <1>6, <2>1 DEF Waiting, InOrder
  <2>2. CASE q.left = {} /\ Len(q.events) = 1
    <3>1. r.events = <<>>
      BY <1>5, <2>2
    <3>2. Len(Batch(h)) = 1 /\ Len(Batch(h)') = 0
      BY <1>2, <1>6, <1>8, <2>2, <3>1
    <3>3. Waiting(h)' = Waiting(h) + 1
      BY <1>1, <1>7, <3>2 DEF Waiting
    <3> QED
      BY <1>8, <2>2, <3>1, <3>3
  <2>3. CASE q.left = {} /\ Len(q.events) # 1
    <3>1. r.events = Tail(q.events)
      BY <1>5, <2>3
    <3>2. Waiting(h)' = Waiting(h) + 1
      BY <1>1, <1>2, <1>3, <1>6, <1>7, <2>3, <3>1 DEF Waiting
    <3>3. \A i \in 1 .. Len(q.events) - 1 : q.events[i + 1] = Waiting(h) + (i + 1)
      BY <1>2, <1>3 DEF InOrder
    <3>4. DOMAIN r.events = 1 .. Len(q.events) - 1
      BY <1>3, <3>1
    <3>5. ASSUME NEW i \in 1 .. Len(q.events) - 1
          PROVE  r.events[i] = Waiting(h)' + i
      <4>1. r.events[i] = q.events[i + 1]
        BY <1>3, <3>1
      <4>2. q.events[i + 1] = Waiting(h) + (i + 1)
        BY <3>3
      <4>3. i \in Int /\ (Waiting(h) + 1) + i = Waiting(h) + (i + 1)
        BY ONLY <1>3, <1>7
      <4> QED
        BY ONLY <3>2, <4>1, <4>2, <4>3
    <3> QED
      BY <2>3, <3>2, <3>4, <3>5
  <2> QED
    BY <2>1, <2>2, <2>3
<1>10. InOrder(h)'
  BY <1>1, <1>6, <1>9 DEF InOrder
<1>11. NoGaps(h)'
  <2> SUFFICES ASSUME NEW w \in wsClients
               PROVE  /\ r.at = "write" /\ w \notin r.clients => received'[w] = <<>>
                      /\ \A k \in DOMAIN received'[w] :
                            received'[w][k] = LastGot(h, w)' - Len(received'[w]) + k
    BY <1>1, <1>6 DEF NoGaps, At
  <2>1. /\ w \in Conns /\ w # None /\ received[w] \in Seq(Events) /\ received \in [Conns -> Seq(Events)]
        /\ Len(received[w]) \in Nat
    BY <1>1, <1>8 DEF TypeOK
  <2>2. /\ w \notin q.clients => received[w] = <<>>
        /\ \A k \in DOMAIN received[w] : received[w][k] = LastGot(h, w) - Len(received[w]) + k
    BY <1>2 DEF NoGaps, At
  <2>3. LastGot(h, w) = IF w \notin q.left /\ w # v THEN Waiting(h) + 1 ELSE Waiting(h)
    BY <1>2 DEF LastGot, At
  <2>4. CASE w # v
    <3>1. received'[w] = received[w]
      BY <1>4, <2>1, <2>4
    <3>2. w \in q.clients => LastGot(h, w)' = LastGot(h, w)
      BY <1>5, <1>6, <1>9, <2>1, <2>3, <2>4 DEF LastGot, At
    <3>3. w \notin q.clients => received'[w] = <<>>
      BY <2>2, <3>1
    <3> QED
      BY <1>5, <1>8, <2>2, <3>1, <3>2, <3>3
  <2>5. CASE w = v
    <3>1. /\ received'[w] = Append(received[w], n) /\ n \in Events
      BY <1>2, <1>3, <1>4, <2>1, <2>5
    <3>2. /\ Len(received'[w]) = Len(received[w]) + 1
          /\ DOMAIN received'[w] = 1 .. Len(received[w]) + 1
          /\ received'[w][Len(received[w]) + 1] = n
          /\ \A k \in 1 .. Len(received[w]) : received'[w][k] = received[w][k] /\ k \in DOMAIN received[w]
      BY <2>1, <3>1
    <3>3. w \notin q.left => LastGot(h, w)' = Waiting(h) + 1
      BY <1>2, <1>5, <1>6, <1>7, <1>9, <2>1, <2>5 DEF LastGot, At
    <3>4. w \notin q.left
      BY <1>2, <2>5 DEF Listed, At
    <3>5. LastGot(h, w) = Waiting(h)
      BY <2>3, <2>5
    <3>6. \A k \in DOMAIN received'[w] : received'[w][k] = (Waiting(h) + 1) - Len(received'[w]) + k
      <4> DEFINE l == Len(received[w])
                 at == Waiting(h)
      <4>1. \A k \in 1 .. l : received'[w][k] = at - l + k
        BY <2>2, <3>2, <3>5
      <4>2. received'[w][l + 1] = at + 1
        BY <1>7, <3>2
      <4>3. l \in Nat /\ at \in Int /\ Len(received'[w]) = l + 1 /\ DOMAIN received'[w] = 1 .. l + 1
        BY <1>7, <2>1, <3>2
      <4> HIDE DEF l, at
      <4>4. \A k \in 1 .. l : received'[w][k] = (at + 1) - (l + 1) + k
        BY <4>1, <4>3
      <4>5. received'[w][l + 1] = (at + 1) - (l + 1) + (l + 1)
        BY <4>2, <4>3
      <4>6. \A k \in 1 .. l + 1 : k \in 1 .. l \/ k = l + 1
        BY <4>3
      <4>7. \A k \in 1 .. l + 1 : received'[w][k] = (at + 1) - (l + 1) + k
        BY <4>4, <4>5, <4>6
      <4> QED
        BY <4>3, <4>7 DEF at
    <3>7. r.at = "write" => w \in r.clients
      BY <1>2, <1>5, <2>5
    <3>8. LastGot(h, w)' = Waiting(h) + 1
      BY <3>3, <3>4
    <3>9. \A k \in DOMAIN received'[w] : received'[w][k] = LastGot(h, w)' - Len(received'[w]) + k
      BY <3>6, <3>8
    <3> QED
      BY <3>7, <3>9
  <2> QED
    BY <2>4, <2>5
<1>12. Listed(h)'
  BY <1>1, <1>2, <1>5, <1>6, NoneNoConn DEF Listed, At, Batch, Requests
<1> QED
  BY <1>10, <1>11, <1>12

LEMMA ActiveNext == ASSUME TypeOK, ActiveIsLast, [Next]_vars PROVE ActiveIsLast'
<1>1. CASE UNCHANGED <<shown, active>>
  BY <1>1 DEF ActiveIsLast
<1>2. ASSUME NEW h, NEW s \in Sessions, NEW clear \in BOOLEAN, CanvasArtifactShow(h, s, clear)
      PROVE  ActiveIsLast'
  <2> DEFINE new == Len(shown) + 1
             entry == [session |-> s, clear |-> clear]
  <2>1. shown \in Seq([session : Sessions, clear : BOOLEAN]) /\ shown' = Append(shown, entry)
    BY <1>2 DEF TypeOK, CanvasArtifactShow
  <2>2. /\ Len(shown) \in Nat /\ Len(shown') = new /\ shown'[new] = entry
        /\ \A m \in 1 .. Len(shown) : shown'[m] = shown[m] /\ shown[m].session \in Sessions
    <3>1. entry \in [session : Sessions, clear : BOOLEAN]
      OBVIOUS
    <3> DEFINE S == [session : Sessions, clear : BOOLEAN]
    <3>2. \A e \in S : e.session \in Sessions
      OBVIOUS
    <3> HIDE DEF entry, S
    <3>3. shown \in Seq(S) /\ shown' = Append(shown, entry) /\ entry \in S
      BY <2>1, <3>1 DEF S
    <3>4. /\ Len(shown) \in Nat /\ Len(shown') = new /\ shown'[new] = entry
          /\ \A m \in 1 .. Len(shown) : shown'[m] = shown[m] /\ shown[m] \in S
      BY <3>3
    <3> QED
      BY <3>2, <3>4
  <2>3. active' = [active EXCEPT ![s] = IF clear THEN None ELSE new] /\ active \in [Sessions -> Events \cup {None}]
    BY <1>2 DEF TypeOK, CanvasArtifactShow
  <2>4. entry.session = s /\ entry.clear = clear
    OBVIOUS
  <2> HIDE DEF entry
  <2> SUFFICES ASSUME NEW n \in 1 .. new,
                      \A m \in n + 1 .. new : shown'[m].session # shown'[n].session
               PROVE  active'[shown'[n].session] = IF shown'[n].clear THEN None ELSE n
    BY <2>2 DEF ActiveIsLast
  <2>5. CASE n = new
    BY <2>2, <2>3, <2>4, <2>5
  <2>6. CASE n # new
    <3>1. n \in 1 .. Len(shown) /\ new \in n + 1 .. new /\ \A m \in n + 1 .. Len(shown) : m \in n + 1 .. new
      BY <2>2, <2>6
    <3>2. shown[n].session # s
      BY <2>2, <2>4, <3>1
    <3>3. \A m \in n + 1 .. Len(shown) : shown[m].session # shown[n].session
      BY <2>2, <3>1
    <3>4. active[shown[n].session] = IF shown[n].clear THEN None ELSE n
      BY <3>1, <3>3 DEF ActiveIsLast
    <3>5. active'[shown[n].session] = active[shown[n].session]
      BY <2>2, <2>3, <3>1, <3>2
    <3> QED
      BY <2>2, <3>1, <3>4, <3>5
  <2> QED
    BY <2>5, <2>6
<1>3. setting.sessions \subseteq Sessions
  BY ConstantsAssumption DEF TypeOK
<1> QED
  BY <1>1, <1>2, <1>3 DEF Next, vars, handleMCPPost, Progress, flushEvents, listClients, endWrite,
                          beginWrite, Join, Leave

\* Before a connection opens nothing is sent to it.
LEMMA NoneBefore ==
    ASSUME TypeOK, \A w \in Conns : joined[w] = None => w \notin wsClients /\ received[w] = <<>>,
           [Next]_vars
    PROVE  \A w \in Conns : joined'[w] = None => w \notin wsClients' /\ received'[w] = <<>>
<1>1. CASE \E w \in Conns : Join(w)
  <2>1. Len(shown) # None
    BY ConstantsAssumption DEF TypeOK
  <2> QED
    BY <1>1, <2>1 DEF Join, TypeOK
<1>2. CASE \E h \in setting.handlers : endWrite(h)
  <2>1. PICK h : endWrite(h)
    BY <1>2
  <2>2. PICK n : received' = IF handler[h].ws \in wsClients
                             THEN [received EXCEPT ![handler[h].ws] = Append(@, n)] ELSE received
    BY <2>1 DEF endWrite
  <2>3. joined' = joined /\ wsClients' = wsClients
    BY <2>1 DEF endWrite
  <2>4. \A w \in Conns : joined[w] = None => received'[w] = received[w]
    BY <2>2 DEF TypeOK
  <2> QED
    BY <2>3, <2>4
<1> QED
  BY <1>1, <1>2 DEF Next, vars, handleMCPPost, Progress, flushEvents, listClients, beginWrite,
                    CanvasArtifactShow, Leave

LEMMA ScreenInit == Init => ScreenInv
<1> SUFFICES ASSUME Init PROVE ScreenInv
  OBVIOUS
<1>1. /\ IInv /\ wsClients = {} /\ pending = <<>> /\ shown = <<>>
      /\ \A h \in Handlers : handler[h] = Idle
      /\ \A w \in Conns : received[w] = <<>>
  BY InitInv DEF Init
<1>2. DOMAIN <<>> = {} /\ Len(<<>>) = 0
  OBVIOUS
<1>3. setting.handlers \subseteq Handlers
  BY <1>1, ConstantsAssumption DEF IInv, TypeOK
<1>4. \A h \in Handlers : Batch(h) = <<>> /\ ~At(h, "write")
  BY <1>1 DEF Batch, Idle, At
<1>5. \A h \in setting.handlers : InOrder(h) /\ NoGaps(h) /\ Listed(h)
  BY <1>1, <1>2, <1>3, <1>4 DEF InOrder, NoGaps, Listed
<1>6. ActiveIsLast
  BY <1>1, <1>2 DEF ActiveIsLast
<1> QED
  BY <1>1, <1>5, <1>6 DEF ScreenInv

LEMMA ScreenNext == ScreenInv /\ [Next]_vars => ScreenInv'
<1> SUFFICES ASSUME ScreenInv, [Next]_vars PROVE ScreenInv'
  OBVIOUS
<1>1. /\ IInv' /\ ActiveIsLast'
      /\ \A w \in Conns : joined'[w] = None => w \notin wsClients' /\ received'[w] = <<>>
  BY NextInv, ActiveNext, NoneBefore DEF ScreenInv, IInv
<1>2. setting.handlers \subseteq Handlers /\ setting.sessions \subseteq Sessions /\ setting' = setting
  BY ConstantsAssumption DEF ScreenInv, IInv, TypeOK, Next, vars, CanvasArtifactShow, handleMCPPost,
     Progress, flushEvents, listClients, endWrite, beginWrite, Join, Leave
<1>3. \A g \in Handlers : g \notin setting.handlers => handler'[g] = Idle
  <2>1. ASSUME NEW h \in setting.handlers, \E r : Becomes(h, r)
        PROVE  \A g \in Handlers : g # h => handler'[g] = handler[g]
    BY <1>2, <2>1, OthersKept DEF ScreenInv
  <2>2. \/ \E h \in setting.handlers : \E r : Becomes(h, r)
        \/ handler' = handler
    BY DEF Next, vars, CanvasArtifactShow, handleMCPPost, Progress, flushEvents, listClients,
           endWrite, beginWrite, Join, Leave
  <2> QED
    BY <2>1, <2>2 DEF ScreenInv
<1>4. setting.handlers = {} => \A w \in Conns : received'[w] = <<>>
  BY DEF ScreenInv, Next, vars, Join, Leave
<1>5. ASSUME OneByOneSetting', NEW h \in setting.handlers'
      PROVE  InOrder(h)' /\ NoGaps(h)' /\ Listed(h)'
  <2>1. /\ h \in Handlers /\ InOrder(h) /\ NoGaps(h) /\ Listed(h)
        /\ \A g \in setting.handlers : g = h
        /\ \A g \in Handlers : g # h => handler[g] = Idle
    BY <1>2, <1>5 DEF ScreenInv, OneByOneSetting
  <2>2. CASE \E s \in setting.sessions, clear \in BOOLEAN : CanvasArtifactShow(h, s, clear)
    BY <1>2, <2>1, <2>2, ShowScreen
  <2>3. CASE Progress(h)
    BY <2>1, <2>3, FlushScreen, ListScreen, BeginWriteScreen, EndWriteScreen DEF Progress
  <2>4. CASE handleMCPPost(h)
    <3> DEFINE r == [Idle EXCEPT !.at = "flush"]
    <3>1. /\ r.at = "flush" /\ r.events = <<>> /\ Becomes(h, r) /\ IInv /\ At(h, "idle")
          /\ UNCHANGED <<shown, pending, received, wsClients>>
      BY <2>4, FlushType DEF Idle, handleMCPPost, ScreenInv
    <3> HIDE DEF r
    <3>2. handler'[h] = r
      BY <2>1, <3>1, OthersKept
    <3>3. Batch(h)' = <<>> /\ Batch(h) = <<>> /\ ~At(h, "write") /\ ~At(h, "write")'
      BY <2>1, <3>1, <3>2 DEF Batch, Listed, At
    <3>4. Waiting(h)' = Waiting(h)
      BY <3>1, <3>3 DEF Waiting
    <3> QED
      BY <2>1, <3>1, <3>3, <3>4 DEF InOrder, NoGaps, Listed, LastGot
  <2>5. CASE UNCHANGED <<shown, pending, received, handler>> /\ wsClients' \subseteq wsClients
    <3>1. Batch(h)' = Batch(h) /\ Waiting(h)' = Waiting(h)
      BY <2>5 DEF Batch, Waiting
    <3>2. \A w \in wsClients : LastGot(h, w)' = LastGot(h, w)
      BY <2>5, <3>1 DEF LastGot, At
    <3> QED
      BY <2>1, <2>5, <3>1, <3>2 DEF InOrder, NoGaps, Listed, At
  <2>6. CASE \E w \in Conns : Join(w)
    <3>1. PICK v \in Conns : Join(v)
      BY <2>6
    <3>2. /\ UNCHANGED <<shown, pending, received, handler>> /\ wsClients' = wsClients \cup {v}
          /\ received[v] = <<>>
      BY <3>1 DEF Join, ScreenInv
    <3>3. Batch(h)' = Batch(h) /\ Waiting(h)' = Waiting(h)
      BY <3>2 DEF Batch, Waiting
    <3>4. \A w \in Conns : LastGot(h, w)' = LastGot(h, w)
      BY <3>2, <3>3 DEF LastGot, At
    <3>5. DOMAIN <<>> = {} /\ wsClients \subseteq Conns
      BY DEF ScreenInv, IInv, TypeOK
    <3> QED
      BY <2>1, <3>2, <3>3, <3>4, <3>5 DEF InOrder, NoGaps, Listed, At
  <2> QED
    BY <1>2, <2>1, <2>2, <2>3, <2>4, <2>5, <2>6 DEF Next, vars, Leave
<1> QED
  BY <1>1, <1>2, <1>3, <1>4, <1>5 DEF ScreenInv, OneByOneSetting

\* With one request at a time, what a browser shows of a session is what canvas_status says of it:
\* events arrive in their order and without a gap (internal/canvas/adapter.go, ActiveArtifact).
THEOREM ScreensShowTheSessions == Spec => []ScreenAgrees
<1>1. ScreenInv => ScreenAgrees
  <2> SUFFICES ASSUME ScreenInv, Quiet, \A g, h \in setting.handlers : g = h,
                      NEW w \in wsClients, NEW s \in Sessions,
                      NEW k \in DOMAIN received[w], shown[received[w][k]].session = s,
                      \A j \in DOMAIN received[w] : shown[received[w][j]].session = s => j <= k
               PROVE  LET n == received[w][k]
                      IN  active[s] = IF shown[n].clear THEN None ELSE n
    BY DEF ScreenAgrees
  <2> DEFINE len == Len(received[w])
  <2>1. /\ TypeOK /\ pending = <<>> /\ \A h \in Handlers : handler[h] = Idle
    <3>1. IInv /\ \A h \in Handlers : handler[h] = Idle
      BY DEF ScreenInv, Quiet
    <3>2. \A h \in Handlers : ~At(h, "flush")
      BY <3>1 DEF At, Idle
    <3> QED
      BY <3>1, <3>2 DEF IInv, SomeoneFlushes
  <2>2. /\ w \in Conns /\ received[w] \in Seq(Events) /\ len \in Nat /\ DOMAIN received[w] = 1 .. len
        /\ Len(shown) \in Nat
    BY <2>1 DEF TypeOK
  <2>3. \A j \in 1 .. len : received[w][j] = Len(shown) - len + j
    <3>1. setting.handlers \subseteq Handlers
      BY <2>1, ConstantsAssumption DEF TypeOK
    <3>2. CASE setting.handlers = {}
      <4>1. received[w] = <<>> /\ Len(<<>>) = 0
        BY <2>2, <3>2 DEF ScreenInv
      <4> QED
        BY <2>2, <4>1
    <3>3. ASSUME NEW h \in setting.handlers
          PROVE  \A j \in 1 .. len : received[w][j] = Len(shown) - len + j
      <4>1. Batch(h) = <<>> /\ ~At(h, "write") /\ Len(<<>>) = 0
        BY <2>1, <3>1 DEF Batch, Idle, At
      <4>2. LastGot(h, w) = Len(shown)
        BY <2>1, <2>2, <4>1 DEF LastGot, Waiting
      <4>3. NoGaps(h)
        BY DEF ScreenInv, OneByOneSetting
      <4> QED
        BY <2>2, <4>2, <4>3 DEF NoGaps
    <3> QED
      BY <3>2, <3>3
  <2> DEFINE n == received[w][k]
  <2>4. k \in 1 .. len /\ n = Len(shown) - len + k /\ n \in Events
    <3>1. k \in 1 .. len
      BY <2>2
    <3>2. n = Len(shown) - len + k
      BY ONLY <2>3, <3>1
    <3>3. n \in Events
      BY <2>2
    <3> QED
      BY ONLY <3>1, <3>2, <3>3
  <2> HIDE DEF n
  <2>5. n \in Nat /\ n >= 1 /\ n <= Len(shown)
    <3>1. n \in Nat /\ n >= 1
      BY <2>4, ConstantsAssumption DEF Events
    <3>2. Len(shown) \in Nat /\ len \in Nat /\ k \in Nat /\ k <= len
      BY <2>2, <2>4
    <3> QED
      BY ONLY <2>4, <3>1, <3>2
  <2>6. \A m \in n + 1 .. Len(shown) : shown[m].session # s
    <3> SUFFICES ASSUME NEW m \in n + 1 .. Len(shown), shown[m].session = s PROVE FALSE
      OBVIOUS
    <3> DEFINE j == m - Len(shown) + len
    <3>1. j \in 1 .. len /\ j > k /\ Len(shown) - len + j = m
      <4> HIDE DEF len
      <4> QED
        BY <2>2, <2>4, <2>5
    <3> HIDE DEF j
    <3>2. received[w][j] = m /\ j \in DOMAIN received[w]
      BY <2>2, <2>3, <3>1
    <3>3. j <= k
      BY <3>2
    <3> QED
      BY <2>2, <2>4, <3>1, <3>3
  <2>7. active[shown[n].session] = IF shown[n].clear THEN None ELSE n
    <3>1. n \in 1 .. Len(shown) /\ shown[n].session = s
      BY <2>2, <2>5 DEF n
    <3> QED
      BY <2>6, <3>1 DEF ScreenInv, ActiveIsLast
  <2> QED
    BY <2>7 DEF n
<1> QED
  BY <1>1, ScreenInit, ScreenNext, PTL DEF Spec

==============================================================================
