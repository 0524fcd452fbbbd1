----------------------------- MODULE OrderStream -----------------------------
(***************************************************************************)
(* The live order feed of StreamApiSse/Orders.Realtime.Api: a background   *)
(* producer writes orders to one channel, every open request takes orders  *)
(* from it, numbers them, keeps the last MaxBufferSize in a shared buffer  *)
(* and sends them to its client; a client that comes back with the last    *)
(* event Id it has seen is first sent what the buffer has after it.        *)
(*                                                                         *)
(* An order is its number in the order of production.  The producer's own  *)
(* names, amounts and delays are left out.  A handler is one request; it   *)
(* outlives its client's connection until the server notices.              *)
(***************************************************************************)
EXTENDS Naturals, Sequences, FiniteSets

CONSTANTS
    Clients,        \* the browsers
    Handlers,       \* the requests of orders/realtime and orders/realtime/with-events
    ClientOf,       \* [Handlers -> Clients]
    Plain,          \* the requests of orders/realtime, which neither number nor buffer
    MaxBufferSize,  \* maxBufferSize of OrderEventBuffer, 100 in the program
    MaxOrders       \* bound on the orders produced

Nobody == "nobody"

ASSUME HandlersAssumption == IsFiniteSet(Handlers) /\ Plain \subseteq Handlers /\ Nobody \notin Handlers
ASSUME ClientOfAssumption == ClientOf \in [Handlers -> Clients]
ASSUME BoundsAssumption == MaxBufferSize \in Nat /\ MaxOrders \in Nat

VARIABLES
    orderCounter,   \* the next order to be produced
    stopping,       \* the application stops: the channel is complete
    channel,        \* the orders nobody has taken yet
    nextEventId,    \* _nextEventId
    buffer,         \* _buffer: the event Ids of its items, oldest first
    pc,             \* where a handler stands
    lastEventId,    \* the Last-Event-ID header of a handler, 0 for none
    missed,         \* the missed events a handler still has to send
    order,          \* the order a handler has taken, 0 for none
    eventId,        \* the event Id a handler has given to it, 0 for none
    connected,      \* the handler a client listens to, or Nobody
    seen,           \* the event Ids a client has received, oldest first
    owed,           \* history: the later events buffered when a client's request looked for them
    peak            \* history: the most requests that were ever inside Add at once

vars == <<orderCounter, stopping, channel, nextEventId, buffer, pc, lastEventId,
          missed, order, eventId, connected, seen, owed, peak>>

history == <<owed, peak>>

EventHandlers == Handlers \ Plain

PcValues == {"idle", "started", "replaying", "live", "numbering", "adding", "trimming",
             "removing", "yielding", "closed"}

LastSeen(c) == IF seen[c] = <<>> THEN 0 ELSE seen[c][Len(seen[c])]

Items(s) == {s[i] : i \in DOMAIN s}

TypeOK ==
    /\ orderCounter \in 1 .. MaxOrders + 1
    /\ stopping \in BOOLEAN
    /\ channel \in Seq(1 .. MaxOrders)
    /\ nextEventId \in Nat \ {0}
    /\ buffer \in Seq(Nat \ {0})
    /\ pc \in [Handlers -> PcValues]
    /\ lastEventId \in [Handlers -> Nat]
    /\ missed \in [Handlers -> SUBSET (Nat \ {0})]
    /\ order \in [Handlers -> 0 .. MaxOrders]
    /\ eventId \in [Handlers -> Nat]
    /\ connected \in [Clients -> Handlers \cup {Nobody}]
    /\ seen \in [Clients -> Seq(Nat \ {0})]
    /\ owed \in [Clients -> SUBSET (Nat \ {0})]
    /\ peak \in Nat

\* Mutant of FirstEventId: the first event is not told from none.
EventIdZero == 0

\* The initial value of _nextEventId.
FirstEventId == 1

Init ==
    /\ orderCounter = 1
    /\ stopping = FALSE
    /\ channel = <<>>
    /\ nextEventId = FirstEventId
    /\ buffer = <<>>
    /\ pc = [h \in Handlers |-> "idle"]
    /\ lastEventId = [h \in Handlers |-> 0]
    /\ missed = [h \in Handlers |-> {}]
    /\ order = [h \in Handlers |-> 0]
    /\ eventId = [h \in Handlers |-> 0]
    /\ connected = [c \in Clients |-> Nobody]
    /\ seen = [c \in Clients |-> <<>>]
    /\ owed = [c \in Clients |-> {}]
    /\ peak = 0

Goto(h, label) == pc' = [pc EXCEPT ![h] = label]

\* The requests that have drawn an event Id and are not through with Add.
Adding == {h \in Handlers : pc[h] \in {"adding", "trimming", "removing"}}

\* The events that have been in the buffer so far.
Enqueued == {e \in 1 .. nextEventId - 1 : \A h \in Handlers : pc[h] = "adding" => eventId[h] # e}

-----------------------------------------------------------------------------
(* OrderProducerService *)

ProduceOrder ==
    /\ ~ stopping
    /\ orderCounter <= MaxOrders
    /\ channel' = Append(channel, orderCounter)
    /\ orderCounter' = orderCounter + 1
    /\ UNCHANGED <<stopping, nextEventId, buffer, pc, lastEventId, missed, order, eventId, connected, seen, history>>

\* The application stops; the channel is completed, what is in it remains.
Stop ==
    /\ ~ stopping
    /\ stopping' = TRUE
    /\ UNCHANGED <<orderCounter, channel, nextEventId, buffer, pc, lastEventId, missed, order, eventId,
                   connected, seen, history>>

-----------------------------------------------------------------------------
(* The clients (external: the EventSource of a browser) *)

\* A client connects, or connects again with the last event Id it has seen; the
\* server may not have noticed yet that it had left.
Connect(h) ==
    LET c == ClientOf[h] IN
    /\ pc[h] = "idle"
    /\ connected[c] = Nobody
    /\ connected' = [connected EXCEPT ![c] = h]
    /\ lastEventId' = [lastEventId EXCEPT ![h] = LastSeen(c)]
    /\ Goto(h, IF h \in Plain THEN "live" ELSE "started")
    /\ UNCHANGED <<orderCounter, stopping, channel, nextEventId, buffer, missed, order, eventId, seen, history>>

\* The connection breaks; what is written to it from now on is lost.
Disconnect(c) ==
    /\ connected[c] # Nobody
    /\ connected' = [connected EXCEPT ![c] = Nobody]
    /\ owed' = [owed EXCEPT ![c] = {}]
    /\ UNCHANGED <<orderCounter, stopping, channel, nextEventId, buffer, pc, lastEventId, missed, order,
                   eventId, seen, peak>>

-----------------------------------------------------------------------------
(* The requests *)

\* What the client of h receives when h writes the event e.
Send(h, e) ==
    seen' = IF connected[ClientOf[h]] = h THEN [seen EXCEPT ![ClientOf[h]] = Append(@, e)] ELSE seen

\* Mutant of EventsAfter: the event after the last one seen is taken as seen.
EventsAfterNext(e) == {d \in Items(buffer) : e # 0 /\ d > e + 1}

\* Mutant of EventsAfter: the event last seen is taken as missed.
EventsFrom(e) == {d \in Items(buffer) : e # 0 /\ d >= e}

\* GetEventsAfter: nothing without a Last-Event-ID.
EventsAfter(e) == {d \in Items(buffer) : e # 0 /\ d > e}

\* The first MoveNext of StreamEvents evaluates the query of GetEventsAfter.
GetEventsAfter(h) ==
    /\ pc[h] = "started"
    /\ missed' = [missed EXCEPT ![h] = EventsAfter(lastEventId[h])]
    /\ owed' = IF connected[ClientOf[h]] = h
               THEN [owed EXCEPT ![ClientOf[h]] = {e \in Enqueued : 0 < lastEventId[h] /\ lastEventId[h] < e}]
               ELSE owed
    /\ Goto(h, "replaying")
    /\ UNCHANGED <<orderCounter, stopping, channel, nextEventId, buffer, lastEventId, order, eventId,
                   connected, seen, peak>>

\* OrderBy: the oldest goes first.
SendMissed(h) ==
    /\ pc[h] = "replaying"
    /\ \E e \in missed[h] :
           /\ \A d \in missed[h] : e <= d
           /\ Send(h, e)
           /\ missed' = [missed EXCEPT ![h] = @ \ {e}]
    /\ UNCHANGED <<orderCounter, stopping, channel, nextEventId, buffer, pc, lastEventId, order, eventId, connected, history>>

\* Mutant of GoLive: the request is through once it has sent what was missed.
EndAfterReplay(h) ==
    /\ pc[h] = "replaying"
    /\ missed[h] = {}
    /\ Goto(h, "closed")
    /\ UNCHANGED <<orderCounter, stopping, channel, nextEventId, buffer, lastEventId, missed, order, eventId,
                   connected, seen, history>>

GoLive(h) ==
    /\ pc[h] = "replaying"
    /\ missed[h] = {}
    /\ Goto(h, "live")
    /\ UNCHANGED <<orderCounter, stopping, channel, nextEventId, buffer, lastEventId, missed, order, eventId,
                   connected, seen, history>>

\* ReadAllAsync hands the next order to one of the requests that wait for it.
ReadOrder(h) ==
    /\ pc[h] = "live"
    /\ channel # <<>>
    /\ order' = [order EXCEPT ![h] = Head(channel)]
    /\ channel' = Tail(channel)
    /\ Goto(h, IF h \in Plain THEN "yielding" ELSE "numbering")
    /\ UNCHANGED <<orderCounter, stopping, nextEventId, buffer, lastEventId, missed, eventId, connected, seen, history>>

\* Mutant of TakeEventId: the counter is read and written back in two steps,
\* and another request may do the same in between.
TakeEventIdUnlocked(h) ==
    /\ pc[h] = "numbering"
    /\ eventId' = [eventId EXCEPT ![h] = nextEventId]
    /\ nextEventId' \in {nextEventId, nextEventId + 1}
    /\ Goto(h, "adding")
    /\ peak' = IF Cardinality(Adding) < peak THEN peak ELSE Cardinality(Adding) + 1
    /\ UNCHANGED <<orderCounter, stopping, channel, buffer, lastEventId, missed, order, connected, seen, owed>>

\* Add: Interlocked.Increment.
TakeEventId(h) ==
    /\ pc[h] = "numbering"
    /\ eventId' = [eventId EXCEPT ![h] = nextEventId]
    /\ nextEventId' = nextEventId + 1
    /\ Goto(h, "adding")
    /\ peak' = IF Cardinality(Adding) < peak THEN peak ELSE Cardinality(Adding) + 1
    /\ UNCHANGED <<orderCounter, stopping, channel, buffer, lastEventId, missed, order, connected, seen, owed>>

\* Add: Enqueue.
Enqueue(h) ==
    /\ pc[h] = "adding"
    /\ buffer' = Append(buffer, eventId[h])
    /\ Goto(h, "trimming")
    /\ UNCHANGED <<orderCounter, stopping, channel, nextEventId, lastEventId, missed, order, eventId,
                   connected, seen, history>>

\* Mutant of TooMany: one item too many is removed.
AtLeastMax == Len(buffer) >= MaxBufferSize /\ buffer # <<>>

\* Add: the condition of the loop.
TooMany == Len(buffer) > MaxBufferSize

CheckCount(h) ==
    /\ pc[h] = "trimming"
    /\ Goto(h, IF TooMany THEN "removing" ELSE "yielding")
    /\ UNCHANGED <<orderCounter, stopping, channel, nextEventId, buffer, lastEventId, missed, order, eventId,
                   connected, seen, history>>

\* Add: TryDequeue removes the head of the queue, if there is one.
TryDequeue(h) ==
    /\ pc[h] = "removing"
    /\ buffer' = IF buffer = <<>> THEN <<>> ELSE Tail(buffer)
    /\ Goto(h, "trimming")
    /\ UNCHANGED <<orderCounter, stopping, channel, nextEventId, lastEventId, missed, order, eventId,
                   connected, seen, history>>

\* yield return; the events of orders/realtime have no Id.
YieldOrder(h) ==
    /\ pc[h] = "yielding"
    /\ IF h \in Plain THEN UNCHANGED seen ELSE Send(h, eventId[h])
    /\ order' = [order EXCEPT ![h] = 0]
    /\ eventId' = [eventId EXCEPT ![h] = 0]
    /\ Goto(h, "live")
    /\ UNCHANGED <<orderCounter, stopping, channel, nextEventId, buffer, lastEventId, missed, connected, history>>

\* The cancellation token or a failed write ends the enumeration at a yield or
\* at the wait for the next order, once the server has noticed that the client
\* has left; so does the end of the completed channel.
Close(h) ==
    /\ \/ pc[h] \in {"started", "replaying", "live", "yielding"} /\ connected[ClientOf[h]] # h
       \/ pc[h] = "live" /\ stopping /\ channel = <<>>
    /\ Goto(h, "closed")
    /\ lastEventId' = [lastEventId EXCEPT ![h] = 0]
    /\ missed' = [missed EXCEPT ![h] = {}]
    /\ order' = [order EXCEPT ![h] = 0]
    /\ eventId' = [eventId EXCEPT ![h] = 0]
    /\ connected' = [c \in Clients |-> IF connected[c] = h THEN Nobody ELSE connected[c]]
    /\ owed' = [c \in Clients |-> IF connected[c] = h THEN {} ELSE owed[c]]
    /\ UNCHANGED <<orderCounter, stopping, channel, nextEventId, buffer, seen, peak>>

-----------------------------------------------------------------------------
HandlerStep(h) ==
    \/ GetEventsAfter(h) \/ SendMissed(h) \/ GoLive(h)
    \/ ReadOrder(h)
    \/ TakeEventId(h) \/ Enqueue(h) \/ CheckCount(h) \/ TryDequeue(h)
    \/ YieldOrder(h)
    \/ Close(h)

Next ==
    \/ ProduceOrder
    \/ Stop
    \/ \E h \in Handlers : Connect(h) \/ HandlerStep(h)
    \/ \E c \in Clients : Disconnect(c)

\* A request that can go on goes on: its continuation is on the thread pool.
\* Nobody has to connect, and the producer may be slow.
Spec == Init /\ [][Next]_vars /\ \A h \in Handlers : WF_vars(HandlerStep(h))

-----------------------------------------------------------------------------
(* Properties *)

\* The events that have been in the buffer and have left it.
Dropped == Enqueued \ Items(buffer)

\* Two orders never get one event Id, whatever requests number them at once,
\* and the buffer never holds an event twice (Interlocked.Increment in Add).
EventIdsAreUnique ==
    /\ \A i, j \in DOMAIN buffer : buffer[i] = buffer[j] => i = j
    /\ \A g, h \in Handlers : eventId[g] = eventId[h] /\ eventId[g] # 0 => g = h
    /\ \A h \in Handlers : pc[h] = "adding" => eventId[h] \notin Items(buffer)

\* A client never receives an event twice nor after a later one, over all its
\* connections, replays and live orders (OrderBy and the strict comparison in
\* GetEventsAfter, replay before live in StreamEvents).
SeenInOrder ==
    \A c \in Clients : \A i, j \in DOMAIN seen[c] : i < j => seen[c][i] < seen[c][j]

\* Requests that add at once overshoot the size of the buffer by at most one
\* item each, and once an item has been removed undershoot it by at most one
\* item for every other request that was in Add at once with one: alone, Add
\* keeps the size exactly (the loop around Count and TryDequeue in Add).
BufferSizeIsNearlyKept ==
    /\ Len(buffer) <= MaxBufferSize + Cardinality(Adding)
    /\ Dropped # {} => Len(buffer) + peak >= MaxBufferSize + 1

\* An event that was buffered when a client's request looked for what the
\* client had missed is sent before any later one, unless MaxBufferSize newer
\* events had pushed it out, two fewer for every other request that was in Add
\* at once: one dequeues too much, one has enqueued behind its successor.  What
\* an older request of the client takes after the look is lost to the client
\* (GetEventsAfter and Add, in StreamEvents of two requests of one client).
ReplayLeavesNoGap ==
    [][\A c \in Clients : seen'[c] # seen[c] =>
          \A e \in owed[c] : LastSeen(c) < e /\ e < LastSeen(c)' =>
              Cardinality({f \in owed[c] : f > e}) + 2 * peak >= MaxBufferSize + 2]_vars

\* An order does not stay in the channel while a client stays connected: a
\* request comes back for the next one although the loop in Add has to catch
\* up with others that add.
OrdersAreTaken ==
    \A h \in Handlers : channel # <<>> ~> (channel = <<>> \/ connected[ClientOf[h]] # h)

\* "Maintain buffer size by removing the oldest items" (OrderEventBuffer.cs:21):
\* an item leaves the buffer only while there are more than MaxBufferSize.
BufferSizeIsMaintained ==
    [][Len(buffer') < Len(buffer) => Len(buffer) > MaxBufferSize]_vars
=============================================================================
