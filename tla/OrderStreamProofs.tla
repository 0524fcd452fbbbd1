------------------------- MODULE OrderStreamProofs -------------------------
(***************************************************************************)
(* Proofs about OrderStream, for any clients, requests and bounds.         *)
(***************************************************************************)
EXTENDS OrderStream, SequenceTheorems, FiniteSetTheorems, TLAPS

\* Where a request has an event Id that is not sent yet.
Numbered == {"adding", "trimming", "removing", "yielding"}

\* Event Ids are drawn from the counter, and each is in one place.
IdInv ==
    /\ \A i \in DOMAIN buffer : buffer[i] < nextEventId
    /\ \A i, j \in DOMAIN buffer : buffer[i] = buffer[j] => i = j
    /\ \A h \in Handlers : eventId[h] < nextEventId
    /\ \A g, h \in Handlers : eventId[g] = eventId[h] /\ eventId[g] # 0 => g = h
    /\ \A h \in Handlers : pc[h] = "adding" => eventId[h] \notin Items(buffer)
    /\ \A h \in Handlers : eventId[h] # 0 => pc[h] \in Numbered
    /\ \A h \in Handlers : pc[h] \in Numbered \ {"yielding"} => eventId[h] # 0
    /\ \A h \in Handlers : pc[h] = "yielding" /\ h \notin Plain => eventId[h] # 0
    /\ \A h \in Plain : pc[h] \in {"idle", "live", "yielding", "closed"}

-----------------------------------------------------------------------------
(* Types *)

\* The types hold at the start.
LEMMA TypeInit ==
    ASSUME Init
    PROVE  TypeOK
<1>0. stopping \in BOOLEAN
      BY DEF Init
<1>1. orderCounter \in 1 .. MaxOrders + 1 /\ nextEventId \in Nat \ {0} /\ peak \in Nat
      BY BoundsAssumption DEF Init, FirstEventId
<1>2. channel \in Seq(1 .. MaxOrders) /\ buffer \in Seq(Nat \ {0})
      BY DEF Init
<1>3. pc \in [Handlers -> PcValues]
      BY DEF Init, PcValues
<1>4. /\ lastEventId \in [Handlers -> Nat] /\ eventId \in [Handlers -> Nat]
      /\ order \in [Handlers -> 0 .. MaxOrders]
      BY BoundsAssumption DEF Init
<1>5. missed \in [Handlers -> SUBSET (Nat \ {0})] /\ owed \in [Clients -> SUBSET (Nat \ {0})]
      BY DEF Init
<1>6. connected \in [Clients -> Handlers \cup {Nobody}] /\ seen \in [Clients -> Seq(Nat \ {0})]
      BY DEF Init
<1> QED  BY <1>0, <1>1, <1>2, <1>3, <1>4, <1>5, <1>6 DEF TypeOK

\* A handler that moves keeps the type of pc.
LEMMA GotoType ==
    ASSUME TypeOK, NEW h \in Handlers, NEW label \in PcValues, Goto(h, label)
    PROVE  /\ pc' \in [Handlers -> PcValues]
           /\ pc'[h] = label
           /\ \A g \in Handlers \ {h} : pc'[g] = pc[g]
BY DEF TypeOK, Goto

\* The last event seen is an Id, or 0.
LEMMA LastSeenType ==
    ASSUME TypeOK, NEW c \in Clients
    PROVE  LastSeen(c) \in Nat
BY DEF TypeOK, LastSeen

\* A replay is of events of the buffer.
LEMMA EventsAfterType ==
    ASSUME TypeOK, NEW e
    PROVE  EventsAfter(e) \in SUBSET (Nat \ {0})
BY DEF TypeOK, EventsAfter, Items

\* What a client receives keeps its type.
LEMMA SendType ==
    ASSUME TypeOK, NEW h \in Handlers, NEW e \in Nat \ {0}, Send(h, e)
    PROVE  seen' \in [Clients -> Seq(Nat \ {0})]
BY ClientOfAssumption DEF TypeOK, Send

\* Every step keeps the types.
LEMMA TypeStep ==
    ASSUME TypeOK, IdInv, [Next]_vars
    PROVE  TypeOK'
<1> USE DEF TypeOK, history
<1>1. CASE ProduceOrder
      BY <1>1, BoundsAssumption DEF ProduceOrder
<1>2. CASE Stop
      BY <1>2 DEF Stop
<1>3. ASSUME NEW h \in Handlers, Connect(h)
      PROVE  TypeOK'
  <2>1. pc' \in [Handlers -> PcValues]
        BY <1>3 DEF Connect, Goto, PcValues
  <2> QED  BY <1>3, <2>1, LastSeenType, ClientOfAssumption DEF Connect
<1>4. ASSUME NEW c \in Clients, Disconnect(c)
      PROVE  TypeOK'
      BY <1>4 DEF Disconnect
<1>5. ASSUME NEW h \in Handlers, GetEventsAfter(h)
      PROVE  TypeOK'
  <2>1. pc' \in [Handlers -> PcValues]
        BY <1>5 DEF GetEventsAfter, Goto, PcValues
  <2>2. missed' \in [Handlers -> SUBSET (Nat \ {0})]
        BY <1>5, EventsAfterType DEF GetEventsAfter
  <2>3. owed' \in [Clients -> SUBSET (Nat \ {0})]
    <3>1. {e \in Enqueued : 0 < lastEventId[h] /\ lastEventId[h] < e} \in SUBSET (Nat \ {0})
          BY DEF Enqueued
    <3> QED  BY <1>5, <3>1 DEF GetEventsAfter
  <2> QED  BY <1>5, <2>1, <2>2, <2>3 DEF GetEventsAfter
<1>6. ASSUME NEW h \in Handlers, SendMissed(h)
      PROVE  TypeOK'
  <2>1. PICK e \in missed[h] : Send(h, e) /\ missed' = [missed EXCEPT ![h] = @ \ {e}]
        BY <1>6 DEF SendMissed
  <2>2. seen' \in [Clients -> Seq(Nat \ {0})]
        BY <2>1, SendType
  <2> QED  BY <1>6, <2>1, <2>2 DEF SendMissed
<1>7. ASSUME NEW h \in Handlers, GoLive(h)
      PROVE  TypeOK'
  <2>1. pc' \in [Handlers -> PcValues]
        BY <1>7 DEF GoLive, Goto, PcValues
  <2> QED  BY <1>7, <2>1 DEF GoLive
<1>8. ASSUME NEW h \in Handlers, ReadOrder(h)
      PROVE  TypeOK'
  <2>1. pc' \in [Handlers -> PcValues]
        BY <1>8 DEF ReadOrder, Goto, PcValues
  <2>2. Head(channel) \in 0 .. MaxOrders /\ Tail(channel) \in Seq(1 .. MaxOrders)
    <3>1. channel # <<>> /\ channel \in Seq(1 .. MaxOrders)
          BY <1>8 DEF ReadOrder
    <3>2. Head(channel) \in 1 .. MaxOrders /\ Tail(channel) \in Seq(1 .. MaxOrders)
          BY <3>1, HeadTailProperties
    <3> QED  BY <3>2
  <2> QED  BY <1>8, <2>1, <2>2 DEF ReadOrder
<1>9. ASSUME NEW h \in Handlers, TakeEventId(h)
      PROVE  TypeOK'
  <2>1. pc' \in [Handlers -> PcValues]
        BY <1>9 DEF TakeEventId, Goto, PcValues
  <2>2. Cardinality(Adding) \in Nat
        BY HandlersAssumption, FS_Subset, FS_CardinalityType DEF Adding
  <2>3. nextEventId' \in Nat \ {0} /\ peak' \in Nat /\ eventId' \in [Handlers -> Nat]
        BY <1>9, <2>2 DEF TakeEventId
  <2> QED  BY <1>9, <2>1, <2>3 DEF TakeEventId
<1>10. ASSUME NEW h \in Handlers, Enqueue(h)
       PROVE  TypeOK'
  <2>1. pc' \in [Handlers -> PcValues]
        BY <1>10 DEF Enqueue, Goto, PcValues
  <2>2. eventId[h] \in Nat \ {0}
        BY <1>10 DEF Enqueue, IdInv, Numbered
  <2> QED  BY <1>10, <2>1, <2>2 DEF Enqueue
<1>11. ASSUME NEW h \in Handlers, CheckCount(h)
       PROVE  TypeOK'
  <2>1. pc' \in [Handlers -> PcValues]
        BY <1>11 DEF CheckCount, Goto, PcValues
  <2> QED  BY <1>11, <2>1 DEF CheckCount
<1>12. ASSUME NEW h \in Handlers, TryDequeue(h)
       PROVE  TypeOK'
  <2>1. pc' \in [Handlers -> PcValues]
        BY <1>12 DEF TryDequeue, Goto, PcValues
  <2> QED  BY <1>12, <2>1 DEF TryDequeue
<1>13. ASSUME NEW h \in Handlers, YieldOrder(h)
       PROVE  TypeOK'
  <2>1. pc' \in [Handlers -> PcValues]
        BY <1>13 DEF YieldOrder, Goto, PcValues
  <2>2. seen' \in [Clients -> Seq(Nat \ {0})]
    <3>1. CASE h \in Plain
          BY <1>13, <3>1 DEF YieldOrder
    <3>2. CASE h \notin Plain
      <4>1. eventId[h] \in Nat \ {0}
            BY <1>13, <3>2 DEF YieldOrder, IdInv
      <4> QED  BY <1>13, <3>2, <4>1, SendType DEF YieldOrder
    <3> QED  BY <3>1, <3>2
  <2>3. order' \in [Handlers -> 0 .. MaxOrders] /\ eventId' \in [Handlers -> Nat]
        BY <1>13, BoundsAssumption DEF YieldOrder
  <2> QED  BY <1>13, <2>1, <2>2, <2>3 DEF YieldOrder
<1>14. ASSUME NEW h \in Handlers, Close(h)
       PROVE  TypeOK'
  <2>1. pc' \in [Handlers -> PcValues]
        BY <1>14 DEF Close, Goto, PcValues
  <2>2. order' \in [Handlers -> 0 .. MaxOrders] /\ eventId' \in [Handlers -> Nat]
        BY <1>14, BoundsAssumption DEF Close
  <2>3. lastEventId' \in [Handlers -> Nat] /\ missed' \in [Handlers -> SUBSET (Nat \ {0})]
        BY <1>14 DEF Close
  <2>4. connected' \in [Clients -> Handlers \cup {Nobody}] /\ owed' \in [Clients -> SUBSET (Nat \ {0})]
        BY <1>14 DEF Close
  <2> QED  BY <1>14, <2>1, <2>2, <2>3, <2>4 DEF Close
<1>15. CASE UNCHANGED vars
       BY <1>15 DEF vars
<1> QED  BY <1>1, <1>2, <1>3, <1>4, <1>5, <1>6, <1>7, <1>8, <1>9, <1>10, <1>11, <1>12, <1>13, <1>14, <1>15
         DEF Next, HandlerStep

-----------------------------------------------------------------------------
(* Event Ids *)

\* The items of a queue after Enqueue.
LEMMA AppendItems ==
    ASSUME NEW S, NEW s \in Seq(S), NEW e \in S
    PROVE  Items(Append(s, e)) = Items(s) \cup {e}
<1>1. DOMAIN s = 1 .. Len(s) /\ DOMAIN Append(s, e) = 1 .. Len(s) + 1 /\ Len(s) \in Nat
      BY AppendProperties
<1>2. \A i \in 1 .. Len(s) : Append(s, e)[i] = s[i]
      BY AppendProperties
<1>3. Append(s, e)[Len(s) + 1] = e
      BY AppendProperties
<1> QED  BY <1>1, <1>2, <1>3 DEF Items

\* The items of a queue after TryDequeue.
LEMMA TailItems ==
    ASSUME NEW S, NEW s \in Seq(S), s # <<>>
    PROVE  /\ Tail(s) \in Seq(S)
           /\ Len(Tail(s)) = Len(s) - 1
           /\ \A i \in DOMAIN Tail(s) : i + 1 \in DOMAIN s /\ Tail(s)[i] = s[i + 1]
           /\ Items(Tail(s)) \subseteq Items(s)
<1>1. \A i \in DOMAIN Tail(s) : i + 1 \in DOMAIN s /\ Tail(s)[i] = s[i + 1]
      BY HeadTailProperties
<1> QED  BY <1>1, HeadTailProperties DEF Items

\* A step that draws no Id and leaves the buffer and the Ids alone.
LEMMA IdUntouched ==
    ASSUME TypeOK, IdInv, UNCHANGED <<nextEventId, buffer, eventId>>, NEW h \in Handlers, NEW label \in PcValues,
           Goto(h, label) \/ UNCHANGED pc,
           pc[h] # "adding" => label # "adding",
           eventId[h] # 0 => label \in Numbered,
           eventId[h] = 0 => label \notin Numbered \ {"yielding"} /\ (label = "yielding" => h \in Plain),
           h \in Plain => label \in {"idle", "live", "yielding", "closed"}
    PROVE  IdInv'
<1>1. CASE UNCHANGED pc
      BY <1>1 DEF IdInv, Items
<1>2. CASE Goto(h, label)
  <2>1. pc'[h] = label /\ \A g \in Handlers \ {h} : pc'[g] = pc[g]
        BY <1>2, GotoType
  <2>2. \A g \in Handlers : /\ pc'[g] = "adding" => eventId[g] \notin Items(buffer)
                            /\ eventId[g] # 0 => pc'[g] \in Numbered
                            /\ pc'[g] \in Numbered \ {"yielding"} => eventId[g] # 0
                            /\ pc'[g] = "yielding" /\ g \notin Plain => eventId[g] # 0
                            /\ g \in Plain => pc'[g] \in {"idle", "live", "yielding", "closed"}
        BY <2>1 DEF IdInv
  <2> QED  BY <2>2, HandlersAssumption DEF IdInv, Items
<1> QED  BY <1>1, <1>2

\* The invariant of the Ids holds at the start.
LEMMA IdInit ==
    ASSUME Init
    PROVE  IdInv
<1>1. buffer = <<>> /\ Items(buffer) = {} /\ nextEventId = 1
      BY DEF Init, Items, FirstEventId
<1>2. \A h \in Handlers : eventId[h] = 0 /\ pc[h] = "idle"
      BY DEF Init
<1> QED  BY <1>1, <1>2, HandlersAssumption DEF IdInv, Numbered

\* Every step keeps the invariant of the Ids.
LEMMA IdStep ==
    ASSUME TypeOK, IdInv, [Next]_vars
    PROVE  IdInv'
<1> USE DEF history
<1>1. CASE ProduceOrder \/ Stop \/ (\E c \in Clients : Disconnect(c)) \/ UNCHANGED vars
      BY <1>1 DEF ProduceOrder, Stop, Disconnect, vars, IdInv, Items
<1>2. ASSUME NEW h \in Handlers, Connect(h)
      PROVE  IdInv'
  <2>1. eventId[h] = 0
        BY <1>2 DEF Connect, IdInv, Numbered
  <2> QED  BY <1>2, <2>1, IdUntouched DEF Connect, PcValues, Numbered
<1>3. ASSUME NEW h \in Handlers, GetEventsAfter(h)
      PROVE  IdInv'
  <2>1. eventId[h] = 0 /\ h \notin Plain
        BY <1>3 DEF GetEventsAfter, IdInv, Numbered
  <2> QED  BY <1>3, <2>1, IdUntouched DEF GetEventsAfter, PcValues, Numbered
<1>4. ASSUME NEW h \in Handlers, SendMissed(h)
      PROVE  IdInv'
      BY <1>4 DEF SendMissed, IdInv, Items
<1>5. ASSUME NEW h \in Handlers, GoLive(h)
      PROVE  IdInv'
  <2>1. eventId[h] = 0
        BY <1>5 DEF GoLive, IdInv, Numbered
  <2> QED  BY <1>5, <2>1, IdUntouched DEF GoLive, PcValues, Numbered
<1>6. ASSUME NEW h \in Handlers, ReadOrder(h)
      PROVE  IdInv'
  <2>1. eventId[h] = 0
        BY <1>6 DEF ReadOrder, IdInv, Numbered
  <2>2. CASE h \in Plain
        BY <1>6, <2>1, <2>2, IdUntouched DEF ReadOrder, PcValues, Numbered
  <2>3. CASE h \notin Plain
        BY <1>6, <2>1, <2>3, IdUntouched DEF ReadOrder, PcValues, Numbered
  <2> QED  BY <2>2, <2>3
<1>7. ASSUME NEW h \in Handlers, TakeEventId(h)
      PROVE  IdInv'
  <2>1. pc'[h] = "adding" /\ \A g \in Handlers \ {h} : pc'[g] = pc[g]
        BY <1>7, GotoType DEF TakeEventId, PcValues
  <2>2. eventId'[h] = nextEventId /\ \A g \in Handlers \ {h} : eventId'[g] = eventId[g]
        BY <1>7 DEF TakeEventId, TypeOK
  <2>3. nextEventId' = nextEventId + 1 /\ nextEventId \in Nat \ {0} /\ UNCHANGED buffer /\ h \notin Plain
        BY <1>7 DEF TakeEventId, TypeOK, IdInv
  <2>4. buffer \in Seq(Nat) /\ eventId \in [Handlers -> Nat]
        BY DEF TypeOK
  <2>5. nextEventId \notin Items(buffer)
        BY <2>3, <2>4 DEF IdInv, Items
  <2>6. \A i \in DOMAIN buffer : buffer[i] < nextEventId'
        BY <2>3, <2>4 DEF IdInv
  <2>7. \A g \in Handlers : eventId'[g] < nextEventId'
        BY <2>2, <2>3, <2>4 DEF IdInv
  <2>8. \A f, g \in Handlers : eventId'[f] = eventId'[g] /\ eventId'[f] # 0 => f = g
        BY <2>2, <2>3, <2>4 DEF IdInv
  <2>9. \A g \in Handlers : pc'[g] = "adding" => eventId'[g] \notin Items(buffer)
        BY <2>1, <2>2, <2>5 DEF IdInv
  <2>10. \A g \in Handlers : /\ eventId'[g] # 0 => pc'[g] \in Numbered
                             /\ pc'[g] \in Numbered \ {"yielding"} => eventId'[g] # 0
                             /\ pc'[g] = "yielding" /\ g \notin Plain => eventId'[g] # 0
                             /\ g \in Plain => pc'[g] \in {"idle", "live", "yielding", "closed"}
         BY <2>1, <2>2, <2>3 DEF IdInv, Numbered
  <2> QED  BY <2>3, <2>6, <2>7, <2>8, <2>9, <2>10, HandlersAssumption DEF IdInv, Items
<1>8. ASSUME NEW h \in Handlers, Enqueue(h)
      PROVE  IdInv'
  <2>1. pc[h] = "adding" /\ pc'[h] = "trimming" /\ \A g \in Handlers \ {h} : pc'[g] = pc[g]
        BY <1>8, GotoType DEF Enqueue, PcValues
  <2>2. eventId[h] # 0 /\ h \notin Plain /\ eventId[h] \notin Items(buffer) /\ eventId[h] \in Nat
        BY <2>1 DEF IdInv, Numbered, TypeOK
  <2>3. buffer' = Append(buffer, eventId[h]) /\ UNCHANGED <<eventId, nextEventId>> /\ buffer \in Seq(Nat)
        BY <1>8 DEF Enqueue, TypeOK
  <2>4. Items(buffer') = Items(buffer) \cup {eventId[h]}
        BY <2>2, <2>3, AppendItems
  <2>5. /\ DOMAIN buffer' = 1 .. Len(buffer) + 1 /\ buffer'[Len(buffer) + 1] = eventId[h]
        /\ \A i \in 1 .. Len(buffer) : buffer'[i] = buffer[i]
        /\ DOMAIN buffer = 1 .. Len(buffer) /\ Len(buffer) \in Nat
        BY <2>2, <2>3, AppendProperties
  <2>6. \A i \in DOMAIN buffer' : buffer'[i] < nextEventId'
        BY <2>2, <2>3, <2>5 DEF IdInv
  <2>7. \A i, j \in DOMAIN buffer' : buffer'[i] = buffer'[j] => i = j
        BY <2>2, <2>5 DEF IdInv, Items
  <2>8. \A g \in Handlers : pc'[g] = "adding" => eventId'[g] \notin Items(buffer')
        BY <2>1, <2>2, <2>3, <2>4 DEF IdInv
  <2>9. \A g \in Handlers : /\ eventId'[g] # 0 => pc'[g] \in Numbered
                            /\ pc'[g] \in Numbered \ {"yielding"} => eventId'[g] # 0
                            /\ pc'[g] = "yielding" /\ g \notin Plain => eventId'[g] # 0
                            /\ g \in Plain => pc'[g] \in {"idle", "live", "yielding", "closed"}
        BY <2>1, <2>2, <2>3 DEF IdInv, Numbered
  <2> QED  BY <2>3, <2>6, <2>7, <2>8, <2>9, HandlersAssumption DEF IdInv, Items
<1>9. ASSUME NEW h \in Handlers, CheckCount(h)
      PROVE  IdInv'
  <2>1. eventId[h] # 0 /\ h \notin Plain
        BY <1>9 DEF CheckCount, IdInv, Numbered
  <2> QED  BY <1>9, <2>1, IdUntouched DEF CheckCount, PcValues, Numbered
<1>10. ASSUME NEW h \in Handlers, TryDequeue(h)
       PROVE  IdInv'
  <2>1. eventId[h] # 0 /\ h \notin Plain /\ pc[h] = "removing"
        BY <1>10 DEF TryDequeue, IdInv, Numbered
  <2>2. CASE buffer = <<>>
        BY <1>10, <2>1, <2>2, IdUntouched DEF TryDequeue, PcValues, Numbered
  <2>3. CASE buffer # <<>>
    <3>1. buffer' = Tail(buffer) /\ UNCHANGED <<eventId, nextEventId>> /\ buffer \in Seq(Nat)
          BY <1>10, <2>3 DEF TryDequeue, TypeOK
    <3>2. /\ \A i \in DOMAIN buffer' : i + 1 \in DOMAIN buffer /\ buffer'[i] = buffer[i + 1]
          /\ Items(buffer') \subseteq Items(buffer)
          BY <2>3, <3>1, TailItems
    <3>3. DOMAIN buffer' \subseteq Nat
          BY <2>3, <3>1, TailItems
    <3>4. pc'[h] = "trimming" /\ \A g \in Handlers \ {h} : pc'[g] = pc[g]
          BY <1>10, GotoType DEF TryDequeue, PcValues
    <3>5. \A i \in DOMAIN buffer' : buffer'[i] < nextEventId'
          BY <3>1, <3>2 DEF IdInv
    <3>6. \A i, j \in DOMAIN buffer' : buffer'[i] = buffer'[j] => i = j
      <4> SUFFICES ASSUME NEW i \in DOMAIN buffer', NEW j \in DOMAIN buffer', buffer'[i] = buffer'[j]
                   PROVE  i = j
          OBVIOUS
      <4>1. i + 1 = j + 1
            BY <3>2 DEF IdInv
      <4> QED  BY <3>3, <4>1
    <3>7. \A g \in Handlers : pc'[g] = "adding" => eventId'[g] \notin Items(buffer')
          BY <3>1, <3>2, <3>4 DEF IdInv
    <3>8. \A g \in Handlers : /\ eventId'[g] # 0 => pc'[g] \in Numbered
                              /\ pc'[g] \in Numbered \ {"yielding"} => eventId'[g] # 0
                              /\ pc'[g] = "yielding" /\ g \notin Plain => eventId'[g] # 0
                              /\ g \in Plain => pc'[g] \in {"idle", "live", "yielding", "closed"}
          BY <2>1, <3>1, <3>4 DEF IdInv, Numbered
    <3> QED  BY <3>1, <3>5, <3>6, <3>7, <3>8, HandlersAssumption DEF IdInv, Items
  <2> QED  BY <2>2, <2>3
<1>11. ASSUME NEW h \in Handlers, YieldOrder(h) \/ Close(h)
       PROVE  IdInv'
  <2>1. pc'[h] \in {"live", "closed"} /\ \A g \in Handlers \ {h} : pc'[g] = pc[g]
        BY <1>11, GotoType DEF YieldOrder, Close, PcValues
  <2>2. eventId'[h] = 0 /\ \A g \in Handlers \ {h} : eventId'[g] = eventId[g]
        BY <1>11 DEF YieldOrder, Close, TypeOK
  <2>3. UNCHANGED <<buffer, nextEventId>> /\ nextEventId \in Nat \ {0}
        BY <1>11 DEF YieldOrder, Close, TypeOK
  <2>4. \A g \in Handlers : eventId'[g] < nextEventId'
        BY <2>2, <2>3 DEF IdInv
  <2>5. \A f, g \in Handlers : eventId'[f] = eventId'[g] /\ eventId'[f] # 0 => f = g
        BY <2>2 DEF IdInv
  <2>6. \A g \in Handlers : pc'[g] = "adding" => eventId'[g] \notin Items(buffer)
        BY <2>1, <2>2 DEF IdInv
  <2>7. \A g \in Handlers : /\ eventId'[g] # 0 => pc'[g] \in Numbered
                            /\ pc'[g] \in Numbered \ {"yielding"} => eventId'[g] # 0
                            /\ pc'[g] = "yielding" /\ g \notin Plain => eventId'[g] # 0
                            /\ g \in Plain => pc'[g] \in {"idle", "live", "yielding", "closed"}
        BY <2>1, <2>2 DEF IdInv, Numbered
  <2> QED  BY <2>3, <2>4, <2>5, <2>6, <2>7, HandlersAssumption DEF IdInv, Items
<1> QED  BY <1>1, <1>2, <1>3, <1>4, <1>5, <1>6, <1>7, <1>8, <1>9, <1>10, <1>11 DEF Next, HandlerStep

-----------------------------------------------------------------------------
(* The size of the buffer *)

Trimming == {h \in Handlers : pc[h] \in {"trimming", "removing"}}
Removing == {h \in Handlers : pc[h] = "removing"}

\* Every request in the loop may have enqueued one item too many, and every one
\* about to dequeue may dequeue one too many.
SizeInv ==
    /\ Cardinality(Adding) <= peak
    /\ Len(buffer) <= MaxBufferSize + Cardinality(Trimming)
    /\ Removing # {} \/ Dropped # {} => Len(buffer) + peak >= MaxBufferSize + 1 + Cardinality(Removing)

\* Sets of requests are finite.
LEMMA SubsetsOfHandlers ==
    ASSUME NEW S, S \subseteq Handlers
    PROVE  IsFiniteSet(S) /\ Cardinality(S) \in Nat
BY HandlersAssumption, FS_Subset, FS_CardinalityType

\* A request enters a set.
LEMMA PlusOne ==
    ASSUME NEW S, S \subseteq Handlers, NEW h \in Handlers \ S
    PROVE  Cardinality(S \cup {h}) = Cardinality(S) + 1
BY SubsetsOfHandlers, FS_AddElement

\* A request leaves a set.
LEMMA MinusOne ==
    ASSUME NEW S, S \subseteq Handlers, NEW h \in S
    PROVE  Cardinality(S \ {h}) = Cardinality(S) - 1
BY SubsetsOfHandlers, FS_RemoveElement

\* The counts of the requests inside Add are natural numbers.
LEMMA SizeTypes ==
    ASSUME TypeOK
    PROVE  /\ Len(buffer) \in Nat /\ peak \in Nat
           /\ Cardinality(Adding) \in Nat /\ Cardinality(Trimming) \in Nat /\ Cardinality(Removing) \in Nat
BY SubsetsOfHandlers DEF TypeOK, Adding, Trimming, Removing

\* A step outside of Add.
LEMMA SizeUntouched ==
    ASSUME TypeOK, IdInv, SizeInv, UNCHANGED <<nextEventId, buffer, peak>>,
           Adding' = Adding, Trimming' = Trimming, Removing' = Removing,
           \A h \in Handlers : pc[h] = "adding" => pc'[h] = "adding" /\ eventId'[h] = eventId[h]
    PROVE  SizeInv'
<1>1. Dropped' \subseteq Dropped
      BY DEF Dropped, Enqueued, Items
<1> QED  BY <1>1 DEF SizeInv

\* The invariant of the size holds at the start.
LEMMA SizeInit ==
    ASSUME Init
    PROVE  SizeInv
<1>1. Adding = {} /\ Trimming = {} /\ Removing = {}
      BY DEF Init, Adding, Trimming, Removing
<1>2. Dropped = {}
      BY DEF Init, Dropped, Enqueued, FirstEventId
<1>3. Len(buffer) = 0 /\ peak = 0
      BY DEF Init
<1> QED  BY <1>1, <1>2, <1>3, FS_EmptySet, BoundsAssumption DEF SizeInv

\* Every step keeps the invariant of the size.
LEMMA SizeStep ==
    ASSUME TypeOK, IdInv, SizeInv, [Next]_vars
    PROVE  SizeInv'
<1> USE DEF history
<1>1. CASE ProduceOrder \/ Stop \/ (\E c \in Clients : Disconnect(c)) \/ UNCHANGED vars
  <2>1. UNCHANGED <<nextEventId, buffer, peak, pc, eventId>>
        BY <1>1 DEF ProduceOrder, Stop, Disconnect, vars
  <2>2. Adding' = Adding /\ Trimming' = Trimming /\ Removing' = Removing
        BY <2>1 DEF Adding, Trimming, Removing
  <2> QED  BY <2>1, <2>2, SizeUntouched
<1>2. ASSUME NEW h \in Handlers, Connect(h) \/ GetEventsAfter(h) \/ GoLive(h) \/ ReadOrder(h)
      PROVE  SizeInv'
  <2>1. UNCHANGED <<nextEventId, buffer, peak, eventId>>
        BY <1>2 DEF Connect, GetEventsAfter, GoLive, ReadOrder
  <2>2. pc[h] \in {"idle", "started", "replaying", "live"}
        BY <1>2 DEF Connect, GetEventsAfter, GoLive, ReadOrder
  <2>3. /\ pc'[h] \in {"live", "started", "replaying", "yielding", "numbering"}
        /\ \A g \in Handlers \ {h} : pc'[g] = pc[g]
        BY <1>2, GotoType DEF Connect, GetEventsAfter, GoLive, ReadOrder, PcValues
  <2>4. Adding' = Adding /\ Trimming' = Trimming /\ Removing' = Removing
        BY <2>2, <2>3 DEF Adding, Trimming, Removing
  <2> QED  BY <2>1, <2>2, <2>3, <2>4, SizeUntouched
<1>3. ASSUME NEW h \in Handlers, SendMissed(h)
      PROVE  SizeInv'
  <2>1. UNCHANGED <<nextEventId, buffer, peak, pc, eventId>>
        BY <1>3 DEF SendMissed
  <2>2. Adding' = Adding /\ Trimming' = Trimming /\ Removing' = Removing
        BY <2>1 DEF Adding, Trimming, Removing
  <2> QED  BY <2>1, <2>2, SizeUntouched
<1>4. ASSUME NEW h \in Handlers, YieldOrder(h) \/ Close(h)
      PROVE  SizeInv'
  <2>1. UNCHANGED <<nextEventId, buffer, peak>>
        BY <1>4 DEF YieldOrder, Close
  <2>2. pc[h] \in {"started", "replaying", "live", "yielding"}
        BY <1>4 DEF YieldOrder, Close
  <2>3. pc'[h] \in {"live", "closed"} /\ \A g \in Handlers \ {h} : pc'[g] = pc[g]
        BY <1>4, GotoType DEF YieldOrder, Close, PcValues
  <2>4. \A g \in Handlers \ {h} : eventId'[g] = eventId[g]
        BY <1>4 DEF YieldOrder, Close, TypeOK
  <2>5. Adding' = Adding /\ Trimming' = Trimming /\ Removing' = Removing
        BY <2>2, <2>3 DEF Adding, Trimming, Removing
  <2> QED  BY <2>1, <2>2, <2>3, <2>4, <2>5, SizeUntouched
<1>5. ASSUME NEW h \in Handlers, TakeEventId(h)
      PROVE  SizeInv'
  <2>1. pc[h] = "numbering" /\ pc'[h] = "adding" /\ \A g \in Handlers \ {h} : pc'[g] = pc[g]
        BY <1>5, GotoType DEF TakeEventId, PcValues
  <2>2. Adding' = Adding \cup {h} /\ h \notin Adding /\ Trimming' = Trimming /\ Removing' = Removing
        BY <2>1 DEF Adding, Trimming, Removing
  <2>3. Cardinality(Adding') = Cardinality(Adding) + 1
        BY <2>2, PlusOne DEF Adding
  <2>4. peak' = IF Cardinality(Adding) < peak THEN peak ELSE Cardinality(Adding) + 1
        BY <1>5 DEF TakeEventId
  <2>5. Cardinality(Adding)' <= peak' /\ peak' >= peak /\ peak' \in Nat
        BY <2>3, <2>4, SizeTypes DEF SizeInv
  <2>6. /\ UNCHANGED buffer /\ nextEventId' = nextEventId + 1 /\ eventId'[h] = nextEventId
        /\ \A g \in Handlers \ {h} : eventId'[g] = eventId[g]
        BY <1>5 DEF TakeEventId, TypeOK
  <2>7. Enqueued' \subseteq Enqueued
    <3> SUFFICES ASSUME NEW e \in Enqueued' PROVE e \in Enqueued
        OBVIOUS
    <3>1. e \in 1 .. nextEventId /\ nextEventId \in Nat
          BY <2>6 DEF Enqueued, TypeOK
    <3>2. e # nextEventId
          BY <2>1, <2>6 DEF Enqueued
    <3>3. \A g \in Handlers : pc[g] = "adding" => eventId[g] # e
          BY <2>1, <2>6 DEF Enqueued
    <3> QED  BY <3>1, <3>2, <3>3 DEF Enqueued
  <2>8. Dropped' \subseteq Dropped
        BY <2>6, <2>7 DEF Dropped, Items
  <2> QED  BY <2>2, <2>5, <2>6, <2>8, SizeTypes, BoundsAssumption DEF SizeInv
<1>6. ASSUME NEW h \in Handlers, Enqueue(h)
      PROVE  SizeInv'
  <2>1. pc[h] = "adding" /\ pc'[h] = "trimming" /\ \A g \in Handlers \ {h} : pc'[g] = pc[g]
        BY <1>6, GotoType DEF Enqueue, PcValues
  <2>2. Adding' = Adding /\ Trimming' = Trimming \cup {h} /\ h \notin Trimming /\ Removing' = Removing
        BY <2>1 DEF Adding, Trimming, Removing
  <2>3. Cardinality(Trimming') = Cardinality(Trimming) + 1
        BY <2>2, PlusOne DEF Trimming
  <2>4. /\ buffer' = Append(buffer, eventId[h]) /\ buffer \in Seq(Nat \ {0}) /\ eventId[h] \in Nat \ {0}
        /\ UNCHANGED <<nextEventId, eventId, peak>>
        BY <1>6, <2>1 DEF Enqueue, TypeOK, IdInv, Numbered
  <2>5. Len(buffer') = Len(buffer) + 1 /\ Items(buffer') = Items(buffer) \cup {eventId[h]}
        BY <2>4, AppendItems, AppendProperties
  <2>6. Dropped' \subseteq Dropped
    <3> SUFFICES ASSUME NEW e \in Dropped' PROVE e \in Dropped
        OBVIOUS
    <3>1. e \in Enqueued' /\ e \notin Items(buffer) /\ e # eventId[h]
          BY <2>5 DEF Dropped
    <3>2. e \in Enqueued
          BY <2>1, <2>4, <3>1 DEF Enqueued
    <3> QED  BY <3>1, <3>2 DEF Dropped
  <2> QED  BY <2>2, <2>3, <2>4, <2>5, <2>6, SizeTypes, BoundsAssumption DEF SizeInv
<1>7. ASSUME NEW h \in Handlers, CheckCount(h), TooMany
      PROVE  SizeInv'
  <2>1. pc[h] = "trimming" /\ pc'[h] = "removing" /\ \A g \in Handlers \ {h} : pc'[g] = pc[g]
        BY <1>7, GotoType DEF CheckCount, PcValues
  <2>2. Adding' = Adding /\ Trimming' = Trimming /\ Removing' = Removing \cup {h} /\ h \notin Removing
        BY <2>1 DEF Adding, Trimming, Removing
  <2>3. Cardinality(Removing') = Cardinality(Removing) + 1
        BY <2>2, PlusOne DEF Removing
  <2>4. Cardinality(Removing') <= Cardinality(Adding)
    <3>1. Removing' \subseteq Adding
          BY <2>1 DEF Removing, Adding
    <3> QED  BY <3>1, SubsetsOfHandlers, FS_Subset DEF Adding
  <2>5. UNCHANGED <<buffer, peak>> /\ Len(buffer) > MaxBufferSize
        BY <1>7 DEF CheckCount, TooMany
  <2> QED  BY <2>2, <2>3, <2>4, <2>5, SizeTypes, BoundsAssumption DEF SizeInv
<1>8. ASSUME NEW h \in Handlers, CheckCount(h), ~ TooMany
      PROVE  SizeInv'
  <2>1. pc[h] = "trimming" /\ pc'[h] = "yielding" /\ \A g \in Handlers \ {h} : pc'[g] = pc[g]
        BY <1>8, GotoType DEF CheckCount, PcValues
  <2>2. Adding' = Adding \ {h} /\ h \in Adding /\ Removing' = Removing /\ Trimming' \subseteq Handlers
        BY <2>1 DEF Adding, Trimming, Removing
  <2>3. Cardinality(Adding') = Cardinality(Adding) - 1 /\ Cardinality(Trimming') \in Nat
        BY <2>2, MinusOne, SubsetsOfHandlers DEF Adding
  <2>4. UNCHANGED <<buffer, peak, nextEventId, eventId>> /\ Len(buffer) <= MaxBufferSize
        BY <1>8, SizeTypes, BoundsAssumption DEF CheckCount, TooMany
  <2>5. Dropped' \subseteq Dropped
        BY <2>1, <2>4 DEF Dropped, Enqueued, Items
  <2> QED  BY <2>2, <2>3, <2>4, <2>5, SizeTypes, BoundsAssumption DEF SizeInv
<1>9. ASSUME NEW h \in Handlers, TryDequeue(h)
      PROVE  SizeInv'
  <2>1. pc[h] = "removing" /\ pc'[h] = "trimming" /\ \A g \in Handlers \ {h} : pc'[g] = pc[g]
        BY <1>9, GotoType DEF TryDequeue, PcValues
  <2>2. Adding' = Adding /\ Trimming' = Trimming /\ Removing' = Removing \ {h} /\ h \in Removing
        BY <2>1 DEF Adding, Trimming, Removing
  <2>3. Cardinality(Removing') = Cardinality(Removing) - 1
        BY <2>2, MinusOne DEF Removing
  <2>4. UNCHANGED peak /\ Len(buffer') \in {Len(buffer), Len(buffer) - 1}
    <3>1. buffer' = IF buffer = <<>> THEN <<>> ELSE Tail(buffer)
          BY <1>9 DEF TryDequeue
    <3>2. buffer # <<>> => Len(Tail(buffer)) = Len(buffer) - 1
          BY HeadTailProperties DEF TypeOK
    <3> QED  BY <1>9, <3>1, <3>2 DEF TryDequeue
  <2>5. Len(buffer) + peak >= MaxBufferSize + 1 + Cardinality(Removing)
        BY <2>2 DEF SizeInv
  <2> QED  BY <2>2, <2>3, <2>4, <2>5, SizeTypes, BoundsAssumption DEF SizeInv
<1> QED  BY <1>1, <1>2, <1>3, <1>4, <1>5, <1>6, <1>7, <1>8, <1>9 DEF Next, HandlerStep

-----------------------------------------------------------------------------
(* What the clients see *)

\* All that c has seen is older than x.
Older(c, x) == \A i \in DOMAIN seen[c] : seen[c][i] < x

\* What the request that the client listens to is going to send is newer than
\* all the client has seen.
HandlerInv(h) ==
    /\ pc[h] = "started" => Older(ClientOf[h], lastEventId[h] + 1)
    /\ \A e \in missed[h] : Older(ClientOf[h], e)
    /\ pc[h] \in Numbered /\ h \notin Plain => Older(ClientOf[h], eventId[h])

SeenInv ==
    /\ SeenInOrder
    /\ \A c \in Clients : Older(c, nextEventId)
    /\ \A c \in Clients : connected[c] # Nobody => ClientOf[connected[c]] = c /\ pc[connected[c]] # "idle"
    /\ \A h \in Handlers : missed[h] # {} => pc[h] = "replaying"
    /\ \A h \in Handlers : \A e \in missed[h] : e < nextEventId
    /\ \A h \in Handlers : connected[ClientOf[h]] = h => HandlerInv(h)

\* The invariant of what clients have seen holds at the start.
LEMMA SeenInit ==
    ASSUME Init
    PROVE  SeenInv
<1>1. /\ \A c \in Clients : seen[c] = <<>> /\ connected[c] = Nobody
      /\ \A h \in Handlers : missed[h] = {}
      BY DEF Init
<1>2. \A h \in Handlers : connected[ClientOf[h]] # h
      BY <1>1, HandlersAssumption, ClientOfAssumption
<1> QED  BY <1>1, <1>2 DEF SeenInv, SeenInOrder, Older

\* The last event a client has seen is its newest.
LEMMA LastIsNewest ==
    ASSUME TypeOK, SeenInOrder, NEW c \in Clients
    PROVE  Older(c, LastSeen(c) + 1)
<1> SUFFICES ASSUME NEW i \in DOMAIN seen[c] PROVE seen[c][i] < LastSeen(c) + 1
    BY DEF Older
<1>1. seen[c] \in Seq(Nat \ {0}) /\ seen[c] # <<>> /\ i \in 1 .. Len(seen[c]) /\ Len(seen[c]) \in Nat
      BY DEF TypeOK
<1>2. LastSeen(c) = seen[c][Len(seen[c])] /\ Len(seen[c]) \in DOMAIN seen[c]
      BY <1>1 DEF LastSeen
<1>3. seen[c][i] \in Nat /\ LastSeen(c) \in Nat
      BY <1>1, <1>2
<1>4. CASE i = Len(seen[c])
      BY <1>2, <1>3, <1>4
<1>5. CASE i < Len(seen[c])
      BY <1>1, <1>2, <1>3, <1>5 DEF SeenInOrder
<1> QED  BY <1>1, <1>4, <1>5

\* A steps that leaves the clients alone.
LEMMA SeenUntouched ==
    ASSUME TypeOK, SeenInv, UNCHANGED <<seen, connected>>, nextEventId' >= nextEventId, nextEventId' \in Nat,
           \A h \in Handlers : pc[h] # "idle" => pc'[h] # "idle",
           \A h \in Handlers : missed'[h] # {} => pc'[h] = "replaying",
           \A h \in Handlers : \A e \in missed'[h] : e < nextEventId',
           \A h \in Handlers : connected[ClientOf[h]] = h => HandlerInv(h)'
    PROVE  SeenInv'
<1>1. \A c \in Clients : seen[c] \in Seq(Nat)
      BY DEF TypeOK
<1>2. \A c \in Clients : Older(c, nextEventId)'
      BY <1>1 DEF SeenInv, Older, TypeOK
<1>3. \A c \in Clients : connected[c] # Nobody => ClientOf[connected[c]] = c /\ pc'[connected[c]] # "idle"
      BY DEF SeenInv, TypeOK
<1> QED  BY <1>2, <1>3 DEF SeenInv, SeenInOrder

\* A client that receives an event newer than all it has seen.
LEMMA SendLemma ==
    ASSUME TypeOK, SeenInv, NEW h \in Handlers, NEW e \in Nat \ {0}, Send(h, e), e < nextEventId,
           connected[ClientOf[h]] = h => Older(ClientOf[h], e)
    PROVE  /\ SeenInOrder'
           /\ \A c \in Clients : \A x \in Nat :
                  Older(c, x) /\ (c = ClientOf[h] /\ connected[c] = h => e < x) => Older(c, x)'
<1>1. CASE connected[ClientOf[h]] # h
  <2>1. seen' = seen
        BY <1>1 DEF Send
  <2> QED  BY <2>1 DEF SeenInv, SeenInOrder, Older
<1>2. CASE connected[ClientOf[h]] = h
  <2> DEFINE b == ClientOf[h]
  <2>1. b \in Clients /\ seen[b] \in Seq(Nat \ {0}) /\ Older(b, e)
        BY <1>2, ClientOfAssumption DEF TypeOK
  <2>2. seen' = [seen EXCEPT ![b] = Append(seen[b], e)]
        BY <1>2 DEF Send
  <2>3. \A c \in Clients \ {b} : seen'[c] = seen[c]
        BY <2>2 DEF TypeOK
  <2>4. seen'[b] = Append(seen[b], e)
        BY <2>1, <2>2 DEF TypeOK
  <2> HIDE DEF b
  <2>5. /\ Len(seen[b]) \in Nat /\ DOMAIN seen[b] = 1 .. Len(seen[b])
        /\ DOMAIN seen'[b] = 1 .. Len(seen[b]) + 1 /\ seen'[b][Len(seen[b]) + 1] = e
        /\ \A i \in 1 .. Len(seen[b]) : seen'[b][i] = seen[b][i]
        BY <2>1, <2>4, AppendProperties
  <2>6. \A i, j \in DOMAIN seen'[b] : i < j => seen'[b][i] < seen'[b][j]
    <3> SUFFICES ASSUME NEW i \in DOMAIN seen'[b], NEW j \in DOMAIN seen'[b], i < j
                 PROVE  seen'[b][i] < seen'[b][j]
        OBVIOUS
    <3>1. i \in 1 .. Len(seen[b]) /\ seen'[b][i] = seen[b][i]
          BY <2>5
    <3>2. CASE j \in 1 .. Len(seen[b])
      <4>1. seen[b][i] < seen[b][j]
            BY <2>1, <2>5, <3>1, <3>2 DEF SeenInv, SeenInOrder
      <4> QED  BY <2>5, <3>1, <3>2, <4>1
    <3>3. CASE j = Len(seen[b]) + 1
          BY <2>1, <2>5, <3>1, <3>3 DEF Older
    <3> QED  BY <2>5, <3>2, <3>3
  <2>7. SeenInOrder'
        BY <2>3, <2>6 DEF SeenInv, SeenInOrder
  <2>8. ASSUME NEW x \in Nat, Older(b, x), e < x
        PROVE  Older(b, x)'
        BY <2>5, <2>8 DEF Older
  <2>9. ASSUME NEW x \in Nat, NEW c \in Clients \ {b}, Older(c, x)
        PROVE  Older(c, x)'
        BY <2>3, <2>9 DEF Older
  <2> QED  BY <1>2, <2>7, <2>8, <2>9 DEF b
<1> QED  BY <1>1, <1>2

\* A step of a request h that sends nothing and changes its own state only.
LEMMA OwnStep ==
    ASSUME TypeOK, SeenInv, UNCHANGED <<seen, connected>>, nextEventId' >= nextEventId, nextEventId' \in Nat,
           NEW h \in Handlers, pc[h] # "idle", pc'[h] # "idle",
           \A g \in Handlers \ {h} : /\ pc'[g] = pc[g] /\ missed'[g] = missed[g]
                                     /\ lastEventId'[g] = lastEventId[g] /\ eventId'[g] = eventId[g],
           missed'[h] # {} => pc'[h] = "replaying",
           \A e \in missed'[h] : e \in Nat /\ e < nextEventId,
           connected[ClientOf[h]] = h => HandlerInv(h)'
    PROVE  SeenInv'
<1>1. \A g \in Handlers : pc[g] # "idle" => pc'[g] # "idle"
      OBVIOUS
<1>2. \A g \in Handlers : missed'[g] # {} => pc'[g] = "replaying"
      BY DEF SeenInv
<1>3. \A g \in Handlers : \A e \in missed'[g] : e < nextEventId'
  <2> SUFFICES ASSUME NEW g \in Handlers, NEW e \in missed'[g] PROVE e < nextEventId'
      OBVIOUS
  <2>1. e < nextEventId /\ nextEventId \in Nat
        BY DEF SeenInv, TypeOK
  <2>2. e \in Nat
        BY DEF TypeOK
  <2> QED  BY <2>1, <2>2
<1>4. ASSUME NEW g \in Handlers, connected[ClientOf[g]] = g
      PROVE  HandlerInv(g)'
  <2>1. CASE g # h
    <3>1. HandlerInv(g)
          BY <1>4 DEF SeenInv
    <3> QED  BY <2>1, <3>1 DEF HandlerInv, Older
  <2> QED  BY <1>4, <2>1
<1> QED  BY <1>1, <1>2, <1>3, <1>4, SeenUntouched

\* Every step keeps the invariant of what clients have seen.
LEMMA SeenStep ==
    ASSUME TypeOK, IdInv, SeenInv, [Next]_vars
    PROVE  SeenInv'
<1> USE DEF history
<1> nextEventId \in Nat /\ ClientOf \in [Handlers -> Clients]
    BY ClientOfAssumption DEF TypeOK
<1>1. CASE ProduceOrder \/ Stop \/ UNCHANGED vars
  <2>1. UNCHANGED <<seen, connected, nextEventId, pc, missed, lastEventId, eventId>>
        BY <1>1 DEF ProduceOrder, Stop, vars
  <2>2. \A h \in Handlers : connected[ClientOf[h]] = h => HandlerInv(h)'
        BY <2>1 DEF SeenInv, HandlerInv, Older
  <2> QED  BY <2>1, <2>2, SeenUntouched DEF SeenInv
<1>2. ASSUME NEW c \in Clients, Disconnect(c)
      PROVE  SeenInv'
  <2>1. /\ UNCHANGED <<seen, nextEventId, pc, missed, lastEventId, eventId>>
        /\ \A d \in Clients : connected'[d] \in {connected[d], Nobody}
        BY <1>2 DEF Disconnect, TypeOK
  <2>2. \A h \in Handlers : connected'[ClientOf[h]] = h => HandlerInv(h)'
        BY <2>1, HandlersAssumption DEF SeenInv, HandlerInv, Older
  <2> QED  BY <2>1, <2>2 DEF SeenInv, SeenInOrder, Older
<1>3. ASSUME NEW h \in Handlers, Connect(h)
      PROVE  SeenInv'
  <2> DEFINE b == ClientOf[h]
  <2>1. /\ pc[h] = "idle" /\ pc'[h] \in {"live", "started"}
        /\ \A g \in Handlers \ {h} : pc'[g] = pc[g]
        BY <1>3, GotoType DEF Connect, PcValues
  <2>2. /\ connected'[b] = h /\ \A c \in Clients \ {b} : connected'[c] = connected[c]
        /\ lastEventId'[h] = LastSeen(b) /\ \A g \in Handlers \ {h} : lastEventId'[g] = lastEventId[g]
        /\ UNCHANGED <<seen, nextEventId, missed, eventId>>
        BY <1>3 DEF Connect, TypeOK
  <2>3. missed[h] = {}
        BY <2>1 DEF SeenInv
  <2>4. Older(b, lastEventId[h] + 1)'
    <3>1. Older(b, LastSeen(b) + 1)
          BY LastIsNewest DEF SeenInv
    <3> QED  BY <2>2, <3>1 DEF Older
  <2>5. HandlerInv(h)'
        BY <2>1, <2>2, <2>3, <2>4 DEF HandlerInv, Numbered
  <2>6. ASSUME NEW g \in Handlers, connected'[ClientOf[g]] = g
        PROVE  HandlerInv(g)'
    <3>1. CASE g # h
      <4>1. connected[ClientOf[g]] = g
            BY <2>2, <2>6, <3>1
      <4>2. HandlerInv(g)
            BY <4>1 DEF SeenInv
      <4> QED  BY <2>1, <2>2, <3>1, <4>2 DEF HandlerInv, Older
    <3> QED  BY <2>5, <3>1
  <2>7. ASSUME NEW c \in Clients, connected'[c] # Nobody
        PROVE  ClientOf[connected'[c]] = c /\ pc'[connected'[c]] # "idle"
    <3>1. CASE c = b
          BY <2>1, <2>2, <3>1
    <3>2. CASE c # b
      <4>1. connected[c] \in Handlers /\ ClientOf[connected[c]] = c /\ pc[connected[c]] # "idle"
            BY <2>2, <2>7, <3>2 DEF SeenInv, TypeOK
      <4> QED  BY <2>1, <2>2, <3>2, <4>1
    <3> QED  BY <3>1, <3>2
  <2>8. /\ \A g \in Handlers : missed'[g] # {} => pc'[g] = "replaying"
        /\ \A g \in Handlers : \A e \in missed'[g] : e < nextEventId'
        BY <2>1, <2>2, <2>3 DEF SeenInv
  <2>9. SeenInOrder' /\ \A c \in Clients : Older(c, nextEventId)'
        BY <2>2 DEF SeenInv, SeenInOrder, Older
  <2> QED  BY <2>6, <2>7, <2>8, <2>9 DEF SeenInv
<1>4. ASSUME NEW h \in Handlers, GetEventsAfter(h)
      PROVE  SeenInv'
  <2>1. pc[h] = "started" /\ pc'[h] = "replaying" /\ \A g \in Handlers \ {h} : pc'[g] = pc[g]
        BY <1>4, GotoType DEF GetEventsAfter, PcValues
  <2>2. /\ UNCHANGED <<seen, connected, nextEventId, lastEventId, eventId>>
        /\ missed'[h] = EventsAfter(lastEventId[h]) /\ \A g \in Handlers \ {h} : missed'[g] = missed[g]
        BY <1>4 DEF GetEventsAfter, TypeOK
  <2>3. lastEventId[h] \in Nat /\ \A e \in missed'[h] : e \in Nat /\ e < nextEventId /\ lastEventId[h] < e
        BY <2>2 DEF EventsAfter, Items, IdInv, TypeOK
  <2>4. ASSUME connected[ClientOf[h]] = h
        PROVE  HandlerInv(h)'
    <3>1. Older(ClientOf[h], lastEventId[h] + 1) /\ seen[ClientOf[h]] \in Seq(Nat)
          BY <2>1, <2>4 DEF SeenInv, HandlerInv, TypeOK
    <3>2. \A e \in missed'[h] : Older(ClientOf[h], e)
          BY <2>3, <3>1 DEF Older
    <3> QED  BY <2>1, <2>2, <3>2 DEF HandlerInv, Numbered, Older
  <2> QED  BY <2>1, <2>2, <2>3, <2>4, OwnStep
<1>5. ASSUME NEW h \in Handlers, SendMissed(h)
      PROVE  SeenInv'
  <2>1. PICK e \in missed[h] : /\ \A d \in missed[h] : e <= d
                               /\ Send(h, e)
                               /\ missed' = [missed EXCEPT ![h] = @ \ {e}]
        BY <1>5 DEF SendMissed
  <2>2. UNCHANGED <<connected, nextEventId, lastEventId, eventId, pc>> /\ pc[h] = "replaying"
        BY <1>5 DEF SendMissed
  <2>3. /\ missed'[h] = missed[h] \ {e} /\ \A g \in Handlers \ {h} : missed'[g] = missed[g]
        /\ missed \in [Handlers -> SUBSET (Nat \ {0})] /\ e \in Nat \ {0}
        BY <2>1 DEF TypeOK
  <2>4. e < nextEventId /\ (connected[ClientOf[h]] = h => Older(ClientOf[h], e))
        BY <2>1 DEF SeenInv, HandlerInv
  <2>5. /\ SeenInOrder'
        /\ \A c \in Clients : \A x \in Nat :
               Older(c, x) /\ (c = ClientOf[h] /\ connected[c] = h => e < x) => Older(c, x)'
        BY <2>1, <2>3, <2>4, SendLemma
  <2>6. \A c \in Clients : Older(c, nextEventId)'
    <3>1. \A c \in Clients : Older(c, nextEventId) /\ e < nextEventId
          BY <2>4 DEF SeenInv
    <3> QED  BY <2>2, <2>5, <3>1 DEF Older
  <2>7. ASSUME NEW g \in Handlers, connected[ClientOf[g]] = g
        PROVE  HandlerInv(g)'
    <3>1. HandlerInv(g) /\ lastEventId[g] + 1 \in Nat /\ eventId[g] \in Nat /\ missed[g] \subseteq Nat
          BY <2>7, <2>3 DEF SeenInv, TypeOK
    <3>2. CASE g = h
      <4>1. \A d \in missed'[g] : d \in Nat /\ e < d /\ Older(ClientOf[g], d)
            BY <2>1, <2>3, <3>1, <3>2 DEF HandlerInv
      <4>2. \A d \in missed'[g] : Older(ClientOf[g], d)'
            BY <2>5, <4>1
      <4> QED  BY <2>2, <3>2, <4>2 DEF HandlerInv, Older, Numbered
    <3>3. CASE g # h
      <4>1. \A x \in Nat : Older(ClientOf[g], x) => Older(ClientOf[g], x)'
            BY <2>5, <2>7, <3>3
      <4> QED  BY <2>2, <2>3, <3>1, <3>3, <4>1 DEF HandlerInv, Older
    <3> QED  BY <3>2, <3>3
  <2>8. /\ \A g \in Handlers : missed'[g] # {} => pc'[g] = "replaying"
        /\ \A g \in Handlers : \A d \in missed'[g] : d < nextEventId'
        BY <2>2, <2>3 DEF SeenInv
  <2> QED  BY <2>2, <2>5, <2>6, <2>7, <2>8 DEF SeenInv
<1>6. ASSUME NEW h \in Handlers, GoLive(h) \/ ReadOrder(h)
      PROVE  SeenInv'
  <2>1. pc[h] \in {"replaying", "live"} /\ pc'[h] \in {"live", "yielding", "numbering"} /\ missed[h] = {}
        BY <1>6, GotoType DEF GoLive, ReadOrder, PcValues, SeenInv
  <2>2. pc'[h] = "yielding" => h \in Plain
        BY <1>6, GotoType DEF GoLive, ReadOrder, PcValues
  <2>3. \A g \in Handlers \ {h} : pc'[g] = pc[g]
        BY <1>6, GotoType DEF GoLive, ReadOrder, PcValues
  <2>4. UNCHANGED <<seen, connected, nextEventId, lastEventId, missed, eventId>>
        BY <1>6 DEF GoLive, ReadOrder
  <2>5. HandlerInv(h)'
        BY <2>1, <2>2, <2>4 DEF HandlerInv, Numbered
  <2> QED  BY <2>1, <2>3, <2>4, <2>5, OwnStep
<1>7. ASSUME NEW h \in Handlers, TakeEventId(h)
      PROVE  SeenInv'
  <2>1. pc[h] = "numbering" /\ pc'[h] = "adding" /\ \A g \in Handlers \ {h} : pc'[g] = pc[g]
        BY <1>7, GotoType DEF TakeEventId, PcValues
  <2>2. /\ UNCHANGED <<seen, connected, lastEventId, missed>> /\ nextEventId' = nextEventId + 1
        /\ eventId'[h] = nextEventId /\ \A g \in Handlers \ {h} : eventId'[g] = eventId[g]
        BY <1>7 DEF TakeEventId, TypeOK
  <2>3. missed[h] = {}
        BY <2>1 DEF SeenInv
  <2>4. Older(ClientOf[h], nextEventId)
        BY DEF SeenInv
  <2>5. HandlerInv(h)'
        BY <2>1, <2>2, <2>3, <2>4 DEF HandlerInv, Older
  <2> QED  BY <2>1, <2>2, <2>3, <2>5, OwnStep
<1>8. ASSUME NEW h \in Handlers, Enqueue(h) \/ CheckCount(h) \/ TryDequeue(h)
      PROVE  SeenInv'
  <2>1. /\ pc[h] \in {"adding", "trimming", "removing"} /\ pc'[h] \in Numbered
        /\ \A g \in Handlers \ {h} : pc'[g] = pc[g]
        BY <1>8, GotoType DEF Enqueue, CheckCount, TryDequeue, PcValues, Numbered
  <2>2. UNCHANGED <<seen, connected, lastEventId, missed, nextEventId, eventId>>
        BY <1>8 DEF Enqueue, CheckCount, TryDequeue
  <2>3. missed[h] = {} /\ h \notin Plain
        BY <2>1 DEF SeenInv, IdInv
  <2>4. connected[ClientOf[h]] = h => HandlerInv(h)'
        BY <2>1, <2>2, <2>3 DEF SeenInv, HandlerInv, Older, Numbered
  <2> QED  BY <2>1, <2>2, <2>3, <2>4, OwnStep DEF Numbered
<1>9. ASSUME NEW h \in Handlers, YieldOrder(h)
      PROVE  SeenInv'
  <2>1. pc[h] = "yielding" /\ pc'[h] = "live" /\ \A g \in Handlers \ {h} : pc'[g] = pc[g]
        BY <1>9, GotoType DEF YieldOrder, PcValues
  <2>2. /\ UNCHANGED <<connected, lastEventId, missed, nextEventId>>
        /\ \A g \in Handlers \ {h} : eventId'[g] = eventId[g]
        BY <1>9 DEF YieldOrder, TypeOK
  <2>3. missed[h] = {}
        BY <2>1 DEF SeenInv
  <2>4. CASE h \in Plain
    <3>1. UNCHANGED seen
          BY <1>9, <2>4 DEF YieldOrder
    <3>2. HandlerInv(h)'
          BY <2>1, <2>2, <2>3 DEF HandlerInv, Numbered
    <3> QED  BY <2>1, <2>2, <2>3, <3>1, <3>2, OwnStep
  <2>5. CASE h \notin Plain
    <3>1. /\ Send(h, eventId[h]) /\ eventId[h] \in Nat \ {0} /\ eventId[h] < nextEventId
          /\ connected[ClientOf[h]] = h => Older(ClientOf[h], eventId[h])
          BY <1>9, <2>1, <2>5 DEF YieldOrder, SeenInv, HandlerInv, IdInv, TypeOK, Numbered
    <3>2. /\ SeenInOrder'
          /\ \A c \in Clients : \A x \in Nat :
                 Older(c, x) /\ (c = ClientOf[h] /\ connected[c] = h => eventId[h] < x) => Older(c, x)'
          BY <3>1, SendLemma
    <3>3. \A c \in Clients : Older(c, nextEventId)'
      <4>1. \A c \in Clients : Older(c, nextEventId)
            BY DEF SeenInv
      <4> QED  BY <2>2, <3>1, <3>2, <4>1 DEF Older
    <3>4. ASSUME NEW g \in Handlers, connected[ClientOf[g]] = g
          PROVE  HandlerInv(g)'
      <4>1. CASE g = h
            BY <2>1, <2>2, <2>3, <4>1 DEF HandlerInv, Numbered
      <4>2. CASE g # h
        <5>1. HandlerInv(g) /\ lastEventId[g] + 1 \in Nat /\ eventId[g] \in Nat /\ missed[g] \subseteq Nat
              BY <3>4 DEF SeenInv, TypeOK
        <5>2. \A x \in Nat : Older(ClientOf[g], x) => Older(ClientOf[g], x)'
              BY <3>2, <3>4, <4>2
        <5> QED  BY <2>1, <2>2, <4>2, <5>1, <5>2 DEF HandlerInv, Older
      <4> QED  BY <4>1, <4>2
    <3>5. /\ \A g \in Handlers : missed'[g] # {} => pc'[g] = "replaying"
          /\ \A g \in Handlers : \A e \in missed'[g] : e < nextEventId'
          BY <2>1, <2>2, <2>3 DEF SeenInv
    <3>6. \A c \in Clients : connected'[c] # Nobody => ClientOf[connected'[c]] = c /\ pc'[connected'[c]] # "idle"
          BY <2>1, <2>2 DEF SeenInv, TypeOK
    <3> QED  BY <2>2, <3>2, <3>3, <3>4, <3>5, <3>6 DEF SeenInv
  <2> QED  BY <2>4, <2>5
<1>10. ASSUME NEW h \in Handlers, Close(h)
       PROVE  SeenInv'
  <2>1. pc'[h] = "closed" /\ \A g \in Handlers \ {h} : pc'[g] = pc[g]
        BY <1>10, GotoType DEF Close, PcValues
  <2>2. /\ UNCHANGED <<seen, nextEventId>> /\ missed'[h] = {}
        /\ \A g \in Handlers \ {h} : /\ missed'[g] = missed[g] /\ eventId'[g] = eventId[g]
                                     /\ lastEventId'[g] = lastEventId[g]
        /\ \A c \in Clients : connected'[c] \in {connected[c], Nobody} /\ connected'[c] # h
        BY <1>10, HandlersAssumption DEF Close, TypeOK
  <2>3. ASSUME NEW g \in Handlers, connected'[ClientOf[g]] = g
        PROVE  HandlerInv(g)'
    <3>1. g # h /\ connected[ClientOf[g]] = g
          BY <2>2, <2>3, HandlersAssumption
    <3>2. HandlerInv(g)
          BY <3>1 DEF SeenInv
    <3> QED  BY <2>1, <2>2, <3>1, <3>2 DEF HandlerInv, Older
  <2>4. ASSUME NEW c \in Clients, connected'[c] # Nobody
        PROVE  ClientOf[connected'[c]] = c /\ pc'[connected'[c]] # "idle"
    <3>1. connected'[c] = connected[c] /\ connected[c] \in Handlers \ {h}
          BY <2>2, <2>4 DEF TypeOK
    <3> QED  BY <2>1, <3>1, <2>4 DEF SeenInv
  <2>5. /\ \A g \in Handlers : missed'[g] # {} => pc'[g] = "replaying"
        /\ \A g \in Handlers : \A e \in missed'[g] : e < nextEventId'
        BY <2>1, <2>2 DEF SeenInv
  <2>6. SeenInOrder' /\ \A c \in Clients : Older(c, nextEventId)'
        BY <2>2 DEF SeenInv, SeenInOrder, Older
  <2> QED  BY <2>3, <2>4, <2>5, <2>6 DEF SeenInv
<1> QED  BY <1>1, <1>2, <1>3, <1>4, <1>5, <1>6, <1>7, <1>8, <1>9, <1>10 DEF Next, HandlerStep

Inv == TypeOK /\ IdInv /\ SizeInv /\ SeenInv

-----------------------------------------------------------------------------
(* What a replay leaves out.  The buffer is not in the order of the Ids: a *)
(* request may enqueue behind one that has drawn a later Id.  Those that   *)
(* do so were all in Add at once with it, and so are fewer than peak.      *)

\* The older events that come after the item i, or are still to come.
Overtaken(i) ==
    {e \in 1 .. nextEventId - 1 :
        e < buffer[i] /\ (e \notin Enqueued \/ \E j \in DOMAIN buffer : i < j /\ buffer[j] = e)}

OvertakenInv == \A i \in DOMAIN buffer : Cardinality(Overtaken(i)) + 1 <= peak

\* The later events that have been in the buffer.
Newer(e) == {f \in Enqueued : f > e}

\* What has left the buffer was pushed out by that many.
DroppedInv == \A e \in Dropped : Cardinality(Newer(e)) + 2 * peak >= MaxBufferSize + 2

\* What a client is owed is what its request has still to replay, or had left
\* the buffer when that looked.
OwedOf(c) ==
    /\ owed[c] # {} => connected[c] # Nobody /\ pc[connected[c]] \notin {"idle", "started"}
    /\ IsFiniteSet(owed[c])
    /\ \A e \in owed[c] : LastSeen(c) < e =>
           \/ connected[c] # Nobody /\ e \in missed[connected[c]]
           \/ Cardinality({f \in owed[c] : f > e}) + 2 * peak >= MaxBufferSize + 2

OwedInv == \A c \in Clients : OwedOf(c)

GapInv == OvertakenInv /\ DroppedInv /\ OwedInv

\* Sets of event Ids are finite, and have numbers of elements that are ordered
\* as they are.
LEMMA SetsOfIds ==
    ASSUME TypeOK, NEW S, S \subseteq 1 .. nextEventId - 1
    PROVE  /\ IsFiniteSet(S) /\ Cardinality(S) \in Nat
           /\ \A T \in SUBSET S : IsFiniteSet(T) /\ Cardinality(T) \in Nat /\ Cardinality(T) <= Cardinality(S)
<1>1. IsFiniteSet(1 .. nextEventId - 1)
      BY FS_Interval DEF TypeOK
<1>2. IsFiniteSet(S)
      BY <1>1, FS_Subset
<1> QED  BY <1>2, FS_Subset, FS_CardinalityType

\* What is in the buffer has been enqueued.
LEMMA ItemsAreEnqueued ==
    ASSUME TypeOK, IdInv
    PROVE  Items(buffer) \subseteq Enqueued
<1> SUFFICES ASSUME NEW i \in DOMAIN buffer PROVE buffer[i] \in Enqueued
    BY DEF Items
<1>1. buffer[i] \in Nat \ {0} /\ buffer[i] < nextEventId /\ nextEventId \in Nat
      BY DEF TypeOK, IdInv
<1>2. \A h \in Handlers : pc[h] = "adding" => eventId[h] # buffer[i]
      BY DEF IdInv, Items
<1> QED  BY <1>1, <1>2 DEF Enqueued

\* A buffer without repetitions has as many items as it is long.
LEMMA AsManyItems ==
    ASSUME NEW s \in Seq(Nat), \A i, j \in DOMAIN s : s[i] = s[j] => i = j
    PROVE  IsFiniteSet(Items(s)) /\ Cardinality(Items(s)) = Len(s)
<1>1. Len(s) \in Nat /\ DOMAIN s = 1 .. Len(s)
      BY LenProperties
<1>2. IsFiniteSet(1 .. Len(s)) /\ Cardinality(1 .. Len(s)) = Len(s)
      BY <1>1, FS_Interval
<1>3. s \in Bijection(1 .. Len(s), Items(s))
      BY <1>1 DEF Bijection, Injection, Surjection, IsInjective, Items
<1> QED  BY <1>2, <1>3, FS_Bijection DEF ExistsBijection

\* Every step keeps what has been enqueued; what is new in the buffer was not
\* there before, and only TryDequeue takes an item away.
LEMMA EnqueuedStep ==
    ASSUME Inv, [Next]_vars
    PROVE  /\ Enqueued \subseteq Enqueued' /\ peak <= peak' /\ nextEventId <= nextEventId'
           /\ (\A h \in Handlers : ~ TryDequeue(h)) => Dropped' \subseteq Dropped
<1> USE DEF history
<1>0. TypeOK /\ IdInv /\ nextEventId \in Nat \ {0} /\ peak \in Nat /\ eventId \in [Handlers -> Nat]
      BY DEF Inv, TypeOK
<1>1. ASSUME NEW h \in Handlers, TakeEventId(h)
      PROVE  /\ Enqueued' = Enqueued /\ Dropped' = Dropped /\ peak <= peak' /\ nextEventId <= nextEventId'
  <2>1. pc[h] = "numbering" /\ pc'[h] = "adding" /\ \A g \in Handlers \ {h} : pc'[g] = pc[g]
        BY <1>0, <1>1, GotoType DEF TakeEventId, PcValues
  <2>2. /\ UNCHANGED buffer /\ nextEventId' = nextEventId + 1 /\ eventId'[h] = nextEventId
        /\ \A g \in Handlers \ {h} : eventId'[g] = eventId[g]
        BY <1>0, <1>1 DEF TakeEventId
  <2>3. peak <= peak'
        BY <1>0, <1>1, SizeTypes DEF TakeEventId
  <2>4. Enqueued' = Enqueued
    <3>1. ASSUME NEW e \in Enqueued' PROVE e \in Enqueued
      <4>1. e \in 1 .. nextEventId /\ e # nextEventId
            BY <1>0, <2>1, <2>2, <3>1 DEF Enqueued
      <4>2. \A g \in Handlers : pc[g] = "adding" => eventId[g] # e
            BY <2>1, <2>2, <3>1 DEF Enqueued
      <4> QED  BY <1>0, <4>1, <4>2 DEF Enqueued
    <3>2. ASSUME NEW e \in Enqueued PROVE e \in Enqueued'
      <4>1. e \in 1 .. nextEventId - 1 /\ \A g \in Handlers : pc[g] = "adding" => eventId[g] # e
            BY DEF Enqueued
      <4>2. e \in 1 .. nextEventId' - 1 /\ \A g \in Handlers : pc'[g] = "adding" => eventId'[g] # e
            BY <1>0, <2>1, <2>2, <4>1
      <4> QED  BY <4>2 DEF Enqueued
    <3> QED  BY <3>1, <3>2
  <2> QED  BY <1>0, <2>2, <2>3, <2>4 DEF Dropped, Items
<1>2. ASSUME NEW h \in Handlers, Enqueue(h)
      PROVE  /\ Enqueued \subseteq Enqueued' /\ Dropped' \subseteq Dropped /\ UNCHANGED <<peak, nextEventId>>
  <2>1. pc[h] = "adding" /\ pc'[h] = "trimming" /\ \A g \in Handlers \ {h} : pc'[g] = pc[g]
        BY <1>0, <1>2, GotoType DEF Enqueue, PcValues
  <2>2. /\ UNCHANGED <<nextEventId, eventId, peak>> /\ Items(buffer') = Items(buffer) \cup {eventId[h]}
    <3>1. /\ buffer' = Append(buffer, eventId[h]) /\ buffer \in Seq(Nat \ {0}) /\ eventId[h] \in Nat \ {0}
          /\ UNCHANGED <<nextEventId, eventId, peak>>
          BY <1>0, <1>2, <2>1 DEF Enqueue, TypeOK, IdInv, Numbered
    <3> QED  BY <3>1, AppendItems
  <2>3. Enqueued \subseteq Enqueued'
        BY <2>1, <2>2 DEF Enqueued
  <2>4. ASSUME NEW e \in Dropped' PROVE e \in Dropped
    <3>1. e \in Enqueued' /\ e \notin Items(buffer) /\ e # eventId[h]
          BY <2>2, <2>4 DEF Dropped
    <3>2. e \in Enqueued
          BY <2>1, <2>2, <3>1 DEF Enqueued
    <3> QED  BY <3>1, <3>2 DEF Dropped
  <2> QED  BY <2>2, <2>3, <2>4
<1>3. ASSUME UNCHANGED <<buffer, nextEventId, peak>>,
             \A h \in Handlers : (pc[h] = "adding" <=> pc'[h] = "adding") /\ (pc[h] = "adding" => eventId'[h] = eventId[h])
      PROVE  Enqueued' = Enqueued /\ Dropped' = Dropped /\ peak' = peak /\ nextEventId' = nextEventId
  <2>1. Enqueued' = Enqueued
        BY <1>3 DEF Enqueued
  <2> QED  BY <1>3, <2>1 DEF Dropped, Items
<1>4. ASSUME NEW h \in Handlers,
             Connect(h) \/ GetEventsAfter(h) \/ SendMissed(h) \/ GoLive(h) \/ ReadOrder(h) \/ CheckCount(h)
             \/ YieldOrder(h) \/ Close(h)
      PROVE  /\ UNCHANGED <<buffer, nextEventId, peak>>
             /\ \A g \in Handlers : (pc[g] = "adding" <=> pc'[g] = "adding") /\ (pc[g] = "adding" => eventId'[g] = eventId[g])
  <2> USE DEF Connect, GetEventsAfter, SendMissed, GoLive, ReadOrder, CheckCount, YieldOrder, Close
  <2>1. UNCHANGED <<buffer, nextEventId, peak>>
        BY <1>4
  <2>2. pc[h] # "adding" /\ \A g \in Handlers \ {h} : eventId'[g] = eventId[g]
        BY <1>0, <1>4
  <2>3. UNCHANGED pc \/ \E label \in PcValues \ {"adding"} : Goto(h, label)
        BY <1>4 DEF PcValues
  <2>4. pc'[h] # "adding" /\ \A g \in Handlers \ {h} : pc'[g] = pc[g]
        BY <1>0, <2>2, <2>3, GotoType
  <2> QED  BY <2>1, <2>2, <2>4
<1>5. ASSUME NEW h \in Handlers, TryDequeue(h)
      PROVE  Enqueued \subseteq Enqueued' /\ peak' = peak /\ nextEventId' = nextEventId
  <2>1. pc'[h] = "trimming" /\ \A g \in Handlers \ {h} : pc'[g] = pc[g]
        BY <1>0, <1>5, GotoType DEF TryDequeue, PcValues
  <2> QED  BY <1>5, <2>1 DEF TryDequeue, Enqueued
<1>6. CASE ProduceOrder \/ Stop \/ (\E c \in Clients : Disconnect(c)) \/ UNCHANGED vars
  <2>1. UNCHANGED <<buffer, nextEventId, peak, pc, eventId>>
        BY <1>6 DEF ProduceOrder, Stop, Disconnect, vars
  <2> QED  BY <1>0, <1>3, <2>1
<1>7. ASSUME NEW h \in Handlers, Connect(h) \/ HandlerStep(h)
      PROVE  /\ Enqueued \subseteq Enqueued' /\ peak <= peak' /\ nextEventId <= nextEventId'
             /\ TryDequeue(h) \/ Dropped' \subseteq Dropped
      BY <1>0, <1>1, <1>2, <1>3, <1>4, <1>5, <1>7 DEF HandlerStep
<1> QED  BY <1>6, <1>7 DEF Next

\* The items behind an item that are older are as many as before at most.
LEMMA OvertakenUntouched ==
    ASSUME Inv, Inv', OvertakenInv, Enqueued \subseteq Enqueued', peak <= peak', nextEventId <= nextEventId',
           NEW i \in DOMAIN buffer, NEW k \in DOMAIN buffer', buffer'[k] = buffer[i],
           \A j \in DOMAIN buffer' : k < j => \/ buffer'[j] \notin Enqueued
                                            \/ \E l \in DOMAIN buffer : i < l /\ buffer[l] = buffer'[j]
    PROVE  Cardinality(Overtaken(k))' + 1 <= peak'
<1>1. buffer[i] < nextEventId /\ buffer[i] \in Nat /\ nextEventId \in Nat /\ nextEventId' \in Nat /\ peak' \in Nat
      /\ peak \in Nat
      BY DEF Inv, IdInv, TypeOK
<1>2. Overtaken(k)' \subseteq Overtaken(i)
  <2> SUFFICES ASSUME NEW e \in Overtaken(k)' PROVE e \in Overtaken(i)
      OBVIOUS
  <2>1. /\ e \in 1 .. nextEventId' - 1 /\ e < buffer[i]
        /\ e \notin Enqueued' \/ \E j \in DOMAIN buffer' : k < j /\ buffer'[j] = e
        BY DEF Overtaken
  <2>2. e \in 1 .. nextEventId - 1
        BY <1>1, <2>1
  <2>3. e \notin Enqueued \/ \E l \in DOMAIN buffer : i < l /\ buffer[l] = e
        BY <2>1
  <2> QED  BY <2>1, <2>2, <2>3 DEF Overtaken
<1>3. Overtaken(i) \subseteq 1 .. nextEventId - 1
      BY DEF Overtaken
<1>4. Cardinality(Overtaken(k)') <= Cardinality(Overtaken(i)) /\ Cardinality(Overtaken(i)) \in Nat
      /\ Cardinality(Overtaken(k)') \in Nat
      BY <1>2, <1>3, SetsOfIds DEF Inv
<1> QED  BY <1>1, <1>4 DEF OvertakenInv

\* An item that is enqueued is behind those only that have drawn a later Id, and
\* the older ones still to come are of requests that are in Add with it.
LEMMA OvertakenStep ==
    ASSUME Inv, Inv', OvertakenInv, [Next]_vars
    PROVE  OvertakenInv'
<1>0. /\ Enqueued \subseteq Enqueued' /\ peak <= peak' /\ nextEventId <= nextEventId'
      /\ TypeOK /\ IdInv /\ TypeOK' /\ Items(buffer) \subseteq Enqueued
      BY EnqueuedStep, ItemsAreEnqueued DEF Inv
<1>1. ASSUME buffer' = buffer
      PROVE  OvertakenInv'
  <2> SUFFICES ASSUME NEW k \in DOMAIN buffer' PROVE Cardinality(Overtaken(k))' + 1 <= peak'
      BY DEF OvertakenInv
  <2>1. k \in DOMAIN buffer /\ buffer'[k] = buffer[k] /\ \A j \in DOMAIN buffer' : j \in DOMAIN buffer /\ buffer'[j] = buffer[j]
        BY <1>1
  <2> QED  BY <1>0, <2>1, OvertakenUntouched
<1>2. ASSUME NEW h \in Handlers, Enqueue(h)
      PROVE  OvertakenInv'
  <2>1. pc[h] = "adding" /\ pc'[h] = "trimming" /\ \A g \in Handlers \ {h} : pc'[g] = pc[g]
        BY <1>0, <1>2, GotoType DEF Enqueue, PcValues
  <2>2. /\ buffer' = Append(buffer, eventId[h]) /\ buffer \in Seq(Nat \ {0}) /\ eventId[h] \in Nat \ {0}
        /\ UNCHANGED <<nextEventId, eventId, peak>>
        BY <1>0, <1>2, <2>1 DEF Enqueue, TypeOK, IdInv, Numbered, history
  <2>3. /\ Len(buffer) \in Nat /\ DOMAIN buffer = 1 .. Len(buffer)
        /\ DOMAIN buffer' = 1 .. Len(buffer) + 1 /\ buffer'[Len(buffer) + 1] = eventId[h]
        /\ \A i \in 1 .. Len(buffer) : buffer'[i] = buffer[i]
        BY <2>2, AppendProperties
  <2>4. eventId[h] \notin Enqueued
        BY <2>1 DEF Enqueued
  <2> SUFFICES ASSUME NEW k \in DOMAIN buffer' PROVE Cardinality(Overtaken(k))' + 1 <= peak'
      BY DEF OvertakenInv
  <2>5. CASE k \in 1 .. Len(buffer)
    <3>1. k \in DOMAIN buffer /\ buffer'[k] = buffer[k]
          BY <2>3, <2>5
    <3>2. \A j \in DOMAIN buffer' : k < j => \/ buffer'[j] \notin Enqueued
                                            \/ \E l \in DOMAIN buffer : k < l /\ buffer[l] = buffer'[j]
          BY <2>3, <2>4
    <3> QED  BY <1>0, <3>1, <3>2, OvertakenUntouched
  <2>6. CASE k = Len(buffer) + 1
    <3> DEFINE Others == {g \in Handlers \ {h} : pc[g] = "adding"}
               Ids == {eventId[g] : g \in Others}
               f == [g \in Others |-> eventId[g]]
    <3>1. \A j \in DOMAIN buffer' : ~ k < j
          BY <2>3, <2>6
    <3>2. Overtaken(k)' \subseteq Ids
      <4> SUFFICES ASSUME NEW e \in Overtaken(k)' PROVE e \in Ids
          OBVIOUS
      <4>1. e \in 1 .. nextEventId - 1 /\ e \notin Enqueued'
            BY <2>2, <3>1 DEF Overtaken
      <4>2. PICK g \in Handlers : pc'[g] = "adding" /\ eventId[g] = e
            BY <2>2, <4>1 DEF Enqueued
      <4>3. g # h /\ pc[g] = "adding"
            BY <2>1, <4>2
      <4> QED  BY <4>2, <4>3
    <3>3. IsFiniteSet(Ids) /\ Cardinality(Ids) <= Cardinality(Others) /\ Cardinality(Others) \in Nat
      <4>1. Others \subseteq Handlers
            OBVIOUS
      <4>2. IsFiniteSet(Others) /\ Cardinality(Others) \in Nat
            BY <4>1, SubsetsOfHandlers
      <4>3. f \in Surjection(Others, Ids)
            BY DEF Surjection
      <4> HIDE DEF Others, Ids, f
      <4> QED  BY <4>2, <4>3, FS_Surjection
    <3>4. Cardinality(Others) + 1 <= peak
      <4>1. Others \subseteq Adding \ {h} /\ h \in Adding /\ Adding \subseteq Handlers
            BY <2>1 DEF Adding
      <4> HIDE DEF Others
      <4>2. /\ IsFiniteSet(Adding) /\ Cardinality(Adding) \in Nat /\ Cardinality(Adding \ {h}) = Cardinality(Adding) - 1
            BY <4>1, SubsetsOfHandlers, MinusOne
      <4>3. IsFiniteSet(Adding \ {h})
            BY <4>2, FS_Subset
      <4>4. Cardinality(Others) <= Cardinality(Adding \ {h})
            BY <4>1, <4>3, FS_Subset
      <4> QED  BY <3>3, <4>2, <4>4, SizeTypes DEF Inv, SizeInv
    <3> HIDE DEF Others, Ids
    <3>5. Cardinality(Overtaken(k)') <= Cardinality(Ids) /\ Cardinality(Ids) \in Nat /\ Cardinality(Overtaken(k)') \in Nat
          BY <3>2, <3>3, FS_Subset, FS_CardinalityType
    <3> QED  BY <2>2, <3>3, <3>4, <3>5, SizeTypes DEF Inv
  <2> QED  BY <2>3, <2>5, <2>6
<1>3. ASSUME NEW h \in Handlers, TryDequeue(h), buffer # <<>>
      PROVE  OvertakenInv'
  <2>1. buffer' = Tail(buffer) /\ buffer \in Seq(Nat \ {0})
        BY <1>0, <1>3 DEF TryDequeue, TypeOK
  <2>2. \A i \in DOMAIN buffer' : i \in Nat /\ i + 1 \in DOMAIN buffer /\ buffer'[i] = buffer[i + 1]
    <3>1. DOMAIN buffer' \subseteq Nat
          BY <1>0 DEF TypeOK
    <3> QED  BY <1>3, <2>1, <3>1, TailItems
  <2> SUFFICES ASSUME NEW k \in DOMAIN buffer' PROVE Cardinality(Overtaken(k))' + 1 <= peak'
      BY DEF OvertakenInv
  <2>3. \A j \in DOMAIN buffer' : k < j => j + 1 \in DOMAIN buffer /\ k + 1 < j + 1 /\ buffer[j + 1] = buffer'[j]
        BY <2>2
  <2> QED  BY <1>0, <2>2, <2>3, OvertakenUntouched
<1>4. ASSUME NEW h \in Handlers, HandlerStep(h), ~ Enqueue(h), ~ (TryDequeue(h) /\ buffer # <<>>)
      PROVE  buffer' = buffer
      BY <1>4 DEF HandlerStep, GetEventsAfter, SendMissed, GoLive, ReadOrder, TakeEventId, CheckCount, TryDequeue,
                  YieldOrder, Close
<1>5. CASE ProduceOrder \/ Stop \/ (\E c \in Clients : Disconnect(c)) \/ (\E h \in Handlers : Connect(h)) \/ UNCHANGED vars
      BY <1>1, <1>5 DEF ProduceOrder, Stop, Disconnect, Connect, vars
<1> QED  BY <1>1, <1>2, <1>3, <1>4, <1>5 DEF Next

\* An item that leaves has behind it all of the buffer but the older ones.
LEMMA DroppedStep ==
    ASSUME Inv, Inv', OvertakenInv, DroppedInv, [Next]_vars
    PROVE  DroppedInv'
<1>0. /\ Enqueued \subseteq Enqueued' /\ peak <= peak' /\ peak \in Nat /\ peak' \in Nat
      /\ TypeOK /\ IdInv /\ TypeOK' /\ Items(buffer) \subseteq Enqueued /\ MaxBufferSize \in Nat
      BY EnqueuedStep, ItemsAreEnqueued, BoundsAssumption DEF Inv, TypeOK
<1>1. \A e : /\ Cardinality(Newer(e)) \in Nat /\ Cardinality(Newer(e)') \in Nat
             /\ Cardinality(Newer(e)) <= Cardinality(Newer(e)')
  <2> TAKE e
  <2>1. Newer(e) \subseteq Newer(e)' /\ Newer(e)' \subseteq 1 .. nextEventId' - 1
        BY <1>0 DEF Newer, Enqueued
  <2>2. nextEventId' \in Nat /\ IsFiniteSet(1 .. nextEventId' - 1)
        BY <1>0, FS_Interval DEF TypeOK
  <2>3. IsFiniteSet(Newer(e)')
        BY <2>1, <2>2, FS_Subset
  <2> QED  BY <2>1, <2>3, FS_Subset, FS_CardinalityType
<1>2. ASSUME NEW e \in Dropped
      PROVE  Cardinality(Newer(e)') + 2 * peak' >= MaxBufferSize + 2
  <2>1. Cardinality(Newer(e)) + 2 * peak >= MaxBufferSize + 2
        BY DEF DroppedInv
  <2> QED  BY <1>0, <1>1, <2>1
<1>3. CASE Dropped' \subseteq Dropped
      BY <1>2, <1>3 DEF DroppedInv, Newer
<1>4. ASSUME NEW h \in Handlers, TryDequeue(h), NEW e \in Dropped', e \notin Dropped
      PROVE  Cardinality(Newer(e)') + 2 * peak' >= MaxBufferSize + 2
  <2>1. /\ UNCHANGED <<nextEventId, eventId, peak>> /\ buffer \in Seq(Nat \ {0})
        /\ pc[h] = "removing" /\ pc'[h] = "trimming" /\ \A g \in Handlers \ {h} : pc'[g] = pc[g]
        BY <1>0, <1>4, GotoType DEF TryDequeue, TypeOK, PcValues, history
  <2>2. e \in Enqueued /\ e \in Items(buffer)
    <3>1. Enqueued' = Enqueued
          BY <2>1 DEF Enqueued
    <3> QED  BY <1>4, <3>1 DEF Dropped
  <2>3. buffer # <<>> /\ buffer' = Tail(buffer)
    <3>1. buffer # <<>>
          BY <2>2 DEF Items
    <3> QED  BY <1>4, <3>1 DEF TryDequeue
  <2>4. /\ buffer' \in Seq(Nat \ {0}) /\ DOMAIN buffer' = 1 .. Len(buffer') /\ Len(buffer') \in Nat
        /\ DOMAIN buffer = 1 .. Len(buffer') + 1
        /\ \A i \in DOMAIN buffer' : buffer'[i] = buffer[i + 1]
    <3>1. Len(buffer) \in Nat /\ DOMAIN buffer = 1 .. Len(buffer) /\ Len(buffer) # 0
          BY <2>1, <2>3, EmptySeq, LenProperties
    <3> QED  BY <2>1, <2>3, <3>1, TailItems, LenProperties
  <2>5. e = buffer[1] /\ 1 \in DOMAIN buffer /\ e \in Nat
    <3>1. PICK i \in DOMAIN buffer : buffer[i] = e
          BY <2>2 DEF Items
    <3>2. i # 1 => i - 1 \in DOMAIN buffer' /\ buffer'[i - 1] = buffer[i]
          BY <2>4
    <3>3. e \notin Items(buffer')
          BY <1>4 DEF Dropped
    <3> QED  BY <2>1, <2>4, <3>1, <3>2, <3>3 DEF Items
  <2>6. Items(buffer') \subseteq Newer(e) \cup Overtaken(1)
    <3> SUFFICES ASSUME NEW j \in DOMAIN buffer' PROVE buffer'[j] \in Newer(e) \cup Overtaken(1)
        BY DEF Items
    <3>1. j + 1 \in DOMAIN buffer /\ 1 < j + 1 /\ buffer'[j] = buffer[j + 1] /\ buffer[j + 1] \in Nat
          BY <2>1, <2>4
    <3>2. buffer[j + 1] # e /\ buffer[j + 1] \in Enqueued /\ buffer[j + 1] \in 1 .. nextEventId - 1
      <4>1. buffer[j + 1] \in Enqueued
            BY <1>0, <3>1 DEF Items
      <4> QED  BY <1>0, <2>5, <3>1, <4>1 DEF IdInv, Enqueued
    <3>3. CASE buffer[j + 1] > e
          BY <3>1, <3>2, <3>3 DEF Newer
    <3>4. CASE buffer[j + 1] < e
          BY <2>5, <3>1, <3>2, <3>4 DEF Overtaken
    <3> QED  BY <2>5, <3>1, <3>2, <3>3, <3>4
  <2>7. Cardinality(Items(buffer')) = Len(buffer')
    <3>1. \A i, j \in DOMAIN buffer' : buffer'[i] = buffer'[j] => i = j
          BY DEF Inv, IdInv
    <3>2. buffer' \in Seq(Nat)
          BY <2>4
    <3> QED  BY <3>1, <3>2, AsManyItems
  <2>8. Len(buffer') <= Cardinality(Newer(e)) + Cardinality(Overtaken(1)) /\ Cardinality(Overtaken(1)) \in Nat
    <3>1. /\ IsFiniteSet(Newer(e)) /\ IsFiniteSet(Overtaken(1)) /\ Cardinality(Overtaken(1)) \in Nat
      <4>1. Newer(e) \subseteq 1 .. nextEventId - 1 /\ Overtaken(1) \subseteq 1 .. nextEventId - 1
            BY DEF Newer, Enqueued, Overtaken
      <4> QED  BY <1>0, <4>1, SetsOfIds
    <3>2. /\ IsFiniteSet(Newer(e) \cup Overtaken(1)) /\ Cardinality(Newer(e) \cap Overtaken(1)) \in Nat
          /\ Cardinality(Newer(e) \cup Overtaken(1))
                 = Cardinality(Newer(e)) + Cardinality(Overtaken(1)) - Cardinality(Newer(e) \cap Overtaken(1))
      <4>1. IsFiniteSet(Newer(e) \cap Overtaken(1))
            BY <3>1, FS_Subset
      <4> QED  BY <3>1, <4>1, FS_Union, FS_CardinalityType
    <3>3. Cardinality(Items(buffer')) <= Cardinality(Newer(e) \cup Overtaken(1))
          BY <2>6, <3>2, FS_Subset
    <3> QED  BY <1>1, <2>4, <2>7, <3>1, <3>2, <3>3
  <2>9. Len(buffer') + peak' >= MaxBufferSize + 1
    <3>1. Len(buffer') + peak' >= MaxBufferSize + 1 + Cardinality(Removing')
          BY <1>4 DEF Inv, SizeInv
    <3>2. Cardinality(Removing') \in Nat
          BY SubsetsOfHandlers DEF Removing
    <3> QED  BY <1>0, <2>4, <3>1, <3>2
  <2>10. Cardinality(Overtaken(1)) + 1 <= peak
         BY <2>5 DEF OvertakenInv
  <2> QED  BY <1>0, <1>1, <2>1, <2>4, <2>8, <2>9, <2>10
<1>5. CASE \E h \in Handlers : TryDequeue(h)
      BY <1>2, <1>4, <1>5 DEF DroppedInv, Newer
<1> QED  BY <1>3, <1>5, EnqueuedStep

\* A client that is owed what it was before, whose request replays what it did
\* before, but for what has been sent.
LEMMA OwedUntouched ==
    ASSUME Inv, Inv', peak <= peak', NEW c \in Clients, OwedOf(c), owed'[c] = owed[c], connected'[c] = connected[c],
           \A e \in owed[c] : LastSeen(c)' < e => LastSeen(c) < e,
           connected[c] # Nobody =>
               /\ pc[connected[c]] \notin {"idle", "started"} => pc'[connected[c]] \notin {"idle", "started"}
               /\ \A e \in missed[connected[c]] : LastSeen(c)' < e => e \in missed'[connected[c]]
    PROVE  OwedOf(c)'
<1>1. /\ owed'[c] # {} => connected'[c] # Nobody /\ pc'[connected'[c]] \notin {"idle", "started"}
      /\ IsFiniteSet(owed'[c])
      BY DEF OwedOf
<1>2. ASSUME NEW e \in owed'[c], LastSeen(c)' < e
      PROVE  \/ connected'[c] # Nobody /\ e \in missed'[connected'[c]]
             \/ Cardinality({f \in owed'[c] : f > e}) + 2 * peak' >= MaxBufferSize + 2
  <2>1. \/ connected[c] # Nobody /\ e \in missed[connected[c]]
        \/ Cardinality({f \in owed[c] : f > e}) + 2 * peak >= MaxBufferSize + 2
        BY <1>2 DEF OwedOf
  <2>2. Cardinality({f \in owed[c] : f > e}) \in Nat
    <3>1. IsFiniteSet({f \in owed[c] : f > e})
          BY <1>1, FS_Subset
    <3> QED  BY <3>1, FS_CardinalityType
  <2>3. peak \in Nat /\ peak' \in Nat /\ MaxBufferSize \in Nat
        BY BoundsAssumption DEF Inv, TypeOK
  <2> QED  BY <1>2, <2>1, <2>2, <2>3
<1> QED  BY <1>1, <1>2 DEF OwedOf

\* A client that is owed nothing.
LEMMA OwedNothing ==
    ASSUME NEW c \in Clients, owed'[c] = {}
    PROVE  OwedOf(c)'
BY FS_EmptySet DEF OwedOf

\* What a request sends to its client is later than what the client has seen.
LEMMA SendIsLast ==
    ASSUME Inv, NEW h \in Handlers, NEW e \in Nat \ {0}, Send(h, e), connected[ClientOf[h]] = h, Older(ClientOf[h], e)
    PROVE  /\ LastSeen(ClientOf[h])' = e /\ LastSeen(ClientOf[h]) < e
           /\ \A c \in Clients \ {ClientOf[h]} : seen'[c] = seen[c]
<1> DEFINE b == ClientOf[h]
<1>1. b \in Clients /\ seen \in [Clients -> Seq(Nat \ {0})] /\ seen[b] \in Seq(Nat \ {0})
      BY ClientOfAssumption DEF Inv, TypeOK
<1>2. seen' = [seen EXCEPT ![b] = Append(seen[b], e)]
      BY DEF Send
<1>3. seen'[b] = Append(seen[b], e) /\ \A c \in Clients \ {b} : seen'[c] = seen[c]
      BY <1>1, <1>2
<1> HIDE DEF b
<1>4. /\ Len(seen[b]) \in Nat /\ Len(seen'[b]) = Len(seen[b]) + 1 /\ seen'[b][Len(seen[b]) + 1] = e /\ seen'[b] # <<>>
      BY <1>1, <1>3, AppendProperties
<1>5. LastSeen(b)' = e
      BY <1>4 DEF LastSeen
<1>6. LastSeen(b) < e
  <2>1. CASE seen[b] = <<>>
        BY <2>1 DEF LastSeen
  <2>2. CASE seen[b] # <<>>
    <3>1. Len(seen[b]) \in DOMAIN seen[b]
          BY <1>1, <1>4, <2>2, LenProperties, EmptySeq
    <3> QED  BY <2>2, <3>1 DEF LastSeen, Older, b
  <2> QED  BY <2>1, <2>2
<1> QED  BY <1>3, <1>5, <1>6 DEF b

\* The request a client listens to is one of its own.
LEMMA ListensToItsOwn ==
    ASSUME Inv, NEW c \in Clients, connected[c] # Nobody
    PROVE  connected[c] \in Handlers /\ ClientOf[connected[c]] = c
BY DEF Inv, SeenInv, TypeOK

\* A replay starts with all that is in the buffer; the rest has left it.
LEMMA OwedAtStart ==
    ASSUME Inv, Inv', DroppedInv, NEW h \in Handlers, GetEventsAfter(h), connected[ClientOf[h]] = h
    PROVE  OwedOf(ClientOf[h])'
<1> DEFINE b == ClientOf[h]
           last == lastEventId[h]
<1>1. /\ b \in Clients /\ last \in Nat /\ h # Nobody /\ nextEventId \in Nat
      /\ connected'[b] = h /\ seen' = seen /\ peak' = peak /\ nextEventId' = nextEventId
      /\ pc'[h] = "replaying"
      /\ owed'[b] = {e \in Enqueued : 0 < last /\ last < e}
      /\ missed'[h] = {d \in Items(buffer) : last # 0 /\ d > last}
  <2>1. pc' \in [Handlers -> PcValues] /\ pc'[h] = "replaying"
        BY GotoType DEF GetEventsAfter, PcValues, Inv
  <2> QED  BY <2>1, ClientOfAssumption, HandlersAssumption DEF GetEventsAfter, EventsAfter, Inv, TypeOK
<1> HIDE DEF b, last
<1>2. IsFiniteSet(owed'[b])
  <2>1. owed'[b] \subseteq 1 .. nextEventId - 1
        BY <1>1 DEF Enqueued
  <2> QED  BY <2>1, SetsOfIds DEF Inv
<1>3. ASSUME NEW e \in owed'[b], e \notin missed'[h]
      PROVE  Cardinality({f \in owed'[b] : f > e}) + 2 * peak' >= MaxBufferSize + 2
  <2>1. e \in Enqueued /\ 0 < last /\ last < e /\ e \in Nat
        BY <1>1, <1>3 DEF Enqueued
  <2>2. e \in Dropped
        BY <1>1, <1>3, <2>1 DEF Dropped
  <2>3. {f \in owed'[b] : f > e} = Newer(e)
    <3>1. \A f \in Enqueued : f \in Nat /\ (f > e => last < f)
          BY <1>1, <2>1 DEF Enqueued
    <3> QED  BY <1>1, <2>1, <3>1 DEF Newer
  <2> QED  BY <1>1, <2>2, <2>3 DEF DroppedInv
<1> QED  BY <1>1, <1>2, <1>3 DEF OwedOf, b

\* The request of a client that is owed something has looked; it is the one
\* that sends to the client, the oldest of what it has missed first.
LEMMA OwedStep ==
    ASSUME Inv, Inv', DroppedInv, OwedInv, [Next]_vars, NEW c \in Clients
    PROVE  OwedOf(c)'
<1> USE DEF history
<1>0. /\ TypeOK /\ peak <= peak' /\ OwedOf(c) /\ ClientOf \in [Handlers -> Clients] /\ Nobody \notin Handlers
      /\ connected \in [Clients -> Handlers \cup {Nobody}] /\ missed \in [Handlers -> SUBSET (Nat \ {0})]
      /\ pc \in [Handlers -> PcValues] /\ owed \in [Clients -> SUBSET (Nat \ {0})]
      /\ connected[c] # Nobody => connected[c] \in Handlers /\ ClientOf[connected[c]] = c
      BY EnqueuedStep, HandlersAssumption, ClientOfAssumption, ListensToItsOwn DEF Inv, TypeOK, OwedInv
<1>1. ASSUME UNCHANGED <<seen, connected, owed, missed>>,
             \A h \in Handlers : pc[h] \notin {"idle", "started"} => pc'[h] \notin {"idle", "started"}
      PROVE  OwedOf(c)'
      BY <1>0, <1>1, OwedUntouched DEF LastSeen
<1>2. CASE ProduceOrder \/ Stop \/ UNCHANGED vars
      BY <1>1, <1>2 DEF ProduceOrder, Stop, vars
<1>3. ASSUME NEW h \in Handlers,
             GoLive(h) \/ ReadOrder(h) \/ TakeEventId(h) \/ Enqueue(h) \/ CheckCount(h) \/ TryDequeue(h)
      PROVE  OwedOf(c)'
  <2>1. UNCHANGED <<seen, connected, owed, missed>>
        BY <1>3 DEF GoLive, ReadOrder, TakeEventId, Enqueue, CheckCount, TryDequeue
  <2>2. \E label \in PcValues \ {"idle", "started"} : Goto(h, label)
        BY <1>3 DEF GoLive, ReadOrder, TakeEventId, Enqueue, CheckCount, TryDequeue, PcValues
  <2> QED  BY <1>0, <1>1, <2>1, <2>2, GotoType
<1>4. ASSUME NEW d \in Clients, Disconnect(d)
      PROVE  OwedOf(c)'
  <2>1. CASE c = d
        BY <1>0, <1>4, <2>1, OwedNothing DEF Disconnect
  <2>2. CASE c # d
    <3>1. owed'[c] = owed[c] /\ connected'[c] = connected[c] /\ UNCHANGED <<seen, missed, pc>>
          BY <1>0, <1>4, <2>2 DEF Disconnect
    <3> QED  BY <1>0, <3>1, OwedUntouched DEF LastSeen
  <2> QED  BY <2>1, <2>2
<1>5. ASSUME NEW h \in Handlers, Connect(h)
      PROVE  OwedOf(c)'
  <2>1. CASE c = ClientOf[h]
    <3>1. owed'[c] = {}
          BY <1>0, <1>5, <2>1 DEF Connect, OwedOf
    <3> QED  BY <3>1, OwedNothing
  <2>2. CASE c # ClientOf[h]
    <3>1. owed'[c] = owed[c] /\ connected'[c] = connected[c] /\ UNCHANGED <<seen, missed>> /\ connected[c] # h
          BY <1>0, <1>5, <2>2 DEF Connect
    <3>2. \A g \in Handlers \ {h} : pc'[g] = pc[g]
          BY <1>0, <1>5, GotoType DEF Connect, PcValues
    <3> QED  BY <1>0, <3>1, <3>2, OwedUntouched DEF LastSeen
  <2> QED  BY <2>1, <2>2
<1>6. ASSUME NEW h \in Handlers, GetEventsAfter(h)
      PROVE  OwedOf(c)'
  <2>1. CASE connected[c] = h
    <3>1. c = ClientOf[h] /\ connected[ClientOf[h]] = h
          BY <1>0, <2>1
    <3> QED  BY <1>6, <3>1, OwedAtStart
  <2>2. CASE connected[c] # h
    <3>1. owed'[c] = owed[c]
          BY <1>0, <1>6, <2>2 DEF GetEventsAfter
    <3>2. UNCHANGED <<seen, connected>> /\ \A g \in Handlers \ {h} : pc'[g] = pc[g] /\ missed'[g] = missed[g]
          BY <1>0, <1>6, GotoType DEF GetEventsAfter, PcValues
    <3> QED  BY <1>0, <2>2, <3>1, <3>2, OwedUntouched DEF LastSeen
  <2> QED  BY <2>1, <2>2
<1>7. ASSUME NEW h \in Handlers, SendMissed(h)
      PROVE  OwedOf(c)'
  <2>1. PICK m \in missed[h] : /\ \A d \in missed[h] : m <= d
                              /\ Send(h, m) /\ missed' = [missed EXCEPT ![h] = @ \ {m}]
        BY <1>7 DEF SendMissed
  <2>2. /\ UNCHANGED <<connected, owed, pc>> /\ m \in Nat \ {0} /\ missed'[h] = missed[h] \ {m}
        /\ \A g \in Handlers \ {h} : missed'[g] = missed[g]
        BY <1>0, <1>7, <2>1 DEF SendMissed
  <2>3. CASE connected[c] = h
    <3>1. c = ClientOf[h] /\ connected[ClientOf[h]] = h
          BY <1>0, <2>3
    <3>2. Older(ClientOf[h], m)
          BY <3>1 DEF Inv, SeenInv, HandlerInv
    <3>3. LastSeen(c)' = m /\ LastSeen(c) < m /\ LastSeen(c) \in Nat
          BY <1>0, <2>1, <2>2, <3>1, <3>2, SendIsLast, LastSeenType
    <3>4. \A e \in owed[c] : m < e => LastSeen(c) < e
          BY <1>0, <2>2, <3>3
    <3> QED  BY <1>0, <2>2, <2>3, <3>3, <3>4, OwedUntouched
  <2>4. CASE connected[c] # h
    <3>1. LastSeen(c)' = LastSeen(c)
          BY <1>0, <2>1, <2>4 DEF Send, LastSeen, TypeOK
    <3> QED  BY <1>0, <2>2, <2>4, <3>1, OwedUntouched
  <2> QED  BY <2>3, <2>4
<1>8. ASSUME NEW h \in Handlers, YieldOrder(h)
      PROVE  OwedOf(c)'
  <2>1. UNCHANGED <<connected, owed, missed>> /\ \A g \in Handlers : pc[g] \notin {"idle", "started"} => pc'[g] \notin {"idle", "started"}
        BY <1>0, <1>8, GotoType DEF YieldOrder, PcValues
  <2>2. CASE connected[c] = h /\ h \notin Plain
    <3>1. c = ClientOf[h] /\ connected[ClientOf[h]] = h
          BY <1>0, <2>2
    <3>2. Older(ClientOf[h], eventId[h]) /\ eventId[h] \in Nat \ {0} /\ Send(h, eventId[h])
          BY <1>8, <2>2, <3>1 DEF Inv, SeenInv, HandlerInv, IdInv, TypeOK, YieldOrder, Numbered
    <3>3. LastSeen(c)' = eventId[h] /\ LastSeen(c) < eventId[h] /\ LastSeen(c) \in Nat
          BY <1>0, <3>1, <3>2, SendIsLast, LastSeenType
    <3>4. \A e \in owed[c] : eventId[h] < e => LastSeen(c) < e
          BY <1>0, <3>2, <3>3
    <3> QED  BY <1>0, <2>1, <3>3, <3>4, OwedUntouched
  <2>3. CASE connected[c] # h \/ h \in Plain
    <3>1. LastSeen(c)' = LastSeen(c)
          BY <1>0, <1>8, <2>3 DEF YieldOrder, Send, LastSeen, TypeOK
    <3> QED  BY <1>0, <2>1, <3>1, OwedUntouched
  <2> QED  BY <2>2, <2>3
<1>9. ASSUME NEW h \in Handlers, Close(h)
      PROVE  OwedOf(c)'
  <2>1. CASE connected[c] = h
        BY <1>9, <2>1, OwedNothing DEF Close
  <2>2. CASE connected[c] # h
    <3>1. owed'[c] = owed[c] /\ connected'[c] = connected[c] /\ UNCHANGED seen
          BY <1>9, <2>2 DEF Close
    <3>2. \A g \in Handlers \ {h} : pc'[g] = pc[g] /\ missed'[g] = missed[g]
          BY <1>0, <1>9, GotoType DEF Close, PcValues
    <3> QED  BY <1>0, <2>2, <3>1, <3>2, OwedUntouched DEF LastSeen
  <2> QED  BY <2>1, <2>2
<1> QED  BY <1>2, <1>3, <1>4, <1>5, <1>6, <1>7, <1>8, <1>9 DEF Next, HandlerStep

\* What a step sends past an event that is owed.
LEMMA ReplayStep ==
    ASSUME Inv, OwedInv, [Next]_vars, NEW c \in Clients, seen'[c] # seen[c],
           NEW e \in owed[c], LastSeen(c) < e, e < LastSeen(c)'
    PROVE  Cardinality({f \in owed[c] : f > e}) + 2 * peak >= MaxBufferSize + 2
<1> USE DEF history
<1>0. /\ ClientOf \in [Handlers -> Clients] /\ seen \in [Clients -> Seq(Nat \ {0})]
      /\ connected \in [Clients -> Handlers \cup {Nobody}] /\ e \in Nat /\ missed \in [Handlers -> SUBSET (Nat \ {0})]
      BY ClientOfAssumption DEF Inv, TypeOK
<1>1. PICK h \in Handlers : SendMissed(h) \/ (YieldOrder(h) /\ h \notin Plain)
      BY DEF Next, HandlerStep, vars, ProduceOrder, Stop, Connect, Disconnect, GetEventsAfter, GoLive, ReadOrder,
             TakeEventId, Enqueue, CheckCount, TryDequeue, YieldOrder, Close
<1>2. \E d \in Nat : Send(h, d)
      BY <1>0, <1>1 DEF SendMissed, YieldOrder, Inv, TypeOK
<1>3. c = ClientOf[h] /\ connected[c] = h
      BY <1>0, <1>2 DEF Send
<1>4. e \notin missed[h]
  <2>1. CASE YieldOrder(h)
        BY <2>1 DEF YieldOrder, Inv, SeenInv
  <2>2. CASE SendMissed(h)
    <3>1. PICK m \in missed[h] : (\A d \in missed[h] : m <= d) /\ Send(h, m)
          BY <2>2 DEF SendMissed
    <3>2. LastSeen(c)' = m /\ m \in Nat
          BY <1>0, <1>3, <3>1, SendIsLast DEF Inv, SeenInv, HandlerInv
    <3> QED  BY <1>0, <3>1, <3>2
  <2> QED  BY <1>1, <2>1, <2>2
<1> QED  BY <1>3, <1>4 DEF OwedInv, OwedOf

-----------------------------------------------------------------------------
(* The theorems *)

\* The inductive invariant, whatever requests overlap in whatever way.
THEOREM InvCorrect == Spec => []Inv
<1>1. Init => Inv
      BY TypeInit, IdInit, SizeInit, SeenInit DEF Inv
<1>2. Inv /\ [Next]_vars => Inv'
      BY TypeStep, IdStep, SizeStep, SeenStep DEF Inv
<1> QED  BY <1>1, <1>2, PTL DEF Spec

\* The types.
THEOREM TypeCorrect == Spec => []TypeOK
<1>1. Inv => TypeOK
      BY DEF Inv
<1> QED  BY <1>1, InvCorrect, PTL

\* Event Ids are unique, in the buffer and in the hands of the requests.
THEOREM EventIdsCorrect == Spec => []EventIdsAreUnique
<1>1. Inv => EventIdsAreUnique
      BY DEF Inv, IdInv, EventIdsAreUnique
<1> QED  BY <1>1, InvCorrect, PTL

\* The size of the buffer is exact but for the requests that overlap in Add.
THEOREM BufferSizeCorrect == Spec => []BufferSizeIsNearlyKept
<1>1. Inv => BufferSizeIsNearlyKept
  <2> SUFFICES ASSUME Inv PROVE BufferSizeIsNearlyKept
      OBVIOUS
  <2>1. Cardinality(Trimming) <= Cardinality(Adding)
    <3>1. Trimming \subseteq Adding
          BY DEF Trimming, Adding
    <3> QED  BY <3>1, SubsetsOfHandlers, FS_Subset DEF Adding
  <2> QED  BY <2>1, SizeTypes, BoundsAssumption DEF Inv, SizeInv, BufferSizeIsNearlyKept
<1> QED  BY <1>1, InvCorrect, PTL

\* No client sees an event twice or out of order.
THEOREM SeenCorrect == Spec => []SeenInOrder
<1>1. Inv => SeenInOrder
      BY DEF Inv, SeenInv
<1> QED  BY <1>1, InvCorrect, PTL

\* The invariant of what a replay leaves out.
THEOREM GapCorrect == Spec => []GapInv
<1>1. Init => GapInv
  <2> SUFFICES ASSUME Init PROVE GapInv
      OBVIOUS
  <2>1. /\ buffer = <<>> /\ nextEventId = 1 /\ \A c \in Clients : owed[c] = {}
        BY DEF Init, FirstEventId
  <2>2. OvertakenInv
        BY <2>1, EmptySeq DEF OvertakenInv
  <2>3. DroppedInv
    <3>1. Enqueued = {}
          BY <2>1 DEF Enqueued
    <3> QED  BY <3>1 DEF DroppedInv, Dropped
  <2>4. OwedInv
        BY <2>1, FS_EmptySet DEF OwedInv, OwedOf
  <2> QED  BY <2>2, <2>3, <2>4 DEF GapInv
<1>2. Inv /\ Inv' /\ GapInv /\ [Next]_vars => GapInv'
  <2> SUFFICES ASSUME Inv, Inv', GapInv, [Next]_vars PROVE GapInv'
      OBVIOUS
  <2>1. \A c \in Clients : OwedOf(c)'
        BY OwedStep DEF GapInv
  <2> QED  BY <2>1, OvertakenStep, DroppedStep DEF GapInv, OwedInv
<1> QED  BY <1>1, <1>2, InvCorrect, PTL DEF Spec

\* A replay leaves out only what enough later events had pushed out of the
\* buffer when the request looked (GetEventsAfter and Add).
THEOREM ReplayCorrect == Spec => ReplayLeavesNoGap
<1>1. Inv /\ GapInv /\ [Next]_vars =>
          [\A c \in Clients : seen'[c] # seen[c] =>
              \A e \in owed[c] : LastSeen(c) < e /\ e < LastSeen(c)' =>
                  Cardinality({f \in owed[c] : f > e}) + 2 * peak >= MaxBufferSize + 2]_vars
      BY ReplayStep DEF GapInv
<1> QED  BY <1>1, InvCorrect, GapCorrect, PTL DEF Spec, ReplayLeavesNoGap
=============================================================================
