----------------------- MODULE CustomerMessagesProofs -----------------------
(***************************************************************************)
(* Proofs about CustomerMessages, for any customers, requests, consumers   *)
(* and bounds.                                                             *)
(***************************************************************************)
EXTENDS CustomerMessages, SequenceTheorems, FiniteSetTheorems, TLAPS

\* The requests that have committed a change.
Changed == {q \in Requests : change[q] # 0}

\* Every change was committed by a request of its own.
CountInv ==
    /\ Len(changes) = Cardinality(Changed)
    /\ \A q \in Requests : pc[q] \in {"idle", "checked"} => change[q] = 0
    /\ \A q \in Requests : pc[q] = "written" => change[q] # 0

-----------------------------------------------------------------------------
(* Types *)

\* Sets of requests are finite.
LEMMA RequestCounts ==
    /\ Cardinality(Requests) \in Nat
    /\ \A S \in SUBSET Requests : IsFiniteSet(S) /\ Cardinality(S) \in Nat /\ Cardinality(S) <= Cardinality(Requests)
BY RequestsAssumption, FS_Subset, FS_CardinalityType

\* The types hold at the start.
LEMMA TypeInit ==
    ASSUME Init
    PROVE  TypeOK
<1>1. /\ rows = {} /\ changes = <<>> /\ queue = {} /\ visible = {} /\ handled = {}
      /\ failures = 0
      BY DEF Init
<1>2. pc \in [Requests -> {"idle", "checked", "written", "done", "failed"}] /\ change \in [Requests -> Numbers \cup {0}]
      BY DEF Init
<1>3. command \in [Requests -> Commands]
      BY DEF Init, Commands, Kinds
<1>4. /\ state \in [Consumers -> {"running", "stopped"}]
      /\ messages \in [Consumers -> SUBSET Numbers] /\ current \in [Consumers -> Numbers \cup {0}]
      BY DEF Init
<1> QED  BY <1>1, <1>2, <1>3, <1>4, BoundsAssumption DEF TypeOK

\* The next change has a number.
LEMMA NextNumber ==
    ASSUME TypeOK, CountInv, NEW q \in Requests, Write(q)
    PROVE  /\ Len(changes) + 1 \in Numbers
           /\ Changed' = Changed \cup {q}
           /\ Cardinality(Changed') = Len(changes) + 1
<1>1. pc[q] = "checked" /\ change[q] = 0
      BY DEF Write, CountInv
<1>2. change'[q] = Len(changes) + 1 /\ Len(changes) \in Nat /\ \A r \in Requests \ {q} : change'[r] = change[r]
      BY DEF Write, TypeOK
<1>3. Changed' = Changed \cup {q} /\ q \notin Changed
      BY <1>1, <1>2 DEF Changed
<1>4. Cardinality(Changed \cup {q}) = Cardinality(Changed) + 1
  <2>1. IsFiniteSet(Changed)
        BY RequestCounts DEF Changed
  <2> QED  BY <1>3, <2>1, FS_AddElement
<1>5. Cardinality(Changed \cup {q}) <= Cardinality(Requests)
      BY RequestCounts DEF Changed
<1> QED  BY <1>2, <1>3, <1>4, <1>5, RequestCounts DEF CountInv, Numbers

\* The steps of the API keep the types.
LEMMA ApiType ==
    ASSUME TypeOK, CountInv, NEW q \in Requests,
           \/ \E c \in Customers : Create(q, c) \/ Update(q, c) \/ Delete(q, c)
           \/ Write(q) \/ WriteNothing(q) \/ RequestFails(q)
    PROVE  TypeOK'
<1>1. ASSUME NEW kind \in Kinds, NEW c \in Customers, Ask(q, kind, c)
      PROVE  TypeOK'
  <2>1. [kind |-> kind, id |-> c] \in Commands
        BY DEF Commands
  <2>2. command' \in [Requests -> Commands] /\ pc' \in [Requests -> {"idle", "checked", "written", "done", "failed"}]
        BY <1>1, <2>1 DEF Ask, TypeOK
  <2> QED  BY <1>1, <2>2 DEF Ask, TypeOK, consumer
<1>2. CASE Write(q)
  <2>1. command[q] \in Commands /\ command[q].id \in Customers
        BY DEF TypeOK, Commands
  <2>2. changes' \in Seq(Commands) /\ rows' \subseteq Customers
        BY <1>2, <2>1 DEF Write, TypeOK
  <2>3. change' \in [Requests -> Numbers \cup {0}]
        BY <1>2, NextNumber DEF Write, TypeOK
  <2>4. pc' \in [Requests -> {"idle", "checked", "written", "done", "failed"}]
        BY <1>2 DEF Write, TypeOK
  <2> QED  BY <1>2, <2>2, <2>3, <2>4 DEF Write, TypeOK, consumer
<1>3. CASE WriteNothing(q) \/ RequestFails(q)
      BY <1>3 DEF WriteNothing, RequestFails, TypeOK, consumer
<1> QED  BY <1>1, <1>2, <1>3 DEF Create, Update, Delete, Kinds

\* The steps of the queue and its consumer keep the types.
LEMMA QueueType ==
    ASSUME TypeOK, \/ \E m \in Numbers : VisibilityTimeout(m)
                   \/ \E w \in Consumers : ConsumerStep(w) \/ ConsumerStops(w) \/ ConsumerStarts(w)
                   \/ \E w \in Consumers, m \in Numbers : HandlerFails(w, m)
    PROVE  TypeOK'
<1> USE DEF api, consumer
<1>1. ASSUME NEW m \in Numbers, VisibilityTimeout(m)
      PROVE  TypeOK'
      BY <1>1 DEF VisibilityTimeout, TypeOK
<1>2. ASSUME NEW w \in Consumers, ReceiveMessage(w)
      PROVE  TypeOK'
  <2>1. PICK received \in SUBSET visible : /\ messages' = [messages EXCEPT ![w] = received]
                                           /\ visible' = visible \ received
        BY <1>2 DEF ReceiveMessage
  <2>2. messages' \in [Consumers -> SUBSET Numbers] /\ visible' \subseteq queue
        BY <2>1 DEF TypeOK
  <2> QED  BY <1>2, <2>2 DEF ReceiveMessage, TypeOK
<1>3. ASSUME NEW w \in Consumers, NEW m \in Numbers, Handle(w, m)
      PROVE  TypeOK'
      BY <1>3 DEF Handle, TypeOK
<1>4. ASSUME NEW w \in Consumers, NEW m \in Numbers, HandlerFails(w, m)
      PROVE  TypeOK'
  <2>1. messages' \in [Consumers -> SUBSET Numbers] /\ failures' \in 0 .. MaxFailures
        BY <1>4, BoundsAssumption DEF HandlerFails, TypeOK
  <2> QED  BY <1>4, <2>1 DEF HandlerFails, TypeOK
<1>5. ASSUME NEW w \in Consumers, DeleteMessage(w)
      PROVE  TypeOK'
  <2>1. PICK gone : queue' = queue \ gone /\ visible' = visible \ gone
        BY <1>5 DEF DeleteMessage
  <2>2. queue' \subseteq Numbers /\ visible' \subseteq queue'
        BY <2>1 DEF TypeOK
  <2>3. messages' \in [Consumers -> SUBSET Numbers] /\ current' \in [Consumers -> Numbers \cup {0}]
        BY <1>5 DEF DeleteMessage, TypeOK
  <2> QED  BY <1>5, <2>2, <2>3 DEF DeleteMessage, TypeOK
<1>6. ASSUME NEW w \in Consumers, ConsumerStarts(w)
      PROVE  TypeOK'
      BY <1>6 DEF ConsumerStarts, TypeOK
<1>7. ASSUME NEW w \in Consumers, ConsumerStops(w)
      PROVE  TypeOK'
  <2>1. failures' \in 0 .. MaxFailures
        BY <1>7, BoundsAssumption DEF ConsumerStops, TypeOK
  <2>2. messages' \in [Consumers -> SUBSET Numbers] /\ current' \in [Consumers -> Numbers \cup {0}]
        BY <1>7 DEF ConsumerStops, TypeOK
  <2> QED  BY <1>7, <2>1, <2>2 DEF ConsumerStops, TypeOK
<1> QED  BY <1>1, <1>2, <1>3, <1>4, <1>5, <1>6, <1>7 DEF ConsumerStep

\* Every step keeps the types.
LEMMA TypeStep ==
    ASSUME TypeOK, CountInv, [Next]_vars
    PROVE  TypeOK'
<1>1. ASSUME NEW q \in Requests, SendMessage(q) \/ SendFails(q)
      PROVE  TypeOK'
  <2>1. change[q] \in Numbers
        BY <1>1 DEF SendMessage, SendFails, CountInv, TypeOK
  <2> QED  BY <1>1, <2>1 DEF SendMessage, SendFails, TypeOK, consumer
<1>2. CASE UNCHANGED vars
      BY <1>2 DEF vars, TypeOK
<1> QED  BY <1>1, <1>2, ApiType, QueueType DEF Next

-----------------------------------------------------------------------------
(* The changes *)

\* Every step keeps the count of the changes: one request, one change at most.
LEMMA CountStep ==
    ASSUME TypeOK, CountInv, [Next]_vars
    PROVE  CountInv'
<1> USE DEF api, consumer
<1>1. ASSUME NEW q \in Requests, Write(q)
      PROVE  CountInv'
  <2>1. Len(changes') = Len(changes) + 1
    <3>1. command[q] \in Commands /\ changes \in Seq(Commands)
          BY DEF TypeOK
    <3> QED  BY <1>1, <3>1, AppendProperties DEF Write
  <2>2. pc'[q] = "written" /\ \A r \in Requests \ {q} : pc'[r] = pc[r] /\ change'[r] = change[r]
        BY <1>1 DEF Write, TypeOK
  <2>3. change'[q] # 0
        BY <1>1, NextNumber DEF Write, TypeOK, Numbers
  <2> QED  BY <1>1, <2>1, <2>2, <2>3, NextNumber DEF CountInv
<1>2. ASSUME NEW q \in Requests, UNCHANGED <<changes, change>>,
             pc'[q] \in {"checked", "done", "failed"}, pc'[q] = "checked" => pc[q] = "idle",
             \A r \in Requests \ {q} : pc'[r] = pc[r]
      PROVE  CountInv'
      BY <1>2 DEF CountInv, Changed
<1>3. ASSUME NEW q \in Requests, NEW c \in Customers, Create(q, c) \/ Update(q, c) \/ Delete(q, c)
      PROVE  CountInv'
      BY <1>2, <1>3 DEF Create, Update, Delete, Ask, TypeOK
<1>4. ASSUME NEW q \in Requests, WriteNothing(q) \/ SendMessage(q) \/ SendFails(q) \/ RequestFails(q)
      PROVE  CountInv'
      BY <1>2, <1>4 DEF WriteNothing, SendMessage, SendFails, RequestFails, TypeOK
<1>5. CASE UNCHANGED <<changes, change, pc>>
      BY <1>5 DEF CountInv, Changed
<1> QED  BY <1>1, <1>3, <1>4, <1>5
         DEF Next, ConsumerStep, VisibilityTimeout, ReceiveMessage, Handle, DeleteMessage, ConsumerStarts,
             ConsumerStops, HandlerFails, vars

\* A message is deleted by a consumer that has handled it.
AnnounceInv ==
    /\ ChangesAreAnnounced
    /\ \A w \in Consumers : current[w] # 0 => current[w] \in handled

\* Every step keeps every announced change in the queue or handled.
LEMMA AnnounceStep ==
    ASSUME TypeOK, CountInv, AnnounceInv, [Next]_vars
    PROVE  AnnounceInv'
<1> USE DEF api, consumer
<1>1. ASSUME NEW q \in Requests, Write(q)
      PROVE  AnnounceInv'
  <2>1. /\ changes' = Append(changes, command[q]) /\ changes \in Seq(Commands) /\ command[q] \in Commands
        /\ change'[q] = Len(changes) + 1 /\ pc'[q] = "written" /\ pc[q] = "checked"
        /\ \A r \in Requests \ {q} : pc'[r] = pc[r] /\ change'[r] = change[r]
        /\ UNCHANGED <<queue, handled, current>>
        BY <1>1 DEF Write, TypeOK
  <2>2. DOMAIN changes' = DOMAIN changes \cup {Len(changes) + 1}
        BY <2>1
  <2> QED  BY <2>1, <2>2 DEF AnnounceInv, ChangesAreAnnounced
<1>2. ASSUME NEW q \in Requests, SendMessage(q) \/ SendFails(q)
      PROVE  AnnounceInv'
  <2>1. /\ queue' = queue \cup {change[q]} /\ \A r \in Requests \ {q} : pc'[r] = pc[r]
        /\ UNCHANGED <<changes, change, handled, current>>
        BY <1>2 DEF SendMessage, SendFails, TypeOK
  <2> QED  BY <2>1 DEF AnnounceInv, ChangesAreAnnounced
<1>3. ASSUME NEW q \in Requests,
             \/ WriteNothing(q) \/ RequestFails(q)
             \/ \E c \in Customers : Create(q, c) \/ Update(q, c) \/ Delete(q, c)
      PROVE  AnnounceInv'
  <2>1. /\ pc[q] \in {"written", "failed"} => pc'[q] \in {"written", "failed"}
        /\ \A r \in Requests \ {q} : pc'[r] = pc[r]
        /\ UNCHANGED <<changes, change, queue, handled, current>>
        BY <1>3 DEF WriteNothing, RequestFails, Create, Update, Delete, Ask, TypeOK
  <2> QED  BY <2>1 DEF AnnounceInv, ChangesAreAnnounced
<1>4. ASSUME NEW w \in Consumers, NEW m \in Numbers, Handle(w, m)
      PROVE  AnnounceInv'
  <2>1. /\ handled' = handled \cup {m} /\ current'[w] = m /\ \A v \in Consumers \ {w} : current'[v] = current[v]
        /\ UNCHANGED <<changes, change, queue, pc>>
        BY <1>4 DEF Handle, TypeOK
  <2> QED  BY <2>1 DEF AnnounceInv, ChangesAreAnnounced
<1>5. ASSUME NEW w \in Consumers, DeleteMessage(w)
      PROVE  AnnounceInv'
  <2>1. PICK gone \in {{current[w]}, {current[w]} \ visible} : queue' = queue \ gone
        BY <1>5 DEF DeleteMessage
  <2>2. gone \subseteq handled
        BY <1>5, <2>1 DEF DeleteMessage, AnnounceInv
  <2>3. /\ current'[w] = 0 /\ \A v \in Consumers \ {w} : current'[v] = current[v]
        /\ UNCHANGED <<changes, change, handled, pc>>
        BY <1>5 DEF DeleteMessage, TypeOK
  <2> QED  BY <2>1, <2>2, <2>3 DEF AnnounceInv, ChangesAreAnnounced
<1>6. ASSUME NEW w \in Consumers, ConsumerStops(w)
      PROVE  AnnounceInv'
  <2>1. /\ current'[w] = 0 /\ \A v \in Consumers \ {w} : current'[v] = current[v]
        /\ UNCHANGED <<changes, change, handled, queue, pc>>
        BY <1>6 DEF ConsumerStops, TypeOK
  <2> QED  BY <2>1 DEF AnnounceInv, ChangesAreAnnounced
<1>7. CASE UNCHANGED <<changes, change, pc, queue, handled, current>>
      BY <1>7 DEF AnnounceInv, ChangesAreAnnounced
<1> QED  BY <1>1, <1>2, <1>3, <1>4, <1>5, <1>6, <1>7
         DEF Next, ConsumerStep, VisibilityTimeout, ReceiveMessage, ConsumerStarts, HandlerFails, vars

-----------------------------------------------------------------------------
(* The life of a customer *)

\* A change of c has been committed.
Changes(c) == \E i \in DOMAIN changes : changes[i].id = c

\* A request that is creating its customer is alone with its Id; a row is of a
\* customer that was created and not deleted.
LifeInv ==
    /\ LifeOfACustomer
    /\ \A c \in Customers : Changes(c) => \E q \in Requests : pc[q] # "idle" /\ command[q].id = c
    /\ \A c \in rows : Changes(c) /\ \A i \in DOMAIN changes : changes[i].id = c => changes[i].kind # "deleted"
    /\ \A q \in Requests : pc[q] = "checked" /\ command[q].kind = "created" =>
           /\ ~ Changes(command[q].id)
           /\ \A r \in Requests : pc[r] = "checked" /\ command[r].kind = "created"
                                  /\ command[r].id = command[q].id => r = q

\* A request that starts keeps the invariant of the life of customers.
LEMMA AskStep ==
    ASSUME TypeOK, LifeInv, NEW q \in Requests, NEW c \in Customers,
           Create(q, c) \/ Update(q, c) \/ Delete(q, c)
    PROVE  LifeInv'
<1>1. /\ pc[q] = "idle" /\ pc'[q] = "checked" /\ \A r \in Requests \ {q} : pc'[r] = pc[r] /\ command'[r] = command[r]
      /\ UNCHANGED <<rows, changes>>
      BY DEF Create, Update, Delete, Ask, TypeOK
<1>2. /\ command'[q].id = c
      /\ command'[q].kind = "created" => \A r \in Requests : pc[r] # "idle" => command[r].id # c
      BY DEF Create, Update, Delete, Ask, TypeOK
<1>3. LifeOfACustomer'
      BY <1>1 DEF LifeInv, LifeOfACustomer
<1>4. \A d \in Customers : Changes(d)' => \E r \in Requests : pc'[r] # "idle" /\ command'[r].id = d
      BY <1>1 DEF LifeInv, Changes
<1>5. \A d \in rows' : Changes(d)' /\ \A i \in DOMAIN changes' : changes'[i].id = d => changes'[i].kind # "deleted"
      BY <1>1 DEF LifeInv, Changes
<1>6. ASSUME NEW r \in Requests, pc'[r] = "checked", command'[r].kind = "created"
      PROVE  /\ (~ Changes(command[r].id))'
             /\ \A s \in Requests : pc'[s] = "checked" /\ command'[s].kind = "created"
                                    /\ command'[s].id = command'[r].id => s = r
  <2>1. CASE r = q
    <3>1. ~ Changes(c)
          BY <1>2, <1>6, <2>1 DEF LifeInv
    <3> QED  BY <1>1, <1>2, <1>6, <2>1, <3>1 DEF Changes
  <2>2. CASE r # q
    <3>1. pc[r] = "checked" /\ command'[r] = command[r] /\ command[r].kind = "created"
          BY <1>1, <1>6, <2>2
    <3>2. command'[q].kind = "created" => command[r].id # c
          BY <1>2, <3>1
    <3> QED  BY <1>1, <1>2, <3>1, <3>2 DEF LifeInv, Changes
  <2> QED  BY <2>1, <2>2
<1> QED  BY <1>3, <1>4, <1>5, <1>6 DEF LifeInv

\* A row that is written keeps the invariant of the life of customers.
LEMMA WriteStep ==
    ASSUME TypeOK, LifeInv, NEW q \in Requests, Write(q)
    PROVE  LifeInv'
<1> DEFINE b == command[q].id
<1>1. /\ pc[q] = "checked" /\ pc'[q] = "written" /\ \A r \in Requests \ {q} : pc'[r] = pc[r]
      /\ UNCHANGED command
      /\ command[q].kind = "created" \/ b \in rows
      /\ rows' = IF command[q].kind = "deleted" THEN rows \ {b} ELSE rows \cup {b}
      BY DEF Write, RowsAffected, TypeOK
<1>2. /\ changes \in Seq(Commands) /\ command[q] \in Commands /\ b \in Customers /\ rows \subseteq Customers
      /\ changes' = Append(changes, command[q])
      BY DEF Write, TypeOK, Commands
<1>3. /\ Len(changes) \in Nat /\ DOMAIN changes = 1 .. Len(changes) /\ DOMAIN changes' = 1 .. Len(changes) + 1
      /\ changes'[Len(changes) + 1] = command[q]
      /\ \A i \in 1 .. Len(changes) : changes'[i] = changes[i]
      BY <1>2, AppendProperties
<1> HIDE DEF b
<1>4. \A c \in Customers : Changes(c)' <=> Changes(c) \/ c = b
      BY <1>3 DEF Changes, b
<1>5. \A i \in 1 .. Len(changes) : changes[i].id = b => command[q].kind # "created" /\ changes[i].kind # "deleted"
      BY <1>1, <1>3 DEF LifeInv, Changes, b
<1>6. LifeOfACustomer'
  <2> SUFFICES ASSUME NEW i \in DOMAIN changes', NEW j \in DOMAIN changes', i < j, changes'[i].id = changes'[j].id
               PROVE  changes'[i].kind # "deleted" /\ changes'[j].kind # "created"
      BY DEF LifeOfACustomer
  <2>1. CASE j = Len(changes) + 1
    <3>1. i \in 1 .. Len(changes) /\ changes'[i] = changes[i] /\ changes[i].id = b
          BY <1>3, <2>1 DEF b
    <3> QED  BY <1>3, <1>5, <2>1, <3>1
  <2>2. CASE j \in 1 .. Len(changes)
    <3>1. i \in 1 .. Len(changes)
          BY <1>3, <2>2
    <3> QED  BY <1>3, <2>2, <3>1 DEF LifeInv, LifeOfACustomer
  <2> QED  BY <1>3, <2>1, <2>2
<1>7. \A d \in Customers : Changes(d)' => \E r \in Requests : pc'[r] # "idle" /\ command'[r].id = d
      BY <1>1, <1>4 DEF LifeInv, b
<1>8. ASSUME NEW d \in rows'
      PROVE  Changes(d)' /\ \A i \in DOMAIN changes' : changes'[i].id = d => changes'[i].kind # "deleted"
  <2>1. d \in Customers /\ (d = b => command[q].kind # "deleted") /\ (d # b => d \in rows)
        BY <1>1, <1>2
  <2>2. Changes(d)'
        BY <1>4, <2>1 DEF LifeInv
  <2>3. ASSUME NEW i \in DOMAIN changes', changes'[i].id = d
        PROVE  changes'[i].kind # "deleted"
    <3>1. CASE i = Len(changes) + 1
          BY <1>3, <2>1, <2>3, <3>1 DEF b
    <3>2. CASE i \in 1 .. Len(changes)
          BY <1>3, <1>5, <2>1, <2>3, <3>2 DEF LifeInv
    <3> QED  BY <1>3, <3>1, <3>2
  <2> QED  BY <2>2, <2>3
<1>9. ASSUME NEW r \in Requests, pc'[r] = "checked", command'[r].kind = "created"
      PROVE  /\ (~ Changes(command[r].id))'
             /\ \A s \in Requests : pc'[s] = "checked" /\ command'[s].kind = "created"
                                    /\ command'[s].id = command'[r].id => s = r
  <2>1. r # q /\ pc[r] = "checked" /\ command'[r] = command[r] /\ command[r].id \in Customers
        BY <1>1, <1>9 DEF TypeOK, Commands
  <2>2. ~ Changes(command[r].id)
        BY <1>9, <2>1 DEF LifeInv
  <2>3. command[r].id # b
        BY <1>1, <1>9, <2>1, <2>2 DEF LifeInv, b
  <2> QED  BY <1>1, <1>4, <1>9, <2>1, <2>2, <2>3 DEF LifeInv
<1> QED  BY <1>6, <1>7, <1>8, <1>9 DEF LifeInv

\* Every step keeps the invariant of the life of customers.
LEMMA LifeStep ==
    ASSUME TypeOK, LifeInv, [Next]_vars
    PROVE  LifeInv'
<1> USE DEF api, consumer
<1>1. ASSUME NEW q \in Requests, WriteNothing(q) \/ SendMessage(q) \/ SendFails(q) \/ RequestFails(q)
      PROVE  LifeInv'
  <2>1. /\ pc'[q] \in {"done", "failed"} /\ pc[q] # "idle" /\ \A r \in Requests \ {q} : pc'[r] = pc[r]
        /\ UNCHANGED <<rows, changes, command>>
        BY <1>1 DEF WriteNothing, SendMessage, SendFails, RequestFails, TypeOK
  <2> QED  BY <2>1 DEF LifeInv, LifeOfACustomer, Changes
<1>2. CASE UNCHANGED <<rows, changes, command, pc>>
      BY <1>2 DEF LifeInv, LifeOfACustomer, Changes
<1> QED  BY <1>1, <1>2, AskStep, WriteStep
         DEF Next, ConsumerStep, VisibilityTimeout, ReceiveMessage, Handle, DeleteMessage, ConsumerStarts,
             ConsumerStops, HandlerFails, vars

-----------------------------------------------------------------------------
(* The log *)

\* The table holds the customers that exist by the log.
RowsInv == rows = {c \in Customers : Log!Exists(c)}

\* A change belongs to one request, it is announced only after it was committed
\* and not by a request that still stands before the queue; a consumer has only
\* messages that were announced.
PlaceInv ==
    /\ \A q \in Requests : change[q] \in DOMAIN changes \cup {0}
    /\ \A q, r \in Requests : change[q] = change[r] /\ change[q] # 0 => q = r
    /\ Announced \subseteq DOMAIN changes
    /\ \A w \in Consumers : messages[w] \subseteq Announced
    /\ \A q \in Requests : pc[q] = "written" => change[q] \notin Announced

\* What a committed change does to the log.
LEMMA LogAppended ==
    ASSUME TypeOK, NEW q \in Requests, Write(q)
    PROVE  /\ changes \in Seq(Commands) /\ Len(changes) \in Nat
           /\ command[q] \in Commands /\ command[q] = [kind |-> command[q].kind, id |-> command[q].id]
           /\ command[q].kind \in Kinds /\ command[q].id \in Customers
           /\ DOMAIN changes = 1 .. Len(changes) /\ DOMAIN changes' = 1 .. Len(changes) + 1
           /\ changes'[Len(changes) + 1] = command[q]
           /\ \A i \in 1 .. Len(changes) : changes'[i] = changes[i]
<1>1. changes \in Seq(Commands) /\ command[q] \in Commands /\ changes' = Append(changes, command[q])
      BY DEF Write, TypeOK
<1> QED  BY <1>1, AppendProperties DEF Commands

\* Nothing has happened to a customer that is being created.
LEMMA CreatedIsNew ==
    ASSUME TypeOK, LifeInv, NEW q \in Requests, Write(q), command[q].kind = "created"
    PROVE  \A i \in DOMAIN changes : changes[i].id # command[q].id
BY DEF LifeInv, Changes, Write

\* The statement of a request changes the table as it changes the log.
LEMMA RowsStep ==
    ASSUME TypeOK, LifeInv, RowsInv, [Next]_vars
    PROVE  RowsInv'
<1>1. ASSUME NEW q \in Requests, Write(q)
      PROVE  RowsInv'
  <2> DEFINE b == command[q].id
             k == command[q].kind
  <2>1. /\ command[q] = [kind |-> k, id |-> b] /\ k \in Kinds /\ b \in Customers
        /\ DOMAIN changes = 1 .. Len(changes) /\ DOMAIN changes' = 1 .. Len(changes) + 1 /\ Len(changes) \in Nat
        /\ changes'[Len(changes) + 1] = command[q]
        /\ \A i \in 1 .. Len(changes) : changes'[i] = changes[i]
        BY <1>1, LogAppended
  <2>2. /\ k = "created" \/ b \in rows
        /\ rows' = IF k = "deleted" THEN rows \ {b} ELSE rows \cup {b}
        BY <1>1 DEF Write, RowsAffected
  <2>3. k = "created" => \A i \in DOMAIN changes : changes[i].id # b
        BY <1>1, CreatedIsNew
  <2> HIDE DEF b, k
  <2>4. ASSUME NEW kind, NEW c
        PROVE  Log!Happened(kind, c)' <=> Log!Happened(kind, c) \/ (kind = k /\ c = b)
    <3>1. (\E i \in DOMAIN changes' : changes'[i] = [kind |-> kind, id |-> c])
          <=> \/ \E i \in DOMAIN changes : changes[i] = [kind |-> kind, id |-> c]
              \/ command[q] = [kind |-> kind, id |-> c]
          BY <2>1
    <3>2. command[q] = [kind |-> kind, id |-> c] <=> kind = k /\ c = b
          BY <2>1
    <3> QED  BY <3>1, <3>2 DEF Log!Happened
  <2>5. k = "created" => \A kind : ~ Log!Happened(kind, b)
        BY <2>3 DEF Log!Happened
  <2>6. ASSUME NEW c \in Customers
        PROVE  c \in rows' <=> Log!Exists(c)'
    <3>1. Log!Exists(c)' <=> Log!Happened("created", c)' /\ ~ Log!Happened("deleted", c)'
          BY DEF Log!Exists
    <3>2. c \in rows <=> Log!Happened("created", c) /\ ~ Log!Happened("deleted", c)
          BY DEF RowsInv, Log!Exists
    <3>3. k \in {"created", "updated", "deleted"}
          BY <2>1 DEF Kinds
    <3> QED  BY <2>2, <2>4, <2>5, <3>1, <3>2, <3>3
  <2>7. rows' \subseteq Customers
        BY <2>1, <2>2 DEF TypeOK
  <2> QED  BY <2>6, <2>7 DEF RowsInv
<1>2. CASE UNCHANGED <<rows, changes>>
      BY <1>2 DEF RowsInv, Log!Exists, Log!Happened
<1> QED  BY <1>1, <1>2
         DEF Next, Create, Update, Delete, Ask, WriteNothing, SendMessage, SendFails, RequestFails, ConsumerStep, VisibilityTimeout,
             ReceiveMessage, Handle, DeleteMessage, ConsumerStarts, ConsumerStops, HandlerFails, vars, api

\* The requests keep the places of the changes.
LEMMA ApiPlace ==
    ASSUME TypeOK, CountInv, PlaceInv, NEW q \in Requests,
           \/ \E c \in Customers : Create(q, c) \/ Update(q, c) \/ Delete(q, c)
           \/ Write(q) \/ WriteNothing(q) \/ SendMessage(q) \/ SendFails(q) \/ RequestFails(q)
    PROVE  PlaceInv'
<1> USE DEF consumer, Announced
<1>1. CASE Write(q)
  <2>1. /\ DOMAIN changes' = DOMAIN changes \cup {Len(changes) + 1} /\ Len(changes) + 1 \notin DOMAIN changes
        /\ Len(changes) + 1 # 0
    <3>1. Len(changes) \in Nat /\ DOMAIN changes = 1 .. Len(changes) /\ DOMAIN changes' = 1 .. Len(changes) + 1
          BY <1>1, LogAppended
    <3> QED  BY <3>1
  <2>2. /\ change'[q] = Len(changes) + 1 /\ pc'[q] = "written"
        /\ \A r \in Requests \ {q} : pc'[r] = pc[r] /\ change'[r] = change[r]
        /\ UNCHANGED <<queue, handled, messages>>
        BY <1>1 DEF Write, TypeOK
  <2> QED  BY <2>1, <2>2 DEF PlaceInv
<1>2. CASE SendMessage(q) \/ SendFails(q)
  <2>1. /\ pc[q] = "written" /\ pc'[q] \in {"done", "failed"} /\ \A r \in Requests \ {q} : pc'[r] = pc[r]
        /\ queue' = queue \cup {change[q]}
        /\ UNCHANGED <<changes, change, handled, messages>>
        BY <1>2 DEF SendMessage, SendFails, TypeOK
  <2>2. change[q] \in DOMAIN changes /\ change[q] # 0
        BY <2>1 DEF PlaceInv, CountInv
  <2>3. \A r \in Requests : pc'[r] = "written" => pc[r] = "written" /\ change[r] # change[q]
        BY <2>1, <2>2 DEF PlaceInv
  <2> QED  BY <2>1, <2>2, <2>3 DEF PlaceInv
<1>3. CASE \/ \E c \in Customers : Create(q, c) \/ Update(q, c) \/ Delete(q, c)
           \/ WriteNothing(q) \/ RequestFails(q)
  <2>1. /\ pc[q] \in {"idle", "checked", "written"} /\ pc'[q] \in {"checked", "done", "failed"}
        /\ \A r \in Requests \ {q} : pc'[r] = pc[r]
        /\ UNCHANGED <<changes, change, queue, handled, messages>>
        BY <1>3 DEF Create, Update, Delete, Ask, WriteNothing, RequestFails, TypeOK
  <2> QED  BY <2>1 DEF PlaceInv
<1> QED  BY <1>1, <1>2, <1>3

\* So do the queue and its consumers.
LEMMA QueuePlace ==
    ASSUME TypeOK, AnnounceInv, PlaceInv,
           \/ \E m \in Numbers : VisibilityTimeout(m)
           \/ \E w \in Consumers : ConsumerStep(w) \/ ConsumerStops(w) \/ ConsumerStarts(w)
           \/ \E w \in Consumers, m \in Numbers : HandlerFails(w, m)
    PROVE  PlaceInv' /\ UNCHANGED <<changes, pc, change, Announced>>
<1> USE DEF api, consumer
<1>0. ASSUME UNCHANGED <<changes, pc, change, Announced>>, \A w \in Consumers : messages'[w] \subseteq Announced
      PROVE  PlaceInv' /\ UNCHANGED <<changes, pc, change, Announced>>
      BY <1>0 DEF PlaceInv
<1>1. ASSUME NEW w \in Consumers, ReceiveMessage(w)
      PROVE  PlaceInv' /\ UNCHANGED <<changes, pc, change, Announced>>
  <2>1. PICK received \in SUBSET visible : messages' = [messages EXCEPT ![w] = received]
        BY <1>1 DEF ReceiveMessage
  <2>2. received \subseteq Announced
        BY DEF TypeOK, Announced
  <2>3. \A v \in Consumers : messages'[v] \subseteq Announced
        BY <2>1, <2>2 DEF TypeOK, PlaceInv
  <2> QED  BY <1>0, <1>1, <2>3 DEF ReceiveMessage, Announced
<1>2. ASSUME NEW w \in Consumers, NEW m \in Numbers, Handle(w, m)
      PROVE  PlaceInv' /\ UNCHANGED <<changes, pc, change, Announced>>
  <2>1. m \in Announced
        BY <1>2 DEF Handle, PlaceInv
  <2>2. UNCHANGED Announced
        BY <1>2, <2>1 DEF Handle, Announced
  <2> QED  BY <1>0, <1>2, <2>2 DEF Handle, PlaceInv
<1>3. ASSUME NEW w \in Consumers, DeleteMessage(w)
      PROVE  PlaceInv' /\ UNCHANGED <<changes, pc, change, Announced>>
  <2>1. PICK gone \in {{current[w]}, {current[w]} \ visible} : queue' = queue \ gone
        BY <1>3 DEF DeleteMessage
  <2>2. gone \subseteq handled
        BY <1>3, <2>1 DEF DeleteMessage, AnnounceInv
  <2>3. UNCHANGED Announced
        BY <1>3, <2>1, <2>2 DEF DeleteMessage, Announced
  <2>4. \A v \in Consumers : messages'[v] \subseteq messages[v]
        BY <1>3 DEF DeleteMessage, TypeOK
  <2> QED  BY <1>0, <1>3, <2>3, <2>4 DEF DeleteMessage, PlaceInv
<1>4. ASSUME NEW w \in Consumers,
             ConsumerStarts(w) \/ ConsumerStops(w) \/ \E m \in Numbers : HandlerFails(w, m)
      PROVE  PlaceInv' /\ UNCHANGED <<changes, pc, change, Announced>>
  <2>1. \A v \in Consumers : messages'[v] \subseteq messages[v]
        BY <1>4 DEF ConsumerStarts, ConsumerStops, HandlerFails, TypeOK
  <2>2. UNCHANGED <<changes, pc, change, Announced>>
        BY <1>4 DEF ConsumerStarts, ConsumerStops, HandlerFails, Announced
  <2> QED  BY <1>0, <2>1, <2>2 DEF PlaceInv
<1>5. ASSUME NEW m \in Numbers, VisibilityTimeout(m)
      PROVE  PlaceInv' /\ UNCHANGED <<changes, pc, change, Announced>>
      BY <1>0, <1>5 DEF VisibilityTimeout, PlaceInv, Announced
<1> QED  BY <1>1, <1>2, <1>3, <1>4, <1>5 DEF ConsumerStep

\* Every step keeps the places of the changes.
LEMMA PlaceStep ==
    ASSUME TypeOK, CountInv, AnnounceInv, PlaceInv, [Next]_vars
    PROVE  PlaceInv'
<1>1. CASE UNCHANGED vars
      BY <1>1 DEF vars, PlaceInv, Announced
<1> QED  BY <1>1, ApiPlace, QueuePlace DEF Next

-----------------------------------------------------------------------------
(* The theorems *)

Inv == TypeOK /\ CountInv /\ AnnounceInv /\ LifeInv /\ RowsInv /\ PlaceInv

\* The inductive invariant.
THEOREM InvCorrect == Spec => []Inv
<1>1. Init => Inv
  <2> SUFFICES ASSUME Init PROVE Inv
      OBVIOUS
  <2>1. changes = <<>> /\ rows = {} /\ Changed = {}
        BY DEF Init, Changed
  <2>2. /\ \A q \in Requests : pc[q] = "idle" /\ change[q] = 0
        /\ \A w \in Consumers : current[w] = 0
        BY DEF Init
  <2>3. CountInv
        BY <2>1, <2>2, FS_EmptySet DEF CountInv
  <2>4. AnnounceInv /\ LifeInv
        BY <2>1, <2>2 DEF AnnounceInv, ChangesAreAnnounced, LifeInv, LifeOfACustomer, Changes
  <2>5. RowsInv
        BY <2>1 DEF RowsInv, Log!Exists, Log!Happened
  <2>6. PlaceInv
    <3>1. Announced = {} /\ \A w \in Consumers : messages[w] = {}
          BY DEF Init, Announced
    <3> QED  BY <2>2, <3>1 DEF PlaceInv
  <2> QED  BY <2>3, <2>4, <2>5, <2>6, TypeInit DEF Inv
<1>2. Inv /\ [Next]_vars => Inv'
      BY TypeStep, CountStep, AnnounceStep, LifeStep, RowsStep, PlaceStep DEF Inv
<1> QED  BY <1>1, <1>2, PTL DEF Spec

\* The types; a change has a number because a request commits one at most.
THEOREM TypeCorrect == Spec => []TypeOK
<1>1. Inv => TypeOK
      BY DEF Inv
<1> QED  BY <1>1, InvCorrect, PTL

\* No change is lost but by a request that failed between its two steps.
THEOREM AnnouncementsCorrect == Spec => []ChangesAreAnnounced
<1>1. Inv => ChangesAreAnnounced
      BY DEF Inv, AnnounceInv
<1> QED  BY <1>1, InvCorrect, PTL

\* Created once and first, and nothing after the deletion.
THEOREM LifeCorrect == Spec => []LifeOfACustomer
<1>1. Inv => LifeOfACustomer
      BY DEF Inv, LifeInv
<1> QED  BY <1>1, InvCorrect, PTL

-----------------------------------------------------------------------------
(* The refinement *)

LEMMA LogInit == Init => Log!Init
BY DEF Init, Log!Init, Announced, Lost

\* A committed statement is a change of the log.
LEMMA WriteChanges ==
    ASSUME Inv, NEW q \in Requests, Write(q)
    PROVE  \E c \in Customers : Log!Create(c) \/ Log!Update(c) \/ Log!Delete(c)
<1> DEFINE b == command[q].id
           k == command[q].kind
<1>1. TypeOK /\ CountInv /\ LifeInv /\ RowsInv
      BY DEF Inv
<1>2. /\ command[q] = [kind |-> k, id |-> b] /\ k \in Kinds /\ b \in Customers
      /\ changes' = Append(changes, command[q])
      /\ k = "created" \/ b \in rows
      BY <1>1, LogAppended DEF Write, RowsAffected
<1>3. k = "created" => \A i \in DOMAIN changes : changes[i].id # b
      BY <1>1, CreatedIsNew
<1>4. pc[q] = "checked" /\ pc' = [pc EXCEPT ![q] = "written"] /\ UNCHANGED <<queue, handled>>
      /\ \A r \in Requests \ {q} : change'[r] = change[r]
      BY <1>1 DEF Write, TypeOK
<1>5. UNCHANGED <<Announced, Lost>>
  <2>1. \A r \in Requests : pc'[r] = "failed" /\ change'[r] # 0 <=> pc[r] = "failed" /\ change[r] # 0
        BY <1>1, <1>4 DEF TypeOK
  <2>2. \A r \in Requests : pc[r] = "failed" => change'[r] = change[r]
        BY <1>4
  <2>3. UNCHANGED Announced
        BY <1>4 DEF Announced
  <2> QED  BY <2>1, <2>2, <2>3, <1>4 DEF Lost
<1>6. Log!Change(k, b)
      BY <1>2, <1>4, <1>5 DEF Log!Change
<1> HIDE DEF b, k
<1>7. b \in rows => Log!Exists(b)
      BY <1>1 DEF RowsInv
<1>8. k \in {"created", "updated", "deleted"}
      BY <1>2 DEF Kinds
<1> QED  BY <1>2, <1>3, <1>6, <1>7, <1>8 DEF Log!Create, Log!Update, Log!Delete

\* What a request has committed and neither announced nor lost is undecided.
LEMMA WrittenIsUndecided ==
    ASSUME Inv, NEW q \in Requests, pc[q] = "written"
    PROVE  change[q] \in Log!Undecided
<1>1. change[q] # 0 /\ change[q] \in DOMAIN changes /\ change[q] \notin Announced
      BY DEF Inv, CountInv, PlaceInv
<1>2. change[q] \notin Lost
      BY <1>1 DEF Lost, Inv, PlaceInv
<1> QED  BY <1>1, <1>2 DEF Log!Undecided

LEMMA SendMessageAnnounces ==
    ASSUME Inv, NEW q \in Requests, SendMessage(q) \/ SendFails(q)
    PROVE  Log!Announce(change[q])
<1>1. /\ pc[q] = "written" /\ pc'[q] \in {"done", "failed"} /\ \A r \in Requests \ {q} : pc'[r] = pc[r]
      /\ queue' = queue \cup {change[q]} /\ UNCHANGED <<changes, change, handled>>
      BY DEF SendMessage, SendFails, Inv, TypeOK, consumer
<1>2. Announced' = Announced \cup {change[q]}
      BY <1>1 DEF Announced
<1>3. change[q] \notin Lost
      BY <1>1, WrittenIsUndecided DEF Log!Undecided
<1>4. Lost' = Lost
      BY <1>1, <1>2, <1>3 DEF Lost
<1> QED  BY <1>1, <1>2, <1>4, WrittenIsUndecided DEF Log!Announce

LEMMA RequestFailsLoses ==
    ASSUME Inv, NEW q \in Requests, RequestFails(q)
    PROVE  Log!Lose(change[q]) \/ UNCHANGED Log!vars
<1>1. /\ pc[q] \in {"checked", "written"} /\ pc'[q] = "failed" /\ \A r \in Requests \ {q} : pc'[r] = pc[r]
      /\ UNCHANGED <<changes, change, queue, handled>>
      BY DEF RequestFails, Inv, TypeOK
<1>2. UNCHANGED Announced
      BY <1>1 DEF Announced
<1>3. CASE pc[q] = "written"
  <2>1. change[q] # 0 /\ change[q] \notin Announced
        BY <1>3 DEF Inv, CountInv, PlaceInv
  <2>2. Lost' = Lost \cup {change[q]}
        BY <1>1, <1>2, <1>3, <2>1 DEF Lost
  <2> QED  BY <1>1, <1>2, <1>3, <2>2, WrittenIsUndecided DEF Log!Lose
<1>4. CASE pc[q] = "checked"
  <2>1. change[q] = 0
        BY <1>4 DEF Inv, CountInv
  <2>2. UNCHANGED Lost
        BY <1>1, <1>2, <1>4, <2>1 DEF Lost
  <2> QED  BY <1>1, <1>2, <2>2 DEF Log!vars
<1> QED  BY <1>1, <1>3, <1>4

\* Every step of the queue and its consumers but Handle leaves the log alone.
LEMMA QueueHandles ==
    ASSUME Inv, \/ \E m \in Numbers : VisibilityTimeout(m)
                \/ \E w \in Consumers : ConsumerStep(w) \/ ConsumerStops(w) \/ ConsumerStarts(w)
                \/ \E w \in Consumers, m \in Numbers : HandlerFails(w, m)
    PROVE  (\E n \in DOMAIN changes : Log!Handle(n)) \/ UNCHANGED Log!vars
<1>1. UNCHANGED <<changes, pc, change, Announced>>
      BY QueuePlace DEF Inv
<1>2. UNCHANGED Lost
      BY <1>1 DEF Lost
<1>3. ASSUME NEW w \in Consumers, NEW m \in Numbers, Handle(w, m)
      PROVE  m \in DOMAIN changes /\ Log!Handle(m)
  <2>1. m \in Announced /\ m \in DOMAIN changes /\ handled' = handled \cup {m}
        BY <1>3 DEF Handle, Inv, PlaceInv
  <2> QED  BY <1>1, <1>2, <2>1 DEF Log!Handle
<1>4. CASE UNCHANGED handled
      BY <1>1, <1>2, <1>4 DEF Log!vars
<1> QED  BY <1>3, <1>4 DEF ConsumerStep, VisibilityTimeout, ReceiveMessage, DeleteMessage, ConsumerStarts,
                          ConsumerStops, HandlerFails

\* Every step of the messages is a step of the log or leaves it as it is.
LEMMA LogNext == Inv /\ [Next]_vars => [Log!Next]_Log!vars
<1> SUFFICES ASSUME Inv, [Next]_vars PROVE [Log!Next]_Log!vars
    OBVIOUS
<1>1. ASSUME NEW q \in Requests, NEW c \in Customers, Create(q, c) \/ Update(q, c) \/ Delete(q, c)
      PROVE  UNCHANGED Log!vars
  <2>1. /\ pc[q] = "idle" /\ pc'[q] = "checked" /\ \A r \in Requests \ {q} : pc'[r] = pc[r]
        /\ UNCHANGED <<changes, change, queue, handled>>
        BY <1>1 DEF Create, Update, Delete, Ask, Inv, TypeOK
  <2> QED  BY <2>1 DEF Log!vars, Announced, Lost
<1>2. ASSUME NEW q \in Requests, WriteNothing(q)
      PROVE  UNCHANGED Log!vars
  <2>1. /\ pc[q] = "checked" /\ pc'[q] = "done" /\ \A r \in Requests \ {q} : pc'[r] = pc[r]
        /\ UNCHANGED <<changes, change, queue, handled>>
        BY <1>2 DEF WriteNothing, Inv, TypeOK
  <2> QED  BY <2>1 DEF Log!vars, Announced, Lost
<1>3. ASSUME NEW q \in Requests, SendMessage(q) \/ SendFails(q)
      PROVE  Log!Next
  <2>1. Log!Announce(change[q])
        BY <1>3, SendMessageAnnounces
  <2> QED  BY <2>1 DEF Log!Next, Log!Announce, Log!Undecided
<1>4. ASSUME NEW q \in Requests, RequestFails(q)
      PROVE  [Log!Next]_Log!vars
  <2>1. Log!Lose(change[q]) \/ UNCHANGED Log!vars
        BY <1>4, RequestFailsLoses
  <2> QED  BY <2>1 DEF Log!Next, Log!Lose, Log!Undecided
<1>5. ASSUME NEW q \in Requests, Write(q)
      PROVE  Log!Next
      BY <1>5, WriteChanges DEF Log!Next
<1>6. CASE UNCHANGED vars
      BY <1>6 DEF vars, Log!vars, Announced, Lost
<1>7. CASE \/ \E m \in Numbers : VisibilityTimeout(m)
           \/ \E w \in Consumers : ConsumerStep(w) \/ ConsumerStops(w) \/ ConsumerStarts(w)
           \/ \E w \in Consumers, m \in Numbers : HandlerFails(w, m)
      BY <1>7, QueueHandles DEF Log!Next
<1> QED  BY <1>1, <1>2, <1>3, <1>4, <1>5, <1>6, <1>7 DEF Next

\* API, queue and consumers implement the log, for any number of each: one life
\* of a customer, no announcement taken back or made of what was given up, and
\* nothing handled that was not announced.
THEOREM MessagesImplementLog == Spec => ImplementsLog
BY LogInit, LogNext, InvCorrect, PTL DEF Spec, ImplementsLog, Log!Spec
=============================================================================
