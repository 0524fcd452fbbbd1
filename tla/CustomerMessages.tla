-------------------------- MODULE CustomerMessages --------------------------
(***************************************************************************)
(* Customers.Api and Customers.Consumer of MediatRCQRS: a request changes a*)
(* row of the database and then, in a second step, tells an SQS queue;     *)
(* consumers take messages from the queue, handle them and delete them.    *)
(*                                                                         *)
(* A message is the number of the committed change it announces; "changes" *)
(* tells what the change was.  The queue is an SQS standard queue: it keeps*)
(* no order, and gives a message out again when its visibility timeout ends*)
(* before it is deleted (external).  Requests that fail a validation, and  *)
(* reads, change nothing and are left out.                                 *)
(***************************************************************************)
EXTENDS Naturals, Sequences, FiniteSets

CONSTANTS
    Customers,      \* the Guids a request can draw or name
    Requests,       \* the requests that change a customer
    Consumers,      \* the instances of QueueConsumerService
    MaxMessages,    \* MaxNumberOfMessages, 10 in the program
    MaxFailures     \* bound on handlers that throw and consumers that stop

ASSUME RequestsAssumption == IsFiniteSet(Requests)
ASSUME BoundsAssumption == MaxMessages \in Nat /\ MaxFailures \in Nat

VARIABLES
    rows,           \* the Ids in the table Customers
    changes,        \* history: the committed changes, [kind, id], oldest first
    pc,             \* where a request stands
    command,        \* what it was asked to do, [kind, id]
    change,         \* the number of the change it has committed, 0 if none
    queue,          \* the messages that are not deleted
    visible,        \* those a consumer can receive
    state,          \* where a consumer stands
    messages,       \* what is left of the messages it has received
    current,        \* the message it has handled and not deleted yet, 0 if none
    handled,        \* history: the messages handled at least once
    failures        \* the failures so far

vars == <<rows, changes, pc, command, change, queue, visible, state, messages, current, handled, failures>>

api == <<rows, changes, pc, command, change>>
consumer == <<state, messages, current>>

Kinds == {"created", "updated", "deleted"}
Commands == [kind : Kinds, id : Customers]
Numbers == 1 .. Cardinality(Requests)

TypeOK ==
    /\ rows \subseteq Customers
    /\ changes \in Seq(Commands)
    /\ pc \in [Requests -> {"idle", "checked", "written", "done", "failed"}]
    /\ command \in [Requests -> Commands]
    /\ change \in [Requests -> Numbers \cup {0}]
    /\ queue \subseteq Numbers
    /\ visible \subseteq queue
    /\ state \in [Consumers -> {"running", "stopped"}]
    /\ messages \in [Consumers -> SUBSET Numbers]
    /\ current \in [Consumers -> Numbers \cup {0}]
    /\ handled \subseteq Numbers
    /\ failures \in 0 .. MaxFailures

Init ==
    /\ rows = {}
    /\ changes = <<>>
    /\ pc = [q \in Requests |-> "idle"]
    /\ command \in [Requests -> {[kind |-> "created", id |-> c] : c \in Customers}]
    /\ \A q, r \in Requests : command[q] = command[r]
    /\ change = [q \in Requests |-> 0]
    /\ queue = {}
    /\ visible = {}
    /\ state = [w \in Consumers |-> "running"]
    /\ messages = [w \in Consumers |-> {}]
    /\ current = [w \in Consumers |-> 0]
    /\ handled = {}
    /\ failures = 0

-----------------------------------------------------------------------------
(* CustomerController, CustomerService, CustomerRepository *)

Ask(q, kind, c) ==
    /\ pc[q] = "idle"
    /\ command' = [command EXCEPT ![q] = [kind |-> kind, id |-> c]]
    /\ pc' = [pc EXCEPT ![q] = "checked"]
    /\ UNCHANGED <<rows, changes, change, queue, visible, consumer, handled, failures>>

\* Create draws a new Guid, so GetAsync finds no customer of that Id.
Create(q, c) ==
    /\ \A r \in Requests : pc[r] # "idle" => command[r].id # c
    /\ Ask(q, "created", c)

\* Update finds the customer; when it writes the customer may be gone.
Update(q, c) == c \in rows /\ Ask(q, "updated", c)

Delete(q, c) == Ask(q, "deleted", c)

\* Mutant of RowsAffected: the statement inserts the row when it is not there.
Upsert(kind, c) == IF kind = "deleted" THEN c \in rows ELSE TRUE

\* Does the INSERT, UPDATE or DELETE of the repository change a row?
RowsAffected(kind, c) == kind = "created" \/ c \in rows

\* The statement of the request, committed.
Write(q) ==
    LET kind == command[q].kind
        c == command[q].id
    IN
    /\ pc[q] = "checked"
    /\ RowsAffected(kind, c)
    /\ rows' = IF kind = "deleted" THEN rows \ {c} ELSE rows \cup {c}
    /\ changes' = Append(changes, command[q])
    /\ change' = [change EXCEPT ![q] = Len(changes) + 1]
    /\ pc' = [pc EXCEPT ![q] = "written"]
    /\ UNCHANGED <<command, queue, visible, consumer, handled, failures>>

\* No row is changed and nobody is told: Delete answers NotFound, Update Ok.
WriteNothing(q) ==
    /\ pc[q] = "checked"
    /\ ~ RowsAffected(command[q].kind, command[q].id)
    /\ pc' = [pc EXCEPT ![q] = "done"]
    /\ UNCHANGED <<rows, changes, command, change, queue, visible, consumer, handled, failures>>

\* Mutant of SendMessage: the queue is told before the statement runs.
SendBeforeWriting(q) ==
    /\ pc[q] = "checked"
    /\ queue' = queue \cup {change[q]}
    /\ visible' = visible \cup {change[q]}
    /\ pc' = [pc EXCEPT ![q] = "done"]
    /\ UNCHANGED <<rows, changes, command, change, consumer, handled, failures>>

\* SqsMessenger.SendMessageAsync.
SendMessage(q) ==
    /\ pc[q] = "written"
    /\ queue' = queue \cup {change[q]}
    /\ visible' = visible \cup {change[q]}
    /\ pc' = [pc EXCEPT ![q] = "done"]
    /\ UNCHANGED <<rows, changes, command, change, consumer, handled, failures>>

\* SendMessageAsync throws, or the process ends, when SQS has the message.
SendFails(q) ==
    /\ pc[q] = "written"
    /\ queue' = queue \cup {change[q]}
    /\ visible' = visible \cup {change[q]}
    /\ pc' = [pc EXCEPT ![q] = "failed"]
    /\ UNCHANGED <<rows, changes, command, change, consumer, handled, failures>>

\* A call throws (the GitHub check, the database, SQS before it has the
\* message) or the process ends.
RequestFails(q) ==
    /\ pc[q] \in {"checked", "written"}
    /\ pc' = [pc EXCEPT ![q] = "failed"]
    /\ UNCHANGED <<rows, changes, command, change, queue, visible, consumer, handled, failures>>

-----------------------------------------------------------------------------
(* QueueConsumerService.ExecuteAsync *)

\* Mutant of ReceiveMessage: the answer is not kept.
ReceiveAndForget(w) ==
    /\ state[w] = "running" /\ messages[w] = {}
    /\ \E received \in SUBSET visible \ {{}} :
        /\ Cardinality(received) <= MaxMessages
        /\ visible' = visible \ received
    /\ UNCHANGED <<api, queue, consumer, handled, failures>>

\* The foreach over the last answer is over, the delay too: ReceiveMessageAsync
\* gives at most MaxMessages of the visible messages.  An empty answer changes
\* nothing.
ReceiveMessage(w) ==
    /\ state[w] = "running" /\ messages[w] = {}
    /\ \E received \in SUBSET visible \ {{}} :
        /\ Cardinality(received) <= MaxMessages
        /\ messages' = [messages EXCEPT ![w] = received]
        /\ visible' = visible \ received
    /\ UNCHANGED <<api, queue, state, current, handled, failures>>

\* The visibility timeout of a message ends (external).
VisibilityTimeout(m) ==
    /\ m \in queue \ visible
    /\ visible' = visible \cup {m}
    /\ UNCHANGED <<api, queue, consumer, handled, failures>>

\* Mutant of Handle: the message is deleted from the queue first.
DeleteFirst(w, m) ==
    /\ state[w] = "running" /\ current[w] = 0
    /\ m \in messages[w] \cap queue
    /\ queue' = queue \ {m}
    /\ visible' = visible \ {m}
    /\ current' = [current EXCEPT ![w] = m]
    /\ UNCHANGED <<api, state, messages, handled, failures>>

\* mediator.Send returns.
Handle(w, m) ==
    /\ state[w] = "running" /\ current[w] = 0
    /\ m \in messages[w]
    /\ handled' = handled \cup {m}
    /\ current' = [current EXCEPT ![w] = m]
    /\ UNCHANGED <<api, queue, visible, state, messages, failures>>

\* mediator.Send throws: continue, the message stays in the queue.
HandlerFails(w, m) ==
    /\ state[w] = "running" /\ current[w] = 0
    /\ m \in messages[w]
    /\ failures < MaxFailures
    /\ failures' = failures + 1
    /\ messages' = [messages EXCEPT ![w] = @ \ {m}]
    /\ UNCHANGED <<api, queue, visible, state, current, handled>>

\* Mutant of DeleteMessage: the received messages are deleted in one batch.
DeleteBatch(w) ==
    /\ current[w] # 0
    /\ queue' = queue \ messages[w]
    /\ visible' = visible \ messages[w]
    /\ messages' = [messages EXCEPT ![w] = @ \ {current[w]}]
    /\ current' = [current EXCEPT ![w] = 0]
    /\ UNCHANGED <<api, state, handled, failures>>

\* DeleteMessage; the receipt handle of a message that has become visible
\* again may no longer count.
DeleteMessage(w) ==
    /\ current[w] # 0
    /\ \E gone \in {{current[w]}, {current[w]} \ visible} :
        /\ queue' = queue \ gone
        /\ visible' = visible \ gone
    /\ messages' = [messages EXCEPT ![w] = @ \ {current[w]}]
    /\ current' = [current EXCEPT ![w] = 0]
    /\ UNCHANGED <<api, state, handled, failures>>

\* ReceiveMessage or DeleteMessage, outside the try, throws, or the process ends.
ConsumerStops(w) ==
    /\ state[w] = "running"
    /\ failures < MaxFailures
    /\ failures' = failures + 1
    /\ state' = [state EXCEPT ![w] = "stopped"]
    /\ messages' = [messages EXCEPT ![w] = {}]
    /\ current' = [current EXCEPT ![w] = 0]
    /\ UNCHANGED <<api, queue, visible, handled>>

\* Somebody starts the process again (external): the host does not restart a
\* service that has thrown, so nobody has to.
ConsumerStarts(w) ==
    /\ state[w] = "stopped"
    /\ state' = [state EXCEPT ![w] = "running"]
    /\ UNCHANGED <<api, queue, visible, messages, current, handled, failures>>

-----------------------------------------------------------------------------
ConsumerStep(w) ==
    \/ ReceiveMessage(w)
    \/ \E m \in Numbers : Handle(w, m)
    \/ DeleteMessage(w)

Next ==
    \/ \E q \in Requests, c \in Customers : Create(q, c) \/ Update(q, c) \/ Delete(q, c)
    \/ \E q \in Requests : Write(q) \/ WriteNothing(q) \/ SendMessage(q) \/ SendFails(q) \/ RequestFails(q)
    \/ \E m \in Numbers : VisibilityTimeout(m)
    \/ \E w \in Consumers : ConsumerStep(w) \/ ConsumerStops(w) \/ ConsumerStarts(w)
    \/ \E w \in Consumers, m \in Numbers : HandlerFails(w, m)

Receives(m) == \E w \in Consumers : ReceiveMessage(w) /\ m \in messages'[w]

\* A service that runs goes on; one that has stopped may stay so.  SQS keeps its
\* timeouts and does not withhold a message for ever from services that ask for
\* it again and again.  Requests owe nothing.
Spec ==
    /\ Init /\ [][Next]_vars
    /\ \A w \in Consumers : WF_vars(ConsumerStep(w))
    /\ \A m \in Numbers : WF_vars(VisibilityTimeout(m)) /\ SF_vars(Receives(m))

-----------------------------------------------------------------------------
(* Refinement of CustomerLog *)

\* A message that is deleted was handled.
Announced == queue \cup handled

\* A request that has committed its change and failed tells nobody, unless SQS
\* had the message before it failed.
Lost == {change[q] : q \in {r \in Requests : pc[r] = "failed" /\ change[r] # 0}} \ Announced

Log == INSTANCE CustomerLog WITH log <- changes, announced <- Announced, lost <- Lost

-----------------------------------------------------------------------------
(* Properties *)

\* A committed change is in the queue or has been handled, unless its request
\* stands between the database and the queue or failed there: a message is
\* deleted only after it was handled, and nothing else can lose one.
ChangesAreAnnounced ==
    \A n \in DOMAIN changes :
        n \in queue \cup handled \/ \E q \in Requests : change[q] = n /\ pc[q] \in {"written", "failed"}

\* In the order of the database a customer is created once and first, and no
\* change of it is committed after its deletion, and so none that could be
\* announced, however updates and deletions of it interleave (the row counts in
\* CustomerRepository).  The messages themselves keep no order: that of an
\* earlier update may be sent, and handled, after that of the deletion.
LifeOfACustomer ==
    \A i, j \in DOMAIN changes : i < j /\ changes[i].id = changes[j].id =>
        changes[i].kind # "deleted" /\ changes[j].kind # "created"

AllStopped == \A w \in Consumers : state[w] = "stopped"

\* Unless every service stops for good, what is in the queue is handled in the
\* end, by the service when it is started again or by another: what one had
\* received when an exception outside its try ended it, or when a handler threw,
\* comes back (the order of mediator.Send and DeleteMessageAsync).
MessagesAreHandled ==
    <>[] AllStopped \/ \A n \in Numbers : n \in queue ~> n \in handled

\* Requests, SQS and consumers, racing, failing and delivering twice, do to the
\* changes only what CustomerLog allows: no step takes back an announcement
\* before it was handled, makes one of a change that was given up, or handles
\* what was never committed (CustomerService, SqsMessenger, ExecuteAsync).
ImplementsLog == Log!Spec
=============================================================================
