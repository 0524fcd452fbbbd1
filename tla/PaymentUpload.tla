---------------------------- MODULE PaymentUpload ----------------------------
(***************************************************************************)
(* The upload of payment orders by ABSUploadClient                         *)
(* (RazorPages/UploadClientAuthLDAP): a web request parses a file, drops   *)
(* the orders its own database already knows for today, sends the rest in  *)
(* blocks to the banking system (ABS), records every block in the database *)
(* and binds the loaded payments to credit contracts.                      *)
(*                                                                         *)
(* A request is an element of Uploads.  A file line is a natural number in *)
(* Rows; the lines of one file are ordered as numbers.  A line also stands *)
(* for what is created for it: the PaymentOrder object, the PaymentOrder   *)
(* entity (its Id is a fresh Guid), the ABS payment (fresh GUID) and the   *)
(* PaymentBinding.  Requests share the database and ABS and nothing else.  *)
(***************************************************************************)
EXTENDS Naturals, FiniteSets

CONSTANTS
    Uploads,        \* the upload requests
    Rows,           \* the lines of all the files
    UploadOf,       \* UploadOf[r]: the request whose file holds line r
    KeyOf,          \* KeyOf[r]: contract, number, amount and payer of line r
    WithContract,   \* the lines whose credit contract number is not empty
    MaxBlockSize,   \* AbsOptions.MaxBlockSize, read from configuration
    MaxDay          \* bound on the calendar

ASSUME RowsAssumption == Rows \subseteq Nat /\ IsFiniteSet(Rows)
ASSUME UploadOfAssumption == UploadOf \in [Rows -> Uploads]
ASSUME WithContractAssumption == WithContract \subseteq Rows
ASSUME MaxBlockSizeAssumption == MaxBlockSize \in Nat
ASSUME MaxDayAssumption == MaxDay \in Nat \ {0}

VARIABLES
    today,          \* the date of the server's clock
    pc,             \* where each request is in SendPaymentOrders
    unread,         \* the lines FilterExistingOrders has still to look up
    filtered,       \* the array filteredpayments
    from,           \* the loop variable i: first position of the block
    reply,          \* the answer of ABS to the mass insert of the block
    toBind,         \* the array requests of BindPaymentsToCreditContracts
    tracked,        \* Status of the PaymentBinding objects in memory
    shown,          \* the status column of the working copy of the file
    storedOn,       \* RequestRecivedOn of the PaymentOrders table
    rejected,       \* the lines whose stored order has an error Comment
    binding,        \* Status in the PaymentBindings table
    insertedOn,     \* ABS: the day a payment entered its buffer
    operation,      \* ABS: what became of the request to bind a payment
    storedBefore,   \* history: the orders on record when a request began
    warned          \* history: the lines an answer of Status OK complains of

local == <<pc, unread, filtered, from, reply, toBind, tracked, shown>>
database == <<storedOn, rejected, binding>>
abs == <<insertedOn, operation>>
history == <<storedBefore, warned>>
vars == <<today, local, database, abs, history>>

-----------------------------------------------------------------------------
Days == 1 .. MaxDay

\* No date: an order that was not stored, a payment that was not inserted.
Never == 0

FileRows(u) == {r \in Rows : UploadOf[r] = u}

\* The position of line r in an array that holds the lines of S in file order.
Rank(r, S) == Cardinality({q \in S : q < r})

\* ordersChunk: the block that starts at position i.
Chunk(u) == {r \in filtered[u] : Rank(r, filtered[u]) \in from[u] .. (from[u] + MaxBlockSize - 1)}

\* The index of line r in ordersChunk.
BlockIndex(u, r) == Rank(r, filtered[u]) - from[u]

\* Mutants of LinkId: the index in the file, an index from 1, swapped operands.
LinkIdInFile(u, r) == Rank(r, filtered[u])
LinkIdFromOne(u, r) == BlockIndex(u, r) + 1
LinkIdNegated(u, r) == from[u] - Rank(r, filtered[u])

\* The LinkID an order is sent with.
LinkId(u, r) == BlockIndex(u, r)

LinkIds(u) == {LinkId(u, r) : r \in Chunk(u)}

\* The orders of the block that the answer complains of: its notifications are
\* looked up as indices of ordersChunk.
ErrorRows(u) == {r \in Chunk(u) : BlockIndex(u, r) \in reply[u].errors}

\* Mutants of NextBlock: the last order again, no progress.
NextBlockOverlapping(u) == from[u] + MaxBlockSize - 1
SameBlock(u) == from[u]

NextBlock(u) == from[u] + MaxBlockSize

\* Mutant of SavedRows: only the orders that can be bound.
SavedIfContract(u) == Chunk(u) \cap WithContract

\* The orders SaveAbsSentResult makes entities of: all, the rejected included.
SavedRows(u) == Chunk(u)

\* Mutant of Exists: the wrong day.
ExistsEarlier(r) == \E q \in Rows : storedOn[q] \in 1 .. today - 1 /\ KeyOf[q] = KeyOf[r]

\* The SQL query of FilterExistingOrders for one order.
Exists(r) == \E q \in Rows : storedOn[q] = today /\ KeyOf[q] = KeyOf[r]

-----------------------------------------------------------------------------
PcValues == {"idle", "filtering", "sending", "inserted", "recorded", "marked",
             "found", "executing", "done", "failed"}

BindingStatus == {"Scheduled", "BeingProcessed", "ProcessedSuccessfully", "ProccessedWithError"}

Final == {"ProcessedSuccessfully", "ProccessedWithError"}

\* "ErrorNoList" is a Status other than OK with a null NotificationList.
Replies == [status : {"OK", "Error", "ErrorNoList"}, errors : SUBSET Nat]

Shown == {"blank", "processed before", "loaded", "load error", "contract not found",
          "scheduled", "in progress", "finished: ok", "finished: error"}

Operations == {"none", "requested", "executed", "refused"}

TypeOK ==
    /\ today \in Days
    /\ pc \in [Uploads -> PcValues]
    /\ unread \in [Uploads -> SUBSET Rows]
    /\ filtered \in [Uploads -> SUBSET Rows]
    /\ from \in [Uploads -> Nat]
    /\ reply \in [Uploads -> Replies]
    /\ toBind \in [Uploads -> SUBSET Rows]
    /\ tracked \in [Rows -> BindingStatus \cup {"none"}]
    /\ shown \in [Rows -> Shown]
    /\ storedOn \in [Rows -> Days \cup {Never}]
    /\ rejected \in SUBSET Rows
    /\ binding \in [Rows -> BindingStatus \cup {"none"}]
    /\ insertedOn \in [Rows -> Days \cup {Never}]
    /\ operation \in [Rows -> Operations]
    /\ storedBefore \in [Uploads -> SUBSET Rows]
    /\ warned \in SUBSET Rows

Init ==
    /\ today = 1
    /\ pc = [u \in Uploads |-> "idle"]
    /\ unread = [u \in Uploads |-> FileRows(u)]
    /\ filtered = [u \in Uploads |-> {}]
    /\ from = [u \in Uploads |-> 0]
    /\ reply = [u \in Uploads |-> [status |-> "OK", errors |-> {}]]
    /\ toBind = [u \in Uploads |-> {}]
    /\ tracked = [r \in Rows |-> "none"]
    /\ shown = [r \in Rows |-> "blank"]
    /\ storedOn = [r \in Rows |-> Never]
    /\ rejected = {}
    /\ binding = [r \in Rows |-> "none"]
    /\ insertedOn = [r \in Rows |-> Never]
    /\ operation = [r \in Rows |-> "none"]
    /\ storedBefore = [u \in Uploads |-> {}]
    /\ warned = {}

\* f with the value v at every element of S.
Assign(f, S, v) == [r \in DOMAIN f |-> IF r \in S THEN v ELSE f[r]]

Goto(u, label) == pc' = [pc EXCEPT ![u] = label]

-----------------------------------------------------------------------------
(* SendPaymentOrders, step by step.  Every await and every query is a      *)
(* point where the other requests, the clock and ABS can move.             *)

\* The request is accepted, its file parsed (GetPaymentOrders).
Begin(u) ==
    /\ pc[u] = "idle"
    /\ Goto(u, "filtering")
    /\ storedBefore' = [storedBefore EXCEPT ![u] = {r \in Rows : storedOn[r] # Never}]
    /\ UNCHANGED <<today, unread, filtered, from, reply, toBind, tracked, shown, database, abs, warned>>

\* FilterExistingOrders asks the database about the next order of the file;
\* ToArray runs the queries one after another.
FilterExistingOrder(u) ==
    /\ pc[u] = "filtering"
    /\ \E r \in unread[u] :
        /\ \A q \in unread[u] : r <= q
        /\ unread' = [unread EXCEPT ![u] = @ \ {r}]
        /\ filtered' = [filtered EXCEPT ![u] = IF Exists(r) THEN @ ELSE @ \cup {r}]
    /\ UNCHANGED <<today, pc, from, reply, toBind, tracked, shown, database, abs, history>>

\* paymentOrders.Except(filteredpayments) are shown as processed before.
MarkProcessedBefore(u) ==
    /\ pc[u] = "filtering"
    /\ unread[u] = {}
    /\ shown' = Assign(shown, FileRows(u) \ filtered[u], "processed before")
    /\ Goto(u, "sending")
    /\ UNCHANGED <<today, unread, filtered, from, reply, toBind, tracked, database, abs, history>>

\* The orders that ABS names by these LinkIDs.
Listed(u, links) == {r \in Chunk(u) : LinkId(u, r) \in links}

\* The mass insert of the block: ABS puts the payments of accepted in its
\* buffer and answers (external).  A lost answer is this step, then Fail.
MassInsert(u, accepted, answer) ==
    /\ pc[u] = "sending"
    /\ from[u] < Cardinality(filtered[u])
    /\ insertedOn' = Assign(insertedOn, accepted, today)
    /\ reply' = [reply EXCEPT ![u] = answer]
    /\ warned' = IF answer.status = "OK" THEN warned \cup Listed(u, answer.errors) ELSE warned
    /\ Goto(u, "inserted")
    /\ UNCHANGED <<today, unread, filtered, from, toBind, tracked, shown, database, operation, storedBefore>>

\* Status OK: the block is in the buffer, but for what the NotificationList names
\* all the same: ABS may have taken such an order, with a remark, or not.
UploadAccepted(u) ==
    \E errors \in SUBSET LinkIds(u) : \E taken \in SUBSET Listed(u, errors) :
        MassInsert(u, (Chunk(u) \ Listed(u, errors)) \cup taken, [status |-> "OK", errors |-> errors])

\* Another Status and a NotificationList that names the refused orders by LinkID.
UploadPartlyRejected(u) ==
    \E errors \in SUBSET LinkIds(u) :
        MassInsert(u, Chunk(u) \ Listed(u, errors), [status |-> "Error", errors |-> errors])

\* Another Status without a NotificationList: any part may have been inserted.
UploadFailedUnlisted(u) ==
    \E accepted \in SUBSET Chunk(u) :
        MassInsert(u, accepted, [status |-> "ErrorNoList", errors |-> {}])

\* Orders with an error are stored like the others, their Comment tells; the
\* Status of the answer is not looked at.
SaveAbsSentResult(u) ==
    /\ pc[u] = "inserted"
    /\ storedOn' = Assign(storedOn, SavedRows(u), today)
    /\ rejected' = rejected \cup ErrorRows(u)
    /\ Goto(u, "recorded")
    /\ UNCHANGED <<today, unread, filtered, from, reply, toBind, tracked, shown, binding, abs, history>>

\* The orders shown with a load error: only if the Status is not OK.
NotLoaded(u) == IF reply[u].status = "OK" THEN {} ELSE ErrorRows(u)

\* The statuses of the block, once its orders are stored.
ProcessUploadPaymentsResults(u) ==
    /\ pc[u] = "recorded"
    /\ reply[u].status # "ErrorNoList"
    /\ shown' = Assign(Assign(shown, Chunk(u), "loaded"), NotLoaded(u), "load error")
    /\ Goto(u, "marked")
    /\ UNCHANGED <<today, unread, filtered, from, reply, toBind, tracked, database, abs, history>>

\* The orders that name a contract and that no notification names.
BindCandidates(u) == {r \in Chunk(u) \cap WithContract : LinkId(u, r) \notin reply[u].errors}

\* GetPaymentsToBind: ABS knows the Id of a payment only if it has the payment
\* in its buffer; it may not find the payment or its contract.
GetPaymentsToBind(u) ==
    /\ pc[u] = "marked"
    /\ \E pairs \in SUBSET {r \in BindCandidates(u) : insertedOn[r] # Never} :
        /\ toBind' = [toBind EXCEPT ![u] = pairs]
        /\ shown' = Assign(shown, BindCandidates(u) \ pairs, "contract not found")
    /\ Goto(u, "found")
    /\ UNCHANGED <<today, unread, filtered, from, reply, tracked, database, abs, history>>

\* Mutant of AddPaymentBindings: the tasks are started, so that ABS is called, and
\* the bindings saved when the last has been.
CallBeforeSaving(u) ==
    LET waiting == {r \in toBind[u] : tracked[r] = "none"} IN
    /\ pc[u] = "found"
    /\ IF waiting # {}
       THEN \E r \in waiting :
            /\ tracked' = [tracked EXCEPT ![r] = "BeingProcessed"]
            /\ operation' = [operation EXCEPT ![r] = "requested"]
            /\ UNCHANGED <<pc, binding>>
       ELSE /\ binding' = Assign(binding, toBind[u], "Scheduled")
            /\ Goto(u, "executing")
            /\ UNCHANGED <<tracked, operation>>
    /\ UNCHANGED <<today, unread, filtered, from, reply, toBind, shown, storedOn, rejected, insertedOn, history>>

\* The bindings are saved as Scheduled, before any task starts.
AddPaymentBindings(u) ==
    /\ pc[u] = "found"
    /\ binding' = Assign(binding, toBind[u], "Scheduled")
    /\ tracked' = Assign(tracked, toBind[u], "Scheduled")
    /\ shown' = Assign(shown, toBind[u], "scheduled")
    /\ Goto(u, "executing")
    /\ UNCHANGED <<today, unread, filtered, from, reply, toBind, storedOn, rejected, abs, history>>

\* The task of the next binding runs up to its first await: it marks the binding
\* in memory and calls ABS.
StartBinding(u) ==
    /\ pc[u] = "executing"
    /\ \E r \in toBind[u] :
        /\ tracked[r] = "Scheduled"
        /\ \A q \in toBind[u] : tracked[q] = "Scheduled" => r <= q
        /\ tracked' = [tracked EXCEPT ![r] = "BeingProcessed"]
        /\ operation' = [operation EXCEPT ![r] = "requested"]
        /\ shown' = [shown EXCEPT ![r] = "in progress"]
    /\ UNCHANGED <<today, pc, unread, filtered, from, reply, toBind, database, insertedOn, history>>

\* ABS carries out a requested operation or refuses it (external), whether
\* or not the request that asked for it still waits.
AbsExecute(r) ==
    /\ operation[r] = "requested"
    /\ \E outcome \in {"executed", "refused"} : operation' = [operation EXCEPT ![r] = outcome]
    /\ UNCHANGED <<today, local, database, insertedOn, history>>

\* A task of Task.WhenAll ends; the binding is changed in memory only.
EndBinding(u, r, status, text) ==
    /\ pc[u] = "executing"
    /\ r \in toBind[u]
    /\ tracked[r] = "BeingProcessed"
    /\ tracked' = [tracked EXCEPT ![r] = status]
    /\ shown' = [shown EXCEPT ![r] = text]
    /\ UNCHANGED <<today, pc, unread, filtered, from, reply, toBind, database, abs, history>>

\* Mutant of BindingSucceeded: the return code is not looked at.
BindingAnswered(u, r) ==
    /\ operation[r] \in {"executed", "refused"}
    /\ EndBinding(u, r, "ProcessedSuccessfully", "finished: ok")

\* An answer without a return code.
BindingSucceeded(u, r) ==
    /\ operation[r] = "executed"
    /\ EndBinding(u, r, "ProcessedSuccessfully", "finished: ok")

\* A return code, or any exception: a timeout while ABS is still working, or
\* a CloseAsync that fails after ABS has executed the operation.
BindingFailed(u, r) == EndBinding(u, r, "ProccessedWithError", "finished: error")

\* Mutant of SaveBindings: the tasks are not awaited, what is in memory is saved.
SaveUnawaited(u) ==
    /\ pc[u] = "executing"
    /\ \A r \in toBind[u] : tracked[r] # "Scheduled"
    /\ binding' = [r \in Rows |-> IF r \in toBind[u] THEN tracked[r] ELSE binding[r]]
    /\ toBind' = [toBind EXCEPT ![u] = {}]
    /\ from' = [from EXCEPT ![u] = NextBlock(u)]
    /\ Goto(u, "sending")
    /\ UNCHANGED <<today, unread, filtered, reply, tracked, shown, storedOn, rejected, abs, history>>

\* Task.WhenAll is over: SaveChangesAsync stores the statuses of the block and
\* the loop goes to the next block.
SaveBindings(u) ==
    /\ pc[u] = "executing"
    /\ \A r \in toBind[u] : tracked[r] \in Final
    /\ binding' = [r \in Rows |-> IF r \in toBind[u] THEN tracked[r] ELSE binding[r]]
    /\ toBind' = [toBind EXCEPT ![u] = {}]
    /\ from' = [from EXCEPT ![u] = NextBlock(u)]
    /\ Goto(u, "sending")
    /\ UNCHANGED <<today, unread, filtered, reply, tracked, shown, storedOn, rejected, abs, history>>

\* The loop is over: the file is saved with the statuses it shows.
SaveFile(u) ==
    /\ pc[u] = "sending"
    /\ from[u] >= Cardinality(filtered[u])
    /\ Goto(u, "done")
    /\ UNCHANGED <<today, unread, filtered, from, reply, toBind, tracked, shown, database, abs, history>>

\* What the request held in memory is lost, the statuses of its file included.
Drop(u) ==
    /\ Goto(u, "failed")
    /\ toBind' = [toBind EXCEPT ![u] = {}]
    /\ tracked' = Assign(tracked, FileRows(u), "none")
    /\ shown' = Assign(shown, FileRows(u), "blank")
    /\ UNCHANGED <<today, unread, filtered, from, reply, database, abs, history>>

\* foreach over a NotificationList that is null.
NullReference(u) ==
    /\ pc[u] = "recorded"
    /\ reply[u].status = "ErrorNoList"
    /\ Drop(u)

\* An exception at any other call, or the end of the process.
Fail(u) ==
    /\ pc[u] \notin {"idle", "done", "failed"}
    /\ Drop(u)

NextDay ==
    /\ today < MaxDay
    /\ today' = today + 1
    /\ UNCHANGED <<local, database, abs, history>>

-----------------------------------------------------------------------------
\* The steps the server takes by itself once a request has begun.
UploadStep(u) ==
    \/ FilterExistingOrder(u)
    \/ MarkProcessedBefore(u)
    \/ pc[u] = "sending" /\ (UploadAccepted(u) \/ UploadPartlyRejected(u) \/ UploadFailedUnlisted(u))
    \/ SaveAbsSentResult(u)
    \/ ProcessUploadPaymentsResults(u)
    \/ GetPaymentsToBind(u)
    \/ AddPaymentBindings(u)
    \/ StartBinding(u)
    \/ \E r \in Rows : BindingSucceeded(u, r)
    \/ \E r \in Rows : BindingFailed(u, r)
    \/ SaveBindings(u)
    \/ SaveFile(u)
    \/ NullReference(u)

Next ==
    \/ \E u \in Uploads : Begin(u)
    \/ \E u \in Uploads : UploadStep(u)
    \/ \E u \in Uploads : Fail(u)
    \/ \E r \in Rows : AbsExecute(r)
    \/ NextDay

\* Every call of a request ends, with an answer or with an exception
\* (SendTimeout, the command timeout of the database): a request that has
\* begun goes on.  New requests, ABS and midnight owe nothing.
Spec == Init /\ [][Next]_vars /\ \A u \in Uploads : WF_vars(UploadStep(u))

-----------------------------------------------------------------------------
(* Properties *)

\* A request never puts into the ABS buffer, on the day it is on record, an
\* order that was on record when the request began: FilterExistingOrders,
\* read once per order while other requests write and midnight may pass,
\* keeps a file that is uploaded again from being paid twice.
NoResubmission ==
    \A u \in Uploads : \A r \in storedBefore[u], s \in FileRows(u) :
        KeyOf[r] = KeyOf[s] /\ insertedOn[s] # Never => insertedOn[s] # storedOn[r]

\* The blocks of a file do not overlap: when a block is about to be sent none
\* of its orders is in ABS or on record (the loop over i in SendPaymentOrders).
BlockIsUnsent ==
    \A u \in Uploads : pc[u] = "sending" =>
        \A r \in Chunk(u) : insertedOn[r] = Never /\ storedOn[r] = Never

\* What ABS has and the database does not is at most the block in flight, so
\* an exception between the mass insert and SaveAbsSentResult exposes no more
\* than one block to being sent again; a request between two blocks, or one
\* that ended normally, exposes nothing.
UnrecordedIsInFlight ==
    \A u \in Uploads : \A r \in FileRows(u) :
        insertedOn[r] # Never /\ storedOn[r] = Never => r \in Chunk(u) /\ pc[u] \in {"inserted", "failed"}

\* A binding is on record only for an order that is on record without an
\* error and that ABS has in its buffer: the answer's LinkIDs reach the right
\* orders (SaveAbsSentResult, GetPaymentsToBind).
BoundOnlyIfLoaded ==
    \A r \in Rows : binding[r] # "none" =>
        insertedOn[r] # Never /\ storedOn[r] # Never /\ r \notin rejected /\ r \in WithContract

\* Whatever ABS has been asked to bind is on record: the awaited save of the
\* bindings comes before the tasks call ABS, so that a crash or an exception at
\* any point leaves a row for every operation ABS may carry out, also later
\* (BindPaymentsToCreditContractsAsync).
RecordedBeforeExecution ==
    \A r \in Rows : operation[r] # "none" => binding[r] # "none"

\* A binding on record as processed successfully was executed by ABS.
SuccessIsTrue ==
    \A r \in Rows : binding[r] = "ProcessedSuccessfully" => operation[r] = "executed"

\* A request that fails loses the statuses of its whole file, but of the blocks
\* before the one it failed in the database keeps what they came to: every order
\* is on record, and every operation ABS was asked for with the status its task
\* ended with (SaveAbsSentResult and the save after Task.WhenAll, in every round
\* of the loop).
EarlierBlocksAreOnRecord ==
    \A u \in Uploads : \A r \in filtered[u] : Rank(r, filtered[u]) < from[u] =>
        storedOn[r] # Never /\ (operation[r] # "none" => binding[r] \in Final)

\* When the file has been saved every line of it has a final status, and the
\* status agrees with the database and with ABS, over all the blocks, but for the
\* orders a notification names although the Status is OK: these are on record with
\* an error and are not bound, while the file shows them as loaded, whether ABS
\* has them or not (SaveAbsSentResult and GetPaymentsToBind read the list
\* whatever the Status, ProcessUploadPaymentsResults does not).
ReportIsFaithful ==
    \A u \in Uploads : pc[u] = "done" =>
        \A r \in FileRows(u) :
            /\ shown[r] \notin {"blank", "scheduled", "in progress"}
            /\ shown[r] = "processed before" <=> storedOn[r] = Never
            /\ r \in warned => shown[r] = "loaded" /\ r \in rejected /\ binding[r] = "none"
            /\ shown[r] = "load error" <=> r \in rejected \ warned
            /\ r \notin warned => (shown[r] \in {"processed before", "load error"} <=> insertedOn[r] = Never)
            /\ shown[r] = "finished: ok" <=> binding[r] = "ProcessedSuccessfully"
            /\ shown[r] = "finished: error" <=> binding[r] = "ProccessedWithError"
            /\ shown[r] = "loaded" => r \notin WithContract \/ r \in warned

\* What is on record stays: the day and the error of an order never change,
\* and a binding goes from Scheduled to one final status, once.
RecordsAreFinal ==
    [][\A r \in Rows :
        /\ storedOn[r] # Never => storedOn'[r] = storedOn[r] /\ (r \in rejected' <=> r \in rejected)
        /\ \/ binding'[r] = binding[r]
           \/ binding[r] = "none" /\ binding'[r] = "Scheduled"
           \/ binding[r] = "Scheduled" /\ binding'[r] \in Final]_vars

\* A request that has begun ends.
UploadEnds ==
    \A u \in Uploads : pc[u] # "idle" ~> pc[u] \in {"done", "failed"}

\* "Keep only the new ones" (PaymentSendService.cs:35): no order is put into
\* the ABS buffer twice in one day, unless one file holds it twice.
OnlyNewOrdersAreSent ==
    \A r, s \in Rows :
        UploadOf[r] # UploadOf[s] /\ KeyOf[r] = KeyOf[s] /\ insertedOn[r] # Never => insertedOn[r] # insertedOn[s]

-----------------------------------------------------------------------------
(* Refinement of PaymentLedger *)

LedgerStage ==
    [r \in Rows |->
        CASE binding[r] = "ProcessedSuccessfully" -> "settled ok"
          [] binding[r] = "ProccessedWithError" -> "settled error"
          [] binding[r] \in {"Scheduled", "BeingProcessed"} -> "scheduled"
          [] binding[r] = "none" /\ storedOn[r] # Never -> "recorded"
          [] binding[r] = "none" /\ storedOn[r] = Never /\ insertedOn[r] # Never -> "sent"
          [] OTHER -> "new"]

LedgerOutcome ==
    [r \in Rows |-> IF operation[r] \in {"executed", "refused"} THEN operation[r] ELSE "none"]

Ledger == INSTANCE PaymentLedger WITH stage <- LedgerStage, outcome <- LedgerOutcome

\* Whatever the requests, their blocks, exceptions and late answers, every
\* order goes through the life PaymentLedger promises.
ImplementsLedger == Ledger!Spec
=============================================================================
