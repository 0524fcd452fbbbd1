# Formal models of DifferentCoreFeatures

The repository is a collection of about a hundred small, independent .NET programs.
Most of them show one library call and keep no state. A few keep state that several
requests, threads, services or restarts share. This project models those, in the order
of what goes wrong when they are wrong. The program is C#: the JavaScript in the tree is
jQuery, Bootstrap and other vendored libraries, some empty `site.js` files and a few load
scripts, and has no logic of the program's own. The largest of them, and the only one that moves
money, is the upload client of `RazorPages/UploadClientAuthLDAP/ABSUploadClient`; it is
the core of the project and the first to be proved.

- [The system](#the-system): the parts, their state, how they interact, what is hard
- [The models](#the-models): one section for each part that is modelled
- [The runs](#the-runs): what TLC checks, on which instances, and what it shows
- [The proofs](#the-proofs): what holds for every value of the constants, and why
- [What is assumed](#what-is-assumed) and [what is not modelled](#what-is-not-modelled)
- [The plan](#the-plan): what comes next

To check a run: `tlc -config <name>.cfg <MC module>`; to check the proofs of a module:
`tlapm <module>.tla`. `PROJECT.json` lists the runs with their modules, the lines each
definition models, the hazards with the properties that watch them, and for every
property of a passing run a mutant of the code that breaks it.

## The system

| part | state | operations | interacts with | what is hard |
|---|---|---|---|---|
| payment upload (`ABSUploadClient`) | the tables PaymentOrders and PaymentBindings; in memory: filtered orders, the block, binding objects, the statuses of the file | upload a file; per block: mass insert, record, look up, bind | ABS, a banking system, by SOAP calls; SQL database; other uploads through the database | two requests at once; exceptions between a call to ABS and its record; timeouts after which ABS goes on; midnight |
| order stream (`Orders.Realtime.Api`) | a channel of orders, a counter of event Ids, a bounded buffer | produce; stream; add to the buffer; replay | browsers that reconnect with the last Id they saw | a lock-free buffer; requests that outlive their connection; competing readers of a channel |
| product catalogue (`DynamoDbStreams`) | a DynamoDB table, a Redis cache, the change stream | get, create, update, delete; handle a batch of records | the API and the Lambda function share the cache only | a cache filled from a stale read; batches given again after a failure |
| customer messages (`Customers.Api`, `Customers.Consumer`) | the table Customers, an SQS queue | create, update, delete; receive, handle, delete a message | the API tells the consumer by messages | two writes without a transaction; redelivery; handlers that throw; a service that stops |
| movie service (`Movies.Api`) | two concurrent dictionaries: movies by Id, Ids by slug | create, update, delete, find | announces creations to a queue | check then act on two dictionaries without a lock |
| report worker (`DPSService`) | IntegrationEvents.Complete; the registers of agreements, charges and closing dates; the change tracker of one database context | poll for the event of the day; per contract: replace the agreement, remove the old charges, add a charge a month | a load from outside that brings contracts, payments and the event | failed saves whose changes stay pending and go out with another contract's; crash and rerun; failures marked complete; midnight |
| upload files (`FileBackupService`, `LogService`, `ZipService`, `OnPost`) | files named by the clock, by the client, or by a constant; UploadedDocuments | back up, log, pack, return | around the payment upload | name collisions between requests; an archive left open by an exception |
| semaphore with a timeout (`LockAsync.cs`) | one semaphore | wait, work, release | its callers | a release without a permit |
| file cache (`FileCache`, `DataService`) | one file a key | look, generate and save, load | requests for the same data | a file visible before it is complete; interruptions |

What makes each correct:

- *Payment upload.* An order is loaded into ABS at most once a day; what ABS has is on
  record, up to the block in flight; ABS is asked to bind only what it has not complained
  of and only after the request is on record; a binding is recorded as successful only if
  ABS carried it out; the statuses in the file are true; of a request that fails the
  database keeps what became of the blocks before; a request ends.
- *Order stream.* Event Ids are unique; a client sees every event at most once, in order;
  a replay leaves out only what the buffer had to drop; the buffer keeps its size.
- *Product catalogue.* Once a change is handled, the cache has what the table has or
  nothing; every change is handled.
- *Customer messages.* A committed change is announced unless its request fails before the
  queue has the message, and what is announced is handled in the end while a service runs;
  no change of a customer is committed after its deletion. The messages keep no order: an
  earlier update may be announced after the deletion, and nothing in the code says otherwise.
- *Movie service.* A slug leads to the movie that has it; every movie is found by its
  slug; no two movies have one slug.
- *Report worker.* Whatever fails and however often a day is run again, a contract has one
  agreement, one closing date and the charges of one run; an annuity is never without its
  agreement again; a run without failures reports every annuity and every PDL of its day
  (a contract of another type is passed over); the event of the day is served.
- *Upload files.* A client gets the archive of its own request, with its own log and
  statuses; a row of the uploaded documents leads to the file that was uploaded.
- *Semaphore.* One call is inside; nobody waits with nobody inside.
- *File cache.* What a request reads is one whole generation.

Where the code does not keep such a promise in every case, the property says in which
cases it is broken and the check shows that there are no others.

`PROJECT.json` lists every part of the repository, with the reason where one is left out.

## The models

### Payment upload: `PaymentUpload`, `PaymentLedger`

`PaymentUpload` is `PaymentSendService.SendPaymentOrders` and everything it calls that
changes state, run by any number of requests (`Uploads`). Every `await` and every query is
a point where other requests, the clock and ABS can move, so every stretch between two of
them is an action:

| code | action |
|---|---|
| `ExcelService.Parse`, `DbfService.Parse` | `Begin`; its `catch` is `Drop` in `Fail` and `NullReference` |
| `FilterExistingOrders(...).ToArray()` | `FilterExistingOrder`, one query for each order |
| `Except(filteredpayments)` | `MarkProcessedBefore` |
| `UploadPaymentsToBufferAsync` | `MassInsert`, with the answers ABS can give: `UploadAccepted`, `UploadPartlyRejected`, `UploadFailedUnlisted` |
| `SaveAbsSentResult` | `SaveAbsSentResult` |
| rest of `ProcessUploadPaymentsResults` | `ProcessUploadPaymentsResults`, or `NullReference` where the loop runs over a null list |
| `GetPaymentsToBind` | `GetPaymentsToBind` |
| `AddPaymentBindings`, the awaited save | `AddPaymentBindings` |
| each task of `Task.WhenAll` up to its first `await`, the call of ABS, in the order of the list | `StartBinding` |
| the rest of a task | `BindingSucceeded`, `BindingFailed` |
| `SaveChangesAsync`, next `i` | `SaveBindings` |
| `fileService.Save` | `SaveFile` |
| ABS carries out an operation | `AbsExecute`, at any time, the request may be gone |
| an exception anywhere, the end of the process | `Fail` |

The variables are the state of the code: `filtered`, `from` (the loop variable `i`),
`reply`, `toBind`, `tracked` (the status of the binding objects in memory), `shown` (the
status column of the file), `storedOn`, `rejected` and `binding` (the database),
`insertedOn` and `operation` (ABS). `storedBefore` and `warned` are history variables; the
latter remembers the lines that an answer of Status OK complains of. A line of a file
is a number; `KeyOf` gives what the filter compares of it. A `LinkID` is the index in the
block, computed, sent and looked up again as the code does.

Between the save of the bindings and the calls there are states of their own, and between
one call and the next: a request may end there, with some operations asked for and others
only on record. The answer of ABS has a Status and a list, which the code reads apart from
one another: the list decides what is stored with an error and what is bound, the Status
whether the file says so. So an order that is named in an OK answer is stored with an
error and not bound, while the file shows it as loaded; `ReportIsFaithful` says exactly
this of it.

`PaymentLedger` is what the upload promises about each order without requests, blocks,
files or exceptions: new, sent, recorded, scheduled, settled, each step once and in this
direction, and settled as successful only if the bank carried out the operation.
`ImplementsLedger` says that `PaymentUpload` implements it under the mapping `LedgerStage`,
`LedgerOutcome`. The ledger allows what the code allows and a reader may not expect: an
order the bank rejected is recorded all the same, and the bank may carry out an operation
after it was settled as failed.

### Order stream: `OrderStream`

A request (`Handlers`) belongs to a client and goes through `started`, `replaying`, `live`
and, for each order, the separate atomic steps of `OrderEventBuffer.Add`: `TakeEventId`
(`Interlocked.Increment`), `Enqueue`, `CheckCount`, `TryDequeue`, back to `CheckCount`,
then `YieldOrder`. The query of `GetEventsAfter` is evaluated at the first `MoveNext`, on a
snapshot. `Disconnect` breaks a connection; the request goes on, and what it writes is
lost, until `Close`; its client may come back before that. `Plain` requests are those of
`orders/realtime`. `owed` remembers what was buffered when a client's request looked for
what it had missed, and `peak` the most requests that were ever inside `Add` at once: the
code gives its promises about the buffer only up to the number of racing `Add`s, and the
properties name that number.

### Product catalogue: `ProductCatalog`

A request of `GetByIdAsync` that misses the cache has three steps, `StringGet`, `GetItem`
and `StringSet`; a write is one put or delete, which also appends to the stream. The
Lambda function is invoked with the oldest records, handles them one by one and either
completes or fails; after a failure the whole batch is given again. The content of a
product is the number of its write. `late` remembers the products that were last cached
from a read that was stale when it was stored.

### Customer messages: `CustomerMessages`, `CustomerLog`

A request first checks, then commits its row, then sends its message; it may fail in
between, and a send may throw although SQS has the message (`SendFails`). The queue is an
SQS standard queue: no order, and a message comes back unless it is deleted before its
visibility timeout. The consumer handles a message and then deletes it; a handler that
throws leaves the message; an exception outside the `try` stops the service (`ConsumerStops`),
and the host does not start it again: `ConsumerStarts` is somebody's decision, and owed by
nobody. `changes` is the history of the committed changes, and a message is the index of
one.

`CustomerLog` is what API and queue promise without requests, queue, consumers or failures: a
log of changes in which every customer has one life, and of each change that it is
announced or that its announcement is lost, one of them and for good, and that it is handled
only if it was announced. `ImplementsLog` says that `CustomerMessages` implements it:
announced is what is in the queue or has been handled (`Announced`), lost what a request
has committed before it failed, if the queue never had it (`Lost`). That the code can lose an announcement is in the
promise; that it takes none back is the point of it.

### Movie service: `MovieService`

Each access of `_movies` or `_slugToIdJoin` is a step and any number of requests
interleave between them. `_movies.Remove(id, out var movie)` is not a method of
`ConcurrentDictionary` but the extension method of `IDictionary`, which gets and then
removes, so it is two steps. `overlapped` and `contended` are histories of the two
circumstances that the properties name as exceptions.

### Report worker: `ReportWorker`

`Worker.ExecuteAsync` is `Poll`, `MarkComplete` and `Wake`; `WorkerFails` is an exception
outside the job, which ends the loop. `CreateReportJob.Execute` uses one database context
from its first query to its end, and what it adds or removes is in the variables
`inserted` and `deleted` until a `SaveChanges` carries it out, all of it at once. A save
that throws leaves it there, and the save of the next contract takes it along.

| code | action |
|---|---|
| `newContracts`, `newPayments`, each with the date of its moment | `ListContracts`, `ListPayments`, or `QueryFails` |
| the calculator of the next contract | `StartContract`, `CalculatorFails`, or `NullReference` where there is no grace contract |
| the `default` of the `switch`, which logs a `BankingServiceType` that is neither `CreditAnnuities` nor `Credit` | `UnknownType` |
| `ContractClosedOn` of an annuity | `CloseContract` |
| the agreement of an annuity, removed and added in one save | `ReplaceAgreement` |
| the agreement of a PDL, in two saves | `RemoveAgreement`, `AddAgreement` |
| the old charges | `ClearCharges` |
| `GetMonthSum` and its like | `MonthsFail` if it throws |
| one charge, in a `try` of its own | `AddCharge` |
| the outermost `catch`, the end of the scope | `EndJob` in `QueryFails`, `NullReference`, `NoMoreContracts` |

Each of these tries its query and its save and goes on where the `catch` that surrounds it
does (`Save`, `AskAndSave`). `Restart` ends the process anywhere; the context is lost, the
database stays. `spoiled` is a history: a call failed in this run, or midnight passed
before its lists were made. What the calculators compute is left out: a row is its
register, contract and month, and the run that made it.

### Upload files: `UploadFiles`

One post of `UploadExcelFilePage` or `UploadDbfFile`, each file operation a step:
`CreateLogger`, `CreateBackup`, `SaveDocument`, `ReadBackup`, `SaveHeadings` (the workbook is
written back when the columns of the statuses are missing), `WriteStatuses` (the end of the
upload, which itself is `PaymentUpload`), then `DeleteArchive`, `CreateArchive`,
`FillArchive`, `OpenArchive` and `Answer`. A step that meets a file another request has
open ends in an error (`Refused`). An exception in `FillArchive` passes `zip.Dispose()`, and
the archive stays open until `Finalize`. The clock is a number, of which the name of a
backup keeps the remainder by twelve hours.

### Semaphore and file cache: `LockAsync`, `FileCache`

`LockAsync` has the permit, the queue of the semaphore and where each call stands:
`WaitAsync`, `TimesOut`, after which the call goes on all the same, and `Release`, which hands
the permit to the first that waits, frees it, or throws because it is free.

`FileCache` is `DataService.GetDataAsync` of one key: `Exists`, `Create` and `Save` of
`SaveAsync`, `Open` and `Deserialize` of `LoadAsync`, and `Interrupted` for an exception, a
reader that leaves or the end of the process.

`SmallParts` puts these two beside `UploadFiles` and states what is asked of them, for the
run and the proofs. `MCSmallParts` adds a larger instance of `OrderStream`; a behaviour of
its run is a behaviour of one of the four.

## The runs

A passing run is exhaustive on its instance. A violating run checks one property that the
repository's own words state.

| run | instance | shows |
|---|---|---|
| `upload_two` | two files of two lines with the first line in common, blocks of two, two days | no resubmission of what was on record, `RecordedBeforeExecution`, `SuccessIsTrue`, records are final, types |
| `upload_blocks` | a file of three lines (two blocks) beside a file that repeats its second, one day | blocks do not overlap, what ABS has is on record but for the block in flight, LinkIDs and statuses reach the right orders in the second block too, of the blocks before the one that fails all is on record, the ledger is implemented, every request ends |
| `upload_race` | two files of one line, the same order | violation of "keep only the new ones": both requests filter before either records |
| `upload_fields` | the same, the orders differ in date and purpose | violation of the list of compared fields in the comment |
| `stream_replay` | a client with two requests, which may overlap, and another client at the plain endpoint, a buffer of one, three orders | event Ids are unique, every client sees events once and in order, a replay skips only what the buffer had to drop, how far racing `Add`s overshoot and undershoot the size, no order waits while a client stays connected |
| `stream_trim` | two requests that add at once | violation of "Maintain buffer size": one item too many is removed |
| `catalog_cache` | two products, two readers, two puts, deletes, batches of two, one failure | the cache follows the table but for the one case named; every change is handled |
| `customers_messages` | one customer, three requests (bounded by `StartInOrder`), one consumer, one failure | no announced change is lost, a customer's changes follow its life, messages are handled unless every service stops for good, the log is implemented |
| `movies_dictionaries` | two movies, two slugs, two requests, symmetric | the only ways in which the dictionaries come to disagree |
| `reports` | an annuity, a PDL, a contract of another type and a payment without a contract, two months, two days, two failing calls, one restart | registers of one run, an annuity keeps its agreement, a clean run reports every annuity and PDL of its day and nothing of the other, the event of a day is served or the worker has died of what Execute does not catch |
| `small_parts` | three callers of the semaphore; three requests of one cache file and two interruptions; three uploads, two of them of one file name, a clock of three moments with a half day of two, one exception; and a client of the order stream with three requests, a buffer of three, five orders (bounded by `StreamBound`) | only timeouts break the lock, only interruptions break the cache file, who can be handed another's archive or statuses, when a document leads to another's file; what a replay may leave out after two requests have raced in `Add` |
| `movies_slugs` | three movies, one request at a time | violation of "This movie already exists": an update takes the slug of another movie, with no race |

**Why the bounds are enough.** Two requests, since every step of a request reads or writes
only its own lines and what `Exists` finds in the common table: a third adds no kind of
interference. Two blocks, the second of which is not full, since nothing depends on the
number of a block but `from`. Two days, since the code compares with today only. For the
stream: a buffer of one is overrun by the second order, and a client's two requests race
in `Add`; the theorems hold for more. For `ReplayLeavesNoGap` a race matters only if the
client comes back after it and the buffer holds three: that instance is part of
`small_parts`. Two products, so that a batch mixes records of
different products. For the reports, two failures let a save fail and the save that would
mend it fail too, two days run the job twice over what is left, and a restart may come at
any step. Three uploads give two of one name and a third that competes for the archive
only. The three requests of the customers are interchangeable, so `StartInOrder` lets them
start in one order only. For the movies, two Ids and two slugs give every way of sharing one; the theorems
lift the bounds of what they state altogether. `MaxDay`, `MaxOrders`, `MaxWrites`,
`MaxMessages`, `MaxTime`, `MaxFailures`, `MaxRestarts` and the finite sets of requests
bound the instances; deadlock is not checked because in all of the models the system may
stop when nobody asks anything.

**Fairness.** `PaymentUpload`: weak fairness of every request's next step, since each call
of a request ends with an answer or an exception (`SendTimeout`, the command timeout of
the database). New requests, ABS, the calendar and failures owe nothing. `UploadEnds`
needs `MaxBlockSize` to be positive: with 0, which the configuration does not exclude, the
loop of `SendPaymentOrders` makes no progress. `OrderStream`: weak fairness of each
request, whose continuations run on the thread pool; neither clients nor the producer owe
anything. `ProductCatalog`: weak fairness of the function's own steps, since Lambda polls
the stream as long as it has records; failures are bounded. `CustomerMessages`: weak
fairness of the consumers' own steps and of visibility timeouts; strong fairness of a
message being received, since SQS does not withhold a visible message for ever. Neither the
requests of the API nor whoever might start a stopped service owe anything (a .NET host goes
on without a `BackgroundService` that has thrown, or stops with it), so `MessagesAreHandled`
excuses the behaviours in which every service stops for good. `ReportWorker`:
weak fairness of the worker's next step, since every query and save ends with an answer or
an exception and `Task.Delay` ends; the clock, the load and restarts owe nothing, and
`EventsAreServed` excuses the day that ends first and the worker that has died, and says of
what alone it may die: of a query or save of the worker, of the queries of the lists, and
of a payment without a grace contract.

**Findings.** Four runs show the code do something other than its words say; they are
listed in `PROJECT.json` with the line and the quotation: the race of two uploads of one
order, the fields that the filter leaves out, the buffer that is trimmed too far, and the
update that gives two movies one slug.

## The proofs

| theorem | module | says |
|---|---|---|
| `TypeCorrect` | `PaymentUploadProofs` | `TypeOK` |
| `NoResubmissionHolds` | `PaymentUploadProofs` | an order on record when a request began is not loaded again by it that day |
| `BlockIsUnsentHolds` | `PaymentUploadProofs` | a block about to be sent is neither in ABS nor on record |
| `UnrecordedIsInFlightHolds` | `PaymentUploadProofs` | what ABS has and the database does not is the block in flight |
| `BoundOnlyIfLoadedHolds` | `PaymentUploadProofs` | only loaded orders are bound |
| `RecordedBeforeExecutionHolds` | `PaymentUploadProofs` | nothing is asked of ABS without a record, wherever a request ends between the save and the calls |
| `SuccessIsTrueHolds` | `PaymentUploadProofs` | recorded success is success |
| `UploadImplementsLedger` | `PaymentUploadRefinement` | every step of the upload is a step of the ledger or none |
| `ReportIsFaithfulHolds` | `PaymentUploadProofs` | the statuses in the file are true, `ReportIsFaithful` |
| `EarlierBlocksAreOnRecordHolds` | `PaymentUploadProofs` | what became of the blocks before is on record, also of a request that fails |
| `RecordsAreFinalHolds` | `PaymentUploadRefinement` | dates, errors and final statuses never change |
| `TypeCorrect`, `SlugsLeadRightHolds`, `MoviesAreFoundHolds` | `MovieServiceProofs` | `TypeOK`, `SlugsLeadRight`, `MoviesAreFound` |
| `TypeCorrect`, `RegistersCorrect`, `AgreementCorrect`, `CleanRunsCorrect` | `ReportWorkerProofs` | `TypeOK`, `RegistersAreOfOneRun`, `AgreementIsKept`, `CleanRunsReportAll` |
| `TypeCorrect`, `EventIdsCorrect`, `BufferSizeCorrect`, `SeenCorrect`, `ReplayCorrect` | `OrderStreamProofs` | `TypeOK`, `EventIdsAreUnique`, `BufferSizeIsNearlyKept`, `SeenInOrder`, `ReplayLeavesNoGap` |
| `TypeCorrect`, `CacheCorrect` | `ProductCatalogProofs` | `TypeOK`, `CacheFollowsTable` |
| `TypeCorrect`, `AnnouncementsCorrect`, `LifeCorrect` | `CustomerMessagesProofs` | `TypeOK`, `ChangesAreAnnounced`, `LifeOfACustomer` |
| `MessagesImplementLog` | `CustomerMessagesProofs` | every step of API, queue and consumers is a step of the log or none |
| `LockCorrect`, `CacheCorrect`, `TypesCorrect` | `SmallPartsProofs` | `OnlyTimeoutsBreakTheLock`, `OnlyInterruptionsBreakTheFile`, the types of the three parts |
| `ArchivesCorrect`, `DocumentsCorrect` | `SmallPartsProofs` | `ArchivesAreOwn`, `DocumentsLeadToTheirFiles` |

They hold for every number of requests, lines, days, movies, slugs, contracts, months,
clients, products, customers, failures and restarts, from the assumptions the modules
state: the lines of the upload are finitely many natural numbers, each in one file;
`MaxBlockSize` is a natural number; `Absent` is neither a movie nor a slug; the bounds are
natural numbers; the sets of stream requests, of API requests and of calls of the
semaphore are finite, since their numbers are compared; `Nobody` is neither a request nor a
file name, `Leaked` is not a request, and half a day is at least one tick
(`PartsAssumption`).

**Payment upload.** None of the properties is inductive by itself. The invariant `IInv`
of `PaymentUploadProofs` adds what the code keeps between its steps:

- `Own`: a request holds only lines of its own file; this keeps requests apart.
- `Progress`: where a line stands relative to `from`: lines of later blocks are untouched,
  lines of the present block are as far as `pc` says, and nothing is claimed of earlier
  ones but that they are past. This gives `BlockIsUnsent` and `UnrecordedIsInFlight`; the
  lemmas about `Rank`, `Chunk` and `NextBlock` (a line of a later block is in no earlier
  one) come first, from facts about the cardinality of finite sets.
  A binding, and that a line was complained of (`warned`), come in at their places; what
  `Progress` says of past lines is `EarlierBlocksAreOnRecord`.
- `Errors`: the orders the answer complains of are those ABS refused, or, if its Status is
  OK, those it warned of; this needs the `LinkID` of a line to be unique in its block and to
  be looked up in the same block.
- `Binding`, `Outcomes`: which bindings and operations are possible at which step, the
  bindings in memory that are saved and whose tasks have not called ABS yet among them; they give
  `BoundOnlyIfLoaded`, `RecordedBeforeExecution` and `SuccessIsTrue`.
- `Dates`, `History`: nothing is dated in the future, and every order the filter let through
  was not on record then with today's date; since the clock only goes forward, an insert
  that comes later is on another day or of another order. They give `NoResubmission`.

`ReportIsFaithful` speaks of requests that are done, and needs to know what the lines of a
file say before: `ReportInv`. An order of a past block is `Placed` (its line tells whether
ABS took it, or it was warned of, and it is not being bound) or `Concluded` (it was bound, and its line tells
how that ended); one of the present block is on its way from the one to the other, as
far as `pc` says; one the filter left out says so. The step that could go wrong is
`ProcessUploadPaymentsResults`, which looks the complaints of ABS up by their `LinkID`:
`Errors` says that these are the refused orders of this block, or the ones warned of (`Answered`). A step of another request
changes nothing of a line of this one (`ReportElsewhere`), since it touches lines of its own
file only.

The refinement then needs one lemma for each kind of step: the lines an action touches are
all at the stage the ledger's action requires, by `IInv`.

**Movie service.** The properties speak of movies nobody is at work on; `Underway` says
for each place a request can stand at which slug alone may lead to its movie and which one
must. A step writes one slug, which its own movie claims. If another movie has that slug
both claim it, and `contended` has recorded that (`TwoContend`): so the lemma `Others` settles
all the movies but one, and the step theorem looks at that one.

**Report worker.** `RegistersAreOfOneRun` is not inductive, because a step may carry out
what earlier, failed saves left pending. So the registers are judged twice: as they are,
`Good(db)`, and as they would be if everything pending were saved now, `Good(After)`; and in
both no annuity loses its agreement (`Kept`). `PendingInv` says of which contracts
something can be pending: none that is still to come, nor the present one before its first
save; so what is added for a contract never meets an older pending row of it. `TurnInv` says
what a turn relies on: after the removal of the agreement there is none, and while months
are written all charges of the contract, saved or pending, are of this run. A save that
succeeds makes `After` the registers and one that fails leaves them and changes `After`, so
every step of the job comes down to the effect of its rows on `Saved` (the lemmas about
additions and removals). A restart forgets what is pending, and `Good(db)` is all the next
run needs.

`CleanRunsReportAll` needs `CleanInv`: as long as nothing has spoiled a run, nothing is
pending between its steps, and every contract that is due on the polled day is still on
the list, in its turn, of a type the job does not know, or has its agreement and the charges
of all months from this run (`ProgressInv`). That nothing is written for a contract of
another type is in the types: only one of a known type ever is in its turn. It holds when the lists are made, because the event of the polled day
exists and so the load adds nothing more to that day (`LoadInv`): what is due can only
shrink, when a contract is loaded again on a later day. A step of a turn touches rows of
its own contract only, and an unspoiled save has carried out exactly what the step meant.

**Order stream.** `IdInv`: every Id is below the counter and in one place, a request or the
buffer. `SizeInv` counts: the buffer exceeds its size by no more than the requests in the
loop, and its length less the requests about to dequeue falls short of it by no more than
other requests were in `Add` at once (`peak`). `SeenInv`: what a request is about to send,
missed or live, is above all that its client has received, and a client listens to one
request only.

`ReplayLeavesNoGap` counts how many newer events have pushed an event out, and the
difficulty is that the buffer is not in the order of the Ids: a request may draw an Id and
enqueue behind a later one. `OvertakenInv` bounds this: the older events that come after an
item, or are still to come, are of requests that were in `Add` together with the one that
enqueued it, so they and it are at most `peak`. When the head of the buffer is removed,
what stays is at least `MaxBufferSize` less the requests that race to dequeue (`SizeInv`), and
all but the overtaken ones are newer: `DroppedInv`, in which `peak` counts twice, once for
either race. What has left the buffer never comes back and newer events only become
more, so `DroppedInv` is kept by every other step. `OwedInv` carries this over to a client:
what its request owes it is still in `missed` or had been dropped when the request looked; it
is sent oldest first, so what a later event passes over had been dropped.

**Product catalogue.** `LastImageInv`: the last record of a product in the stream has what
the table has. With it, `CacheFollowsTable` is inductive: handling the last record of a
product brings the cache to the table, and until then the property promises nothing.

**Customer messages.** `CountInv`: every change belongs to one request. `AnnounceInv`: a
consumer deletes only what it has handled. `LifeInv`: a request that is creating its
customer is alone with the Id, and a row is of a customer that was created and not deleted
since. The refinement of `CustomerLog` adds two. `RowsInv`: the table holds exactly the
customers that exist by the log, so that a statement that finds its row is a change the log
allows. `PlaceInv`: a change belongs to one request; nothing is in the queue, with a consumer
or handled that was not committed and announced; and what a request has not tried to
announce yet is in none of these. So an announcement is always of an undecided change, and
a failing request gives up one that nobody was told of, or none.

**Upload files.** `NamingInv`: the name of a backup is given once, when it is created, and
whatever is written over the file afterwards came from a file of that name; with the
clock in the name this is `DocumentsLeadToTheirFiles`. `OwnFilesInv`: a request whose file
has a name of its own finds its log and its backup as it left them. `HolderInv`: who fills or
streams the archive has it open, and an archive that is open is not deleted. `ArchiveInv`:
the archive is whole, or is being filled, or its maker failed, and whoever is about to open
it made it or has been overlapped; `AnswerInv` keeps that for the one a request has opened.

**Semaphore and file cache.** Permits are conserved: calls inside, free permits and
releases that threw are together one more than the timeouts. With the queue (who is in it
waits, once, and no permit is free meanwhile) this gives the property. In the cache, while a
request writes nobody reads, so a reader has the file as it is, and a part that nobody is
writing was left by an interruption.

**Only model-checked.** Every invariant and every action property of the passing runs has a
theorem. Liveness (`UploadEnds`, `OrdersAreTaken`, `ChangesAreHandled`, `MessagesAreHandled`,
`EventsAreServed`) is out of the prover's reach and stays with TLC. Nothing in the modules
is a RECURSIVE operator, and no theorem needs induction over data.

## What is assumed

Of what lies outside the repository, and modelled from how the code uses it:

- *ABS.* Status OK means that the block is in the buffer, but for the orders a list that
  comes with it names by LinkID: any of these may be there or not. Another Status with a
  list names exactly the orders that are not. Another Status without a list
  may have inserted any part of the block. A payment that is in the buffer stays there and
  may or may not be found by its GUID; one that is not is not found. An operation may be
  carried out at any time after it was asked for, also when nobody waits any more.
- *The database.* A `SaveChangesAsync` is one transaction; requests see what is committed.
- *Channels, concurrent queues and dictionaries* are atomic in each operation.
- *DynamoDB streams and Lambda.* Records of a product come in the order of the writes, one
  invocation at a time; a batch that failed is given again, whole, before anything newer.
  The event source mapping is not part of the repository.
- *SQS.* At least once, in any order; a send that throws may have arrived. That the SDK
  tries a send again, so that one change has two messages, is left out. A message whose type is not known, or that cannot be
  read, is left out: the API is the only producer and its types are the consumer's.
- *Browsers.* An `EventSource` sends the Id of the last event it received.
- *Entity Framework.* A save that throws has changed nothing and keeps what is pending; a
  query asks the database and not what is pending; the next save carries out all of it.
  `ContractNumberABS` names one contract.
- *The load of contracts, payments and events* comes from outside; the event of a day comes
  after its data, at most once.
- *Files* are shared as on Windows, where the programs run: a file that is open for writing
  is not opened, created again or deleted by another, and `File.Create` shares with nobody. The
  finalizer closes a file nobody has closed, some time.
- *Semaphores* serve those who wait in their order.
- *Redis* keeps what it is given; an eviction would only take the cache back to absent.

Abstracted: the texts of statuses and comments, the columns of the files, the amounts and
names; dates are days; logging is left out everywhere. That a `Comment` longer than its
column makes the save fail is one of the ways of `Fail`.

## What is not modelled

- *Of the modelled parts:* the 1C conversion, LDAP login and the pages without an upload;
  the arithmetic of the calculators (workbooks that compute what the job copies); the
  contents of files, statuses and messages; reads that change nothing.
- *The chore tracker on MongoDB.* `CompleteChore` opens a transaction and does two writes
  that do not name its session, so that neither is part of it. Its only caller is a console
  program that calls each operation once, in order; a model would restate the two calls.
- *Cache-aside samples* have the shape of the product catalogue without the stream: read,
  fill, expire.
- *Programs whose behaviour is that of a library they configure:* Polly, Hangfire, Quartz,
  Identity, Serilog, App Metrics, Ocelot, gRPC, SignalR and the like.
- *Demos and tutorials* without a state that outlives a call; Excel and PDF reports, which
  compute and print.
- *Vendored code:* jQuery, Bootstrap and their validation plugins under `wwwroot`, which the
  programs load and do not change.

`PROJECT.json` has the list, each with its reason.

## The plan

Done: the payment upload with its ledger, refinement and proofs; the order stream, the
product catalogue, the customer messages, the movie service and the report worker, each
with its proofs; the upload files; the semaphore and the file cache, all with theirs.

Left:

1. *Abstract specifications.* A log that every client reads in order, for `OrderStream`; a
   register with a cache, for `ProductCatalog`.
2. *Composition.* `UploadFiles` with `PaymentUpload` in the place of `WriteStatuses`: whose
   statuses a client is handed when two uploads of one file name also race in ABS.
3. Answers to clients in `CustomerMessages` (an update of a deleted customer is answered
   Ok) and reads in `MovieService` (a slug read before an update and a movie after it).
