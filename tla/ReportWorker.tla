---------------------------- MODULE ReportWorker ----------------------------
(***************************************************************************)
(* The report service WorkerService/DPSService: a background worker that   *)
(* looks every half hour for an integration event of today, runs a job     *)
(* over the contracts that were updated or paid today, and marks the event *)
(* complete.  The job keeps three registers: supplementary agreements,     *)
(* interest charges by month, and the closing dates of contracts.          *)
(*                                                                         *)
(* The job uses one database context from end to end.  What was added to   *)
(* or removed from it and not saved stays in it, and the next save of the  *)
(* job, whatever contract it is for, carries it out.                       *)
(*                                                                         *)
(* A row is what is known of it: its register, contract, month and the run *)
(* of the job that made it.  The calculators (workbooks, amounts, dates)   *)
(* are left out, but not that they may fail.  ContractNumberABS is taken   *)
(* to name one contract.  A failed save has changed nothing.               *)
(***************************************************************************)
EXTENDS Naturals, FiniteSets

CONSTANTS
    Contracts,      \* the contracts, by ContractId
    Annuities,      \* those whose BankingServiceType is CreditAnnuities
    Pdls,           \* those whose BankingServiceType is Credit
    Orphans,        \* those with payments and no row in GraceContacts
    Deliveries,     \* what the load of a day may bring: <<contracts updated, contracts paid>>
    Months,         \* the months the calculator of a contract yields
    MaxDay,         \* bound on the days
    MaxFailures,    \* bound on the calls that throw
    MaxRestarts     \* bound on the restarts of the service

ASSUME ContractsAssumption ==
    Annuities \subseteq Contracts /\ Pdls \subseteq Contracts \ Annuities /\ Orphans \subseteq Contracts
ASSUME DeliveriesAssumption == Deliveries \subseteq (SUBSET (Contracts \ Orphans)) \X (SUBSET Contracts)
ASSUME MonthsAssumption == Months \subseteq Nat \ {0}
ASSUME BoundsAssumption == MaxDay \in Nat /\ MaxFailures \in Nat /\ MaxRestarts \in Nat

VARIABLES
    day,            \* DateTime.Now.Date
    event,          \* IntegrationEvents: none, new (Complete = 0) or complete
    updated,        \* the day of UpdateDTTM of a contract, 0 for never
    modified,       \* the day of ModifiedOn of the last payment of a contract
    db,             \* the rows of the three registers
    pc,             \* where the worker stands
    polled,         \* the day of the event the worker has read
    run,            \* the runs of the job so far; numbers the current one
    todo,           \* the contracts of the job not yet taken
    contract,       \* the contract the job is at
    left,           \* the months of it not yet written
    inserted,       \* change tracker: rows added and not saved
    deleted,        \* change tracker: rows removed and not saved
    spoiled,        \* history: a call failed in this run, or midnight passed before its list
    failures,       \* calls that threw so far
    restarts        \* restarts so far

vars == <<day, event, updated, modified, db, pc, polled, run, todo, contract, left,
          inserted, deleted, spoiled, failures, restarts>>

external == <<day, event, updated, modified>>
tracker == <<inserted, deleted>>
bounds == <<failures, restarts>>

Days == 1 .. MaxDay
NoContract == "no contract"

PcValues == {"polling", "listing", "payments", "contracts", "closing", "replacing", "removing", "adding",
             "clearing", "months", "marking", "sleeping", "dead"}

\* The contracts of a BankingServiceType that the job provides for.
Known == Annuities \cup Pdls

Row(r, c, m) == [register |-> r, contract |-> c, month |-> m, run |-> run]

\* The rows of a contract in one register.
Of(r, c) == {row \in db : row.register = r /\ row.contract = c}

Rows == [register : {"agreement", "charge", "closed"}, contract : Known,
         month : Months \cup {0}, run : Nat]

TypeOK ==
    /\ day \in Nat \ {0}
    /\ event \in [Days -> {"none", "new", "complete"}]
    /\ updated \in [Contracts -> Nat]
    /\ modified \in [Contracts -> Nat]
    /\ db \subseteq Rows
    /\ pc \in PcValues
    /\ polled \in Nat
    /\ run \in Nat
    /\ todo \subseteq Contracts
    /\ contract \in Contracts \cup {NoContract}
    /\ pc \in {"closing", "replacing", "removing", "adding", "clearing", "months"} => contract \in Known
    /\ left \subseteq Months
    /\ inserted \subseteq Rows
    /\ deleted \subseteq Rows
    /\ spoiled \in BOOLEAN
    /\ failures \in 0 .. MaxFailures
    /\ restarts \in 0 .. MaxRestarts

Init ==
    /\ day = 1
    /\ event = [d \in Days |-> "none"]
    /\ updated = [c \in Contracts |-> 0]
    /\ modified = [c \in Contracts |-> 0]
    /\ db = {}
    /\ pc = "polling"
    /\ polled = 0
    /\ run = 0
    /\ todo = {}
    /\ contract = NoContract
    /\ left = {}
    /\ inserted = {}
    /\ deleted = {}
    /\ spoiled = FALSE
    /\ failures = 0
    /\ restarts = 0

-----------------------------------------------------------------------------
(* External: the clock, the load of the data, the service manager *)

NextDay ==
    /\ day < MaxDay
    /\ day' = day + 1
    /\ spoiled' = (spoiled \/ pc \in {"listing", "payments"})
    /\ UNCHANGED <<event, updated, modified, db, pc, polled, run, todo, contract, left, tracker, bounds>>

\* The data of a day arrive, the event that announces them last.
Load(delivery) ==
    /\ day \in Days
    /\ event[day] = "none"
    /\ updated' = [c \in Contracts |-> IF c \in delivery[1] THEN day ELSE updated[c]]
    /\ modified' = [c \in Contracts |-> IF c \in delivery[2] THEN day ELSE modified[c]]
    /\ event' = [event EXCEPT ![day] = "new"]
    /\ UNCHANGED <<day, db, pc, polled, run, todo, contract, left, tracker, spoiled, bounds>>

\* The process ends, wherever it is, and is started again: the context is lost.
Restart ==
    /\ restarts < MaxRestarts
    /\ restarts' = restarts + 1
    /\ pc' = "polling"
    /\ polled' = 0
    /\ todo' = {}
    /\ contract' = NoContract
    /\ left' = {}
    /\ inserted' = {}
    /\ deleted' = {}
    /\ spoiled' = FALSE
    /\ UNCHANGED <<external, db, run, failures>>

-----------------------------------------------------------------------------
(* The database context of the job *)

\* SaveChanges carries out all that is pending in one transaction.
SaveChanges(ins, del) ==
    /\ db' = (db \ del) \cup ins
    /\ inserted' = {}
    /\ deleted' = {}
    /\ UNCHANGED <<spoiled, failures>>

\* SaveChanges throws: nothing is written and all stays pending.
SaveFails(ins, del) ==
    /\ failures < MaxFailures
    /\ failures' = failures + 1
    /\ spoiled' = TRUE
    /\ inserted' = ins
    /\ deleted' = del
    /\ UNCHANGED db

\* Another call throws.
CallFails ==
    /\ failures < MaxFailures
    /\ failures' = failures + 1
    /\ spoiled' = TRUE
    /\ UNCHANGED <<db, tracker>>

-----------------------------------------------------------------------------
(* Worker.ExecuteAsync *)

Poll ==
    /\ pc = "polling"
    /\ IF day \in Days /\ event[day] = "new"
       THEN /\ pc' = "listing"
            /\ polled' = day
            /\ run' = run + 1
       ELSE /\ pc' = "sleeping"
            /\ UNCHANGED <<polled, run>>
    /\ UNCHANGED <<external, db, todo, contract, left, tracker, spoiled, bounds>>

\* Complete = 1, whatever became of the job.
MarkComplete ==
    /\ pc = "marking"
    /\ event' = [event EXCEPT ![polled] = "complete"]
    /\ pc' = "sleeping"
    /\ polled' = 0
    /\ spoiled' = FALSE
    /\ UNCHANGED <<day, updated, modified, db, run, todo, contract, left, tracker, bounds>>

\* An exception of the query or of the save leaves ExecuteAsync: the worker is
\* no more, while its host stays.
WorkerFails ==
    /\ pc \in {"polling", "marking"}
    /\ CallFails
    /\ polled' = 0
    /\ pc' = "dead"
    /\ UNCHANGED <<external, run, todo, contract, left, restarts>>

\* Task.Delay(SleepDelay).
Wake ==
    /\ pc = "sleeping"
    /\ pc' = "polling"
    /\ UNCHANGED <<external, db, polled, run, todo, contract, left, tracker, spoiled, bounds>>

-----------------------------------------------------------------------------
(* CreateReportJob.Execute *)

\* The end of Execute disposes of the context and of what is pending in it.
EndJob(next) ==
    /\ pc' = next
    /\ todo' = {}
    /\ contract' = NoContract
    /\ left' = {}
    /\ inserted' = {}
    /\ deleted' = {}

\* newContracts, with the date of the moment.
ListContracts ==
    /\ pc = "listing"
    /\ todo' = {c \in Contracts \ Orphans : updated[c] = day}
    /\ pc' = "payments"
    /\ UNCHANGED <<external, db, polled, run, contract, left, tracker, spoiled, bounds>>

\* Mutant of ListPayments: the payments are not joined to the contracts.
ListPaymentsOnly ==
    /\ pc = "payments"
    /\ todo' = {c \in Contracts : modified[c] = day}
    /\ pc' = "contracts"
    /\ UNCHANGED <<external, db, polled, run, contract, left, tracker, spoiled, bounds>>

\* newPayments, and the union of the two.
ListPayments ==
    /\ pc = "payments"
    /\ todo' = todo \cup {c \in Contracts : modified[c] = day}
    /\ pc' = "contracts"
    /\ UNCHANGED <<external, db, polled, run, contract, left, tracker, spoiled, bounds>>

\* A query throws outside the try of a contract.  The outermost catch logs the
\* inner exception: if there is one, Execute ends normally; if there is none,
\* the log call throws in its turn and ends the worker.
QueryFails ==
    /\ pc \in {"listing", "payments"}
    /\ failures < MaxFailures
    /\ failures' = failures + 1
    /\ spoiled' = TRUE
    /\ \E next \in {"marking", "dead"} : EndJob(next)
    /\ UNCHANGED <<external, db, polled, run, restarts>>

Take(c) == todo' = todo \ {c}

\* The calculator of the next contract is filled in and read again.  A zero
\* debt of an annuity is looked at first.
StartContract(c) ==
    /\ pc = "contracts"
    /\ c \in (todo \cap Known) \ Orphans
    /\ Take(c)
    /\ contract' = c
    /\ pc' \in IF c \in Annuities THEN {"closing", "replacing"} ELSE {"removing"}
    /\ UNCHANGED <<external, db, polled, run, left, tracker, spoiled, bounds>>

\* Mutant of CalculatorFails: the calculator is outside the try of a contract.
CalculatorKills(c) ==
    /\ pc = "contracts"
    /\ c \in (todo \cap Known) \ Orphans
    /\ failures < MaxFailures
    /\ failures' = failures + 1
    /\ spoiled' = TRUE
    /\ EndJob("dead")
    /\ UNCHANGED <<external, db, polled, run, restarts>>

\* The calculator throws: the contract is left out.
CalculatorFails(c) ==
    /\ pc = "contracts"
    /\ c \in (todo \cap Known) \ Orphans
    /\ Take(c)
    /\ CallFails
    /\ UNCHANGED <<external, pc, polled, run, contract, left, restarts>>

\* The default of the switch: another BankingServiceType is logged, and the
\* contract passed over.
UnknownType(c) ==
    /\ pc = "contracts"
    /\ c \in todo \ (Known \cup Orphans)
    /\ Take(c)
    /\ UNCHANGED <<external, db, pc, polled, run, contract, left, tracker, spoiled, bounds>>

\* A payment without a grace contract: the null reference is thrown outside the
\* try of a contract and has no inner exception.
NullReference(c) ==
    /\ pc = "contracts"
    /\ c \in todo \cap Orphans
    /\ EndJob("dead")
    /\ UNCHANGED <<external, db, polled, run, spoiled, bounds>>

NoMoreContracts ==
    /\ pc = "contracts"
    /\ todo = {}
    /\ EndJob("marking")
    /\ UNCHANGED <<external, db, polled, run, spoiled, bounds>>

\* Mutant of Goto: the turn of the contract ends before its months are written.
GotoEarly(next) ==
    /\ pc' = next
    /\ contract' = IF next \in {"contracts", "months"} THEN NoContract ELSE contract

\* The job goes on at next; its locals end with the turn of the contract.
Goto(next) ==
    /\ pc' = next
    /\ contract' = IF next = "contracts" THEN NoContract ELSE contract

\* A step of the contract that ends in a save, and where the job goes on if it
\* succeeds and if it throws.
Save(ins, del, next, failed) ==
    \/ SaveChanges(inserted \cup ins, deleted \cup del) /\ Goto(next)
    \/ SaveFails(inserted \cup ins, deleted \cup del) /\ Goto(failed)

\* A step that finds nothing to save.
Skip(next) == Goto(next) /\ UNCHANGED <<db, tracker, spoiled, failures>>

\* A step that first asks the database, which may throw too, and saves only if
\* the answer leaves something to do.
AskAndSave(ins, del, next, failed) ==
    \/ ins \cup del # {} /\ Save(ins, del, next, failed)
    \/ ins \cup del = {} /\ Skip(next)
    \/ CallFails /\ Goto(failed)

\* The closing date is written once.
CloseContract ==
    /\ pc = "closing"
    /\ AskAndSave(IF Of("closed", contract) = {} THEN {Row("closed", contract, 0)} ELSE {},
                  {}, "replacing", "contracts")
    /\ UNCHANGED <<external, polled, run, todo, left, restarts>>

\* Mutant of OldAgreement: the old agreement is not looked for.
NoOldAgreement(c) == {{}}

\* FirstOrDefault of the agreements of the contract: one of them, or none.
OldAgreement(c) == IF Of("agreement", c) = {} THEN {{}} ELSE {{row} : row \in Of("agreement", c)}

\* Mutant of ReplaceAgreement: the removal is saved first, as for a PDL.
ReplaceInTwoSaves ==
    /\ pc = "replacing"
    /\ \E old \in OldAgreement(contract) : AskAndSave({}, old, "adding", "clearing")
    /\ UNCHANGED <<external, polled, run, todo, left, restarts>>

\* An annuity: removal and addition in one save, in a try of its own.
ReplaceAgreement ==
    /\ pc = "replacing"
    /\ \E old \in OldAgreement(contract) :
           AskAndSave({Row("agreement", contract, 0)}, old, "clearing", "clearing")
    /\ UNCHANGED <<external, polled, run, todo, left, restarts>>

\* A PDL: the removal is saved first; if that throws the addition is skipped.
RemoveAgreement ==
    /\ pc = "removing"
    /\ \E old \in OldAgreement(contract) : AskAndSave({}, old, "adding", "clearing")
    /\ UNCHANGED <<external, polled, run, todo, left, restarts>>

AddAgreement ==
    /\ pc = "adding"
    /\ Save({Row("agreement", contract, 0)}, {}, "clearing", "clearing")
    /\ UNCHANGED <<external, polled, run, todo, left, restarts>>

\* All charges of the contract go; if that throws the job goes to the next one.
ClearCharges ==
    /\ pc = "clearing"
    /\ AskAndSave({}, Of("charge", contract), "months", "contracts")
    /\ left' = IF pc' = "months" THEN Months ELSE {}
    /\ UNCHANGED <<external, polled, run, todo, restarts>>

\* GetMonthSum throws when the old charges are gone: the contract is left
\* without any.
MonthsFail ==
    /\ pc = "months"
    /\ left = Months
    /\ CallFails
    /\ Goto("contracts")
    /\ left' = {}
    /\ UNCHANGED <<external, polled, run, todo, restarts>>

\* One charge a month, each in a try of its own.
AddCharge(m) ==
    /\ pc = "months"
    /\ m \in left
    /\ left' = left \ {m}
    /\ Save({Row("charge", contract, m)}, {}, "months", "months")
    /\ UNCHANGED <<external, polled, run, todo, restarts>>

EndContract ==
    /\ pc = "months"
    /\ left = {}
    /\ Skip("contracts")
    /\ UNCHANGED <<external, polled, run, todo, left, restarts>>

-----------------------------------------------------------------------------
JobStep ==
    \/ ListContracts \/ ListPayments \/ QueryFails
    \/ \E c \in Contracts : StartContract(c) \/ CalculatorFails(c) \/ UnknownType(c) \/ NullReference(c)
    \/ NoMoreContracts
    \/ CloseContract \/ ReplaceAgreement \/ RemoveAgreement \/ AddAgreement \/ ClearCharges
    \/ MonthsFail
    \/ \E m \in Months : AddCharge(m)
    \/ EndContract

WorkerStep == Poll \/ MarkComplete \/ WorkerFails \/ Wake \/ JobStep

Next ==
    \/ WorkerStep
    \/ NextDay
    \/ \E delivery \in Deliveries : Load(delivery)
    \/ Restart

\* The worker goes on; a day may last, data need not come, nobody has to restart.
Spec == Init /\ [][Next]_vars /\ WF_vars(WorkerStep)

-----------------------------------------------------------------------------
(* Properties *)

\* Whatever saves fail, whenever the service is restarted and however often a
\* day is run again, a contract has at most one agreement and one closing date,
\* and its charges were all made by one run: a rerun replaces and never adds
\* to what an earlier one left (the removals of Execute and its one context).
RegistersAreOfOneRun ==
    \A c \in Contracts :
        /\ \A r, s \in Of("agreement", c) : r = s
        /\ \A r, s \in Of("closed", c) : r = s
        /\ \A r, s \in Of("charge", c) : r.run = s.run

\* An annuity contract that has an agreement never is without one, not even
\* between two saves or after one that failed (removal and addition share a
\* save; a PDL contract has no such promise).
AgreementIsKept ==
    [][\A c \in Annuities : Of("agreement", c) # {} => Of("agreement", c)' # {}]_vars

Due(d) == {c \in Contracts : updated[c] = d \/ modified[c] = d}

\* A run in which no call failed, and which made its list on the day of its
\* event, marks the day complete only when every annuity and PDL contract of
\* that day has the agreement and all the charges of this very run (Worker and
\* Execute, which report nothing to one another).  A contract of another type is
\* due like them: the day is complete, and the registers hold nothing of it.
CleanRunsReportAll ==
    [][\A d \in Days : event[d] = "new" /\ event'[d] = "complete" /\ ~ spoiled =>
          \A c \in Due(d) :
              IF c \in Known
              THEN Row("agreement", c, 0) \in db /\ \A m \in Months : Row("charge", c, m) \in db
              ELSE \A row \in db : row.contract # c]_vars

\* What Execute does not catch: the queries and the save of the worker, the
\* queries of the lists, and a payment without a grace contract.
Uncaught == pc \in {"polling", "marking", "listing", "payments"} \/ todo \cap Orphans # {}

\* An event is served on its day if the day is long enough, unless the worker
\* dies; and it dies of nothing that concerns a contract it can report: no save
\* that fails and no calculator that throws ends the worker or holds it up (the
\* catches of Execute).
EventsAreServed ==
    /\ [][pc # "dead" /\ pc' = "dead" => Uncaught]_vars
    /\ \A d \in Days : event[d] = "new" ~> (event[d] = "complete" \/ day # d \/ pc = "dead")
=============================================================================
