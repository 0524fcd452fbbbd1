---------------------- MODULE PaymentUploadRefinement ----------------------
(***************************************************************************)
(* PaymentUpload implements PaymentLedger: every step of a request, of ABS *)
(* and of the clock is a step of the ledger or leaves it unchanged.        *)
(***************************************************************************)
EXTENDS PaymentUploadProofs

\* The ledger sees nothing but the dates, the bindings and the operations.
LEMMA LedgerStays ==
    ASSUME UNCHANGED <<storedOn, binding, insertedOn, operation>>
    PROVE  UNCHANGED <<LedgerStage, LedgerOutcome>>
BY DEF LedgerStage, LedgerOutcome

\* The stage of an order, case by case.
LEMMA StageOf ==
    ASSUME TypeOK, NEW r \in Rows
    PROVE  /\ binding[r] = "ProcessedSuccessfully" => LedgerStage[r] = "settled ok"
           /\ binding[r] = "ProccessedWithError" => LedgerStage[r] = "settled error"
           /\ binding[r] \in {"Scheduled", "BeingProcessed"} => LedgerStage[r] = "scheduled"
           /\ binding[r] = "none" /\ storedOn[r] # Never => LedgerStage[r] = "recorded"
           /\ binding[r] = "none" /\ storedOn[r] = Never /\ insertedOn[r] # Never => LedgerStage[r] = "sent"
           /\ binding[r] = "none" /\ storedOn[r] = Never /\ insertedOn[r] = Never => LedgerStage[r] = "new"
BY DEF LedgerStage, TypeOK, BindingStatus

LEMMA LedgerInit == Init => Ledger!Init
BY DEF Init, Ledger!Init, LedgerStage, LedgerOutcome, Never

LEMMA MassInsertSends ==
    ASSUME IInv, NEW u \in Uploads, NEW accepted \in SUBSET Chunk(u), NEW answer \in Replies,
           MassInsert(u, accepted, answer)
    PROVE  Ledger!Send(accepted)
<1>1. TypeOK /\ TypeOK'
  BY IInvType, MassInsertType
<1>2. pc[u] = "sending" /\ UNCHANGED <<storedOn, binding, operation>>
  BY DEF MassInsert, database
<1>3. \A r \in accepted : r \in Rows /\ r \in Chunk(u) /\ r \in FileRows(u)
  BY ChunkOwn DEF FileRows
<1>4. \A r \in accepted : binding[r] = "none" /\ storedOn[r] = Never /\ insertedOn[r] = Never
  BY <1>2, <1>3, ChunkOwn DEF IInv, Progress, AfterSave
<1>5. \A r \in Rows : insertedOn'[r] = IF r \in accepted THEN today ELSE insertedOn[r]
  BY <1>1 DEF MassInsert, Assign, TypeOK
<1>6. today # Never
  BY <1>1, MaxDayAssumption DEF TypeOK, Days, Never
<1>7. LedgerStage' = [r \in Rows |-> IF r \in accepted THEN "sent" ELSE LedgerStage[r]]
  BY <1>2, <1>4, <1>5, <1>6 DEF LedgerStage
<1>8. \A r \in accepted : LedgerStage[r] \in {"new"}
  BY <1>1, <1>3, <1>4, StageOf
<1>9. UNCHANGED LedgerOutcome
  BY <1>2 DEF LedgerOutcome
<1> QED BY <1>7, <1>8, <1>9 DEF Ledger!Send, Ledger!Advance

LEMMA SaveResultRecords ==
    ASSUME IInv, NEW u \in Uploads, SaveAbsSentResult(u)
    PROVE  Ledger!Record(Chunk(u))
<1>1. TypeOK
  BY IInvType
<1>2. pc[u] = "inserted" /\ UNCHANGED <<insertedOn, binding, operation>>
  BY DEF SaveAbsSentResult, abs
<1>3. \A r \in Chunk(u) : r \in Rows /\ r \in FileRows(u)
  BY ChunkOwn DEF FileRows
<1>4. \A r \in Chunk(u) : binding[r] = "none" /\ storedOn[r] = Never
  BY <1>2, <1>3, ChunkOwn DEF IInv, Progress, AfterSave
<1>5. \A r \in Rows : storedOn'[r] = IF r \in Chunk(u) THEN today ELSE storedOn[r]
  BY <1>1 DEF SaveAbsSentResult, SavedRows, Assign, TypeOK
<1>6. today # Never
  BY <1>1, MaxDayAssumption DEF TypeOK, Days, Never
<1>7. LedgerStage' = [r \in Rows |-> IF r \in Chunk(u) THEN "recorded" ELSE LedgerStage[r]]
  BY <1>2, <1>4, <1>5, <1>6 DEF LedgerStage
<1>8. \A r \in Chunk(u) : LedgerStage[r] \in {"new", "sent"}
  BY <1>1, <1>3, <1>4, StageOf
<1>9. UNCHANGED LedgerOutcome
  BY <1>2 DEF LedgerOutcome
<1> QED BY <1>7, <1>8, <1>9 DEF Ledger!Record, Ledger!Advance

LEMMA AddBindingsSchedules ==
    ASSUME IInv, NEW u \in Uploads, AddPaymentBindings(u)
    PROVE  Ledger!Schedule(toBind[u])
<1>1. TypeOK
  BY IInvType
<1>2. pc[u] = "found" /\ UNCHANGED <<storedOn, insertedOn, operation>>
  BY DEF AddPaymentBindings, abs
<1>3. \A r \in toBind[u] : r \in Rows /\ r \in Chunk(u) /\ r \in FileRows(u)
  BY ChunkOwn DEF IInv, Own, FileRows
<1>4. \A r \in toBind[u] : binding[r] = "none" /\ storedOn[r] # Never
  BY <1>2, <1>3, ChunkOwn DEF IInv, Progress, AfterSave
<1>5. \A r \in Rows : binding'[r] = IF r \in toBind[u] THEN "Scheduled" ELSE binding[r]
  BY <1>1 DEF AddPaymentBindings, Assign, TypeOK
<1>6. LedgerStage' = [r \in Rows |-> IF r \in toBind[u] THEN "scheduled" ELSE LedgerStage[r]]
  BY <1>2, <1>4, <1>5 DEF LedgerStage
<1>7. \A r \in toBind[u] : LedgerStage[r] \in {"recorded"}
  BY <1>1, <1>3, <1>4, StageOf
<1>8. UNCHANGED LedgerOutcome
  BY <1>2 DEF LedgerOutcome
<1> QED BY <1>6, <1>7, <1>8 DEF Ledger!Schedule, Ledger!Advance

\* To ask ABS for an operation is nothing the ledger sees.
LEMMA StartBindingStutters ==
    ASSUME IInv, NEW u \in Uploads, StartBinding(u)
    PROVE  UNCHANGED <<LedgerStage, LedgerOutcome>>
<1>1. PICK r \in toBind[u] : tracked[r] = "Scheduled" /\ operation' = [operation EXCEPT ![r] = "requested"]
  BY DEF StartBinding
<1>2. pc[u] = "executing" /\ UNCHANGED <<storedOn, binding, insertedOn>>
  BY DEF StartBinding, database
<1>3. operation[r] = "none"
  BY <1>1, <1>2 DEF IInv, Binding
<1>4. \A q \in Rows : operation'[q] = IF q = r THEN "requested" ELSE operation[q]
  BY <1>1, IInvType DEF TypeOK
<1>5. LedgerOutcome' = LedgerOutcome
  BY <1>3, <1>4 DEF LedgerOutcome
<1> QED BY <1>2, <1>5 DEF LedgerStage

LEMMA AbsExecuteOperates ==
    ASSUME IInv, NEW r \in Rows, AbsExecute(r)
    PROVE  \E result \in {"executed", "refused"} : Ledger!Operate(r, result)
<1>1. TypeOK
  BY IInvType
<1>2. PICK result \in {"executed", "refused"} : operation' = [operation EXCEPT ![r] = result]
  BY DEF AbsExecute
<1>3. operation[r] = "requested" /\ UNCHANGED <<storedOn, binding, insertedOn>>
  BY DEF AbsExecute, database
<1>4. binding[r] \in {"Scheduled", "ProccessedWithError"}
  BY <1>1, <1>3 DEF IInv, RecordedBeforeExecution, SuccessIsTrue, Outcomes, TypeOK, BindingStatus
<1>5. LedgerStage[r] \in {"scheduled", "settled error"}
  BY <1>1, <1>4, StageOf
<1>6. LedgerOutcome' = [LedgerOutcome EXCEPT ![r] = result]
  BY <1>1, <1>2 DEF LedgerOutcome, TypeOK
<1>7. LedgerOutcome[r] = "none"
  BY <1>3 DEF LedgerOutcome
<1>8. UNCHANGED LedgerStage
  BY <1>3 DEF LedgerStage
<1> QED BY <1>5, <1>6, <1>7, <1>8 DEF Ledger!Operate

LEMMA SaveBindingsSettles ==
    ASSUME IInv, NEW u \in Uploads, SaveBindings(u)
    PROVE  \E Good \in SUBSET Rows : Ledger!Settle(toBind[u], Good)
<1> DEFINE Good == {r \in toBind[u] : tracked[r] = "ProcessedSuccessfully"}
<1>1. TypeOK
  BY IInvType
<1>2. pc[u] = "executing" /\ UNCHANGED <<storedOn, insertedOn, operation>>
  BY DEF SaveBindings, abs
<1>3. \A r \in toBind[u] : r \in Rows /\ tracked[r] \in Final /\ binding[r] = "Scheduled"
  BY <1>1, <1>2 DEF SaveBindings, IInv, Binding, TypeOK
<1>4. \A r \in Rows : binding'[r] = IF r \in toBind[u] THEN tracked[r] ELSE binding[r]
  BY DEF SaveBindings
<1>5. LedgerStage' = [r \in Rows |-> IF r \in Good THEN "settled ok"
                                     ELSE IF r \in toBind[u] THEN "settled error" ELSE LedgerStage[r]]
  BY <1>2, <1>3, <1>4 DEF LedgerStage, Final
<1>6. \A r \in toBind[u] : LedgerStage[r] = "scheduled"
  BY <1>1, <1>3, StageOf
<1>7. \A r \in Good : LedgerOutcome[r] = "executed"
  BY <1>3 DEF IInv, Outcomes, LedgerOutcome
<1>8. UNCHANGED LedgerOutcome
  BY <1>2 DEF LedgerOutcome
<1>9. Good \subseteq toBind[u] /\ Good \in SUBSET Rows
  BY <1>3
<1>10. Ledger!Settle(toBind[u], Good)
  BY <1>5, <1>6, <1>7, <1>8, <1>9 DEF Ledger!Settle
<1> QED BY <1>9, <1>10

\* Five steps of a request change what is on record or what ABS has.
LEMMA UploadTouches ==
    ASSUME NEW u \in Uploads, UploadStep(u), TypeOK
    PROVE  \/ UNCHANGED <<database, abs>>
           \/ \E accepted \in SUBSET Chunk(u), answer \in Replies : MassInsert(u, accepted, answer)
           \/ SaveAbsSentResult(u)
           \/ AddPaymentBindings(u)
           \/ StartBinding(u)
           \/ SaveBindings(u)
<1>1. CASE FilterExistingOrder(u)
  BY <1>1 DEF FilterExistingOrder
<1>2. CASE MarkProcessedBefore(u)
  BY <1>2 DEF MarkProcessedBefore
<1>3. CASE ProcessUploadPaymentsResults(u)
  BY <1>3 DEF ProcessUploadPaymentsResults
<1>4. CASE GetPaymentsToBind(u)
  BY <1>4 DEF GetPaymentsToBind
<1>5. ASSUME NEW r \in Rows, BindingSucceeded(u, r) \/ BindingFailed(u, r) PROVE UNCHANGED <<database, abs>>
  BY <1>5 DEF BindingSucceeded, BindingFailed, EndBinding
<1>6. CASE SaveFile(u)
  BY <1>6 DEF SaveFile
<1>7. CASE NullReference(u)
  BY <1>7 DEF NullReference, Drop
<1> QED BY <1>1, <1>2, <1>3, <1>4, <1>5, <1>6, <1>7, UploadStepCases

\* Every step of a request, of ABS or of the clock is a step of the ledger, or none.
LEMMA LedgerNext == IInv /\ [Next]_vars => [Ledger!Next]_<<LedgerStage, LedgerOutcome>>
<1> SUFFICES ASSUME IInv, [Next]_vars, ~ UNCHANGED <<LedgerStage, LedgerOutcome>>
             PROVE  Ledger!Next
  OBVIOUS
<1>1. ~ UNCHANGED <<storedOn, binding, insertedOn, operation>>
  BY LedgerStays
<1>2. ASSUME NEW u \in Uploads, UploadStep(u) PROVE Ledger!Next
  <2>1. ASSUME NEW accepted \in SUBSET Chunk(u), NEW answer \in Replies, MassInsert(u, accepted, answer)
        PROVE  Ledger!Next
    <3>1. accepted \in SUBSET Rows
      BY IInvType, ChunkBounds
    <3> QED BY <2>1, <3>1, MassInsertSends DEF Ledger!Next
  <2>2. CASE SaveAbsSentResult(u)
    BY <2>2, SaveResultRecords, IInvType, ChunkBounds DEF Ledger!Next
  <2>3. CASE AddPaymentBindings(u)
    BY <2>3, AddBindingsSchedules, IInvType DEF Ledger!Next, TypeOK
  <2>4. CASE SaveBindings(u)
    BY <2>4, SaveBindingsSettles, IInvType DEF Ledger!Next, TypeOK
  <2>5. ~ StartBinding(u)
    BY StartBindingStutters
  <2>6. ~ UNCHANGED <<database, abs>>
    BY <1>1 DEF database, abs
  <2> QED BY <1>2, <2>1, <2>2, <2>3, <2>4, <2>5, <2>6, IInvType, UploadTouches
<1>3. ASSUME NEW u \in Uploads, Begin(u) \/ Fail(u) PROVE FALSE
  BY <1>1, <1>3 DEF Begin, Fail, Drop, database, abs
<1>4. ASSUME NEW r \in Rows, AbsExecute(r) PROVE Ledger!Next
  BY <1>4, AbsExecuteOperates DEF Ledger!Next
<1>5. ~ NextDay /\ ~ UNCHANGED vars
  BY <1>1 DEF NextDay, vars, database, abs
<1> QED BY <1>2, <1>3, <1>4, <1>5 DEF Next

\* PaymentUpload implements PaymentLedger: however requests, blocks, exceptions
\* and late answers interleave, an order takes each step of its life once and
\* ABS operates only on orders scheduled on record.
THEOREM UploadImplementsLedger == Spec => ImplementsLedger
BY LedgerInit, LedgerNext, Inductive, PTL DEF Spec, ImplementsLedger, Ledger!Spec, Ledger!vars

\* What is on record stays (SaveAbsSentResult, AddPaymentBindings, SaveChangesAsync).
THEOREM RecordsAreFinalHolds == Spec => RecordsAreFinal
<1> DEFINE Step == \A r \in Rows :
        /\ storedOn[r] # Never => storedOn'[r] = storedOn[r] /\ (r \in rejected' <=> r \in rejected)
        /\ \/ binding'[r] = binding[r]
           \/ binding[r] = "none" /\ binding'[r] = "Scheduled"
           \/ binding[r] = "Scheduled" /\ binding'[r] \in Final
<1>1. ASSUME IInv, [Next]_vars PROVE Step
  <2>1. CASE UNCHANGED <<storedOn, rejected, binding>>
    BY <2>1
  <2>2. ASSUME NEW u \in Uploads, SaveAbsSentResult(u) PROVE Step
    <3>1. pc[u] = "inserted" /\ UNCHANGED binding /\ rejected' = rejected \cup ErrorRows(u)
      BY <2>2 DEF SaveAbsSentResult
    <3>2. \A r \in Rows : storedOn'[r] = IF r \in Chunk(u) THEN today ELSE storedOn[r]
      BY <1>1, <2>2, IInvType DEF SaveAbsSentResult, SavedRows, Assign, TypeOK
    <3>3. \A r \in Chunk(u) : storedOn[r] = Never
      BY <1>1, <3>1, ChunkOwn DEF IInv, Progress, AfterSave, FileRows
    <3>4. ErrorRows(u) \subseteq Chunk(u)
      BY DEF ErrorRows
    <3> QED BY <3>1, <3>2, <3>3, <3>4
  <2>3. ASSUME NEW u \in Uploads, AddPaymentBindings(u) PROVE Step
    <3>1. pc[u] = "found" /\ UNCHANGED <<storedOn, rejected>>
      BY <2>3 DEF AddPaymentBindings
    <3>2. \A r \in Rows : binding'[r] = IF r \in toBind[u] THEN "Scheduled" ELSE binding[r]
      BY <1>1, <2>3, IInvType DEF AddPaymentBindings, Assign, TypeOK
    <3>3. \A r \in toBind[u] : binding[r] = "none"
      BY <1>1, <3>1, ChunkOwn DEF IInv, Own, Progress, FileRows
    <3> QED BY <3>1, <3>2, <3>3
  <2>4. ASSUME NEW u \in Uploads, SaveBindings(u) PROVE Step
    BY <1>1, <2>4 DEF SaveBindings, IInv, Binding
  <2>5. ASSUME NEW u \in Uploads, UploadStep(u) PROVE Step
    <3>1. ASSUME NEW accepted, NEW answer, MassInsert(u, accepted, answer)
          PROVE  UNCHANGED <<storedOn, rejected, binding>>
      BY <3>1 DEF MassInsert, database
    <3>2. UNCHANGED <<database, abs>> \/ StartBinding(u) => UNCHANGED <<storedOn, rejected, binding>>
      BY DEF database, StartBinding
    <3> HIDE DEF Step
    <3> QED BY <1>1, <2>1, <2>2, <2>3, <2>4, <2>5, <3>1, <3>2, IInvType, UploadTouches
  <2>6. ASSUME NEW u \in Uploads, Begin(u) \/ Fail(u) PROVE UNCHANGED <<storedOn, rejected, binding>>
    BY <2>6 DEF Begin, Fail, Drop, database
  <2>7. ASSUME NEW r \in Rows, AbsExecute(r) PROVE UNCHANGED <<storedOn, rejected, binding>>
    BY <2>7 DEF AbsExecute, database
  <2>8. NextDay \/ UNCHANGED vars => UNCHANGED <<storedOn, rejected, binding>>
    BY DEF NextDay, vars, database
  <2> QED BY <1>1, <2>1, <2>5, <2>6, <2>7, <2>8 DEF Next
<1>2. IInv /\ [Next]_vars => [Step]_vars
  BY <1>1
<1>3. RecordsAreFinal <=> [][Step]_vars
  BY DEF RecordsAreFinal
<1> QED BY <1>2, <1>3, Inductive, PTL DEF Spec
=============================================================================
