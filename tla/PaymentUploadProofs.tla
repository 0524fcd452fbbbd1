------------------------ MODULE PaymentUploadProofs ------------------------
(***************************************************************************)
(* Proofs about PaymentUpload, for any requests, files, block size (zero   *)
(* included) and calendar.                                                 *)
(***************************************************************************)
EXTENDS PaymentUpload, TLAPS, FiniteSetTheorems

-----------------------------------------------------------------------------
(* Positions and blocks *)

\* A position in filteredpayments is a natural number.
LEMMA RankType ==
    ASSUME NEW S \in SUBSET Rows, NEW r
    PROVE  Rank(r, S) \in Nat
<1>1. IsFiniteSet({q \in S : q < r})
  BY FS_Subset, RowsAssumption
<1> QED BY <1>1, FS_CardinalityType DEF Rank

\* A position is less than the length of the array.
LEMMA RankBound ==
    ASSUME NEW S \in SUBSET Rows, NEW r \in S
    PROVE  Rank(r, S) < Cardinality(S)
<1> DEFINE before == {q \in S : q < r}
<1>1. IsFiniteSet(S) /\ IsFiniteSet(S \ {r})
  BY FS_Subset, RowsAssumption
<1>2. before \subseteq S \ {r}
  BY RowsAssumption
<1>3. Cardinality(before) <= Cardinality(S \ {r}) /\ Cardinality(S \ {r}) = Cardinality(S) - 1
  BY <1>1, <1>2, FS_Subset, FS_RemoveElement
<1>4. Cardinality(before) \in Nat /\ Cardinality(S) \in Nat
  BY <1>1, <1>2, FS_Subset, FS_CardinalityType
<1> QED BY <1>3, <1>4 DEF Rank

\* The block holds the orders whose position is at least i and less than
\* i + maxBlockSize, where the loop goes on.
LEMMA ChunkBounds ==
    ASSUME TypeOK, NEW u \in Uploads
    PROVE  /\ Chunk(u) = {r \in filtered[u] : from[u] <= Rank(r, filtered[u])
                                              /\ Rank(r, filtered[u]) < NextBlock(u)}
           /\ Chunk(u) \subseteq Rows
           /\ NextBlock(u) \in Nat
           /\ from[u] <= NextBlock(u)
<1>1. filtered[u] \subseteq Rows /\ from[u] \in Nat
  BY DEF TypeOK
<1>2. \A r \in filtered[u] : Rank(r, filtered[u]) \in Nat
  BY <1>1, RankType
<1> QED BY <1>1, <1>2, MaxBlockSizeAssumption DEF Chunk, NextBlock

\* A LinkID is a natural number.
LEMMA LinkIdType ==
    ASSUME TypeOK, NEW u \in Uploads, NEW r \in Chunk(u)
    PROVE  LinkId(u, r) \in Nat
<1>1. filtered[u] \subseteq Rows /\ from[u] \in Nat
  BY DEF TypeOK
<1>2. Rank(r, filtered[u]) \in Nat
  BY <1>1, RankType
<1> QED BY <1>1, <1>2, ChunkBounds DEF LinkId, BlockIndex

-----------------------------------------------------------------------------
(* Type correctness *)

LEMMA InitType == Init => TypeOK
BY MaxDayAssumption DEF Init, TypeOK, FileRows, Days, PcValues, Replies, Shown, Operations

LEMMA BeginType == ASSUME TypeOK, NEW u \in Uploads, Begin(u) PROVE TypeOK'
BY DEF TypeOK, Begin, Goto, PcValues, database, abs

LEMMA FilterType == ASSUME TypeOK, NEW u \in Uploads, FilterExistingOrder(u) PROVE TypeOK'
BY DEF TypeOK, FilterExistingOrder, database, abs, history

LEMMA MarkType == ASSUME TypeOK, NEW u \in Uploads, MarkProcessedBefore(u) PROVE TypeOK'
BY DEF TypeOK, MarkProcessedBefore, Goto, Assign, PcValues, Shown, database, abs, history

LEMMA MassInsertType ==
    ASSUME TypeOK, NEW u \in Uploads, NEW accepted, NEW answer \in Replies, MassInsert(u, accepted, answer)
    PROVE  TypeOK'
<1>1. Listed(u, answer.errors) \subseteq Rows
  BY ChunkBounds DEF Listed
<1> QED BY <1>1 DEF TypeOK, MassInsert, Goto, Assign, PcValues, database

LEMMA SaveResultType == ASSUME TypeOK, NEW u \in Uploads, SaveAbsSentResult(u) PROVE TypeOK'
<1>1. ErrorRows(u) \subseteq Rows
  BY ChunkBounds DEF ErrorRows
<1> QED BY <1>1 DEF TypeOK, SaveAbsSentResult, Goto, Assign, PcValues, abs, history

LEMMA ProcessResultsType == ASSUME TypeOK, NEW u \in Uploads, ProcessUploadPaymentsResults(u) PROVE TypeOK'
BY DEF TypeOK, ProcessUploadPaymentsResults, Goto, Assign, PcValues, Shown, database, abs, history

LEMMA GetPaymentsType == ASSUME TypeOK, NEW u \in Uploads, GetPaymentsToBind(u) PROVE TypeOK'
<1>1. BindCandidates(u) \subseteq Rows
  BY ChunkBounds DEF BindCandidates
<1>2. PICK pairs \in SUBSET BindCandidates(u) :
         /\ toBind' = [toBind EXCEPT ![u] = pairs]
         /\ shown' = Assign(shown, BindCandidates(u) \ pairs, "contract not found")
  BY DEF GetPaymentsToBind
<1>3. toBind' \in [Uploads -> SUBSET Rows] /\ shown' \in [Rows -> Shown]
  BY <1>1, <1>2 DEF TypeOK, Assign, Shown
<1>4. pc' \in [Uploads -> PcValues]
  BY DEF TypeOK, GetPaymentsToBind, Goto, PcValues
<1> QED BY <1>3, <1>4 DEF TypeOK, GetPaymentsToBind, database, abs, history

LEMMA AddBindingsType == ASSUME TypeOK, NEW u \in Uploads, AddPaymentBindings(u) PROVE TypeOK'
BY DEF TypeOK, AddPaymentBindings, Goto, Assign, PcValues, Shown, BindingStatus, abs, history

LEMMA StartBindingType == ASSUME TypeOK, NEW u \in Uploads, StartBinding(u) PROVE TypeOK'
<1>1. PICK r \in Rows : /\ tracked' = [tracked EXCEPT ![r] = "BeingProcessed"]
                        /\ operation' = [operation EXCEPT ![r] = "requested"]
                        /\ shown' = [shown EXCEPT ![r] = "in progress"]
  BY DEF TypeOK, StartBinding
<1>2. UNCHANGED <<today, pc, unread, filtered, from, reply, toBind, database, insertedOn, storedBefore, warned>>
  BY DEF StartBinding, history
<1> QED BY <1>1, <1>2 DEF TypeOK, Shown, BindingStatus, Operations, database

LEMMA AbsExecuteType == ASSUME TypeOK, NEW r \in Rows, AbsExecute(r) PROVE TypeOK'
BY DEF TypeOK, AbsExecute, Operations, local, database, history

LEMMA EndBindingType ==
    ASSUME TypeOK, NEW u \in Uploads, NEW r \in Rows, NEW status \in BindingStatus, NEW text \in Shown,
           EndBinding(u, r, status, text)
    PROVE  TypeOK'
BY DEF TypeOK, EndBinding, database, abs, history

LEMMA SaveBindingsType == ASSUME TypeOK, NEW u \in Uploads, SaveBindings(u) PROVE TypeOK'
<1>1. NextBlock(u) \in Nat
  BY ChunkBounds
<1> QED BY <1>1 DEF TypeOK, SaveBindings, Goto, PcValues, abs, history

LEMMA SaveFileType == ASSUME TypeOK, NEW u \in Uploads, SaveFile(u) PROVE TypeOK'
BY DEF TypeOK, SaveFile, Goto, PcValues, database, abs, history

LEMMA DropType == ASSUME TypeOK, NEW u \in Uploads, Drop(u) PROVE TypeOK'
BY DEF TypeOK, Drop, Goto, Assign, PcValues, Shown, database, abs, history

LEMMA NextDayType == ASSUME TypeOK, NextDay PROVE TypeOK'
BY MaxDayAssumption DEF TypeOK, NextDay, Days, local, database, abs, history

\* Every step of a request, by the action it is.
LEMMA UploadStepCases ==
    ASSUME NEW u \in Uploads, UploadStep(u), TypeOK
    PROVE  \/ FilterExistingOrder(u)
           \/ MarkProcessedBefore(u)
           \/ \E accepted \in SUBSET Chunk(u), answer \in Replies : MassInsert(u, accepted, answer)
           \/ SaveAbsSentResult(u)
           \/ ProcessUploadPaymentsResults(u)
           \/ GetPaymentsToBind(u)
           \/ AddPaymentBindings(u)
           \/ StartBinding(u)
           \/ \E r \in Rows : BindingSucceeded(u, r)
           \/ \E r \in Rows : BindingFailed(u, r)
           \/ SaveBindings(u)
           \/ SaveFile(u)
           \/ NullReference(u)
<1>1. \A errors \in SUBSET LinkIds(u), status \in {"OK", "Error"} :
         [status |-> status, errors |-> errors] \in Replies
  BY LinkIdType DEF LinkIds, Replies
<1>2. \A links : Listed(u, links) \subseteq Chunk(u)
  BY DEF Listed
<1>3. CASE UploadAccepted(u)
  <2>1. PICK errors \in SUBSET LinkIds(u) : \E taken \in SUBSET Listed(u, errors) :
           MassInsert(u, (Chunk(u) \ Listed(u, errors)) \cup taken, [status |-> "OK", errors |-> errors])
    BY <1>3 DEF UploadAccepted
  <2>2. \A taken \in SUBSET Listed(u, errors) : (Chunk(u) \ Listed(u, errors)) \cup taken \in SUBSET Chunk(u)
    BY <1>2
  <2> QED BY <1>1, <2>1, <2>2
<1>4. CASE UploadPartlyRejected(u)
  <2>1. PICK errors \in SUBSET LinkIds(u) :
           MassInsert(u, Chunk(u) \ Listed(u, errors), [status |-> "Error", errors |-> errors])
    BY <1>4 DEF UploadPartlyRejected
  <2> QED BY <1>1, <2>1
<1>5. CASE UploadFailedUnlisted(u)
  BY <1>5 DEF UploadFailedUnlisted, Replies
<1> QED BY <1>3, <1>4, <1>5 DEF UploadStep

LEMMA NextType == TypeOK /\ [Next]_vars => TypeOK'
<1> SUFFICES ASSUME TypeOK, [Next]_vars PROVE TypeOK'
  OBVIOUS
<1>1. ASSUME NEW u \in Uploads, Begin(u) PROVE TypeOK'
  BY <1>1, BeginType
<1>2. ASSUME NEW u \in Uploads, UploadStep(u) PROVE TypeOK'
  <2>1. ASSUME NEW r \in Rows, BindingSucceeded(u, r) PROVE TypeOK'
    BY <2>1, EndBindingType DEF BindingSucceeded, BindingStatus, Shown
  <2>2. ASSUME NEW r \in Rows, BindingFailed(u, r) PROVE TypeOK'
    BY <2>2, EndBindingType DEF BindingFailed, BindingStatus, Shown
  <2>3. ASSUME NullReference(u) PROVE TypeOK'
    BY <2>3, DropType DEF NullReference
  <2> QED
    BY <1>2, <2>1, <2>2, <2>3, UploadStepCases, FilterType, MarkType, MassInsertType, SaveResultType,
       ProcessResultsType, GetPaymentsType, AddBindingsType, StartBindingType, SaveBindingsType, SaveFileType
<1>3. ASSUME NEW u \in Uploads, Fail(u) PROVE TypeOK'
  BY <1>3, DropType DEF Fail
<1>4. ASSUME NEW r \in Rows, AbsExecute(r) PROVE TypeOK'
  BY <1>4, AbsExecuteType
<1>5. CASE NextDay
  BY <1>5, NextDayType
<1>6. CASE UNCHANGED vars
  BY <1>6 DEF TypeOK, vars, local, database, abs, history
<1> QED BY <1>1, <1>2, <1>3, <1>4, <1>5, <1>6 DEF Next

\* Every variable keeps its type: positions and LinkIDs are natural numbers,
\* dates stay in the calendar (all of SendPaymentOrders).
THEOREM TypeCorrect == Spec => []TypeOK
BY InitType, NextType, PTL DEF Spec

-----------------------------------------------------------------------------
(* The inductive invariant *)

\* The order's block is over.
Past(u, r) == r \in filtered[u] /\ Rank(r, filtered[u]) < from[u]

AfterSave == {"recorded", "marked", "found", "executing"}

\* A request works on lines of its own file, and on nothing before it begins.
Own ==
    \A u \in Uploads :
        /\ filtered[u] \subseteq FileRows(u)
        /\ unread[u] \subseteq FileRows(u)
        /\ toBind[u] \subseteq Chunk(u)
        /\ toBind[u] # {} => pc[u] \in {"found", "executing"}
        /\ pc[u] = "idle" => filtered[u] = {} /\ storedBefore[u] = {}
        /\ pc[u] \in {"idle", "filtering"} => from[u] = 0

\* Which steps an order has taken follows from where its block is: before the
\* block nothing, after it everything, in the block what pc tells.
Progress ==
    \A u \in Uploads : \A r \in FileRows(u) :
        /\ insertedOn[r] # Never =>
             /\ pc[u] \notin {"idle", "filtering"}
             /\ Past(u, r) \/ (r \in Chunk(u) /\ pc[u] \in {"inserted", "failed"} \cup AfterSave)
        /\ r \in warned =>
             /\ pc[u] \notin {"idle", "filtering"}
             /\ Past(u, r) \/ (r \in Chunk(u) /\ pc[u] \in {"inserted", "failed"} \cup AfterSave)
        /\ storedOn[r] # Never =>
             /\ pc[u] \notin {"idle", "filtering"}
             /\ Past(u, r) \/ (r \in Chunk(u) /\ pc[u] \in {"failed"} \cup AfterSave)
        /\ binding[r] # "none" =>
             \/ Past(u, r)
             \/ r \in Chunk(u) /\ (pc[u] = "failed" \/ (pc[u] = "executing" /\ r \in toBind[u]))
        /\ Past(u, r) => storedOn[r] # Never /\ binding[r] \in Final \cup {"none"}
        /\ r \in Chunk(u) /\ pc[u] \in AfterSave => storedOn[r] # Never

\* The errors on record are those of the answer, order by order.
Errors ==
    /\ \A r \in rejected : storedOn[r] # Never
    /\ \A u \in Uploads : \A r \in Chunk(u) :
        pc[u] \in {"recorded", "marked"} => (r \in rejected <=> r \in ErrorRows(u))

\* The orders about to be bound, and those being bound: ABS has not been called
\* for those whose task has not started.
Binding ==
    \A u \in Uploads : \A r \in toBind[u] :
        /\ insertedOn[r] # Never /\ r \notin rejected /\ r \in WithContract
        /\ pc[u] = "executing" =>
             binding[r] = "Scheduled" /\ (tracked[r] = "Scheduled" => operation[r] = "none")

\* A status in memory and on record says what ABS did.
Outcomes ==
    \A r \in Rows :
        /\ tracked[r] = "ProcessedSuccessfully" => operation[r] = "executed"
        /\ binding[r] # "BeingProcessed"

\* No date lies ahead.
Dates == \A r \in Rows : storedOn[r] <= today /\ insertedOn[r] <= today

\* What was on record when a request began was put on record before the day
\* the request's own copy passed the filter, and so before it was inserted.
History ==
    \A u \in Uploads : \A r \in storedBefore[u] :
        /\ storedOn[r] # Never
        /\ \A s \in filtered[u] : KeyOf[r] = KeyOf[s] => storedOn[r] < today
        /\ \A s \in FileRows(u) : KeyOf[r] = KeyOf[s] /\ insertedOn[s] # Never => storedOn[r] < insertedOn[s]

IInv ==
    /\ TypeOK
    /\ Own
    /\ Progress
    /\ Errors
    /\ Binding
    /\ Outcomes
    /\ Dates
    /\ History
    /\ BoundOnlyIfLoaded
    /\ RecordedBeforeExecution
    /\ SuccessIsTrue

LEMMA IInvType == IInv => TypeOK
BY DEF IInv

\* Blocks move only with filteredpayments and the loop variable.
LEMMA BlocksStay ==
    ASSUME filtered' = filtered, from' = from
    PROVE  \A v \in Uploads : Chunk(v)' = Chunk(v) /\ \A r : Past(v, r)' <=> Past(v, r)
BY DEF Chunk, Past, Rank

LEMMA ErrorRowsStay ==
    ASSUME filtered' = filtered, from' = from
    PROVE  \A v \in Uploads : reply'[v] = reply[v] => ErrorRows(v)' = ErrorRows(v)
BY DEF Chunk, ErrorRows, BlockIndex, Rank

\* A line of the block is a line of the file, its own request's only.
LEMMA ChunkOwn ==
    ASSUME IInv, NEW u \in Uploads
    PROVE  /\ Chunk(u) \subseteq FileRows(u)
           /\ \A v \in Uploads : v # u => Chunk(u) \cap FileRows(v) = {}
           /\ \A r \in Chunk(u) : ~ Past(u, r)
<1>1. /\ \A r \in Chunk(u) : r \in filtered[u] /\ from[u] <= Rank(r, filtered[u])
      /\ filtered[u] \subseteq Rows /\ from[u] \in Nat
  BY IInvType, ChunkBounds DEF TypeOK
<1>2. \A r \in Chunk(u) : Rank(r, filtered[u]) \in Nat
  BY <1>1, RankType
<1>3. \A r \in Chunk(u) : ~ Past(u, r)
  BY <1>1, <1>2 DEF Past
<1> QED BY <1>1, <1>3 DEF IInv, Own, FileRows

\* What the database and ABS hold and where the blocks are decides these parts.
LEMMA RecordsStay ==
    ASSUME IInv, UNCHANGED <<today, storedOn, rejected, binding, insertedOn, operation>>
    PROVE  /\ Dates'
           /\ BoundOnlyIfLoaded'
           /\ RecordedBeforeExecution'
           /\ SuccessIsTrue'
BY DEF IInv, Dates, BoundOnlyIfLoaded, RecordedBeforeExecution, SuccessIsTrue

LEMMA InitInv == Init => IInv
<1> SUFFICES ASSUME Init PROVE IInv
  OBVIOUS
<1>1. TypeOK
  BY InitType
<1>2. Own
  BY DEF Init, Own
<1>3. Progress
  BY DEF Init, Progress, Past, Chunk, FileRows
<1>4. Errors /\ Binding /\ Outcomes /\ Dates /\ History
  BY DEF Init, Errors, Binding, Outcomes, Dates, History, Never, Chunk
<1>5. BoundOnlyIfLoaded /\ RecordedBeforeExecution /\ SuccessIsTrue
  BY DEF Init, BoundOnlyIfLoaded, RecordedBeforeExecution, SuccessIsTrue
<1> QED BY <1>1, <1>2, <1>3, <1>4, <1>5 DEF IInv

LEMMA BeginInv == ASSUME IInv, NEW u \in Uploads, Begin(u) PROVE IInv'
<1>1. TypeOK'
  BY IInvType, BeginType
<1>2. UNCHANGED <<filtered, from, reply, toBind, tracked, database, abs, today, warned>>
  BY DEF Begin
<1>3. Dates' /\ BoundOnlyIfLoaded' /\ RecordedBeforeExecution' /\ SuccessIsTrue'
  BY <1>2, RecordsStay DEF database, abs
<1>4. Own'
  BY <1>2, BlocksStay DEF IInv, Own, Begin, Goto, TypeOK
<1>5. Progress'
  BY <1>2, BlocksStay DEF IInv, Progress, Own, Begin, Goto, TypeOK, AfterSave, database, abs
<1>6. Errors'
  BY <1>2, BlocksStay, ErrorRowsStay DEF IInv, Errors, Begin, Goto, TypeOK, database
<1>7. Binding' /\ Outcomes'
  BY <1>2 DEF IInv, Binding, Outcomes, Begin, Goto, TypeOK, database, abs
<1>8. History'
  BY <1>2 DEF IInv, History, Own, Progress, Begin, Goto, TypeOK, database, abs
<1> QED BY <1>1, <1>3, <1>4, <1>5, <1>6, <1>7, <1>8 DEF IInv

LEMMA MarkInv == ASSUME IInv, NEW u \in Uploads, MarkProcessedBefore(u) PROVE IInv'
<1>1. TypeOK'
  BY IInvType, MarkType
<1>2. UNCHANGED <<filtered, from, reply, toBind, tracked, database, abs, today, storedBefore, warned>>
  BY DEF MarkProcessedBefore, history
<1>3. Dates' /\ BoundOnlyIfLoaded' /\ RecordedBeforeExecution' /\ SuccessIsTrue'
  BY <1>2, RecordsStay DEF database, abs
<1>4. Own'
  BY <1>2, BlocksStay DEF IInv, Own, MarkProcessedBefore, Goto, TypeOK
<1>5. pc[u] = "filtering" /\ pc' = [pc EXCEPT ![u] = "sending"]
  BY DEF MarkProcessedBefore, Goto
<1>8. Progress'
  BY <1>2, <1>5, BlocksStay DEF IInv, Progress, TypeOK, AfterSave, database, abs
<1>6. Errors'
  BY <1>2, <1>5, BlocksStay, ErrorRowsStay DEF IInv, Errors, TypeOK, database
<1>7. Outcomes' /\ History'
  BY <1>2 DEF IInv, Outcomes, History, database, abs
<1>9. Binding'
  BY <1>2, <1>5 DEF IInv, Binding, TypeOK, database, abs
<1> QED BY <1>1, <1>3, <1>4, <1>6, <1>7, <1>8, <1>9 DEF IInv

\* The order that passes the filter has no copy on record today.
LEMMA FilterInv == ASSUME IInv, NEW u \in Uploads, FilterExistingOrder(u) PROVE IInv'
<1>1. TypeOK'
  BY IInvType, FilterType
<1>2. UNCHANGED <<pc, from, reply, toBind, tracked, database, abs, today, storedBefore, warned>>
  BY DEF FilterExistingOrder, history
<1>3. Dates' /\ BoundOnlyIfLoaded' /\ RecordedBeforeExecution' /\ SuccessIsTrue'
  BY <1>2, RecordsStay DEF database, abs
<1>4. PICK r \in unread[u] :
         filtered' = [filtered EXCEPT ![u] = IF Exists(r) THEN @ ELSE @ \cup {r}]
  BY DEF FilterExistingOrder
<1>5. pc[u] = "filtering" /\ from[u] = 0 /\ toBind[u] = {} /\ r \in FileRows(u) /\ r \in Rows
  BY DEF IInv, Own, FilterExistingOrder, FileRows
<1>6. \A v \in Uploads : v # u =>
         Chunk(v)' = Chunk(v) /\ ErrorRows(v)' = ErrorRows(v) /\ \A s : Past(v, s)' <=> Past(v, s)
  BY <1>2, <1>4, IInvType DEF Chunk, ErrorRows, BlockIndex, Past, Rank, TypeOK
<1>7. \A s : ~ Past(u, s)'
  <2>1. filtered'[u] \in SUBSET Rows /\ from'[u] = 0
    BY <1>1, <1>2, <1>5 DEF TypeOK
  <2>2. \A s : Rank(s, filtered'[u]) \in Nat
    BY <2>1, RankType
  <2>3. \A s : ~ (Rank(s, filtered'[u]) < 0)
    BY <2>2
  <2> QED BY <2>1, <2>3 DEF Past, Rank
<1>8. Own'
  BY <1>2, <1>4, <1>5, <1>6, IInvType DEF IInv, Own, FilterExistingOrder, TypeOK
<1>9. Progress'
  BY <1>2, <1>5, <1>6, <1>7 DEF IInv, Progress, AfterSave, database, abs
<1>10. Errors' /\ Binding' /\ Outcomes'
  BY <1>2, <1>5, <1>6 DEF IInv, Errors, Binding, Outcomes, database, abs
<1>11. History'
  <2>1. ASSUME NEW q \in storedBefore[u], KeyOf[q] = KeyOf[r], ~ Exists(r)
        PROVE  storedOn[q] < today
    <3>1. q \in Rows /\ storedOn[q] \in Nat /\ today \in Nat
      BY IInvType, MaxDayAssumption DEF TypeOK, Days, Never
    <3>2. storedOn[q] <= today /\ storedOn[q] # today
      BY <2>1, <3>1 DEF IInv, Dates, Exists
    <3> QED BY <3>1, <3>2
  <2>2. UNCHANGED <<storedOn, insertedOn, today, storedBefore, warned>>
    BY <1>2 DEF database, abs
  <2>3. \A v \in Uploads : filtered'[v] = IF v = u /\ ~ Exists(r) THEN filtered[v] \cup {r} ELSE filtered[v]
    BY <1>4, IInvType DEF TypeOK
  <2>4. ASSUME NEW v \in Uploads, NEW q \in storedBefore[v], NEW t \in filtered'[v], KeyOf[q] = KeyOf[t]
        PROVE  storedOn[q] < today
    <3>1. CASE t \in filtered[v]
      BY <2>4, <3>1 DEF IInv, History
    <3>2. CASE t \notin filtered[v]
      BY <2>1, <2>3, <2>4, <3>2
    <3> QED BY <3>1, <3>2
  <2> QED BY <2>2, <2>4 DEF IInv, History
<1> QED BY <1>1, <1>3, <1>8, <1>9, <1>10, <1>11 DEF IInv

\* ABS takes orders of a block none of which it has, on a day later than any
\* copy that was on record when the request began.
LEMMA MassInsertInv ==
    ASSUME IInv, NEW u \in Uploads, NEW accepted \in SUBSET Chunk(u), NEW answer \in Replies,
           MassInsert(u, accepted, answer)
    PROVE  IInv'
<1>1. TypeOK'
  BY IInvType, MassInsertType
<1>2. UNCHANGED <<filtered, from, toBind, tracked, database, operation, today, storedBefore>>
  BY DEF MassInsert
<1>3. pc[u] = "sending" /\ pc' = [pc EXCEPT ![u] = "inserted"] /\ reply' = [reply EXCEPT ![u] = answer]
  BY DEF MassInsert, Goto
<1>4. today \in Nat \ {0} /\ \A r \in Rows : insertedOn'[r] = IF r \in accepted THEN today ELSE insertedOn[r]
  BY IInvType, MaxDayAssumption DEF MassInsert, Assign, TypeOK, Days
<1>5. accepted \subseteq Rows
  BY IInvType, ChunkBounds
<1>6. Own'
  <2>1. \A v \in Uploads : toBind[v] # {} => v # u
    BY <1>3 DEF IInv, Own
  <2> QED BY <1>2, <1>3, <2>1, BlocksStay, IInvType DEF IInv, Own, TypeOK, MassInsert
<1>7. Progress'
  <2>1. \A r \in warned' : r \in warned \/ r \in Chunk(u)
    BY DEF MassInsert, Listed
  <2> QED BY <1>2, <1>3, <1>4, <2>1, BlocksStay, ChunkOwn DEF IInv, Progress, AfterSave, TypeOK, FileRows, database
<1>8. Errors'
  BY <1>2, <1>3, BlocksStay, ErrorRowsStay DEF IInv, Errors, TypeOK, database
<1>9. Binding' /\ Outcomes'
  BY <1>2, <1>3, <1>4 DEF IInv, Binding, Outcomes, TypeOK, database, Never
<1>10. Dates'
  BY <1>2, <1>4, IInvType DEF IInv, Dates, TypeOK, Days, Never, database
<1>11. History'
  BY <1>2, <1>4, ChunkOwn, ChunkBounds, IInvType DEF IInv, History, FileRows, database
<1>12. BoundOnlyIfLoaded' /\ RecordedBeforeExecution' /\ SuccessIsTrue'
  BY <1>2, <1>4 DEF IInv, BoundOnlyIfLoaded, RecordedBeforeExecution, SuccessIsTrue, Never, database
<1> QED BY <1>1, <1>6, <1>7, <1>8, <1>9, <1>10, <1>11, <1>12 DEF IInv

\* The orders put on record were not on record before: nothing on record changes.
LEMMA SaveResultInv == ASSUME IInv, NEW u \in Uploads, SaveAbsSentResult(u) PROVE IInv'
<1>1. TypeOK'
  BY IInvType, SaveResultType
<1>2. UNCHANGED <<unread, filtered, from, reply, toBind, tracked, binding, abs, today, storedBefore, warned>>
  BY DEF SaveAbsSentResult, history
<1>3. pc[u] = "inserted" /\ pc' = [pc EXCEPT ![u] = "recorded"] /\ rejected' = rejected \cup ErrorRows(u)
  BY DEF SaveAbsSentResult, Goto
<1>4. today \in Nat \ {0} /\ \A r \in Rows : storedOn'[r] = IF r \in Chunk(u) THEN today ELSE storedOn[r]
  BY IInvType, MaxDayAssumption DEF SaveAbsSentResult, SavedRows, Assign, TypeOK, Days
<1>5. \A r \in Chunk(u) : r \in Rows /\ r \in FileRows(u) /\ storedOn[r] = Never
  BY <1>3, ChunkOwn DEF IInv, Progress, FileRows, AfterSave
<1>6. ErrorRows(u) \subseteq Chunk(u)
  BY DEF ErrorRows
<1>7. Own'
  BY <1>2, <1>3, BlocksStay, IInvType DEF IInv, Own, TypeOK
<1>8. Progress'
  <2>1. \A v \in Uploads : Chunk(v)' = Chunk(v) /\ \A r : Past(v, r)' <=> Past(v, r)
    BY <1>2, BlocksStay
  <2>2. \A v \in Uploads : pc'[v] = IF v = u THEN "recorded" ELSE pc[v]
    BY <1>3, IInvType DEF TypeOK
  <2>3. \A v \in Uploads : \A r \in FileRows(v) :
           r \in Rows /\ storedOn'[r] = (IF v = u /\ r \in Chunk(u) THEN today ELSE storedOn[r])
    BY <1>4, ChunkOwn DEF FileRows
  <2>4. UNCHANGED <<insertedOn, binding, toBind, warned>>
    BY <1>2 DEF abs
  <2> QED BY <1>3, <1>4, <2>1, <2>2, <2>3, <2>4 DEF IInv, Progress, AfterSave, Never
<1>9. Errors'
  <2>1. \A r \in rejected' : storedOn'[r] # Never
    BY <1>3, <1>4, <1>5, <1>6, IInvType DEF IInv, Errors, TypeOK, Never
  <2>2. \A v \in Uploads : Chunk(v)' = Chunk(v) /\ ErrorRows(v)' = ErrorRows(v)
    BY <1>2, BlocksStay, ErrorRowsStay
  <2>3. \A r \in Chunk(u) : r \notin rejected
    BY <1>5 DEF IInv, Errors
  <2>4. \A v \in Uploads : \A r \in Chunk(v) : v # u => r \notin ErrorRows(u)
    BY <1>6, ChunkOwn
  <2> QED BY <1>3, <2>1, <2>2, <2>3, <2>4, IInvType DEF IInv, Errors, TypeOK
<1>10. Binding' /\ Outcomes'
  <2>1. \A v \in Uploads : \A r \in toBind[v] : v # u
    BY <1>3 DEF IInv, Own
  <2>2. \A v \in Uploads : \A r \in toBind[v] : r \notin ErrorRows(u)
    BY <2>1, <1>6, ChunkOwn DEF IInv, Own
  <2> QED BY <1>2, <1>3, <2>1, <2>2, IInvType DEF IInv, Binding, Outcomes, TypeOK, abs
<1>11. Dates'
  BY <1>2, <1>4 DEF IInv, Dates, abs
<1>12. History'
  <2>1. \A v \in Uploads : \A q \in storedBefore[v] : storedOn'[q] = storedOn[q]
    BY <1>4, <1>5, IInvType DEF IInv, History, TypeOK
  <2> QED BY <1>2, <2>1 DEF IInv, History, abs
<1>13. BoundOnlyIfLoaded' /\ RecordedBeforeExecution' /\ SuccessIsTrue'
  BY <1>2, <1>3, <1>4, <1>5, <1>6 DEF IInv, BoundOnlyIfLoaded, RecordedBeforeExecution, SuccessIsTrue, Never, abs
<1> QED BY <1>1, <1>7, <1>8, <1>9, <1>10, <1>11, <1>12, <1>13 DEF IInv

LEMMA ProcessResultsInv == ASSUME IInv, NEW u \in Uploads, ProcessUploadPaymentsResults(u) PROVE IInv'
<1>1. TypeOK'
  BY IInvType, ProcessResultsType
<1>2. UNCHANGED <<unread, filtered, from, reply, toBind, tracked, database, abs, today, storedBefore, warned>>
  BY DEF ProcessUploadPaymentsResults, history
<1>3. pc[u] = "recorded" /\ pc' = [pc EXCEPT ![u] = "marked"]
  BY DEF ProcessUploadPaymentsResults, Goto
<1>4. Dates' /\ BoundOnlyIfLoaded' /\ RecordedBeforeExecution' /\ SuccessIsTrue'
  BY <1>2, RecordsStay DEF database, abs
<1>5. Own' /\ Progress'
  <2>1. Own'
    BY <1>2, <1>3, BlocksStay, IInvType DEF IInv, Own, TypeOK
  <2>2. Progress'
    BY <1>2, <1>3, BlocksStay, IInvType DEF IInv, Progress, AfterSave, TypeOK, database, abs
  <2> QED BY <2>1, <2>2
<1>6. Errors'
  BY <1>2, <1>3, BlocksStay, ErrorRowsStay, IInvType DEF IInv, Errors, TypeOK, database
<1>7. Binding' /\ Outcomes' /\ History'
  BY <1>2, <1>3, IInvType DEF IInv, Binding, Outcomes, History, TypeOK, database, abs
<1> QED BY <1>1, <1>4, <1>5, <1>6, <1>7 DEF IInv

\* The orders chosen for binding are those the answer does not complain of.
LEMMA GetPaymentsInv == ASSUME IInv, NEW u \in Uploads, GetPaymentsToBind(u) PROVE IInv'
<1>1. TypeOK'
  BY IInvType, GetPaymentsType
<1>2. UNCHANGED <<unread, filtered, from, reply, tracked, database, abs, today, storedBefore, warned>>
  BY DEF GetPaymentsToBind, history
<1>3. pc[u] = "marked" /\ pc' = [pc EXCEPT ![u] = "found"]
  BY DEF GetPaymentsToBind, Goto
<1>4. PICK pairs \in SUBSET {r \in BindCandidates(u) : insertedOn[r] # Never} :
         toBind' = [toBind EXCEPT ![u] = pairs]
  BY DEF GetPaymentsToBind
<1>5. \A r \in pairs : r \in Chunk(u) /\ insertedOn[r] # Never /\ r \notin rejected /\ r \in WithContract
  <2>1. \A r \in pairs : r \in Chunk(u) /\ r \in WithContract /\ r \notin ErrorRows(u) /\ insertedOn[r] # Never
    BY DEF BindCandidates, ErrorRows, LinkId
  <2> QED BY <1>3, <2>1 DEF IInv, Errors
<1>6. Dates' /\ BoundOnlyIfLoaded' /\ RecordedBeforeExecution' /\ SuccessIsTrue'
  BY <1>2, RecordsStay DEF database, abs
<1>7. Own' /\ Progress'
  <2>1. Own'
    BY <1>2, <1>3, <1>4, <1>5, BlocksStay, IInvType DEF IInv, Own, TypeOK
  <2>2. Progress'
    <3>1. \A v \in Uploads : v # u => pc'[v] = pc[v] /\ toBind'[v] = toBind[v]
      BY <1>3, <1>4, IInvType DEF TypeOK
    <3>2. pc'[u] = "found"
      BY <1>3, IInvType DEF TypeOK
    <3> QED BY <1>2, <1>3, <3>1, <3>2, BlocksStay DEF IInv, Progress, AfterSave, database, abs
  <2> QED BY <2>1, <2>2
<1>8. Errors'
  BY <1>2, <1>3, BlocksStay, ErrorRowsStay, IInvType DEF IInv, Errors, TypeOK, database
<1>9. Binding' /\ Outcomes' /\ History'
  BY <1>2, <1>3, <1>4, <1>5, IInvType DEF IInv, Binding, Outcomes, History, TypeOK, database, abs
<1> QED BY <1>1, <1>6, <1>7, <1>8, <1>9 DEF IInv

\* The orders being bound had no binding, and so ABS no operation on them.
LEMMA AddBindingsInv == ASSUME IInv, NEW u \in Uploads, AddPaymentBindings(u) PROVE IInv'
<1>1. TypeOK'
  BY IInvType, AddBindingsType
<1>2. /\ UNCHANGED <<unread, filtered, from, reply, toBind, storedOn, rejected, insertedOn, operation>>
      /\ UNCHANGED <<today, storedBefore, warned>>
  BY DEF AddPaymentBindings, abs, history
<1>3. pc[u] = "found" /\ pc' = [pc EXCEPT ![u] = "executing"]
  BY DEF AddPaymentBindings, Goto
<1>4. \A r \in Rows : /\ binding'[r] = IF r \in toBind[u] THEN "Scheduled" ELSE binding[r]
                      /\ tracked'[r] = IF r \in toBind[u] THEN "Scheduled" ELSE tracked[r]
  BY IInvType DEF AddPaymentBindings, Assign, TypeOK
<1>5. \A r \in toBind[u] : r \in Rows /\ r \in Chunk(u) /\ r \in FileRows(u) /\ binding[r] = "none"
  BY <1>3, ChunkOwn DEF IInv, Own, Progress, FileRows
<1>6. Own'
  BY <1>2, <1>3, BlocksStay, IInvType DEF IInv, Own, TypeOK
<1>7. Progress'
  <2>1. \A v \in Uploads : pc'[v] = IF v = u THEN "executing" ELSE pc[v]
    BY <1>3, IInvType DEF TypeOK
  <2>2. \A v \in Uploads : Chunk(v)' = Chunk(v) /\ \A r : Past(v, r)' <=> Past(v, r)
    BY <1>2, BlocksStay
  <2>3. \A v \in Uploads : \A r \in FileRows(v) :
           binding'[r] = IF v = u /\ r \in toBind[u] THEN "Scheduled" ELSE binding[r]
    BY <1>4, <1>5 DEF FileRows
  <2>4. \A r \in toBind[u] : r \in Chunk(u) /\ ~ Past(u, r)
    BY <1>5, ChunkOwn
  <2> QED BY <1>2, <1>3, <2>1, <2>2, <2>3, <2>4 DEF IInv, Progress, AfterSave
<1>8. Errors'
  BY <1>2, <1>3, BlocksStay, ErrorRowsStay, IInvType DEF IInv, Errors, TypeOK
<1>9. Binding'
  <2>1. \A v \in Uploads : \A r \in toBind[v] : r \in Rows
    BY IInvType DEF TypeOK
  <2>2. \A v \in Uploads : \A r \in toBind[v] : v # u => r \notin toBind[u]
    BY <1>5, ChunkOwn DEF IInv, Own
  <2>3. \A r \in toBind[u] : operation[r] = "none"
    BY <1>5 DEF IInv, RecordedBeforeExecution
  <2> QED BY <1>2, <1>3, <1>4, <2>1, <2>2, <2>3, IInvType DEF IInv, Binding, TypeOK
<1>10. Outcomes' /\ SuccessIsTrue'
  BY <1>2, <1>4, <1>5 DEF IInv, Outcomes, SuccessIsTrue, RecordedBeforeExecution
<1>11. Dates' /\ History'
  BY <1>2 DEF IInv, Dates, History
<1>12. BoundOnlyIfLoaded' /\ RecordedBeforeExecution'
  <2>1. \A r \in toBind[u] : insertedOn[r] # Never /\ storedOn[r] # Never /\ r \notin rejected /\ r \in WithContract
    BY <1>3, <1>5 DEF IInv, Binding, Progress, AfterSave
  <2> QED BY <1>2, <1>4, <2>1 DEF IInv, BoundOnlyIfLoaded, RecordedBeforeExecution
<1> QED BY <1>1, <1>6, <1>7, <1>8, <1>9, <1>10, <1>11, <1>12 DEF IInv

\* ABS is called for a binding that is on record as Scheduled.
LEMMA StartBindingInv == ASSUME IInv, NEW u \in Uploads, StartBinding(u) PROVE IInv'
<1>1. TypeOK'
  BY IInvType, StartBindingType
<1>2. UNCHANGED <<pc, unread, filtered, from, reply, toBind, database, insertedOn, today, storedBefore, warned>>
  BY DEF StartBinding, history
<1>3. PICK r \in toBind[u] : /\ tracked[r] = "Scheduled"
                             /\ tracked' = [tracked EXCEPT ![r] = "BeingProcessed"]
                             /\ operation' = [operation EXCEPT ![r] = "requested"]
  BY DEF StartBinding
<1>4. pc[u] = "executing" /\ r \in Rows
  BY IInvType DEF StartBinding, TypeOK
<1>5. binding[r] = "Scheduled" /\ operation[r] = "none"
  BY <1>3, <1>4 DEF IInv, Binding
<1>6. \A q \in Rows : q # r => tracked'[q] = tracked[q] /\ operation'[q] = operation[q]
  BY <1>3, IInvType DEF TypeOK
<1>7. tracked'[r] = "BeingProcessed" /\ operation'[r] = "requested"
  BY <1>3, <1>4, IInvType DEF TypeOK
<1>8. Own' /\ Progress'
  BY <1>2, BlocksStay DEF IInv, Own, Progress, AfterSave, database
<1>9. Errors'
  BY <1>2, BlocksStay, ErrorRowsStay DEF IInv, Errors, database
<1>10. Binding'
  <2>1. \A v \in Uploads : \A q \in toBind[v] : q \in Rows
    BY IInvType DEF TypeOK
  <2> QED BY <1>2, <1>6, <1>7, <2>1 DEF IInv, Binding, database
<1>11. Outcomes' /\ SuccessIsTrue' /\ RecordedBeforeExecution'
  BY <1>2, <1>5, <1>6, <1>7 DEF IInv, Outcomes, SuccessIsTrue, RecordedBeforeExecution, database
<1>12. Dates' /\ History' /\ BoundOnlyIfLoaded'
  BY <1>2 DEF IInv, Dates, History, BoundOnlyIfLoaded, database
<1> QED BY <1>1, <1>8, <1>9, <1>10, <1>11, <1>12 DEF IInv

LEMMA AbsExecuteInv == ASSUME IInv, NEW r \in Rows, AbsExecute(r) PROVE IInv'
<1>1. TypeOK'
  BY IInvType, AbsExecuteType
<1>2. UNCHANGED <<today, local, database, insertedOn, storedBefore, warned>>
  BY DEF AbsExecute, history
<1>3. \A q \in Rows : operation'[q] # operation[q] => operation[q] = "requested" /\ operation'[q] \in {"executed", "refused"}
  BY IInvType DEF AbsExecute, TypeOK
<1>4. Own' /\ Progress'
  BY <1>2, BlocksStay DEF IInv, Own, Progress, AfterSave, local, database
<1>5. Errors'
  BY <1>2, BlocksStay, ErrorRowsStay DEF IInv, Errors, local, database
<1>6. Outcomes' /\ Dates' /\ History'
  BY <1>2, <1>3 DEF IInv, Outcomes, Dates, History, local, database
<1>8. Binding'
  <2>1. \A v \in Uploads : \A q \in toBind[v] : q \in Rows
    BY IInvType DEF TypeOK
  <2>2. UNCHANGED <<pc, toBind, tracked, insertedOn, rejected, binding>>
    BY <1>2 DEF local, database
  <2> QED BY <1>3, <2>1, <2>2 DEF IInv, Binding
<1>7. BoundOnlyIfLoaded' /\ RecordedBeforeExecution' /\ SuccessIsTrue'
  BY <1>2, <1>3 DEF IInv, BoundOnlyIfLoaded, RecordedBeforeExecution, SuccessIsTrue, database
<1> QED BY <1>1, <1>4, <1>5, <1>6, <1>7, <1>8 DEF IInv

LEMMA EndBindingInv ==
    ASSUME IInv, NEW u \in Uploads, NEW r \in Rows, NEW status \in Final, NEW text \in Shown,
           EndBinding(u, r, status, text),
           status = "ProcessedSuccessfully" => operation[r] = "executed"
    PROVE  IInv'
<1>1. TypeOK'
  BY IInvType, EndBindingType DEF Final, BindingStatus
<1>2. UNCHANGED <<pc, unread, filtered, from, reply, toBind, database, abs, today, storedBefore, warned>>
  BY DEF EndBinding, history
<1>3. tracked' = [tracked EXCEPT ![r] = status]
  BY DEF EndBinding
<1>4. Dates' /\ BoundOnlyIfLoaded' /\ RecordedBeforeExecution' /\ SuccessIsTrue'
  BY <1>2, RecordsStay DEF database, abs
<1>5. Own' /\ Progress'
  BY <1>2, BlocksStay DEF IInv, Own, Progress, AfterSave, database, abs
<1>6. Errors'
  BY <1>2, BlocksStay, ErrorRowsStay DEF IInv, Errors, database
<1>7. Binding'
  <2>1. \A v \in Uploads : \A q \in toBind[v] : q \in Rows
    BY IInvType DEF TypeOK
  <2>2. \A q \in Rows : tracked'[q] = "Scheduled" => tracked[q] = "Scheduled"
    BY <1>3, IInvType DEF TypeOK, Final
  <2> QED BY <1>2, <2>1, <2>2 DEF IInv, Binding, database, abs
<1>9. History'
  BY <1>2 DEF IInv, History, database, abs
<1>8. Outcomes'
  BY <1>2, <1>3, IInvType DEF IInv, Outcomes, TypeOK, database, abs
<1> QED BY <1>1, <1>4, <1>5, <1>6, <1>7, <1>8, <1>9 DEF IInv

\* When the loop goes on the orders of the block are past, and no others.
LEMMA NextBlockPast ==
    ASSUME TypeOK, NEW u \in Uploads, filtered' = filtered, from' = [from EXCEPT ![u] = NextBlock(u)]
    PROVE  \A r : Past(u, r)' <=> Past(u, r) \/ r \in Chunk(u)
<1>1. from'[u] = NextBlock(u) /\ filtered'[u] = filtered[u]
  BY DEF TypeOK
<1>2. filtered[u] \subseteq Rows /\ from[u] \in Nat
  BY DEF TypeOK
<1>3. \A r : Rank(r, filtered[u]) \in Nat
  BY <1>2, RankType
<1>4. \A r : Past(u, r)' <=> r \in filtered[u] /\ Rank(r, filtered[u]) < NextBlock(u)
  BY <1>1 DEF Past, Rank
<1>5. \A r : r \in Chunk(u) <=> /\ r \in filtered[u]
                               /\ from[u] <= Rank(r, filtered[u])
                               /\ Rank(r, filtered[u]) < NextBlock(u)
  BY ChunkBounds
<1>6. NextBlock(u) \in Nat /\ from[u] <= NextBlock(u)
  BY ChunkBounds
<1> QED BY <1>2, <1>3, <1>4, <1>5, <1>6 DEF Past

\* The block is over: its orders are past, and every binding has a final status.
LEMMA SaveBindingsInv == ASSUME IInv, NEW u \in Uploads, SaveBindings(u) PROVE IInv'
<1>1. TypeOK'
  BY IInvType, SaveBindingsType
<1>2. UNCHANGED <<unread, filtered, reply, tracked, storedOn, rejected, abs, today, storedBefore, warned>>
  BY DEF SaveBindings, history
<1>3. /\ pc[u] = "executing" /\ pc' = [pc EXCEPT ![u] = "sending"]
      /\ from' = [from EXCEPT ![u] = NextBlock(u)]
      /\ toBind' = [toBind EXCEPT ![u] = {}]
  BY DEF SaveBindings, Goto
<1>4. /\ \A r \in toBind[u] : tracked[r] \in Final
      /\ \A r \in Rows : binding'[r] = IF r \in toBind[u] THEN tracked[r] ELSE binding[r]
  BY DEF SaveBindings
<1>5. \A r \in toBind[u] : r \in Rows /\ r \in Chunk(u) /\ r \in FileRows(u) /\ binding[r] = "Scheduled"
  BY <1>3, ChunkOwn DEF IInv, Own, Binding, FileRows
<1>6. \A v \in Uploads : v # u =>
         Chunk(v)' = Chunk(v) /\ ErrorRows(v)' = ErrorRows(v) /\ \A r : Past(v, r)' <=> Past(v, r)
  BY <1>2, <1>3, IInvType DEF Chunk, ErrorRows, BlockIndex, Past, Rank, TypeOK
<1>7. \A r : Past(u, r)' <=> Past(u, r) \/ r \in Chunk(u)
  BY <1>2, <1>3, IInvType, NextBlockPast
<1>8. Own'
  BY <1>2, <1>3, <1>6, IInvType DEF IInv, Own, TypeOK
<1>9. Progress'
  <2>1. \A v \in Uploads : pc'[v] = IF v = u THEN "sending" ELSE pc[v]
    BY <1>3, IInvType DEF TypeOK
  <2>2. \A v \in Uploads : \A r \in FileRows(v) : binding'[r] # "none" => binding[r] # "none"
    BY <1>4, <1>5 DEF FileRows
  <2>3. UNCHANGED <<storedOn, insertedOn, warned>>
    BY <1>2 DEF abs
  <2>4. \A r \in FileRows(u) : r \in Chunk(u) => storedOn[r] # Never /\ binding'[r] \in Final \cup {"none"}
    BY <1>3, <1>4, ChunkOwn DEF IInv, Progress, AfterSave, FileRows
  <2>5. \A v \in Uploads : \A r \in FileRows(v) : v # u \/ Past(u, r) => binding'[r] = binding[r]
    BY <1>4, <1>5, ChunkOwn DEF FileRows
  <2>6. \A v \in Uploads : v # u => toBind'[v] = toBind[v]
    BY <1>3, IInvType DEF TypeOK
  <2> QED BY <1>3, <1>6, <1>7, <2>1, <2>2, <2>3, <2>4, <2>5, <2>6 DEF IInv, Progress, AfterSave
<1>10. Errors'
  BY <1>2, <1>3, <1>6, IInvType DEF IInv, Errors, TypeOK
<1>11. Binding'
  <2>1. \A v \in Uploads : \A r \in toBind[v] : v # u => r \in Rows /\ r \notin toBind[u]
    BY <1>5, ChunkOwn, IInvType DEF IInv, Own, TypeOK
  <2> QED BY <1>2, <1>3, <1>4, <2>1, IInvType DEF IInv, Binding, TypeOK, abs
<1>12. Outcomes' /\ SuccessIsTrue'
  BY <1>2, <1>4 DEF IInv, Outcomes, SuccessIsTrue, Final, abs
<1>13. Dates' /\ History'
  BY <1>2 DEF IInv, Dates, History, abs
<1>14. BoundOnlyIfLoaded' /\ RecordedBeforeExecution'
  BY <1>2, <1>4, <1>5 DEF IInv, BoundOnlyIfLoaded, RecordedBeforeExecution, Final, abs
<1> QED BY <1>1, <1>8, <1>9, <1>10, <1>11, <1>12, <1>13, <1>14 DEF IInv

LEMMA SaveFileInv == ASSUME IInv, NEW u \in Uploads, SaveFile(u) PROVE IInv'
<1>1. TypeOK'
  BY IInvType, SaveFileType
<1>2. UNCHANGED <<unread, filtered, from, reply, toBind, tracked, database, abs, today, storedBefore, warned>>
  BY DEF SaveFile, history
<1>3. pc[u] = "sending" /\ pc' = [pc EXCEPT ![u] = "done"]
  BY DEF SaveFile, Goto
<1>4. Dates' /\ BoundOnlyIfLoaded' /\ RecordedBeforeExecution' /\ SuccessIsTrue'
  BY <1>2, RecordsStay DEF database, abs
<1>5. Own'
  BY <1>2, <1>3, BlocksStay, IInvType DEF IInv, Own, TypeOK
<1>6. Progress'
  BY <1>2, <1>3, BlocksStay, IInvType DEF IInv, Progress, AfterSave, TypeOK, database, abs
<1>7. Errors'
  BY <1>2, <1>3, BlocksStay, ErrorRowsStay, IInvType DEF IInv, Errors, TypeOK, database
<1>8. Binding' /\ Outcomes' /\ History'
  BY <1>2, <1>3, IInvType DEF IInv, Binding, Outcomes, History, TypeOK, database, abs
<1> QED BY <1>1, <1>4, <1>5, <1>6, <1>7, <1>8 DEF IInv

\* A request that ends early leaves what is on record as it is.
LEMMA DropInv ==
    ASSUME IInv, NEW u \in Uploads, Drop(u), pc[u] \notin {"idle", "done", "failed"}
    PROVE  IInv'
<1>1. TypeOK'
  BY IInvType, DropType
<1>2. UNCHANGED <<unread, filtered, from, reply, database, abs, today, storedBefore, warned>>
  BY DEF Drop, history
<1>3. pc' = [pc EXCEPT ![u] = "failed"] /\ toBind' = [toBind EXCEPT ![u] = {}]
  BY DEF Drop, Goto
<1>4. Dates' /\ BoundOnlyIfLoaded' /\ RecordedBeforeExecution' /\ SuccessIsTrue'
  BY <1>2, RecordsStay DEF database, abs
<1>5. Own'
  BY <1>2, <1>3, BlocksStay, IInvType DEF IInv, Own, TypeOK
<1>6. Progress'
  BY <1>2, <1>3, BlocksStay, IInvType DEF IInv, Progress, AfterSave, TypeOK, database, abs
<1>7. Errors'
  BY <1>2, <1>3, BlocksStay, ErrorRowsStay, IInvType DEF IInv, Errors, TypeOK, database
<1>8. Binding'
  <2>1. \A v \in Uploads : \A q \in toBind[v] : q \in Rows
    BY IInvType DEF TypeOK
  <2>2. \A q \in Rows : tracked'[q] = "Scheduled" => tracked[q] = "Scheduled"
    BY IInvType DEF Drop, Assign, TypeOK
  <2>3. \A v \in Uploads : \A q \in toBind'[v] : q \in toBind[v] /\ pc'[v] = pc[v]
    BY <1>3, IInvType DEF TypeOK
  <2> QED BY <1>2, <2>1, <2>2, <2>3 DEF IInv, Binding, database, abs
<1>10. History'
  BY <1>2 DEF IInv, History, database, abs
<1>9. Outcomes'
  BY <1>2, IInvType DEF IInv, Outcomes, TypeOK, Drop, Assign, database, abs
<1> QED BY <1>1, <1>4, <1>5, <1>6, <1>7, <1>8, <1>9, <1>10 DEF IInv

LEMMA NextDayInv == ASSUME IInv, NextDay PROVE IInv'
<1>1. TypeOK'
  BY IInvType, NextDayType
<1>2. UNCHANGED <<local, database, abs, storedBefore, warned>> /\ today' = today + 1
  BY DEF NextDay, history
<1>3. today \in Nat /\ \A r \in Rows : storedOn[r] \in Nat /\ insertedOn[r] \in Nat
  BY IInvType, MaxDayAssumption DEF TypeOK, Days, Never
<1>4. Own' /\ Progress'
  BY <1>2, BlocksStay DEF IInv, Own, Progress, AfterSave, local, database, abs
<1>5. Errors'
  BY <1>2, BlocksStay, ErrorRowsStay DEF IInv, Errors, local, database
<1>6. Binding' /\ Outcomes'
  BY <1>2 DEF IInv, Binding, Outcomes, local, database, abs
<1>7. Dates'
  BY <1>2, <1>3 DEF IInv, Dates, database, abs
<1>8. History'
  BY <1>2, <1>3, IInvType DEF IInv, History, TypeOK, local, database, abs
<1>9. BoundOnlyIfLoaded' /\ RecordedBeforeExecution' /\ SuccessIsTrue'
  BY <1>2 DEF IInv, BoundOnlyIfLoaded, RecordedBeforeExecution, SuccessIsTrue, database, abs
<1> QED BY <1>1, <1>4, <1>5, <1>6, <1>7, <1>8, <1>9 DEF IInv

LEMMA NextInv == IInv /\ [Next]_vars => IInv'
<1> SUFFICES ASSUME IInv, [Next]_vars PROVE IInv'
  OBVIOUS
<1>1. ASSUME NEW u \in Uploads, Begin(u) PROVE IInv'
  BY <1>1, BeginInv
<1>2. ASSUME NEW u \in Uploads, UploadStep(u) PROVE IInv'
  <2>1. ASSUME NEW r \in Rows, BindingSucceeded(u, r) PROVE IInv'
    BY <2>1, EndBindingInv DEF BindingSucceeded, Final, Shown
  <2>2. ASSUME NEW r \in Rows, BindingFailed(u, r) PROVE IInv'
    <3>1. EndBinding(u, r, "ProccessedWithError", "finished: error")
      BY <2>2 DEF BindingFailed
    <3>2. "ProccessedWithError" \in Final /\ "finished: error" \in Shown
      BY DEF Final, Shown
    <3> QED BY <3>1, <3>2, EndBindingInv
  <2>3. ASSUME NullReference(u) PROVE IInv'
    BY <2>3, DropInv DEF NullReference
  <2> QED
    BY <1>2, <2>1, <2>2, <2>3, IInvType, UploadStepCases, FilterInv, MarkInv, MassInsertInv, SaveResultInv,
       ProcessResultsInv, GetPaymentsInv, AddBindingsInv, StartBindingInv, SaveBindingsInv, SaveFileInv
<1>3. ASSUME NEW u \in Uploads, Fail(u) PROVE IInv'
  BY <1>3, DropInv DEF Fail
<1>4. ASSUME NEW r \in Rows, AbsExecute(r) PROVE IInv'
  BY <1>4, AbsExecuteInv
<1>5. CASE NextDay
  BY <1>5, NextDayInv
<1>6. CASE UNCHANGED vars
  <2>1. UNCHANGED <<today, local, database, abs, storedBefore, warned>>
    BY <1>6 DEF vars, history
  <2>2. TypeOK'
    BY <2>1, IInvType DEF TypeOK, local, database, abs
  <2>3. Own' /\ Progress'
    BY <2>1, BlocksStay DEF IInv, Own, Progress, AfterSave, local, database, abs
  <2>4. Errors'
    BY <2>1, BlocksStay, ErrorRowsStay DEF IInv, Errors, local, database
  <2>5. Binding' /\ Outcomes' /\ History'
    BY <2>1 DEF IInv, Binding, Outcomes, History, local, database, abs
  <2>6. Dates' /\ BoundOnlyIfLoaded' /\ RecordedBeforeExecution' /\ SuccessIsTrue'
    BY <2>1, RecordsStay DEF database, abs
  <2> QED BY <2>2, <2>3, <2>4, <2>5, <2>6 DEF IInv
<1> QED BY <1>1, <1>2, <1>3, <1>4, <1>5, <1>6 DEF Next

\* The inductive invariant holds in every reachable state (all the actions).
THEOREM Inductive == Spec => []IInv
BY InitInv, NextInv, PTL DEF Spec

-----------------------------------------------------------------------------
(* What follows from the invariant *)

\* An order on record when a request begins is not loaded again on that day by
\* the request (FilterExistingOrders against SaveAbsSentResult).
THEOREM NoResubmissionHolds == Spec => []NoResubmission
<1>1. IInv => NoResubmission
  <2> SUFFICES ASSUME IInv, NEW u \in Uploads, NEW r \in storedBefore[u], NEW s \in FileRows(u),
                      KeyOf[r] = KeyOf[s], insertedOn[s] # Never
               PROVE  insertedOn[s] # storedOn[r]
    BY DEF NoResubmission
  <2>1. storedOn[r] < insertedOn[s]
    BY DEF IInv, History
  <2>2. storedOn[r] \in Nat /\ insertedOn[s] \in Nat
    BY IInvType, MaxDayAssumption DEF TypeOK, Days, Never, FileRows
  <2> QED BY <2>1, <2>2
<1> QED BY <1>1, Inductive, PTL

\* Blocks do not overlap (the loop over i in SendPaymentOrders).
THEOREM BlockIsUnsentHolds == Spec => []BlockIsUnsent
<1>1. IInv => BlockIsUnsent
  BY ChunkOwn DEF IInv, Progress, AfterSave, BlockIsUnsent
<1> QED BY <1>1, Inductive, PTL

\* Only a block in flight can be in ABS and not on record.
THEOREM UnrecordedIsInFlightHolds == Spec => []UnrecordedIsInFlight
<1>1. IInv => UnrecordedIsInFlight
  BY DEF IInv, Progress, AfterSave, UnrecordedIsInFlight
<1> QED BY <1>1, Inductive, PTL

\* Bindings on record belong to orders that ABS has and that have no error.
THEOREM BoundOnlyIfLoadedHolds == Spec => []BoundOnlyIfLoaded
BY Inductive, PTL DEF IInv

\* ABS is called only for payments with a binding on record, wherever between
\* the save of the bindings and the calls a request may stop.
THEOREM RecordedBeforeExecutionHolds == Spec => []RecordedBeforeExecution
BY Inductive, PTL DEF IInv

\* A binding on record as successful was executed by ABS.
THEOREM SuccessIsTrueHolds == Spec => []SuccessIsTrue
BY Inductive, PTL DEF IInv

\* Of a block that is over everything is on record, also if its request fails
\* later and its file is lost (SaveAbsSentResult and SaveChangesAsync, in the loop).
THEOREM EarlierBlocksAreOnRecordHolds == Spec => []EarlierBlocksAreOnRecord
<1>1. IInv => EarlierBlocksAreOnRecord
  <2> SUFFICES ASSUME IInv, NEW u \in Uploads, NEW r \in filtered[u], Rank(r, filtered[u]) < from[u]
               PROVE  storedOn[r] # Never /\ (operation[r] # "none" => binding[r] \in Final)
    BY DEF EarlierBlocksAreOnRecord
  <2>1. r \in FileRows(u) /\ r \in Rows /\ Past(u, r)
    BY DEF IInv, Own, FileRows, Past
  <2>2. storedOn[r] # Never /\ binding[r] \in Final \cup {"none"}
    BY <2>1 DEF IInv, Progress
  <2> QED BY <2>1, <2>2 DEF IInv, RecordedBeforeExecution
<1> QED BY <1>1, Inductive, PTL

-----------------------------------------------------------------------------
(* The statuses of the file *)

\* The request has its list of orders and has not failed.
Running == {"sending", "inserted", "recorded", "marked", "found", "executing", "done"}

\* The order's block was sent, the order is not being bound, and its line says so.
Placed(r) ==
    /\ shown[r] \in {"loaded", "load error", "contract not found"}
    /\ binding[r] = "none"
    /\ IF r \in warned
       THEN shown[r] = "loaded" /\ r \in rejected
       ELSE /\ shown[r] = "load error" <=> r \in rejected
            /\ shown[r] = "load error" <=> insertedOn[r] = Never
            /\ shown[r] = "loaded" => r \notin WithContract

\* The order was bound or could not be, and its line says which.
Concluded(r) ==
    /\ r \notin rejected /\ r \notin warned /\ insertedOn[r] # Never
    /\ \/ shown[r] = "finished: ok" /\ binding[r] = "ProcessedSuccessfully"
       \/ shown[r] = "finished: error" /\ binding[r] = "ProccessedWithError"

\* The task of the order and its line agree.
InBinding(r) ==
    \/ shown[r] = "scheduled" /\ tracked[r] = "Scheduled"
    \/ shown[r] = "in progress" /\ tracked[r] = "BeingProcessed"
    \/ shown[r] = "finished: ok" /\ tracked[r] = "ProcessedSuccessfully"
    \/ shown[r] = "finished: error" /\ tracked[r] = "ProccessedWithError"

\* What an answer with a list says of an order of the block.
Answered(u, r) ==
    /\ r \in warned <=> reply[u].status = "OK" /\ r \in ErrorRows(u)
    /\ r \notin warned => (insertedOn[r] = Never <=> r \in ErrorRows(u))

\* What the lines of a request say, by where the request is.
ReportOf(u) == pc[u] \in Running =>
    /\ \A r \in FileRows(u) \ filtered[u] : shown[r] = "processed before"
    /\ \A r \in filtered[u] : Past(u, r) \/ pc[u] = "done" => Placed(r) \/ Concluded(r)
    /\ \A r \in Chunk(u) :
        /\ pc[u] \in {"inserted", "recorded", "marked"} /\ reply[u].status # "ErrorNoList"
             => Answered(u, r)
        /\ pc[u] = "marked" =>
             /\ reply[u].status # "ErrorNoList"
             /\ shown[r] = IF r \in NotLoaded(u) THEN "load error" ELSE "loaded"
        /\ pc[u] \in {"found", "executing"} /\ r \notin toBind[u] => Placed(r)
        /\ pc[u] \in {"found", "executing"} /\ r \in toBind[u] => r \notin warned
        /\ pc[u] = "executing" /\ r \in toBind[u] => InBinding(r)

ReportInv == \A u \in Uploads : ReportOf(u)

\* A step of one request leaves what the others have.
Elsewhere(u) ==
    /\ \A v \in Uploads \ {u} :
           /\ pc'[v] = pc[v] /\ filtered'[v] = filtered[v] /\ from'[v] = from[v]
           /\ reply'[v] = reply[v] /\ toBind'[v] = toBind[v]
    /\ \A r \in Rows \ FileRows(u) :
           /\ shown'[r] = shown[r] /\ tracked'[r] = tracked[r] /\ binding'[r] = binding[r]
           /\ insertedOn'[r] = insertedOn[r] /\ (r \in rejected' <=> r \in rejected)
           /\ r \in warned' <=> r \in warned

\* Then it leaves what their lines say.
LEMMA ReportElsewhere ==
    ASSUME IInv, ReportInv, NEW u \in Uploads, Elsewhere(u), ReportOf(u)'
    PROVE  ReportInv'
<1> SUFFICES ASSUME NEW v \in Uploads, v # u PROVE ReportOf(v)'
  BY DEF ReportInv
<1>1. /\ Chunk(v)' = Chunk(v) /\ ErrorRows(v)' = ErrorRows(v) /\ NotLoaded(v)' = NotLoaded(v)
      /\ \A r : Past(v, r)' <=> Past(v, r)
  BY DEF Elsewhere, Chunk, ErrorRows, NotLoaded, BlockIndex, Past, Rank
<1>2. filtered[v] \subseteq FileRows(v) /\ Chunk(v) \subseteq FileRows(v)
  BY ChunkOwn DEF IInv, Own
<1>3. \A r \in FileRows(v) : r \in Rows /\ r \notin FileRows(u)
  BY DEF FileRows
<1>4. \A r \in FileRows(v) :
         (Placed(r)' <=> Placed(r)) /\ (Concluded(r)' <=> Concluded(r)) /\ (InBinding(r)' <=> InBinding(r))
  BY <1>3 DEF Elsewhere, Placed, Concluded, InBinding
<1>10. \A r \in FileRows(v) : Answered(v, r)' <=> Answered(v, r)
  BY <1>1, <1>3 DEF Elsewhere, Answered
<1>5. /\ pc'[v] = pc[v] /\ filtered'[v] = filtered[v] /\ reply'[v] = reply[v] /\ toBind'[v] = toBind[v]
      /\ \A r \in FileRows(v) : shown'[r] = shown[r] /\ (r \in warned' <=> r \in warned)
  BY <1>3 DEF Elsewhere
<1>6. SUFFICES ASSUME pc[v] \in Running PROVE ReportOf(v)'
  BY <1>5 DEF ReportOf
<1>7. /\ \A r \in FileRows(v) \ filtered[v] : shown'[r] = "processed before"
      /\ \A r \in filtered[v] : Past(v, r) \/ pc[v] = "done" => Placed(r)' \/ Concluded(r)'
  BY <1>2, <1>4, <1>5, <1>6 DEF ReportInv, ReportOf
<1>8. \A r \in Chunk(v) :
        /\ pc[v] \in {"inserted", "recorded", "marked"} /\ reply[v].status # "ErrorNoList"
             => Answered(v, r)'
        /\ pc[v] = "marked" =>
             /\ reply[v].status # "ErrorNoList"
             /\ shown'[r] = IF r \in NotLoaded(v) THEN "load error" ELSE "loaded"
        /\ pc[v] \in {"found", "executing"} /\ r \in toBind[v] => r \notin warned'
  BY <1>2, <1>5, <1>6, <1>10 DEF ReportInv, ReportOf
<1>9. \A r \in Chunk(v) :
        /\ pc[v] \in {"found", "executing"} /\ r \notin toBind[v] => Placed(r)'
        /\ pc[v] = "executing" /\ r \in toBind[v] => InBinding(r)'
  BY <1>2, <1>4, <1>6 DEF ReportInv, ReportOf
<1> QED BY <1>1, <1>5, <1>7, <1>8, <1>9 DEF ReportOf, FileRows

LEMMA MarkReport == ASSUME IInv, ReportInv, NEW u \in Uploads, MarkProcessedBefore(u) PROVE ReportInv'
<1>1. UNCHANGED <<filtered, from, reply, toBind, tracked, rejected, binding, insertedOn, warned>>
  BY DEF MarkProcessedBefore, database, abs, history
<1>2. pc[u] = "filtering" /\ pc' = [pc EXCEPT ![u] = "sending"]
  BY DEF MarkProcessedBefore, Goto
<1>3. \A r \in Rows : shown'[r] = IF r \in FileRows(u) \ filtered[u] THEN "processed before" ELSE shown[r]
  BY IInvType DEF MarkProcessedBefore, Assign, TypeOK
<1>4. \A r : ~ Past(u, r)'
  <2>1. from[u] = 0 /\ filtered[u] \in SUBSET Rows
    BY <1>2, IInvType DEF IInv, Own, TypeOK
  <2>2. \A r : Rank(r, filtered[u]) \in Nat
    BY <2>1, RankType
  <2>3. \A r : ~ (Rank(r, filtered[u]) < 0)
    BY <2>2
  <2> QED BY <1>1, <2>1, <2>3 DEF Past, Rank
<1>5. pc'[u] = "sending"
  BY <1>2, IInvType DEF TypeOK
<1>6. ReportOf(u)'
  BY <1>1, <1>3, <1>4, <1>5 DEF ReportOf, FileRows
<1>7. Elsewhere(u)
  BY <1>1, <1>2, <1>3, IInvType DEF Elsewhere, TypeOK
<1> QED BY <1>6, <1>7, ReportElsewhere

\* ABS has what an answer with a list does not complain of, and of the rest at
\* most what an answer of Status OK names.
LEMMA MassInsertReport ==
    ASSUME IInv, ReportInv, NEW u \in Uploads, NEW accepted \in SUBSET Chunk(u), NEW answer \in Replies,
           MassInsert(u, accepted, answer),
           answer.status # "ErrorNoList" => Chunk(u) \ Listed(u, answer.errors) \subseteq accepted,
           answer.status = "Error" => accepted \cap Listed(u, answer.errors) = {}
    PROVE  ReportInv'
<1>1. UNCHANGED <<filtered, from, toBind, tracked, shown, rejected, binding>>
  BY DEF MassInsert, database
<1>2. pc[u] = "sending" /\ pc' = [pc EXCEPT ![u] = "inserted"] /\ reply' = [reply EXCEPT ![u] = answer]
  BY DEF MassInsert, Goto
<1>3. today # Never /\ \A r \in Rows : insertedOn'[r] = IF r \in accepted THEN today ELSE insertedOn[r]
  BY IInvType, MaxDayAssumption DEF MassInsert, Assign, TypeOK, Days, Never
<1>4. pc'[u] = "inserted" /\ reply'[u] = answer
  BY <1>2, IInvType DEF TypeOK
<1>5. Chunk(u)' = Chunk(u) /\ \A r : Past(u, r)' <=> Past(u, r)
  BY <1>1, BlocksStay
<1>6. \A r \in Chunk(u) : /\ r \in Rows /\ r \in FileRows(u) /\ ~ Past(u, r)
                         /\ insertedOn[r] = Never /\ r \notin warned
  BY <1>2, ChunkOwn DEF IInv, Progress, AfterSave, FileRows
<1>7. warned' = IF answer.status = "OK" THEN warned \cup Listed(u, answer.errors) ELSE warned
  BY DEF MassInsert
<1>8. Listed(u, answer.errors) = ErrorRows(u)'
  BY <1>1, <1>4, <1>5 DEF Listed, ErrorRows, BlockIndex, LinkId, Rank
<1>9. answer.status # "ErrorNoList" => \A r \in Chunk(u) : Answered(u, r)'
  <2> SUFFICES ASSUME answer.status # "ErrorNoList", NEW r \in Chunk(u) PROVE Answered(u, r)'
    OBVIOUS
  <2>1. answer.status \in {"OK", "Error"}
    BY DEF Replies
  <2>2. insertedOn'[r] = Never <=> r \notin accepted
    BY <1>3, <1>6
  <2>3. r \in warned' <=> answer.status = "OK" /\ r \in ErrorRows(u)'
    BY <1>6, <1>7, <1>8
  <2>4. r \notin warned' => (r \notin accepted <=> r \in ErrorRows(u)')
    BY <1>8, <2>1, <2>3
  <2> QED BY <1>4, <2>2, <2>3, <2>4 DEF Answered
<1>10. \A r \in filtered[u] : Past(u, r) =>
          r \in Rows /\ insertedOn'[r] = insertedOn[r] /\ (r \in warned' <=> r \in warned)
  <2>1. \A r \in filtered[u] : Past(u, r) => r \in Rows /\ r \notin accepted /\ r \notin Listed(u, answer.errors)
    BY <1>6, IInvType DEF TypeOK, Listed
  <2> QED BY <1>3, <1>7, <2>1
<1>11. \A r \in filtered[u] : Past(u, r) => Placed(r)' \/ Concluded(r)'
  <2>1. \A r \in filtered[u] : Past(u, r) => Placed(r) \/ Concluded(r)
    BY <1>2 DEF ReportInv, ReportOf, Running
  <2> QED BY <1>1, <1>10, <2>1 DEF Placed, Concluded
<1>12. \A r \in FileRows(u) \ filtered[u] : shown[r] = "processed before"
  BY <1>2 DEF ReportInv, ReportOf, Running
<1>13. ReportOf(u)'
  BY <1>1, <1>4, <1>5, <1>9, <1>11, <1>12 DEF ReportOf, FileRows
<1>14. Elsewhere(u)
  BY <1>1, <1>2, <1>3, <1>6, <1>7, IInvType DEF Elsewhere, TypeOK, Listed
<1> QED BY <1>13, <1>14, ReportElsewhere

LEMMA SaveResultReport == ASSUME IInv, ReportInv, NEW u \in Uploads, SaveAbsSentResult(u) PROVE ReportInv'
<1>1. UNCHANGED <<filtered, from, reply, toBind, tracked, shown, binding, insertedOn, warned>>
  BY DEF SaveAbsSentResult, abs, history
<1>2. pc[u] = "inserted" /\ pc' = [pc EXCEPT ![u] = "recorded"] /\ rejected' = rejected \cup ErrorRows(u)
  BY DEF SaveAbsSentResult, Goto
<1>3. pc'[u] = "recorded"
  BY <1>2, IInvType DEF TypeOK
<1>4. Chunk(u)' = Chunk(u) /\ ErrorRows(u)' = ErrorRows(u) /\ \A r : Past(u, r)' <=> Past(u, r)
  BY <1>1, BlocksStay, ErrorRowsStay
<1>5. \A r \in ErrorRows(u) : r \in FileRows(u) /\ ~ Past(u, r)
  BY ChunkOwn DEF ErrorRows
<1>6. \A r \in filtered[u] : Past(u, r) => Placed(r)' \/ Concluded(r)'
  BY <1>1, <1>2, <1>5 DEF ReportInv, ReportOf, Running, Placed, Concluded
<1>7. ReportOf(u)
  BY DEF ReportInv
<1>8. ReportOf(u)'
  BY <1>1, <1>2, <1>3, <1>4, <1>6, <1>7 DEF ReportOf, Running, Answered, FileRows
<1>9. Elsewhere(u)
  BY <1>1, <1>2, <1>5, IInvType DEF Elsewhere, TypeOK
<1> QED BY <1>8, <1>9, ReportElsewhere

LEMMA ProcessResultsReport ==
    ASSUME IInv, ReportInv, NEW u \in Uploads, ProcessUploadPaymentsResults(u)
    PROVE  ReportInv'
<1>1. UNCHANGED <<filtered, from, reply, toBind, tracked, rejected, binding, insertedOn, warned>>
  BY DEF ProcessUploadPaymentsResults, database, abs, history
<1>2. /\ pc[u] = "recorded" /\ pc' = [pc EXCEPT ![u] = "marked"]
      /\ reply[u].status # "ErrorNoList"
      /\ shown' = Assign(Assign(shown, Chunk(u), "loaded"), NotLoaded(u), "load error")
  BY DEF ProcessUploadPaymentsResults, Goto
<1>3. \A r \in Rows : shown'[r] = IF r \in NotLoaded(u) THEN "load error"
                                  ELSE IF r \in Chunk(u) THEN "loaded" ELSE shown[r]
  BY <1>2, IInvType DEF Assign, TypeOK
<1>4. pc'[u] = "marked"
  BY <1>2, IInvType DEF TypeOK
<1>5. /\ Chunk(u)' = Chunk(u) /\ ErrorRows(u)' = ErrorRows(u) /\ NotLoaded(u)' = NotLoaded(u)
      /\ \A r : Past(u, r)' <=> Past(u, r)
  BY <1>1, BlocksStay, ErrorRowsStay DEF NotLoaded
<1>6. /\ \A r \in Chunk(u) : r \in Rows /\ r \in FileRows(u) /\ r \in filtered[u] /\ ~ Past(u, r)
      /\ NotLoaded(u) \subseteq Chunk(u)
  BY ChunkOwn DEF NotLoaded, ErrorRows, Chunk, FileRows
<1>7. \A r \in filtered[u] : Past(u, r) => Placed(r)' \/ Concluded(r)'
  <2>1. \A r \in filtered[u] : Past(u, r) => r \in Rows /\ r \notin Chunk(u) /\ r \notin NotLoaded(u)
    BY <1>6, IInvType DEF TypeOK
  <2>2. \A r \in filtered[u] : Past(u, r) => Placed(r) \/ Concluded(r)
    BY <1>2 DEF ReportInv, ReportOf, Running
  <2>3. \A r \in filtered[u] : Past(u, r) => shown'[r] = shown[r]
    BY <1>3, <2>1
  <2> QED BY <1>1, <2>2, <2>3 DEF Placed, Concluded
<1>8. ReportOf(u)
  BY DEF ReportInv
<1>9. \A r \in FileRows(u) \ filtered[u] : shown'[r] = "processed before"
  BY <1>2, <1>3, <1>6, <1>8 DEF ReportOf, Running, FileRows
<1>10. \A r \in Chunk(u) : Answered(u, r)'
  BY <1>1, <1>2, <1>5, <1>8 DEF ReportOf, Running, Answered
<1>11. ReportOf(u)'
  BY <1>1, <1>2, <1>3, <1>4, <1>5, <1>6, <1>7, <1>9, <1>10 DEF ReportOf, FileRows
<1>12. Elsewhere(u)
  BY <1>1, <1>2, <1>3, <1>6, IInvType DEF Elsewhere, TypeOK
<1> QED BY <1>11, <1>12, ReportElsewhere

\* An order of the block that is not bound stays as the answer said.
LEMMA GetPaymentsReport == ASSUME IInv, ReportInv, NEW u \in Uploads, GetPaymentsToBind(u) PROVE ReportInv'
<1>1. UNCHANGED <<filtered, from, reply, tracked, rejected, binding, insertedOn, warned>>
  BY DEF GetPaymentsToBind, database, abs, history
<1>2. pc[u] = "marked" /\ pc' = [pc EXCEPT ![u] = "found"]
  BY DEF GetPaymentsToBind, Goto
<1>3. PICK pairs \in SUBSET BindCandidates(u) :
         /\ toBind' = [toBind EXCEPT ![u] = pairs]
         /\ shown' = Assign(shown, BindCandidates(u) \ pairs, "contract not found")
  BY DEF GetPaymentsToBind
<1>4. /\ pc'[u] = "found" /\ toBind'[u] = pairs
      /\ \A r \in Rows : shown'[r] = IF r \in BindCandidates(u) \ pairs THEN "contract not found" ELSE shown[r]
  BY <1>2, <1>3, IInvType DEF TypeOK, Assign
<1>5. Chunk(u)' = Chunk(u) /\ \A r : Past(u, r)' <=> Past(u, r)
  BY <1>1, BlocksStay
<1>6. /\ \A r \in Chunk(u) : r \in Rows /\ r \in FileRows(u) /\ r \in filtered[u] /\ ~ Past(u, r)
      /\ \A r \in BindCandidates(u) : r \in Chunk(u)
  BY ChunkOwn DEF BindCandidates, Chunk, FileRows
<1>7. \A r \in filtered[u] : Past(u, r) => Placed(r)' \/ Concluded(r)'
  <2>1. \A r \in filtered[u] : Past(u, r) => Placed(r) \/ Concluded(r)
    BY <1>2 DEF ReportInv, ReportOf, Running
  <2>2. \A r \in filtered[u] : Past(u, r) => r \in Rows /\ r \notin BindCandidates(u)
    BY <1>6, IInvType DEF TypeOK
  <2>3. \A r \in filtered[u] : Past(u, r) => shown'[r] = shown[r]
    BY <1>4, <2>2
  <2> QED BY <1>1, <2>1, <2>3 DEF Placed, Concluded
<1>8. ASSUME NEW r \in Chunk(u), r \notin pairs
      PROVE  Placed(r)'
  <2>1. /\ shown[r] = IF r \in ErrorRows(u) /\ reply[u].status # "OK" THEN "load error" ELSE "loaded"
        /\ Answered(u, r)
    BY <1>2 DEF ReportInv, ReportOf, Running, NotLoaded
  <2>2. r \in rejected <=> r \in ErrorRows(u)
    BY <1>2 DEF IInv, Errors
  <2>3. binding[r] = "none"
    BY <1>2, <1>6 DEF IInv, Progress
  <2>4. r \in BindCandidates(u) <=> r \in WithContract /\ r \notin ErrorRows(u)
    BY DEF BindCandidates, ErrorRows, LinkId
  <2>5. shown'[r] = IF r \in BindCandidates(u) THEN "contract not found" ELSE shown[r]
    BY <1>4, <1>6, <1>8
  <2> QED BY <1>1, <2>1, <2>2, <2>3, <2>4, <2>5 DEF Placed, Answered
<1>9. \A r \in FileRows(u) \ filtered[u] : shown'[r] = "processed before"
  BY <1>2, <1>4, <1>6 DEF ReportInv, ReportOf, Running, FileRows
<1>10. \A r \in pairs : r \notin warned'
  BY <1>1, <1>2, <1>6 DEF ReportInv, ReportOf, Running, Answered, BindCandidates, ErrorRows, LinkId
<1>11. ReportOf(u)'
  BY <1>1, <1>4, <1>5, <1>7, <1>8, <1>9, <1>10 DEF ReportOf, FileRows
<1>12. Elsewhere(u)
  BY <1>1, <1>2, <1>3, <1>4, <1>6, IInvType DEF Elsewhere, TypeOK
<1> QED BY <1>11, <1>12, ReportElsewhere

LEMMA AddBindingsReport == ASSUME IInv, ReportInv, NEW u \in Uploads, AddPaymentBindings(u) PROVE ReportInv'
<1>1. UNCHANGED <<filtered, from, reply, toBind, rejected, insertedOn, warned>>
  BY DEF AddPaymentBindings, abs, history
<1>2. pc[u] = "found" /\ pc' = [pc EXCEPT ![u] = "executing"]
  BY DEF AddPaymentBindings, Goto
<1>3. \A r \in Rows : /\ binding'[r] = IF r \in toBind[u] THEN "Scheduled" ELSE binding[r]
                      /\ tracked'[r] = IF r \in toBind[u] THEN "Scheduled" ELSE tracked[r]
                      /\ shown'[r] = IF r \in toBind[u] THEN "scheduled" ELSE shown[r]
  BY IInvType DEF AddPaymentBindings, Assign, TypeOK
<1>4. pc'[u] = "executing"
  BY <1>2, IInvType DEF TypeOK
<1>5. Chunk(u)' = Chunk(u) /\ \A r : Past(u, r)' <=> Past(u, r)
  BY <1>1, BlocksStay
<1>6. /\ \A r \in Chunk(u) : r \in Rows /\ r \in FileRows(u) /\ r \in filtered[u] /\ ~ Past(u, r)
      /\ \A r \in toBind[u] : r \in Chunk(u)
  BY ChunkOwn DEF IInv, Own, Chunk, FileRows
<1>7. \A r \in Rows : r \notin toBind[u] => (Placed(r)' <=> Placed(r)) /\ (Concluded(r)' <=> Concluded(r))
  BY <1>1, <1>3 DEF Placed, Concluded
<1>8. \A r \in filtered[u] : Past(u, r) => Placed(r)' \/ Concluded(r)'
  <2>1. \A r \in filtered[u] : Past(u, r) => Placed(r) \/ Concluded(r)
    BY <1>2 DEF ReportInv, ReportOf, Running
  <2>2. \A r \in filtered[u] : Past(u, r) => r \in Rows /\ r \notin toBind[u]
    BY <1>6, IInvType DEF TypeOK
  <2> QED BY <1>7, <2>1, <2>2
<1>9. \A r \in Chunk(u) : r \notin toBind[u] => Placed(r)'
  BY <1>2, <1>6, <1>7 DEF ReportInv, ReportOf, Running
<1>10. \A r \in toBind[u] : InBinding(r)'
  BY <1>3, <1>6 DEF InBinding
<1>11. \A r \in FileRows(u) \ filtered[u] : shown'[r] = "processed before"
  BY <1>2, <1>3, <1>6 DEF ReportInv, ReportOf, Running, FileRows
<1>12. \A r \in toBind[u] : r \notin warned'
  BY <1>1, <1>2, <1>6 DEF ReportInv, ReportOf, Running
<1>13. ReportOf(u)'
  BY <1>1, <1>4, <1>5, <1>8, <1>9, <1>10, <1>11, <1>12 DEF ReportOf, FileRows
<1>14. Elsewhere(u)
  BY <1>1, <1>2, <1>3, <1>6, IInvType DEF Elsewhere, TypeOK
<1> QED BY <1>13, <1>14, ReportElsewhere

\* A task writes its binding and its line together, when it starts and when it ends.
LEMMA TaskReport ==
    ASSUME IInv, ReportInv, NEW u \in Uploads, NEW r \in toBind[u], NEW status, NEW text,
           UNCHANGED <<pc, filtered, from, reply, toBind, rejected, binding, insertedOn, warned>>,
           pc[u] = "executing",
           tracked' = [tracked EXCEPT ![r] = status],
           shown' = [shown EXCEPT ![r] = text],
           \/ status = "BeingProcessed" /\ text = "in progress"
           \/ status = "ProcessedSuccessfully" /\ text = "finished: ok"
           \/ status = "ProccessedWithError" /\ text = "finished: error"
    PROVE  ReportInv'
<1>1. UNCHANGED <<pc, filtered, from, reply, toBind, rejected, binding, insertedOn, warned>>
  OBVIOUS
<1>2. pc[u] = "executing" /\ r \in toBind[u] /\ r \in Rows
  BY IInvType DEF TypeOK
<1>3. /\ \A q \in Rows : q # r => tracked'[q] = tracked[q] /\ shown'[q] = shown[q]
      /\ tracked'[r] = status /\ shown'[r] = text
  BY <1>2, IInvType DEF TypeOK
<1>4. Chunk(u)' = Chunk(u) /\ \A q : Past(u, q)' <=> Past(u, q)
  BY <1>1, BlocksStay
<1>5. \A q \in Chunk(u) : q \in Rows /\ q \in FileRows(u) /\ q \in filtered[u] /\ ~ Past(u, q)
  BY ChunkOwn DEF Chunk, FileRows
<1>6. r \in Chunk(u)
  BY <1>2 DEF IInv, Own
<1>7. \A q \in Rows : q # r =>
         (Placed(q)' <=> Placed(q)) /\ (Concluded(q)' <=> Concluded(q)) /\ (InBinding(q)' <=> InBinding(q))
  BY <1>1, <1>3 DEF Placed, Concluded, InBinding
<1>8. \A q \in filtered[u] : Past(u, q) => Placed(q)' \/ Concluded(q)'
  <2>1. \A q \in filtered[u] : Past(u, q) => Placed(q) \/ Concluded(q)
    BY <1>2 DEF ReportInv, ReportOf, Running
  <2>2. \A q \in filtered[u] : Past(u, q) => q \in Rows /\ q # r
    BY <1>5, <1>6, IInvType DEF TypeOK
  <2> QED BY <1>7, <2>1, <2>2
<1>9. \A q \in Chunk(u) : q \notin toBind[u] => Placed(q)'
  BY <1>2, <1>5, <1>7 DEF ReportInv, ReportOf, Running
<1>10. InBinding(r)'
  BY <1>3 DEF InBinding
<1>11. \A q \in toBind[u] : q \in Chunk(u) => InBinding(q)'
  BY <1>2, <1>5, <1>7, <1>10 DEF ReportInv, ReportOf, Running
<1>12. \A q \in FileRows(u) \ filtered[u] : shown'[q] = "processed before"
  BY <1>2, <1>3, <1>5, <1>6 DEF ReportInv, ReportOf, Running, FileRows
<1>13. \A q \in toBind[u] : q \in Chunk(u) => q \notin warned
  BY <1>2 DEF ReportInv, ReportOf, Running
<1>14. ReportOf(u)'
  BY <1>1, <1>2, <1>4, <1>8, <1>9, <1>11, <1>12, <1>13 DEF ReportOf, FileRows
<1>15. Elsewhere(u)
  BY <1>1, <1>3, <1>5, <1>6 DEF Elsewhere
<1> QED BY <1>14, <1>15, ReportElsewhere

LEMMA StartBindingReport == ASSUME IInv, ReportInv, NEW u \in Uploads, StartBinding(u) PROVE ReportInv'
<1>1. UNCHANGED <<pc, filtered, from, reply, toBind, rejected, binding, insertedOn, warned>>
  BY DEF StartBinding, database, history
<1>2. PICK r \in toBind[u] : /\ tracked' = [tracked EXCEPT ![r] = "BeingProcessed"]
                             /\ shown' = [shown EXCEPT ![r] = "in progress"]
  BY DEF StartBinding
<1>3. pc[u] = "executing"
  BY DEF StartBinding
<1> QED BY <1>1, <1>2, <1>3, TaskReport

LEMMA EndBindingReport ==
    ASSUME IInv, ReportInv, NEW u \in Uploads, NEW r \in Rows, NEW status, NEW text,
           EndBinding(u, r, status, text),
           \/ status = "ProcessedSuccessfully" /\ text = "finished: ok"
           \/ status = "ProccessedWithError" /\ text = "finished: error"
    PROVE  ReportInv'
<1>1. UNCHANGED <<pc, filtered, from, reply, toBind, rejected, binding, insertedOn, warned>>
  BY DEF EndBinding, database, abs, history
<1>2. /\ pc[u] = "executing" /\ r \in toBind[u]
      /\ tracked' = [tracked EXCEPT ![r] = status] /\ shown' = [shown EXCEPT ![r] = text]
  BY DEF EndBinding
<1> QED BY <1>1, <1>2, TaskReport

\* The bindings on record become those of the lines.
LEMMA SaveBindingsReport == ASSUME IInv, ReportInv, NEW u \in Uploads, SaveBindings(u) PROVE ReportInv'
<1>1. UNCHANGED <<filtered, reply, tracked, shown, rejected, insertedOn, warned>>
  BY DEF SaveBindings, abs, history
<1>2. /\ pc[u] = "executing" /\ pc' = [pc EXCEPT ![u] = "sending"]
      /\ from' = [from EXCEPT ![u] = NextBlock(u)] /\ toBind' = [toBind EXCEPT ![u] = {}]
  BY DEF SaveBindings, Goto
<1>3. /\ \A r \in toBind[u] : tracked[r] \in Final
      /\ \A r \in Rows : binding'[r] = IF r \in toBind[u] THEN tracked[r] ELSE binding[r]
  BY DEF SaveBindings
<1>4. pc'[u] = "sending"
  BY <1>2, IInvType DEF TypeOK
<1>5. \A r : Past(u, r)' <=> Past(u, r) \/ r \in Chunk(u)
  BY <1>1, <1>2, IInvType, NextBlockPast
<1>6. /\ \A r \in Chunk(u) : r \in Rows /\ r \in FileRows(u) /\ ~ Past(u, r)
      /\ \A r \in toBind[u] : r \in Chunk(u)
  BY ChunkOwn DEF IInv, Own, FileRows
<1>7. \A r \in Rows : r \notin toBind[u] => (Placed(r)' <=> Placed(r)) /\ (Concluded(r)' <=> Concluded(r))
  BY <1>1, <1>3 DEF Placed, Concluded
<1>8. \A r \in filtered[u] : Past(u, r) => Placed(r)' \/ Concluded(r)'
  <2>1. \A r \in filtered[u] : Past(u, r) => Placed(r) \/ Concluded(r)
    BY <1>2 DEF ReportInv, ReportOf, Running
  <2>2. \A r \in filtered[u] : Past(u, r) => r \in Rows /\ r \notin toBind[u]
    BY <1>6, IInvType DEF TypeOK
  <2> QED BY <1>7, <2>1, <2>2
<1>9. \A r \in Chunk(u) : r \notin toBind[u] => Placed(r)'
  BY <1>2, <1>6, <1>7 DEF ReportInv, ReportOf, Running
<1>10. ASSUME NEW r \in toBind[u] PROVE Concluded(r)'
  <2>1. InBinding(r)
    BY <1>2, <1>6 DEF ReportInv, ReportOf, Running
  <2>2. r \notin rejected /\ insertedOn[r] # Never /\ r \notin warned
    BY <1>2, <1>6 DEF IInv, Binding, ReportInv, ReportOf, Running
  <2>3. binding'[r] = tracked[r] /\ tracked[r] \in Final
    BY <1>3, <1>6
  <2> QED BY <1>1, <2>1, <2>2, <2>3 DEF InBinding, Concluded, Final
<1>11. \A r \in FileRows(u) \ filtered[u] : shown'[r] = "processed before"
  BY <1>1, <1>2 DEF ReportInv, ReportOf, Running
<1>12. \A r \in filtered[u] : Past(u, r)' => Placed(r)' \/ Concluded(r)'
  BY <1>5, <1>8, <1>9, <1>10
<1>13. ReportOf(u)'
  BY <1>1, <1>4, <1>11, <1>12 DEF ReportOf, FileRows
<1>14. Elsewhere(u)
  BY <1>1, <1>2, <1>3, <1>6, IInvType DEF Elsewhere, TypeOK
<1> QED BY <1>13, <1>14, ReportElsewhere

\* The loop ends when all the orders are past.
LEMMA SaveFileReport == ASSUME IInv, ReportInv, NEW u \in Uploads, SaveFile(u) PROVE ReportInv'
<1>1. UNCHANGED <<filtered, from, reply, toBind, tracked, shown, rejected, binding, insertedOn, warned>>
  BY DEF SaveFile, database, abs, history
<1>2. pc[u] = "sending" /\ pc' = [pc EXCEPT ![u] = "done"] /\ from[u] >= Cardinality(filtered[u])
  BY DEF SaveFile, Goto
<1>3. pc'[u] = "done"
  BY <1>2, IInvType DEF TypeOK
<1>4. \A r \in filtered[u] : Past(u, r)
  <2>1. filtered[u] \in SUBSET Rows /\ from[u] \in Nat
    BY IInvType DEF TypeOK
  <2>2. IsFiniteSet(filtered[u])
    BY <2>1, FS_Subset, RowsAssumption
  <2>3. Cardinality(filtered[u]) \in Nat
    BY <2>2, FS_CardinalityType
  <2>4. \A r \in filtered[u] : Rank(r, filtered[u]) \in Nat /\ Rank(r, filtered[u]) < Cardinality(filtered[u])
    BY <2>1, RankType, RankBound
  <2> QED BY <1>2, <2>1, <2>3, <2>4 DEF Past
<1>5. \A r \in filtered[u] : Placed(r) \/ Concluded(r)
  BY <1>2, <1>4 DEF ReportInv, ReportOf, Running
<1>6. \A r : (Placed(r)' <=> Placed(r)) /\ (Concluded(r)' <=> Concluded(r))
  BY <1>1 DEF Placed, Concluded
<1>7. \A r \in FileRows(u) \ filtered[u] : shown[r] = "processed before"
  BY <1>2 DEF ReportInv, ReportOf, Running
<1>8. ReportOf(u)'
  BY <1>1, <1>3, <1>5, <1>6, <1>7 DEF ReportOf, FileRows
<1>9. Elsewhere(u)
  BY <1>1, <1>2, IInvType DEF Elsewhere, TypeOK
<1> QED BY <1>8, <1>9, ReportElsewhere

\* A request that has no list yet, or has failed, has no report.
LEMMA NoReport ==
    ASSUME IInv, ReportInv, NEW u \in Uploads, Begin(u) \/ FilterExistingOrder(u) \/ Drop(u)
    PROVE  ReportInv'
<1>1. UNCHANGED <<from, reply, rejected, binding, insertedOn, warned>>
  BY DEF Begin, FilterExistingOrder, Drop, database, abs, history
<1>2. pc'[u] \notin Running
  BY IInvType DEF Begin, FilterExistingOrder, Drop, Goto, TypeOK, Running
<1>3. Elsewhere(u)
  <2>1. CASE Begin(u)
    BY <1>1, <2>1, IInvType DEF Begin, Goto, TypeOK, Elsewhere
  <2>2. CASE FilterExistingOrder(u)
    BY <1>1, <2>2, IInvType DEF FilterExistingOrder, TypeOK, Elsewhere
  <2>3. CASE Drop(u)
    BY <1>1, <2>3, IInvType DEF Drop, Goto, Assign, TypeOK, Elsewhere
  <2> QED BY <2>1, <2>2, <2>3
<1> QED BY <1>2, <1>3, ReportElsewhere DEF ReportOf

\* ABS executing an operation and midnight change no line.
LEMMA ReportStays ==
    ASSUME ReportInv, UNCHANGED <<local, rejected, binding, insertedOn, warned>>
    PROVE  ReportInv'
<1> SUFFICES ASSUME NEW u \in Uploads PROVE ReportOf(u)'
  BY DEF ReportInv
<1>1. UNCHANGED <<pc, filtered, from, reply, toBind, tracked, shown>>
  BY DEF local
<1>2. /\ Chunk(u)' = Chunk(u) /\ ErrorRows(u)' = ErrorRows(u) /\ NotLoaded(u)' = NotLoaded(u)
      /\ \A r : Past(u, r)' <=> Past(u, r)
  BY <1>1, BlocksStay, ErrorRowsStay DEF NotLoaded
<1>3. \A r : /\ (Placed(r)' <=> Placed(r)) /\ (Concluded(r)' <=> Concluded(r)) /\ (InBinding(r)' <=> InBinding(r))
  BY <1>1 DEF Placed, Concluded, InBinding
<1>4. \A r : Answered(u, r)' <=> Answered(u, r)
  BY <1>1, <1>2 DEF Answered
<1> QED BY <1>1, <1>2, <1>3, <1>4 DEF ReportInv, ReportOf, FileRows

LEMMA NextReport == IInv /\ ReportInv /\ [Next]_vars => ReportInv'
<1> SUFFICES ASSUME IInv, ReportInv, [Next]_vars PROVE ReportInv'
  OBVIOUS
<1>1. ASSUME NEW u \in Uploads, UploadStep(u) PROVE ReportInv'
  <2> \A errors \in SUBSET LinkIds(u), status \in {"OK", "Error"} : [status |-> status, errors |-> errors] \in Replies
    BY LinkIdType, IInvType DEF LinkIds, Replies
  <2> \A links : Listed(u, links) \subseteq Chunk(u)
    BY DEF Listed
  <2>1. CASE UploadAccepted(u)
    <3>1. PICK errors \in SUBSET LinkIds(u) : \E taken \in SUBSET Listed(u, errors) :
             MassInsert(u, (Chunk(u) \ Listed(u, errors)) \cup taken, [status |-> "OK", errors |-> errors])
      BY <2>1 DEF UploadAccepted
    <3>2. PICK taken \in SUBSET Listed(u, errors) :
             MassInsert(u, (Chunk(u) \ Listed(u, errors)) \cup taken, [status |-> "OK", errors |-> errors])
      BY <3>1
    <3>3. (Chunk(u) \ Listed(u, errors)) \cup taken \in SUBSET Chunk(u)
      OBVIOUS
    <3> QED BY <3>2, <3>3, MassInsertReport
  <2>2. CASE UploadPartlyRejected(u)
    <3>1. PICK errors \in SUBSET LinkIds(u) :
             MassInsert(u, Chunk(u) \ Listed(u, errors), [status |-> "Error", errors |-> errors])
      BY <2>2 DEF UploadPartlyRejected
    <3> QED BY <3>1, MassInsertReport
  <2>3. CASE UploadFailedUnlisted(u)
    <3>1. [status |-> "ErrorNoList", errors |-> {}] \in Replies
      BY DEF Replies
    <3> QED BY <2>3, <3>1, MassInsertReport DEF UploadFailedUnlisted
  <2>4. ASSUME NEW r \in Rows, BindingSucceeded(u, r) \/ BindingFailed(u, r) PROVE ReportInv'
    BY <2>4, EndBindingReport DEF BindingSucceeded, BindingFailed
  <2>5. CASE FilterExistingOrder(u) \/ NullReference(u)
    BY <2>5, NoReport DEF NullReference
  <2> QED BY <1>1, <2>1, <2>2, <2>3, <2>4, <2>5, MarkReport, SaveResultReport, ProcessResultsReport,
             GetPaymentsReport, AddBindingsReport, StartBindingReport, SaveBindingsReport, SaveFileReport DEF UploadStep
<1>2. ASSUME NEW u \in Uploads, Begin(u) \/ Fail(u) PROVE ReportInv'
  BY <1>2, NoReport DEF Fail
<1>3. CASE NextDay \/ UNCHANGED vars \/ \E r \in Rows : AbsExecute(r)
  BY <1>3, ReportStays DEF NextDay, vars, AbsExecute, local, database, abs, history
<1> QED BY <1>1, <1>2, <1>3 DEF Next

\* What the lines of every request say holds in every reachable state.
THEOREM ReportCorrect == Spec => []ReportInv
<1>1. Init => ReportInv
  BY DEF Init, ReportInv, ReportOf, Running
<1> QED BY <1>1, NextReport, Inductive, PTL DEF Spec

\* The file a request leaves tells the truth about every order of it.
THEOREM ReportIsFaithfulHolds == Spec => []ReportIsFaithful
<1>1. IInv /\ ReportInv => ReportIsFaithful
  <2> SUFFICES ASSUME IInv, ReportInv, NEW u \in Uploads, pc[u] = "done", NEW r \in FileRows(u)
               PROVE  /\ shown[r] \notin {"blank", "scheduled", "in progress"}
                      /\ shown[r] = "processed before" <=> storedOn[r] = Never
                      /\ r \in warned => shown[r] = "loaded" /\ r \in rejected /\ binding[r] = "none"
                      /\ shown[r] = "load error" <=> r \in rejected \ warned
                      /\ r \notin warned =>
                           (shown[r] \in {"processed before", "load error"} <=> insertedOn[r] = Never)
                      /\ shown[r] = "finished: ok" <=> binding[r] = "ProcessedSuccessfully"
                      /\ shown[r] = "finished: error" <=> binding[r] = "ProccessedWithError"
                      /\ shown[r] = "loaded" => r \notin WithContract \/ r \in warned
    BY DEF ReportIsFaithful
  <2>1. CASE r \notin filtered[u]
    <3>1. shown[r] = "processed before"
      BY <2>1 DEF ReportInv, ReportOf, Running
    <3>2. ~ Past(u, r) /\ r \notin Chunk(u)
      BY <2>1 DEF Past, Chunk
    <3>3. storedOn[r] = Never /\ insertedOn[r] = Never /\ binding[r] = "none" /\ r \notin warned
      BY <3>2 DEF IInv, Progress
    <3>4. r \notin rejected
      BY <3>3 DEF IInv, Errors
    <3> QED BY <3>1, <3>3, <3>4
  <2>2. CASE r \in filtered[u]
    <3>1. Placed(r) \/ Concluded(r)
      BY <2>2 DEF ReportInv, ReportOf, Running
    <3>2. storedOn[r] # Never
      <4>1. CASE r \in rejected
        BY <4>1 DEF IInv, Errors
      <4>2. CASE insertedOn[r] # Never
        <5>1. Past(u, r)
          BY <4>2 DEF IInv, Progress, AfterSave
        <5> QED BY <5>1 DEF IInv, Progress
      <4> QED BY <3>1, <4>1, <4>2 DEF Placed, Concluded
    <3> QED BY <3>1, <3>2 DEF Placed, Concluded
  <2> QED BY <2>1, <2>2
<1> QED BY <1>1, ReportCorrect, Inductive, PTL
=============================================================================
