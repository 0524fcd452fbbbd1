--------------------------- MODULE ProductCatalog ---------------------------
(***************************************************************************)
(* The product catalogue of KeyVault/Aws/DynamoDbStreams: requests read a  *)
(* product through a Redis cache and write it to a DynamoDB table only; a  *)
(* Lambda function that is fed the table's change stream brings the cache  *)
(* up to date.                                                             *)
(*                                                                         *)
(* The content of a product is the number of the write that made it: every *)
(* write stamps LastUpdatedUtc, so no two are equal.  The stream and the   *)
(* way Lambda calls its function again after a failure are external.       *)
(***************************************************************************)
EXTENDS Naturals, Sequences

CONSTANTS
    Products,
    Readers,        \* the requests of GetById
    MaxWrites,      \* bound on the puts
    MaxBatch,       \* the most records of one invocation
    MaxFailures     \* bound on the invocations that fail

ASSUME BoundsAssumption == MaxWrites \in Nat /\ MaxBatch \in Nat \ {0} /\ MaxFailures \in Nat

VARIABLES
    table,          \* the DynamoDB table: the last write of a product, Absent if it has none
    writes,         \* the number of puts so far
    stream,         \* the records the function has not acknowledged, oldest first
    batch,          \* how many of them the running invocation was given, 0 if none runs
    applied,        \* how many of these it has handled
    redis,          \* the cache, Absent where StringGet answers Null
    pc,             \* where a request of GetById stands
    product,        \* the product it asks for
    item,           \* the item it has read from the table
    failures,       \* the invocations that have failed
    late            \* history: the products last cached from an item the table no longer had

vars == <<table, writes, stream, batch, applied, redis, pc, product, item, failures, late>>

reader == <<pc, product, item>>
lambda == <<stream, batch, applied, failures>>

Absent == 0

Records == [id : Products, image : 0 .. MaxWrites]

TypeOK ==
    /\ table \in [Products -> 0 .. MaxWrites]
    /\ writes \in 0 .. MaxWrites
    /\ stream \in Seq(Records)
    /\ applied \in 0 .. batch
    /\ batch \in 0 .. Len(stream)
    /\ redis \in [Products -> 0 .. MaxWrites]
    /\ pc \in [Readers -> {"idle", "missed", "filling"}]
    /\ product \in [Readers -> Products]
    /\ item \in [Readers -> 0 .. MaxWrites]
    /\ failures \in 0 .. MaxFailures
    /\ late \subseteq Products

Init ==
    /\ table = [p \in Products |-> Absent]
    /\ writes = 0
    /\ stream = <<>>
    /\ batch = 0
    /\ applied = 0
    /\ redis = [p \in Products |-> Absent]
    /\ pc = [r \in Readers |-> "idle"]
    /\ product \in [Readers -> Products]
    /\ item = [r \in Readers |-> Absent]
    /\ failures = 0
    /\ late = {}

-----------------------------------------------------------------------------
(* ProductRepository *)

Change(p, image) ==
    /\ table' = [table EXCEPT ![p] = image]
    /\ stream' = Append(stream, [id |-> p, image |-> image])
    /\ UNCHANGED <<batch, applied, failures, redis, reader, late>>

\* CreateAsync, which UpdateAsync calls too: a put, whether or not the product
\* is there.
CreateAsync(p) ==
    /\ writes < MaxWrites
    /\ writes' = writes + 1
    /\ Change(p, writes + 1)

\* DeleteAsync; the delete of a product that is not there leaves no record.
DeleteAsync(p) ==
    /\ table[p] # Absent
    /\ UNCHANGED writes
    /\ Change(p, Absent)

\* GetByIdAsync: StringGet finds the product, which is answered, or does not.
StringGet(r, p) ==
    /\ pc[r] = "idle"
    /\ redis[p] = Absent
    /\ product' = [product EXCEPT ![r] = p]
    /\ pc' = [pc EXCEPT ![r] = "missed"]
    /\ UNCHANGED <<table, writes, lambda, redis, item, late>>

\* The consistent GetItem; a product that is not there is not cached.
GetItem(r) ==
    /\ pc[r] = "missed"
    /\ item' = [item EXCEPT ![r] = table[product[r]]]
    /\ pc' = [pc EXCEPT ![r] = IF table[product[r]] = Absent THEN "idle" ELSE "filling"]
    /\ UNCHANGED <<table, writes, lambda, redis, product, late>>

\* StringSet of what was read, whatever has been written to table and cache since.
StringSet(r) ==
    /\ pc[r] = "filling"
    /\ redis' = [redis EXCEPT ![product[r]] = item[r]]
    /\ late' = IF item[r] = table[product[r]] THEN late \ {product[r]} ELSE late \cup {product[r]}
    /\ pc' = [pc EXCEPT ![r] = "idle"]
    /\ UNCHANGED <<table, writes, lambda, product, item>>

\* A call of the request fails, or its process ends.
ReadFails(r) ==
    /\ pc[r] # "idle"
    /\ pc' = [pc EXCEPT ![r] = "idle"]
    /\ UNCHANGED <<table, writes, lambda, redis, product, item, late>>

-----------------------------------------------------------------------------
(* ProductCatalogCacheSync.Lambda *)

\* Lambda calls the function with the oldest records (external).
Invoke ==
    /\ batch = 0
    /\ \E n \in 1 .. MaxBatch : n <= Len(stream) /\ batch' = n
    /\ applied' = 0
    /\ UNCHANGED <<table, writes, stream, failures, redis, reader, late>>

\* Mutant of Record: the records of a batch are handled from the newest to the oldest.
NewestFirst == stream[batch - applied]

\* The record of the foreach of FunctionHandler.
Record == stream[applied + 1]

Handle(image) ==
    /\ redis' = [redis EXCEPT ![Record.id] = image]
    /\ late' = late \ {Record.id}
    /\ applied' = applied + 1
    /\ UNCHANGED <<table, writes, stream, batch, failures, reader>>

\* REMOVE: KeyDelete.
HandleRemove ==
    /\ applied < batch
    /\ Record.image = Absent
    /\ Handle(Absent)

\* Mutant of HandlePut: the function fails for a new image.
PutThrows ==
    /\ applied < batch
    /\ Record.image # Absent
    /\ batch' = 0
    /\ applied' = 0
    /\ UNCHANGED <<table, writes, stream, failures, redis, reader, late>>

\* INSERT and MODIFY: StringSet of the new image.
HandlePut ==
    /\ applied < batch
    /\ Record.image # Absent
    /\ Handle(Record.image)

\* The invocation ends; its records are acknowledged.
Complete ==
    /\ batch > 0
    /\ applied = batch
    /\ stream' = SubSeq(stream, batch + 1, Len(stream))
    /\ batch' = 0
    /\ applied' = 0
    /\ UNCHANGED <<table, writes, failures, redis, reader, late>>

\* Mutant of InvocationFails: the records handled so far are not given again,
\* nor the one that failed.
InvocationSkips ==
    /\ batch > 0
    /\ failures < MaxFailures
    /\ failures' = failures + 1
    /\ stream' = SubSeq(stream, applied + 2, Len(stream))
    /\ batch' = 0
    /\ applied' = 0
    /\ UNCHANGED <<table, writes, redis, reader, late>>

\* Mutant of InvocationFails: the function keeps its place in a static field.
InvocationKeepsPlace ==
    /\ batch > 0
    /\ failures < MaxFailures
    /\ failures' = failures + 1
    /\ batch' = 0
    /\ UNCHANGED <<table, writes, stream, applied, redis, reader, late>>

\* The function throws or times out between two records: all the records of
\* the invocation will be given again, in the same order (external).
InvocationFails ==
    /\ batch > 0
    /\ failures < MaxFailures
    /\ failures' = failures + 1
    /\ batch' = 0
    /\ applied' = 0
    /\ UNCHANGED <<table, writes, stream, redis, reader, late>>

-----------------------------------------------------------------------------
LambdaStep == Invoke \/ HandleRemove \/ HandlePut \/ Complete

Next ==
    \/ \E p \in Products : CreateAsync(p) \/ DeleteAsync(p)
    \/ \E r \in Readers, p \in Products : StringGet(r, p)
    \/ \E r \in Readers : GetItem(r) \/ StringSet(r) \/ ReadFails(r)
    \/ LambdaStep
    \/ InvocationFails

\* Lambda goes on calling its function while there are records.
Spec == Init /\ [][Next]_vars /\ WF_vars(LambdaStep)

-----------------------------------------------------------------------------
(* Properties *)

\* No record of p is still to be handled by the running invocation or a later one.
Handled(p) == \A i \in DOMAIN stream : stream[i].id = p => i <= applied

\* Once its changes are handled, a product is in the cache as it is in the
\* table or not at all, whatever invocations failed half way and were given
\* their records again.  The one exception is a product last cached by a
\* request that read it before a change and stored it after the change had
\* been handled: nothing corrects that until the product changes again.
CacheFollowsTable ==
    \A p \in Products : Handled(p) => redis[p] \in {Absent, table[p]} \/ p \in late

\* Every change is handled in the end.
ChangesAreHandled == stream # <<>> ~> stream = <<>>
=============================================================================
