------------------------ MODULE ProductCatalogProofs ------------------------
(***************************************************************************)
(* Proofs about ProductCatalog, for any products, readers and bounds.      *)
(***************************************************************************)
EXTENDS ProductCatalog, SequenceTheorems, TLAPS

-----------------------------------------------------------------------------
(* Types *)

\* The types hold at the start.
LEMMA TypeInit ==
    ASSUME Init
    PROVE  TypeOK
<1>1. writes \in 0 .. MaxWrites /\ failures \in 0 .. MaxFailures
      BY BoundsAssumption DEF Init
<1>2. /\ table \in [Products -> 0 .. MaxWrites] /\ redis \in [Products -> 0 .. MaxWrites]
      /\ item \in [Readers -> 0 .. MaxWrites]
      BY BoundsAssumption DEF Init, Absent
<1>3. stream = <<>> /\ batch = 0 /\ applied = 0
      BY DEF Init
<1>4. stream \in Seq(Records) /\ batch \in 0 .. Len(stream) /\ applied \in 0 .. batch
      BY <1>3
<1>5. pc \in [Readers -> {"idle", "missed", "filling"}] /\ product \in [Readers -> Products] /\ late \subseteq Products
      BY DEF Init
<1> QED  BY <1>1, <1>2, <1>4, <1>5 DEF TypeOK

\* A put or a deletion keeps the types.
LEMMA ChangeType ==
    ASSUME TypeOK, NEW p \in Products, NEW image \in 0 .. MaxWrites, Change(p, image), writes' \in 0 .. MaxWrites
    PROVE  TypeOK'
<1>1. [id |-> p, image |-> image] \in Records
      BY DEF Records
<1>2. stream' \in Seq(Records) /\ Len(stream') = Len(stream) + 1
      BY <1>1, AppendProperties DEF TypeOK, Change
<1>3. batch' \in 0 .. Len(stream') /\ applied' \in 0 .. batch'
      BY <1>2 DEF TypeOK, Change
<1>4. table' \in [Products -> 0 .. MaxWrites]
      BY DEF TypeOK, Change
<1> QED  BY <1>2, <1>3, <1>4 DEF TypeOK, Change, reader

\* The record that is handled is one of the stream.
LEMMA RecordType ==
    ASSUME TypeOK, applied < batch
    PROVE  /\ applied + 1 \in DOMAIN stream /\ Record = stream[applied + 1]
           /\ Record.id \in Products /\ Record.image \in 0 .. MaxWrites
<1>1. applied + 1 \in 1 .. Len(stream) /\ stream \in Seq(Records)
      BY DEF TypeOK
<1>2. stream[applied + 1] \in Records
      BY <1>1
<1> QED  BY <1>1, <1>2 DEF Record, Records

\* The handling of a record keeps the types.
LEMMA HandleType ==
    ASSUME TypeOK, applied < batch, NEW image \in 0 .. MaxWrites, Handle(image)
    PROVE  TypeOK'
<1>1. redis' \in [Products -> 0 .. MaxWrites]
      BY RecordType DEF TypeOK, Handle
<1>2. applied' \in 0 .. batch'
      BY DEF TypeOK, Handle
<1> QED  BY <1>1, <1>2 DEF TypeOK, Handle, reader

\* What Complete leaves of the stream.
LEMMA CompleteLeaves ==
    ASSUME TypeOK, Complete
    PROVE  /\ stream' \in Seq(Records)
           /\ Len(stream') = Len(stream) - batch
           /\ \A i \in DOMAIN stream' : i + batch \in DOMAIN stream /\ stream'[i] = stream[i + batch]
           /\ \A i \in DOMAIN stream : i > batch => i - batch \in DOMAIN stream' /\ stream'[i - batch] = stream[i]
<1>1. stream \in Seq(Records) /\ batch \in 1 .. Len(stream) /\ Len(stream) \in Nat
      BY DEF TypeOK, Complete
<1>2. stream' = SubSeq(stream, batch + 1, Len(stream))
      BY DEF Complete
<1>3. /\ stream' \in Seq(Records) /\ Len(stream') = Len(stream) - batch
      /\ \A i \in 1 .. Len(stream) - batch : stream'[i] = stream[batch + i]
      BY <1>1, <1>2, SubSeqProperties
<1>4. DOMAIN stream = 1 .. Len(stream) /\ DOMAIN stream' = 1 .. Len(stream) - batch /\ batch \in Nat
      BY <1>1, <1>3
<1>5. \A i \in 1 .. Len(stream) - batch : i + batch \in 1 .. Len(stream) /\ batch + i = i + batch
      BY <1>1, <1>4
<1>6. \A i \in 1 .. Len(stream) : i > batch => /\ i - batch \in 1 .. Len(stream) - batch
                                              /\ batch + (i - batch) = i
      BY <1>1, <1>4
<1> QED  BY <1>3, <1>4, <1>5, <1>6

\* Every step keeps the types.
LEMMA TypeStep ==
    ASSUME TypeOK, [Next]_vars
    PROVE  TypeOK'
<1> USE DEF reader, lambda
<1>1. ASSUME NEW p \in Products, CreateAsync(p)
      PROVE  TypeOK'
  <2>1. writes + 1 \in 0 .. MaxWrites /\ writes' = writes + 1
        BY <1>1, BoundsAssumption DEF CreateAsync, TypeOK
  <2> QED  BY <1>1, <2>1, ChangeType DEF CreateAsync
<1>2. ASSUME NEW p \in Products, DeleteAsync(p)
      PROVE  TypeOK'
  <2>1. Absent \in 0 .. MaxWrites /\ writes' \in 0 .. MaxWrites
        BY <1>2, BoundsAssumption DEF DeleteAsync, TypeOK, Absent
  <2> QED  BY <1>2, <2>1, ChangeType DEF DeleteAsync
<1>3. ASSUME NEW r \in Readers, NEW p \in Products, StringGet(r, p)
      PROVE  TypeOK'
      BY <1>3 DEF StringGet, TypeOK
<1>4. ASSUME NEW r \in Readers, GetItem(r) \/ ReadFails(r)
      PROVE  TypeOK'
  <2>1. item' \in [Readers -> 0 .. MaxWrites] /\ pc' \in [Readers -> {"idle", "missed", "filling"}]
        BY <1>4 DEF GetItem, ReadFails, TypeOK
  <2> QED  BY <1>4, <2>1 DEF GetItem, ReadFails, TypeOK
<1>5. ASSUME NEW r \in Readers, StringSet(r)
      PROVE  TypeOK'
  <2>1. redis' \in [Products -> 0 .. MaxWrites] /\ late' \subseteq Products
        BY <1>5 DEF StringSet, TypeOK
  <2> QED  BY <1>5, <2>1 DEF StringSet, TypeOK
<1>6. CASE Invoke
  <2>1. batch' \in 0 .. Len(stream) /\ applied' \in 0 .. batch'
        BY <1>6, BoundsAssumption DEF Invoke, TypeOK
  <2> QED  BY <1>6, <2>1 DEF Invoke, TypeOK
<1>7. CASE HandleRemove \/ HandlePut
      BY <1>7, HandleType, RecordType, BoundsAssumption DEF HandleRemove, HandlePut, Absent
<1>8. CASE Complete
  <2>1. stream' \in Seq(Records) /\ batch' \in 0 .. Len(stream') /\ applied' \in 0 .. batch'
        BY <1>8, CompleteLeaves DEF Complete
  <2> QED  BY <1>8, <2>1 DEF Complete, TypeOK
<1>9. CASE InvocationFails
  <2>1. failures' \in 0 .. MaxFailures /\ batch' \in 0 .. Len(stream) /\ applied' \in 0 .. batch'
        BY <1>9, BoundsAssumption DEF InvocationFails, TypeOK
  <2> QED  BY <1>9, <2>1 DEF InvocationFails, TypeOK
<1>10. CASE UNCHANGED vars
       BY <1>10 DEF vars, TypeOK
<1> QED  BY <1>1, <1>2, <1>3, <1>4, <1>5, <1>6, <1>7, <1>8, <1>9, <1>10 DEF Next, LambdaStep

-----------------------------------------------------------------------------
(* The cache *)

\* The last record of a product has the image that is in the table.
LastImageInv ==
    \A i \in DOMAIN stream :
        (\A j \in DOMAIN stream : j > i => stream[j].id # stream[i].id) => stream[i].image = table[stream[i].id]

Inv == TypeOK /\ LastImageInv /\ CacheFollowsTable

\* A put or a deletion keeps the invariant: its record is the last of its product.
LEMMA ChangeStep ==
    ASSUME Inv, NEW p \in Products, NEW image, Change(p, image)
    PROVE  LastImageInv' /\ CacheFollowsTable'
<1> DEFINE record == [id |-> p, image |-> image]
<1>1. stream \in Seq(Records) /\ Len(stream) \in Nat /\ applied <= Len(stream) /\ applied \in Nat
      BY DEF Inv, TypeOK
<1>2. /\ stream' = Append(stream, record) /\ table'[p] = image
      /\ \A q \in Products \ {p} : table'[q] = table[q]
      /\ UNCHANGED <<applied, redis, late>>
      BY DEF Change, Inv, TypeOK
<1>3. /\ DOMAIN stream = 1 .. Len(stream) /\ DOMAIN stream' = 1 .. Len(stream) + 1
      /\ \A i \in 1 .. Len(stream) : stream'[i] = stream[i] /\ stream[i].id \in Products
      /\ stream'[Len(stream) + 1] = record
  <2>1. \A i \in 1 .. Len(stream) : stream[i] \in Records
        BY <1>1
  <2>2. \A i \in 1 .. Len(stream) : stream'[i] = stream[i]
        BY <1>1, <1>2
  <2>3. stream'[Len(stream) + 1] = record /\ DOMAIN stream' = 1 .. Len(stream) + 1
        BY <1>1, <1>2
  <2> QED  BY <1>1, <2>1, <2>2, <2>3 DEF Records
<1>4. record.id = p /\ record.image = image
      OBVIOUS
<1> HIDE DEF record
<1>5. LastImageInv'
  <2> SUFFICES ASSUME NEW i \in DOMAIN stream', \A j \in DOMAIN stream' : j > i => stream'[j].id # stream'[i].id
               PROVE  stream'[i].image = table'[stream'[i].id]
      BY DEF LastImageInv
  <2>1. CASE i = Len(stream) + 1
        BY <1>2, <1>3, <1>4, <2>1
  <2>2. CASE i \in 1 .. Len(stream)
    <3>1. stream[i].id # p
          BY <1>1, <1>3, <1>4, <2>2
    <3>2. \A j \in DOMAIN stream : j > i => stream[j].id # stream[i].id
          BY <1>1, <1>3, <2>2
    <3>3. stream[i].image = table[stream[i].id]
          BY <1>3, <2>2, <3>2 DEF Inv, LastImageInv
    <3> QED  BY <1>2, <1>3, <2>2, <3>1, <3>3
  <2> QED  BY <1>3, <2>1, <2>2
<1>6. CacheFollowsTable'
  <2> SUFFICES ASSUME NEW q \in Products, Handled(q)'
               PROVE  redis[q] \in {Absent, table'[q]} \/ q \in late
      BY <1>2 DEF CacheFollowsTable
  <2>1. q # p
    <3>1. ~ (Len(stream) + 1 <= applied)
          BY <1>1
    <3> QED  BY <1>1, <1>2, <1>3, <1>4, <3>1 DEF Handled
  <2>2. Handled(q)
        BY <1>1, <1>2, <1>3 DEF Handled
  <2> QED  BY <1>2, <2>1, <2>2 DEF Inv, CacheFollowsTable
<1> QED  BY <1>5, <1>6

\* The handling of a record keeps the invariant.
LEMMA HandleStep ==
    ASSUME Inv, applied < batch, Handle(Record.image)
    PROVE  LastImageInv' /\ CacheFollowsTable'
<1>1. /\ applied + 1 \in DOMAIN stream /\ Record = stream[applied + 1] /\ Record.id \in Products
      /\ applied \in Nat /\ DOMAIN stream \subseteq Nat
      BY RecordType DEF Inv, TypeOK
<1>2. /\ UNCHANGED <<stream, table>> /\ applied' = applied + 1
      /\ redis'[Record.id] = Record.image /\ \A q \in Products \ {Record.id} : redis'[q] = redis[q]
      /\ late' = late \ {Record.id}
      BY <1>1 DEF Handle, Inv, TypeOK
<1>3. LastImageInv'
      BY <1>2 DEF Inv, LastImageInv
<1>4. CacheFollowsTable'
  <2> SUFFICES ASSUME NEW q \in Products, Handled(q)'
               PROVE  redis'[q] \in {Absent, table[q]} \/ q \in late'
      BY <1>2 DEF CacheFollowsTable
  <2>1. CASE q = Record.id
    <3>1. \A j \in DOMAIN stream : j > applied + 1 => stream[j].id # q
          BY <1>1, <1>2 DEF Handled
    <3>2. Record.image = table[q]
          BY <1>1, <2>1, <3>1 DEF Inv, LastImageInv
    <3> QED  BY <1>2, <2>1, <3>2
  <2>2. CASE q # Record.id
    <3>1. \A i \in DOMAIN stream : stream[i].id = q => i <= applied
          BY <1>1, <1>2, <2>2 DEF Handled
    <3> QED  BY <1>2, <2>2, <3>1 DEF Handled, Inv, CacheFollowsTable
  <2> QED  BY <2>1, <2>2
<1> QED  BY <1>3, <1>4

\* The end of a batch keeps the invariant.
LEMMA CompleteStep ==
    ASSUME Inv, Complete
    PROVE  LastImageInv' /\ CacheFollowsTable'
<1>1. /\ \A i \in DOMAIN stream' : i + batch \in DOMAIN stream /\ stream'[i] = stream[i + batch]
      /\ \A i \in DOMAIN stream : i > batch => i - batch \in DOMAIN stream' /\ stream'[i - batch] = stream[i]
      /\ DOMAIN stream' \subseteq Nat \ {0} /\ DOMAIN stream \subseteq Nat
      BY CompleteLeaves DEF Inv, TypeOK
<1>2. batch \in Nat /\ applied = batch /\ applied' = 0 /\ UNCHANGED <<table, redis, late>>
      BY DEF Complete, Inv, TypeOK
<1>3. LastImageInv'
  <2> SUFFICES ASSUME NEW i \in DOMAIN stream', \A j \in DOMAIN stream' : j > i => stream'[j].id # stream'[i].id
               PROVE  stream'[i].image = table[stream'[i].id]
      BY <1>2 DEF LastImageInv
  <2>1. ASSUME NEW j \in DOMAIN stream, j > i + batch
        PROVE  stream[j].id # stream[i + batch].id
    <3>1. j > batch /\ j - batch > i
          BY <1>1, <1>2, <2>1
    <3> QED  BY <1>1, <3>1
  <2> QED  BY <1>1, <2>1 DEF Inv, LastImageInv
<1>4. CacheFollowsTable'
  <2> SUFFICES ASSUME NEW q \in Products, Handled(q)'
               PROVE  redis[q] \in {Absent, table[q]} \/ q \in late
      BY <1>2 DEF CacheFollowsTable
  <2>1. Handled(q)
    <3> SUFFICES ASSUME NEW i \in DOMAIN stream, stream[i].id = q, i > batch
                 PROVE  FALSE
        BY <1>1, <1>2 DEF Handled
    <3>1. i - batch \in DOMAIN stream' /\ stream'[i - batch].id = q
          BY <1>1
    <3> QED  BY <1>1, <1>2, <3>1 DEF Handled
  <2> QED  BY <2>1 DEF Inv, CacheFollowsTable
<1> QED  BY <1>3, <1>4

\* Every step keeps the invariant.
LEMMA InvStep ==
    ASSUME Inv, [Next]_vars
    PROVE  LastImageInv' /\ CacheFollowsTable'
<1> USE DEF reader, lambda
<1>1. ASSUME NEW p \in Products, CreateAsync(p) \/ DeleteAsync(p)
      PROVE  LastImageInv' /\ CacheFollowsTable'
      BY <1>1, ChangeStep DEF CreateAsync, DeleteAsync
<1>2. ASSUME NEW r \in Readers, GetItem(r) \/ ReadFails(r) \/ \E p \in Products : StringGet(r, p)
      PROVE  LastImageInv' /\ CacheFollowsTable'
  <2>1. UNCHANGED <<table, stream, applied, redis, late>>
        BY <1>2 DEF GetItem, ReadFails, StringGet
  <2> QED  BY <2>1 DEF Inv, LastImageInv, CacheFollowsTable, Handled
<1>3. ASSUME NEW r \in Readers, StringSet(r)
      PROVE  LastImageInv' /\ CacheFollowsTable'
  <2>1. /\ UNCHANGED <<table, stream, applied>> /\ product[r] \in Products
        /\ redis'[product[r]] = item[r] /\ \A q \in Products \ {product[r]} : redis'[q] = redis[q]
        /\ late' = IF item[r] = table[product[r]] THEN late \ {product[r]} ELSE late \cup {product[r]}
        BY <1>3 DEF StringSet, Inv, TypeOK
  <2> QED  BY <2>1 DEF Inv, LastImageInv, CacheFollowsTable, Handled
<1>4. CASE HandleRemove \/ HandlePut
      BY <1>4, HandleStep DEF HandleRemove, HandlePut
<1>5. CASE Complete
      BY <1>5, CompleteStep
<1>6. CASE Invoke \/ InvocationFails
  <2>1. UNCHANGED <<table, stream, redis, late>> /\ applied' = 0 /\ applied \in Nat
        BY <1>6 DEF Invoke, InvocationFails, Inv, TypeOK
  <2>2. \A q \in Products : Handled(q)' => Handled(q)
    <3> SUFFICES ASSUME NEW q \in Products, Handled(q)', NEW i \in DOMAIN stream, stream[i].id = q
                 PROVE  i <= applied
        BY DEF Handled
    <3>1. i <= 0 /\ i \in Nat
          BY <2>1 DEF Handled, Inv, TypeOK
    <3> QED  BY <2>1, <3>1
  <2> QED  BY <2>1, <2>2 DEF Inv, LastImageInv, CacheFollowsTable
<1>7. CASE UNCHANGED vars
      BY <1>7 DEF vars, Inv, LastImageInv, CacheFollowsTable, Handled
<1> QED  BY <1>1, <1>2, <1>3, <1>4, <1>5, <1>6, <1>7 DEF Next, LambdaStep

\* The inductive invariant: the last record of a product is what the table has.
THEOREM InvCorrect == Spec => []Inv
<1>1. Init => Inv
  <2> SUFFICES ASSUME Init PROVE Inv
      OBVIOUS
  <2>1. stream = <<>> /\ \A p \in Products : redis[p] = Absent
        BY DEF Init
  <2> QED  BY <2>1, TypeInit DEF Inv, LastImageInv, CacheFollowsTable
<1>2. Inv /\ [Next]_vars => Inv'
      BY TypeStep, InvStep DEF Inv
<1> QED  BY <1>1, <1>2, PTL DEF Spec

\* The types.
THEOREM TypeCorrect == Spec => []TypeOK
<1>1. Inv => TypeOK
      BY DEF Inv
<1> QED  BY <1>1, InvCorrect, PTL

\* The cache follows the table however invocations fail, but for late readers.
THEOREM CacheCorrect == Spec => []CacheFollowsTable
<1>1. Inv => CacheFollowsTable
      BY DEF Inv
<1> QED  BY <1>1, InvCorrect, PTL
=============================================================================
