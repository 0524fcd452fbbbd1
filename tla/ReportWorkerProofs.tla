------------------------- MODULE ReportWorkerProofs -------------------------
(***************************************************************************)
(* Proofs about ReportWorker, for any contracts, deliveries, months and    *)
(* bounds.  The registers are judged twice: as they are, and as they would *)
(* be if all that is pending in the context were saved now.                *)
(***************************************************************************)
EXTENDS ReportWorker, TLAPS

\* The registers if the context were saved with ins and del on top.
Saved(ins, del) == (db \ (deleted \cup del)) \cup (inserted \cup ins)

After == Saved({}, {})

\* One agreement and one closing date a contract, and charges of one run.
Good(rows) ==
    \A r, s \in rows : r.contract = s.contract /\ r.register = s.register =>
        IF r.register = "charge" THEN r.run = s.run ELSE r = s

HasAgreement(c, rows) == \E r \in rows : r.register = "agreement" /\ r.contract = c

Kept(rows) == \A c \in Annuities : HasAgreement(c, db) => HasAgreement(c, rows)

Quiet == {"polling", "listing", "payments", "marking", "sleeping", "dead"}
Fresh == {"closing", "replacing", "removing", "adding"}
InTurn == Fresh \cup {"clearing", "months"}

\* Nothing is pending outside of a job, nor for a contract that is still to
\* come or whose turn has begun without a save.
PendingInv ==
    /\ pc \in Quiet => inserted = {} /\ deleted = {}
    /\ \A row \in inserted \cup deleted : row.contract \notin todo
    /\ pc \in InTurn => contract \notin todo
    /\ pc \in Fresh => \A row \in inserted \cup deleted : row.contract # contract

\* What the steps of a turn rely on.
TurnInv ==
    /\ pc \in {"removing", "adding"} => contract \notin Annuities
    /\ pc = "adding" => ~ HasAgreement(contract, db)
    /\ pc = "clearing" => \A row \in inserted : row.register = "charge" => row.contract # contract
    /\ pc = "months" => \A row \in db \cup inserted :
           row.register = "charge" /\ row.contract = contract => row.run = run

RegisterInv == Good(db) /\ Good(After) /\ Kept(After)

Inv == TypeOK /\ PendingInv /\ TurnInv /\ RegisterInv

-----------------------------------------------------------------------------
(* The context *)

\* A save that succeeds or fails leaves the registers as they were or as if
\* saved, and what a further save would make of them is the same either way.
LEMMA SaveLemma ==
    ASSUME NEW ins, NEW del,
           \/ SaveChanges(inserted \cup ins, deleted \cup del)
           \/ SaveFails(inserted \cup ins, deleted \cup del)
    PROVE  After' = Saved(ins, del) /\ db' \in {db, Saved(ins, del)}
<1>1. CASE SaveChanges(inserted \cup ins, deleted \cup del)
      BY <1>1 DEF SaveChanges, After, Saved
<1>2. CASE SaveFails(inserted \cup ins, deleted \cup del)
      BY <1>2 DEF SaveFails, After, Saved
<1> QED  BY <1>1, <1>2

\* What is in the registers after a save was added by it, pending, or there.
LEMMA SavedRows ==
    ASSUME NEW ins, NEW del, NEW row \in Saved(ins, del)
    PROVE  \/ row \in ins
           \/ row \in inserted /\ row \in After
           \/ row \in db /\ row \notin deleted /\ row \notin del /\ row \in After
BY DEF Saved, After

\* The registers stay good, and annuities keep their agreements, in a step that
\* leaves db as it is or as if saved.
LEMMA RegisterStep ==
    ASSUME RegisterInv, NEW S, After' = S, db' \in {db, S}, Good(S), Kept(S)
    PROVE  RegisterInv' /\ Kept(db')
<1>1. Good(db)' /\ Good(After)'
      BY DEF RegisterInv, Good
<1>2. Kept(After)'
  <2>1. CASE db' = db
        BY <2>1 DEF Kept, HasAgreement
  <2>2. CASE db' = S
        BY <2>2 DEF Kept, HasAgreement
  <2> QED  BY <2>1, <2>2
<1>3. Kept(db')
      BY DEF Kept
<1> QED  BY <1>1, <1>2, <1>3 DEF RegisterInv

-----------------------------------------------------------------------------
(* The turn of a contract *)

\* What a row is made of.
LEMMA RowLemma ==
    ASSUME NEW r, NEW c, NEW m
    PROVE  Row(r, c, m).register = r /\ Row(r, c, m).contract = c /\ Row(r, c, m).run = run
BY DEF Row

\* One row more is good if nothing of its kind is left of its contract.
LEMMA GoodWithRow ==
    ASSUME RegisterInv, NEW ins, NEW del, NEW new, ins = {new},
           \A row \in inserted : row.register = new.register /\ row.contract = new.contract
                                 => new.register = "charge" /\ row.run = new.run,
           \A row \in db \ del : row.register = new.register /\ row.contract = new.contract
                                 => new.register = "charge" /\ row.run = new.run
    PROVE  Good(Saved(ins, del))
<1> SUFFICES ASSUME NEW r \in Saved(ins, del), NEW s \in Saved(ins, del),
                    r.contract = s.contract, r.register = s.register
             PROVE  IF r.register = "charge" THEN r.run = s.run ELSE r = s
    BY DEF Good
<1>1. r \in ins \/ (r \in After /\ (r \in inserted \/ (r \in db /\ r \notin del)))
      BY SavedRows
<1>2. s \in ins \/ (s \in After /\ (s \in inserted \/ (s \in db /\ s \notin del)))
      BY SavedRows
<1>3. CASE r \in ins /\ s \in ins
      BY <1>3
<1>4. CASE r \in After /\ s \in After
      BY <1>4 DEF RegisterInv, Good
<1>5. CASE r \in ins /\ s \in After
      BY <1>5, <1>2
<1>6. CASE r \in After /\ s \in ins
      BY <1>6, <1>1
<1> QED  BY <1>1, <1>2, <1>3, <1>4, <1>5, <1>6

\* A removal alone leaves the registers good.
LEMMA GoodWithout ==
    ASSUME RegisterInv, NEW del
    PROVE  Good(Saved({}, del))
<1>1. Saved({}, del) \subseteq After
      BY DEF Saved, After
<1> QED  BY <1>1 DEF RegisterInv, Good

\* Agreements are kept if those removed are of no annuity or replaced at once.
LEMMA KeptLemma ==
    ASSUME RegisterInv, NEW ins, NEW del,
           \A row \in del : row.register = "agreement" =>
               row.contract \notin Annuities \/ HasAgreement(row.contract, ins)
    PROVE  Kept(Saved(ins, del))
<1> SUFFICES ASSUME NEW c \in Annuities, HasAgreement(c, db)
             PROVE  HasAgreement(c, Saved(ins, del))
    BY DEF Kept
<1>1. PICK row \in After : row.register = "agreement" /\ row.contract = c
      BY DEF RegisterInv, Kept, HasAgreement
<1>2. CASE row \in Saved(ins, del)
      BY <1>1, <1>2 DEF HasAgreement
<1>3. CASE row \notin Saved(ins, del)
  <2>1. row \in del
        BY <1>1, <1>3 DEF Saved, After
  <2>2. HasAgreement(c, ins)
        BY <2>1, <1>1
  <2> QED  BY <2>2 DEF HasAgreement, Saved
<1> QED  BY <1>2, <1>3

\* The agreement that is looked for is the only one.
LEMMA OldAgreementLemma ==
    ASSUME RegisterInv, NEW c, NEW old \in OldAgreement(c)
    PROVE  /\ old \subseteq db
           /\ \A row \in old : row.register = "agreement" /\ row.contract = c
           /\ \A row \in db \ old : ~ (row.register = "agreement" /\ row.contract = c)
<1>1. CASE Of("agreement", c) = {}
      BY <1>1 DEF OldAgreement, Of
<1>2. CASE Of("agreement", c) # {}
  <2>1. PICK a \in Of("agreement", c) : old = {a}
        BY <1>2 DEF OldAgreement
  <2>2. a \in db /\ a.register = "agreement" /\ a.contract = c
        BY DEF Of
  <2>3. ASSUME NEW row \in db, row.register = "agreement", row.contract = c
        PROVE  row = a
        BY <2>2, <2>3 DEF RegisterInv, Good
  <2> QED  BY <2>1, <2>2, <2>3
<1> QED  BY <1>1, <1>2

-----------------------------------------------------------------------------
(* Types *)

\* A new row is a row.
LEMMA RowType ==
    ASSUME TypeOK, NEW r \in {"agreement", "charge", "closed"}, NEW c \in Known, NEW m \in Months \cup {0}
    PROVE  Row(r, c, m) \in Rows
BY DEF Row, Rows, TypeOK

\* The agreement that is looked for is in the registers.
LEMMA OldAgreementType ==
    ASSUME NEW c, NEW old \in OldAgreement(c)
    PROVE  old \subseteq db
BY DEF OldAgreement, Of

\* The part of the types that a step of a contract may disturb.
TurnTypes ==
    /\ db \subseteq Rows
    /\ inserted \subseteq Rows
    /\ deleted \subseteq Rows
    /\ spoiled \in BOOLEAN
    /\ failures \in 0 .. MaxFailures

\* A save keeps the types, whether it succeeds or throws.
LEMMA SaveTypes ==
    ASSUME TypeOK, NEW ins, NEW del, ins \subseteq Rows, del \subseteq Rows,
           NEW next, NEW failed, Save(ins, del, next, failed)
    PROVE  TurnTypes'
<1> USE DEF TypeOK, TurnTypes
<1>1. CASE SaveChanges(inserted \cup ins, deleted \cup del)
      BY <1>1 DEF SaveChanges
<1>2. CASE SaveFails(inserted \cup ins, deleted \cup del)
      BY <1>2, BoundsAssumption DEF SaveFails
<1> QED  BY <1>1, <1>2 DEF Save

\* A call that throws keeps the types.
LEMMA CallTypes ==
    ASSUME TypeOK, CallFails
    PROVE  TurnTypes'
BY BoundsAssumption DEF TypeOK, TurnTypes, CallFails, tracker

\* A step that saves nothing keeps the types.
LEMMA SkipTypes ==
    ASSUME TypeOK, NEW next, Skip(next)
    PROVE  TurnTypes'
BY DEF TypeOK, TurnTypes, Skip, tracker

\* A step that asks and may save keeps the types.
LEMMA AskTypes ==
    ASSUME TypeOK, NEW ins, NEW del, ins \subseteq Rows, del \subseteq Rows,
           NEW next, NEW failed, AskAndSave(ins, del, next, failed)
    PROVE  TurnTypes'
BY SaveTypes, CallTypes, SkipTypes DEF AskAndSave

\* Where a step of a contract leaves pc and contract.
LEMMA AskGoes ==
    ASSUME NEW ins, NEW del, NEW next, NEW failed, AskAndSave(ins, del, next, failed)
    PROVE  Goto(next) \/ Goto(failed)
BY DEF AskAndSave, Save, Skip

\* Where a save leaves pc and contract.
LEMMA SaveGoes ==
    ASSUME NEW ins, NEW del, NEW next, NEW failed, Save(ins, del, next, failed)
    PROVE  Goto(next) \/ Goto(failed)
BY DEF Save

\* A step of a turn leaves a contract if it stays in the turn.
LEMMA GotoTypes ==
    ASSUME TypeOK, pc \in InTurn, NEW next \in {"contracts"} \cup InTurn, Goto(next)
    PROVE  /\ pc' = next
           /\ pc' \in PcValues
           /\ contract' \in Contracts \cup {NoContract}
           /\ pc' \in InTurn => contract' \in Known
BY DEF TypeOK, Goto, InTurn, Fresh, PcValues

\* The types of all variables from those a turn may disturb.
LEMMA TypesOfAll ==
    ASSUME TypeOK, TurnTypes', UNCHANGED <<external, polled, run, restarts>>, todo' \subseteq Contracts,
           pc' \in PcValues, contract' \in Contracts \cup {NoContract}, left' \subseteq Months,
           pc' \in InTurn => contract' \in Known
    PROVE  TypeOK'
BY DEF TypeOK, TurnTypes, external, InTurn, Fresh, Rows

\* Every step keeps the types.
LEMMA TypeStep ==
    ASSUME TypeOK, [Next]_vars
    PROVE  TypeOK'
<1> USE DEF external, tracker, bounds
<1>1. CASE NextDay
      BY <1>1 DEF NextDay, TypeOK, Rows, PcValues, Days
<1>2. ASSUME NEW delivery \in Deliveries, Load(delivery)
      PROVE  TypeOK'
      BY <1>2 DEF Load, TypeOK, Rows, PcValues, Days
<1>3. CASE Restart
  <2>1. restarts' \in 0 .. MaxRestarts
        BY <1>3, BoundsAssumption DEF Restart, TypeOK
  <2> QED  BY <1>3, <2>1 DEF Restart, TypeOK, PcValues
<1>4. CASE Poll
  <2>1. CASE day \in Days /\ event[day] = "new"
        BY <1>4, <2>1 DEF Poll, TypeOK, PcValues
  <2>2. CASE ~ (day \in Days /\ event[day] = "new")
        BY <1>4, <2>2 DEF Poll, TypeOK, PcValues
  <2> QED  BY <2>1, <2>2
<1>5. CASE MarkComplete
      BY <1>5 DEF MarkComplete, TypeOK, Rows, PcValues
<1>6. CASE WorkerFails
      BY <1>6, CallTypes, BoundsAssumption DEF WorkerFails, CallFails, TypeOK, Rows, PcValues
<1>7. CASE Wake
      BY <1>7 DEF Wake, TypeOK, Rows, PcValues
<1>8. CASE ListContracts \/ ListPayments
      BY <1>8 DEF ListContracts, ListPayments, TypeOK, Rows, PcValues
<1>9. CASE QueryFails
      BY <1>9, BoundsAssumption DEF QueryFails, EndJob, TypeOK, Rows, PcValues
<1>10. ASSUME NEW c \in Contracts, StartContract(c)
       PROVE  TypeOK'
       BY <1>10 DEF StartContract, Take, TypeOK, Rows, PcValues
<1>11. ASSUME NEW c \in Contracts, CalculatorFails(c)
       PROVE  TypeOK'
  <2>1. TurnTypes'
        BY <1>11, CallTypes DEF CalculatorFails
  <2> QED  BY <1>11, <2>1, TypesOfAll DEF CalculatorFails, Take, TypeOK, InTurn, Fresh
<1>12. ASSUME NEW c \in Contracts, NullReference(c)
       PROVE  TypeOK'
       BY <1>12 DEF NullReference, EndJob, TypeOK, Rows, PcValues
<1>13. CASE NoMoreContracts
       BY <1>13 DEF NoMoreContracts, EndJob, TypeOK, Rows, PcValues
<1>14. CASE CloseContract
  <2>1. contract \in Known /\ pc \in InTurn
        BY <1>14 DEF CloseContract, TypeOK, InTurn, Fresh
  <2>2. TurnTypes'
        BY <1>14, <2>1, AskTypes, RowType DEF CloseContract
  <2>3. Goto("replacing") \/ Goto("contracts")
        BY <1>14, AskGoes DEF CloseContract
  <2> QED  BY <1>14, <2>1, <2>2, <2>3, GotoTypes, TypesOfAll DEF CloseContract, TypeOK, InTurn, Fresh
<1>15. CASE ReplaceAgreement
  <2>1. contract \in Known /\ pc \in InTurn
        BY <1>15 DEF ReplaceAgreement, TypeOK, InTurn, Fresh
  <2>2. PICK old \in OldAgreement(contract) :
            AskAndSave({Row("agreement", contract, 0)}, old, "clearing", "clearing")
        BY <1>15 DEF ReplaceAgreement
  <2>3. old \subseteq Rows
        BY OldAgreementType DEF TypeOK
  <2>4. TurnTypes'
        BY <2>1, <2>2, <2>3, AskTypes, RowType
  <2>5. Goto("clearing")
        BY <2>2, AskGoes
  <2> QED  BY <1>15, <2>1, <2>4, <2>5, GotoTypes, TypesOfAll DEF ReplaceAgreement, TypeOK, InTurn, Fresh
<1>16. CASE RemoveAgreement
  <2>1. contract \in Known /\ pc \in InTurn
        BY <1>16 DEF RemoveAgreement, TypeOK, InTurn, Fresh
  <2>2. PICK old \in OldAgreement(contract) : AskAndSave({}, old, "adding", "clearing")
        BY <1>16 DEF RemoveAgreement
  <2>3. old \subseteq Rows
        BY OldAgreementType DEF TypeOK
  <2>4. TurnTypes'
        BY <2>2, <2>3, AskTypes
  <2>5. Goto("adding") \/ Goto("clearing")
        BY <2>2, AskGoes
  <2> QED  BY <1>16, <2>1, <2>4, <2>5, GotoTypes, TypesOfAll DEF RemoveAgreement, TypeOK, InTurn, Fresh
<1>17. CASE AddAgreement
  <2>1. contract \in Known /\ pc \in InTurn
        BY <1>17 DEF AddAgreement, TypeOK, InTurn, Fresh
  <2>2. TurnTypes'
        BY <1>17, <2>1, SaveTypes, RowType DEF AddAgreement
  <2>3. Goto("clearing")
        BY <1>17, SaveGoes DEF AddAgreement
  <2> QED  BY <1>17, <2>1, <2>2, <2>3, GotoTypes, TypesOfAll DEF AddAgreement, TypeOK, InTurn, Fresh
<1>18. CASE ClearCharges
  <2>1. contract \in Known /\ pc \in InTurn
        BY <1>18 DEF ClearCharges, TypeOK, InTurn, Fresh
  <2>2. Of("charge", contract) \subseteq Rows
        BY DEF Of, TypeOK
  <2>3. TurnTypes'
        BY <1>18, <2>2, AskTypes DEF ClearCharges
  <2>4. Goto("months") \/ Goto("contracts")
        BY <1>18, AskGoes DEF ClearCharges
  <2>5. left' \subseteq Months
        BY <1>18 DEF ClearCharges
  <2> QED  BY <1>18, <2>1, <2>3, <2>4, <2>5, GotoTypes, TypesOfAll DEF ClearCharges, TypeOK, InTurn, Fresh
<1>19. ASSUME NEW m \in Months, AddCharge(m)
       PROVE  TypeOK'
  <2>1. contract \in Known /\ pc \in InTurn
        BY <1>19 DEF AddCharge, TypeOK, InTurn, Fresh
  <2>2. TurnTypes'
        BY <1>19, <2>1, SaveTypes, RowType DEF AddCharge
  <2>3. Goto("months")
        BY <1>19, SaveGoes DEF AddCharge
  <2>4. left' \subseteq Months
        BY <1>19 DEF AddCharge, TypeOK
  <2> QED  BY <1>19, <2>1, <2>2, <2>3, <2>4, GotoTypes, TypesOfAll DEF AddCharge, TypeOK, InTurn, Fresh
<1>20. CASE EndContract
  <2>1. pc \in InTurn
        BY <1>20 DEF EndContract, InTurn, Fresh
  <2>2. TurnTypes' /\ Goto("contracts")
        BY <1>20, SkipTypes DEF EndContract, Skip
  <2> QED  BY <1>20, <2>1, <2>2, GotoTypes, TypesOfAll DEF EndContract, TypeOK, InTurn, Fresh
<1>21. CASE MonthsFail
  <2>1. pc \in InTurn /\ Goto("contracts") 
        BY <1>21 DEF MonthsFail, InTurn, Fresh
  <2>2. TurnTypes'
        BY <1>21, CallTypes DEF MonthsFail
  <2> QED  BY <1>21, <2>1, <2>2, GotoTypes, TypesOfAll DEF MonthsFail, TypeOK, InTurn, Fresh
<1>22. ASSUME NEW c \in Contracts, UnknownType(c)
       PROVE  TypeOK'
       BY <1>22 DEF UnknownType, Take, TypeOK, Rows, PcValues
<1>23. CASE UNCHANGED vars
       BY <1>23 DEF vars, TypeOK, Rows, PcValues
<1> QED  BY <1>1, <1>2, <1>3, <1>4, <1>5, <1>6, <1>7, <1>8, <1>9, <1>10, <1>11, <1>12, <1>13, <1>14,
            <1>15, <1>16, <1>17, <1>18, <1>19, <1>20, <1>21, <1>22, <1>23 DEF Next, WorkerStep, JobStep

\* The types hold at the start.
LEMMA TypeInit ==
    ASSUME Init
    PROVE  TypeOK
<1>1. 0 \in 0 .. MaxFailures /\ 0 \in 0 .. MaxRestarts
      BY BoundsAssumption
<1>2. /\ event \in [Days -> {"none", "new", "complete"}]
      /\ updated \in [Contracts -> Nat] /\ modified \in [Contracts -> Nat]
      BY DEF Init
<1>3. db = {} /\ inserted = {} /\ deleted = {} /\ todo = {} /\ left = {}
      BY DEF Init
<1>4. spoiled \in BOOLEAN
      BY DEF Init
<1>5. failures \in 0 .. MaxFailures /\ restarts \in 0 .. MaxRestarts
      BY <1>1 DEF Init
<1>6. day \in Nat \ {0} /\ polled \in Nat /\ run \in Nat
      BY DEF Init
<1>7. pc \in PcValues /\ contract \in Contracts \cup {NoContract} /\ pc \notin InTurn
      BY DEF Init, PcValues, InTurn, Fresh
<1> QED  BY <1>2, <1>3, <1>4, <1>5, <1>6, <1>7 DEF TypeOK, InTurn, Fresh

\* Every state has its types, whatever fails.
THEOREM TypeCorrect == Spec => []TypeOK
<1>1. Init => TypeOK
      BY TypeInit
<1>2. TypeOK /\ [Next]_vars => TypeOK'
      BY TypeStep
<1> QED  BY <1>1, <1>2, PTL DEF Spec

-----------------------------------------------------------------------------
(* The registers *)

\* What a step of a contract does to the context.
Outcome(ins, del, next, failed) ==
    \/ Goto(next) /\ inserted' = {} /\ deleted' = {} /\ db' = Saved(ins, del)
    \/ Goto(next) /\ ins = {} /\ del = {} /\ UNCHANGED <<db, inserted, deleted>>
    \/ Goto(failed) /\ UNCHANGED db
         /\ inserted' \in {inserted, inserted \cup ins} /\ deleted' \in {deleted, deleted \cup del}

\* A save has one of the outcomes.
LEMMA SaveOutcome ==
    ASSUME NEW ins, NEW del, NEW next, NEW failed, Save(ins, del, next, failed)
    PROVE  Outcome(ins, del, next, failed)
BY DEF Save, SaveChanges, SaveFails, Outcome, Saved

\* A step that asks and may save has one of the outcomes.
LEMMA AskOutcome ==
    ASSUME NEW ins, NEW del, NEW next, NEW failed, AskAndSave(ins, del, next, failed)
    PROVE  Outcome(ins, del, next, failed)
<1>1. CASE Save(ins, del, next, failed)
      BY <1>1, SaveOutcome
<1>2. CASE ins \cup del = {} /\ Skip(next)
      BY <1>2 DEF Skip, tracker, Outcome
<1>3. CASE CallFails /\ Goto(failed)
      BY <1>3 DEF CallFails, tracker, Outcome
<1> QED  BY <1>1, <1>2, <1>3 DEF AskAndSave

\* A step that leaves the registers and the context alone.
LEMMA Untouched ==
    ASSUME RegisterInv, UNCHANGED <<db, inserted, deleted>>
    PROVE  RegisterInv' /\ Kept(db')
BY DEF RegisterInv, Good, Kept, HasAgreement, After, Saved

\* A step that forgets what is pending.
LEMMA Forgotten ==
    ASSUME RegisterInv, UNCHANGED db, inserted' = {}, deleted' = {}
    PROVE  RegisterInv' /\ Kept(db')
<1>1. After' = db
      BY DEF After, Saved
<1>2. Good(db) /\ Kept(db)
      BY DEF RegisterInv, Kept
<1> QED  BY <1>1, <1>2, RegisterStep

\* A step of a turn keeps the registers good if the save it attempts would.
LEMMA OutcomeRegisters ==
    ASSUME RegisterInv, NEW ins, NEW del, NEW next, NEW failed, Good(Saved(ins, del)), Kept(Saved(ins, del)),
           AskAndSave(ins, del, next, failed) \/ Save(ins, del, next, failed)
    PROVE  RegisterInv' /\ Kept(db')
<1>1. CASE Save(ins, del, next, failed)
  <2>1. After' = Saved(ins, del) /\ db' \in {db, Saved(ins, del)}
        BY <1>1, SaveLemma DEF Save
  <2> QED  BY <2>1, RegisterStep
<1>2. CASE Skip(next) \/ CallFails
      BY <1>2, Untouched DEF Skip, CallFails, tracker
<1> QED  BY <1>1, <1>2 DEF AskAndSave

\* The bookkeeping of a step of a contract.
LEMMA TurnPending ==
    ASSUME PendingInv, pc \in InTurn, UNCHANGED todo, NEW ins, NEW del, NEW next, NEW failed,
           next \in InTurn \cup {"contracts"}, failed \in InTurn \cup {"contracts"},
           Outcome(ins, del, next, failed), failed \notin Fresh,
           next \in Fresh => pc \in Fresh,
           \A row \in ins \cup del : row.contract = contract
    PROVE  PendingInv'
<1>1. inserted' \subseteq inserted \cup ins /\ deleted' \subseteq deleted \cup del
      BY DEF Outcome
<1>2. \A row \in (inserted \cup deleted)' : row.contract \notin todo'
      BY <1>1 DEF PendingInv
<1>3. pc' \notin Quiet /\ (pc' \in InTurn => contract' = contract)
      BY DEF Outcome, Goto, Quiet, InTurn, Fresh
<1>4. pc' \in Fresh => \A row \in (inserted \cup deleted)' : row.contract # contract'
      BY <1>3 DEF Outcome, Goto, PendingInv, InTurn
<1> QED  BY <1>2, <1>3, <1>4 DEF PendingInv

\* The closing date is added when there is none.
LEMMA CloseStep ==
    ASSUME Inv, CloseContract
    PROVE  (PendingInv /\ TurnInv /\ RegisterInv)' /\ Kept(db')
<1> DEFINE ins == IF Of("closed", contract) = {} THEN {Row("closed", contract, 0)} ELSE {}
<1>1. AskAndSave(ins, {}, "replacing", "contracts") /\ pc = "closing"
      BY DEF CloseContract
<1>2. \A row \in ins : row.register = "closed" /\ row.contract = contract
      BY RowLemma
<1>3. Good(Saved(ins, {}))
  <2>1. CASE Of("closed", contract) = {}
    <3>1. \A row \in inserted : row.contract # contract
          BY <1>1 DEF Inv, PendingInv, Fresh
    <3>2. \A row \in db : ~ (row.register = "closed" /\ row.contract = contract)
          BY <2>1 DEF Of
    <3> QED  BY <2>1, <3>1, <3>2, RowLemma, GoodWithRow DEF Inv
  <2>2. CASE Of("closed", contract) # {}
        BY <2>2, GoodWithout DEF Inv
  <2> QED  BY <2>1, <2>2
<1>4. Kept(Saved(ins, {}))
      BY KeptLemma DEF Inv
<1>5. RegisterInv' /\ Kept(db')
      BY <1>1, <1>3, <1>4, OutcomeRegisters DEF Inv
<1>6. Outcome(ins, {}, "replacing", "contracts")
      BY <1>1, AskOutcome
<1> HIDE DEF ins
<1>7. PendingInv'
      BY <1>1, <1>2, <1>6, TurnPending DEF Inv, InTurn, Fresh, CloseContract
<1>8. TurnInv'
      BY <1>6 DEF Outcome, Goto, TurnInv
<1> QED  BY <1>5, <1>7, <1>8

\* The old agreement of an annuity and the new one change places.
LEMMA ReplaceStep ==
    ASSUME Inv, ReplaceAgreement
    PROVE  (PendingInv /\ TurnInv /\ RegisterInv)' /\ Kept(db')
<1> DEFINE ins == {Row("agreement", contract, 0)}
<1>1. PICK old \in OldAgreement(contract) : AskAndSave(ins, old, "clearing", "clearing")
      BY DEF ReplaceAgreement
<1>2. pc = "replacing"
      BY DEF ReplaceAgreement
<1>3. \A row \in ins : row.register = "agreement" /\ row.contract = contract
      BY RowLemma
<1>4. \A row \in inserted : row.contract # contract
      BY <1>2 DEF Inv, PendingInv, Fresh
<1>5. Good(Saved(ins, old))
      BY <1>4, RowLemma, OldAgreementLemma, GoodWithRow DEF Inv
<1>6. HasAgreement(contract, ins)
      BY RowLemma DEF HasAgreement
<1>7. Kept(Saved(ins, old))
      BY <1>6, OldAgreementLemma, KeptLemma DEF Inv
<1>8. RegisterInv' /\ Kept(db')
      BY <1>1, <1>5, <1>7, OutcomeRegisters DEF Inv
<1>9. Outcome(ins, old, "clearing", "clearing")
      BY <1>1, AskOutcome
<1>10. \A row \in old : row.contract = contract
       BY OldAgreementLemma DEF Inv
<1> HIDE DEF ins
<1>11. PendingInv'
       BY <1>2, <1>3, <1>9, <1>10, TurnPending DEF Inv, InTurn, Fresh, ReplaceAgreement
<1>12. TurnInv'
       BY <1>3, <1>4, <1>9 DEF Outcome, Goto, TurnInv
<1> QED  BY <1>8, <1>11, <1>12

\* The old agreement of a PDL goes.
LEMMA RemoveStep ==
    ASSUME Inv, RemoveAgreement
    PROVE  (PendingInv /\ TurnInv /\ RegisterInv)' /\ Kept(db')
<1>1. PICK old \in OldAgreement(contract) : AskAndSave({}, old, "adding", "clearing")
      BY DEF RemoveAgreement
<1>2. pc = "removing" /\ contract \notin Annuities
      BY DEF RemoveAgreement, Inv, TurnInv
<1>3. \A row \in inserted : row.contract # contract
      BY <1>2 DEF Inv, PendingInv, Fresh
<1>4. Good(Saved({}, old))
      BY GoodWithout DEF Inv
<1>5. Kept(Saved({}, old))
      BY <1>2, OldAgreementLemma, KeptLemma DEF Inv
<1>6. RegisterInv' /\ Kept(db')
      BY <1>1, <1>4, <1>5, OutcomeRegisters DEF Inv
<1>7. Outcome({}, old, "adding", "clearing")
      BY <1>1, AskOutcome
<1>8. /\ \A row \in old : row.contract = contract
      /\ \A row \in db \ old : ~ (row.register = "agreement" /\ row.contract = contract)
      BY OldAgreementLemma DEF Inv
<1>9. PendingInv'
      BY <1>2, <1>7, <1>8, TurnPending DEF Inv, InTurn, Fresh, RemoveAgreement
<1>10. ~ HasAgreement(contract, Saved({}, old)) /\ (old = {} => ~ HasAgreement(contract, db))
       BY <1>3, <1>8 DEF HasAgreement, Saved
<1>11. CASE Goto("adding") /\ db' \in {db, Saved({}, old)} /\ ~ HasAgreement(contract, db')
  <2>1. pc' = "adding" /\ contract' = contract
        BY <1>11 DEF Goto
  <2>2. ~ HasAgreement(contract, db)'
        BY <1>11, <2>1 DEF HasAgreement
  <2>3. contract' \notin Annuities
        BY <1>2, <2>1
  <2>4. TurnInv'
        BY <2>1, <2>2, <2>3 DEF TurnInv
  <2> QED  BY <1>6, <1>9, <2>4
<1>12. CASE Goto("clearing") /\ inserted' = inserted
  <2>1. pc' = "clearing" /\ contract' = contract
        BY <1>12 DEF Goto
  <2>2. TurnInv'
        BY <1>3, <1>12, <2>1 DEF TurnInv
  <2> QED  BY <1>6, <1>9, <2>2
<1> QED  BY <1>6, <1>7, <1>9, <1>10, <1>11, <1>12 DEF Outcome

\* A PDL has no agreement when its new one is added.
LEMMA AddStep ==
    ASSUME Inv, AddAgreement
    PROVE  (PendingInv /\ TurnInv /\ RegisterInv)' /\ Kept(db')
<1> DEFINE ins == {Row("agreement", contract, 0)}
<1>1. Save(ins, {}, "clearing", "clearing") /\ pc = "adding"
      BY DEF AddAgreement
<1>2. \A row \in ins : row.register = "agreement" /\ row.contract = contract
      BY RowLemma
<1>3. \A row \in inserted : row.contract # contract
      BY <1>1 DEF Inv, PendingInv, Fresh
<1>4. \A row \in db : ~ (row.register = "agreement" /\ row.contract = contract)
      BY <1>1 DEF Inv, TurnInv, HasAgreement
<1>5. Good(Saved(ins, {}))
      BY <1>3, <1>4, RowLemma, GoodWithRow DEF Inv
<1>6. Kept(Saved(ins, {}))
      BY KeptLemma DEF Inv
<1>7. RegisterInv' /\ Kept(db')
      BY <1>1, <1>5, <1>6, OutcomeRegisters DEF Inv
<1>8. Outcome(ins, {}, "clearing", "clearing")
      BY <1>1, SaveOutcome
<1> HIDE DEF ins
<1>9. PendingInv'
      BY <1>1, <1>2, <1>8, TurnPending DEF Inv, InTurn, Fresh, AddAgreement
<1>10. TurnInv'
       BY <1>2, <1>3, <1>8 DEF Outcome, Goto, TurnInv
<1> QED  BY <1>7, <1>9, <1>10

\* No charge of the contract is left when its new ones are written.
LEMMA ClearStep ==
    ASSUME Inv, ClearCharges
    PROVE  (PendingInv /\ TurnInv /\ RegisterInv)' /\ Kept(db')
<1> DEFINE old == Of("charge", contract)
<1>1. AskAndSave({}, old, "months", "contracts") /\ pc = "clearing"
      BY DEF ClearCharges
<1>2. /\ \A row \in old : row.register = "charge" /\ row.contract = contract
      /\ \A row \in db \ old : row.register = "charge" => row.contract # contract
      BY DEF Of
<1> HIDE DEF old
<1>3. \A row \in inserted : row.register = "charge" => row.contract # contract
      BY <1>1 DEF Inv, TurnInv
<1>4. Good(Saved({}, old))
      BY GoodWithout DEF Inv
<1>5. Kept(Saved({}, old))
      BY <1>2, KeptLemma DEF Inv
<1>6. RegisterInv' /\ Kept(db')
      BY <1>1, <1>4, <1>5, OutcomeRegisters DEF Inv
<1>7. Outcome({}, old, "months", "contracts")
      BY <1>1, AskOutcome
<1>8. PendingInv'
      BY <1>1, <1>2, <1>7, TurnPending DEF Inv, InTurn, Fresh, ClearCharges
<1>9. \A row \in Saved({}, old) : row.register = "charge" => row.contract # contract
      BY <1>2, <1>3 DEF Saved
<1>10. CASE Goto("months") /\ inserted' \subseteq inserted
            /\ (db' = Saved({}, old) \/ (old = {} /\ db' = db))
  <2>1. contract' = contract /\ pc' = "months"
        BY <1>10 DEF Goto
  <2>2. \A row \in (db \cup inserted)' : row.register = "charge" => row.contract # contract
        BY <1>2, <1>3, <1>9, <1>10
  <2>3. TurnInv'
        BY <2>1, <2>2 DEF TurnInv
  <2> QED  BY <1>6, <1>8, <2>3
<1>11. CASE Goto("contracts")
       BY <1>6, <1>8, <1>11 DEF Goto, TurnInv
<1> QED  BY <1>6, <1>7, <1>8, <1>10, <1>11 DEF Outcome

\* One charge more, of the run of the others.
LEMMA ChargeStep ==
    ASSUME Inv, NEW m \in Months, AddCharge(m)
    PROVE  (PendingInv /\ TurnInv /\ RegisterInv)' /\ Kept(db')
<1> DEFINE ins == {Row("charge", contract, m)}
<1>1. Save(ins, {}, "months", "months") /\ pc = "months" /\ run' = run
      BY DEF AddCharge
<1>2. \A row \in ins : row.register = "charge" /\ row.contract = contract /\ row.run = run
      BY RowLemma
<1>3. \A row \in db \cup inserted : row.register = "charge" /\ row.contract = contract => row.run = run
      BY <1>1 DEF Inv, TurnInv
<1>4. Good(Saved(ins, {}))
      BY <1>3, RowLemma, GoodWithRow DEF Inv
<1>5. Kept(Saved(ins, {}))
      BY KeptLemma DEF Inv
<1>6. RegisterInv' /\ Kept(db')
      BY <1>1, <1>4, <1>5, OutcomeRegisters DEF Inv
<1>7. Outcome(ins, {}, "months", "months")
      BY <1>1, SaveOutcome
<1> HIDE DEF ins
<1>8. PendingInv'
      BY <1>1, <1>2, <1>7, TurnPending DEF Inv, InTurn, Fresh, AddCharge
<1>9. contract' = contract /\ pc' = "months"
      BY <1>7 DEF Outcome, Goto
<1>10. (db \cup inserted)' \subseteq db \cup inserted \cup ins
       BY <1>7 DEF Outcome, Saved
<1>11. TurnInv'
       BY <1>1, <1>2, <1>3, <1>9, <1>10 DEF TurnInv
<1> QED  BY <1>6, <1>8, <1>11

\* The steps outside of a turn.
LEMMA OtherStep ==
    ASSUME Inv, pc' \notin InTurn, \A row \in (inserted \cup deleted)' : row.contract \notin todo',
           UNCHANGED <<db, inserted, deleted>> \/ (UNCHANGED db /\ inserted' = {} /\ deleted' = {}),
           pc' \in Quiet => inserted' = {} /\ deleted' = {}
    PROVE  (PendingInv /\ TurnInv /\ RegisterInv)' /\ Kept(db')
<1>1. RegisterInv' /\ Kept(db')
      BY Untouched, Forgotten DEF Inv
<1>2. PendingInv'
      BY DEF PendingInv, InTurn, Fresh
<1>3. TurnInv'
      BY DEF TurnInv, InTurn, Fresh
<1> QED  BY <1>1, <1>2, <1>3

\* The steps that do not touch what the invariants speak of.
LEMMA StutterStep ==
    ASSUME Inv, UNCHANGED <<db, pc, run, todo, contract, inserted, deleted>>
    PROVE  (PendingInv /\ TurnInv /\ RegisterInv)' /\ Kept(db')
<1>1. RegisterInv' /\ Kept(db')
      BY Untouched DEF Inv
<1>2. PendingInv'
      BY DEF Inv, PendingInv
<1>3. TurnInv'
      BY DEF Inv, TurnInv, HasAgreement
<1> QED  BY <1>1, <1>2, <1>3

\* A turn begins with nothing pending for its contract.
LEMMA StartStep ==
    ASSUME Inv, NEW c \in Contracts, StartContract(c)
    PROVE  (PendingInv /\ TurnInv /\ RegisterInv)' /\ Kept(db')
<1>1. /\ UNCHANGED <<db, inserted, deleted, run>>
      /\ contract' = c /\ c \in todo /\ todo' = todo \ {c}
      /\ pc' \in {"closing", "replacing", "removing"}
      /\ pc' = "removing" => c \notin Annuities
      BY DEF StartContract, Take, tracker
<1>2. RegisterInv' /\ Kept(db')
      BY <1>1, Untouched DEF Inv
<1>3. PendingInv'
      BY <1>1 DEF Inv, PendingInv, Quiet, InTurn, Fresh
<1>4. TurnInv'
      BY <1>1 DEF TurnInv
<1> QED  BY <1>2, <1>3, <1>4

\* Every step keeps the invariant, and the agreements of annuities.
LEMMA InvStep ==
    ASSUME Inv, [Next]_vars
    PROVE  (PendingInv /\ TurnInv /\ RegisterInv)' /\ Kept(db')
<1> USE DEF external, tracker, bounds
<1>1. CASE NextDay \/ (\E delivery \in Deliveries : Load(delivery)) \/ UNCHANGED vars
      BY <1>1, StutterStep DEF NextDay, Load, vars
<1>2. CASE Restart
      BY <1>2, OtherStep DEF Restart, InTurn, Fresh
<1>3. CASE Poll \/ MarkComplete \/ WorkerFails \/ Wake
  <2>1. pc \in Quiet
        BY <1>3 DEF Poll, MarkComplete, WorkerFails, Wake, Quiet
  <2>2. inserted = {} /\ deleted = {}
        BY <2>1 DEF Inv, PendingInv
  <2>3. pc' \notin InTurn /\ UNCHANGED <<db, inserted, deleted>>
        BY <1>3 DEF Poll, MarkComplete, WorkerFails, CallFails, Wake, InTurn, Fresh
  <2> QED  BY <2>2, <2>3, OtherStep
<1>4. CASE ListContracts \/ ListPayments
  <2>1. pc \in Quiet
        BY <1>4 DEF ListContracts, ListPayments, Quiet
  <2>2. inserted = {} /\ deleted = {}
        BY <2>1 DEF Inv, PendingInv
  <2>3. pc' \notin InTurn /\ UNCHANGED <<db, inserted, deleted>>
        BY <1>4 DEF ListContracts, ListPayments, InTurn, Fresh
  <2> QED  BY <2>2, <2>3, OtherStep
<1>5. CASE QueryFails \/ NoMoreContracts \/ \E c \in Contracts : NullReference(c)
  <2>1. pc' \notin InTurn /\ UNCHANGED db /\ inserted' = {} /\ deleted' = {}
        BY <1>5 DEF QueryFails, NoMoreContracts, NullReference, EndJob, InTurn, Fresh
  <2> QED  BY <2>1, OtherStep
<1>6. ASSUME NEW c \in Contracts, CalculatorFails(c) \/ UnknownType(c)
      PROVE  (PendingInv /\ TurnInv /\ RegisterInv)' /\ Kept(db')
  <2>1. pc' = "contracts" /\ UNCHANGED <<db, inserted, deleted>> /\ todo' \subseteq todo
        BY <1>6 DEF CalculatorFails, UnknownType, CallFails, Take
  <2> QED  BY <2>1, OtherStep DEF Inv, PendingInv, InTurn, Fresh, Quiet
<1>7. CASE EndContract \/ MonthsFail
  <2>1. pc' = "contracts" /\ UNCHANGED <<db, inserted, deleted, todo>>
        BY <1>7 DEF EndContract, MonthsFail, CallFails, Skip, Goto
  <2> QED  BY <2>1, OtherStep DEF Inv, PendingInv, InTurn, Fresh, Quiet
<1> QED  BY <1>1, <1>2, <1>3, <1>4, <1>5, <1>6, <1>7, StartStep, CloseStep, ReplaceStep, RemoveStep, AddStep,
            ClearStep, ChargeStep DEF Next, WorkerStep, JobStep

\* The invariant holds at the start.
LEMMA InvInit ==
    ASSUME Init
    PROVE  Inv
<1>1. db = {} /\ inserted = {} /\ deleted = {} /\ pc = "polling"
      BY DEF Init
<1>2. PendingInv /\ TurnInv
      BY <1>1 DEF PendingInv, TurnInv, InTurn, Fresh
<1>3. RegisterInv
      BY <1>1 DEF RegisterInv, Good, Kept, HasAgreement, After, Saved
<1> QED  BY <1>2, <1>3, TypeInit DEF Inv

\* The inductive invariant holds for any contracts, failures and restarts.
THEOREM InvCorrect == Spec => []Inv
<1>1. Init => Inv
      BY InvInit
<1>2. Inv /\ [Next]_vars => Inv'
  <2> SUFFICES ASSUME Inv, [Next]_vars PROVE Inv'
      OBVIOUS
  <2>1. TypeOK'
        BY TypeStep DEF Inv
  <2> QED  BY <2>1, InvStep DEF Inv
<1> QED  BY <1>1, <1>2, PTL DEF Spec

\* Reruns, failed saves and restarts leave one agreement, one closing date and
\* the charges of one run.
THEOREM RegistersCorrect == Spec => []RegistersAreOfOneRun
<1>1. Inv => RegistersAreOfOneRun
      BY DEF Inv, RegisterInv, Good, RegistersAreOfOneRun, Of
<1> QED  BY <1>1, InvCorrect, PTL

\* An annuity keeps its agreement in every step.
THEOREM AgreementCorrect == Spec => AgreementIsKept
<1>1. Inv /\ [Next]_vars => \A c \in Annuities : Of("agreement", c) # {} => Of("agreement", c)' # {}
  <2> SUFFICES ASSUME Inv, [Next]_vars, NEW c \in Annuities, Of("agreement", c) # {}
               PROVE  Of("agreement", c)' # {}
      OBVIOUS
  <2>1. HasAgreement(c, db)
        BY DEF HasAgreement, Of
  <2>2. HasAgreement(c, db')
        BY <2>1, InvStep DEF Kept
  <2> QED  BY <2>2 DEF HasAgreement, Of
<1> QED  BY <1>1, InvCorrect, PTL DEF Spec, AgreementIsKept

-----------------------------------------------------------------------------
(* A run without a failure reports all *)

Listed == {"contracts", "marking"} \cup InTurn

\* The contract has the agreement and all the charges of the current run, if its
\* type is one that the job provides for.
Reported(c) ==
    c \in Known => /\ Row("agreement", c, 0) \in db
                  /\ \A m \in Months : Row("charge", c, m) \in db

\* Only known contracts are updated, and no data of the polled day are still to
\* come: what is due on it can only shrink.
LoadInv ==
    /\ \A c \in Orphans : updated[c] = 0
    /\ pc \in {"listing", "payments"} \cup Listed => polled \in Days /\ event[polled] # "none"

\* How far a run has come: what is due is on the list, in its turn, or reported.
ProgressInv ==
    /\ inserted = {} /\ deleted = {}
    /\ pc \in {"listing", "payments"} => day = polled
    /\ pc = "payments" => \A c \in Contracts \ Orphans : updated[c] = polled => c \in todo
    /\ pc \in Listed => \A c \in Due(polled) :
           c \in todo \/ (pc \in InTurn /\ c = contract) \/ Reported(c)
    /\ pc \in {"clearing", "months"} => Row("agreement", contract, 0) \in db
    /\ pc = "months" => \A m \in Months \ left : Row("charge", contract, m) \in db
    /\ pc = "marking" => todo = {}

CleanInv == LoadInv /\ (~ spoiled => ProgressInv)

\* Every step keeps the load apart from the day that is polled.
LEMMA LoadStep ==
    ASSUME TypeOK, LoadInv, [Next]_vars
    PROVE  LoadInv'
<1> USE DEF TypeOK, LoadInv, Listed, InTurn, Fresh, external
<1>1. ASSUME NEW delivery \in Deliveries, Load(delivery)
      PROVE  LoadInv'
  <2>1. delivery[1] \cap Orphans = {}
        BY DeliveriesAssumption
  <2>2. \A c \in Orphans : updated'[c] = 0
        BY <1>1, <2>1, ContractsAssumption DEF Load
  <2>3. \A d \in Days : event[d] # "none" => event'[d] # "none"
        BY <1>1 DEF Load
  <2> QED  BY <1>1, <2>2, <2>3 DEF Load
<1>2. CASE MarkComplete \/ WorkerFails \/ Wake \/ Restart \/ NextDay \/ UNCHANGED vars
      BY <1>2 DEF MarkComplete, WorkerFails, Wake, Restart, NextDay, vars
<1>3. CASE Poll
      BY <1>3 DEF Poll
<1>4. CASE JobStep
  <2>1. /\ UNCHANGED <<updated, event, polled>>
        /\ pc \in {"listing", "payments"} \cup Listed
        BY <1>4 DEF JobStep, ListContracts, ListPayments, QueryFails, StartContract, CalculatorFails,
                    UnknownType, NullReference, NoMoreContracts, CloseContract, ReplaceAgreement, RemoveAgreement,
                    AddAgreement, ClearCharges, MonthsFail, AddCharge, EndContract
  <2> QED  BY <2>1
<1> QED  BY <1>1, <1>2, <1>3, <1>4 DEF Next, WorkerStep

\* A step of a turn that spoils nothing has saved exactly what it meant to.
LEMMA CleanOutcome ==
    ASSUME TypeOK, ~ spoiled => ProgressInv, ~ spoiled', NEW ins, NEW del, NEW next, NEW failed,
           AskAndSave(ins, del, next, failed) \/ Save(ins, del, next, failed)
    PROVE  /\ ~ spoiled /\ ProgressInv
           /\ Goto(next)
           /\ inserted' = {} /\ deleted' = {}
           /\ db' = (db \ del) \cup ins
<1>1. CASE Save(ins, del, next, failed)
  <2>1. SaveChanges(inserted \cup ins, deleted \cup del) /\ Goto(next)
        BY <1>1 DEF Save, SaveFails
  <2>2. ~ spoiled /\ inserted = {} /\ deleted = {}
        BY <2>1 DEF SaveChanges, ProgressInv
  <2> QED  BY <2>1, <2>2 DEF SaveChanges
<1>2. CASE ins \cup del = {} /\ Skip(next)
      BY <1>2 DEF Skip, tracker, ProgressInv
<1>3. ~ CallFails
      BY DEF CallFails
<1> QED  BY <1>1, <1>2, <1>3 DEF AskAndSave

\* A step of a turn leaves what is reported of the other contracts.
LEMMA CleanTurn ==
    ASSUME ProgressInv, pc \in InTurn, NEW ins, NEW del, \A row \in del : row.contract = contract,
           UNCHANGED <<updated, modified, polled, run, todo>>,
           inserted' = {}, deleted' = {}, db' = (db \ del) \cup ins,
           \/ pc' \in InTurn /\ contract' = contract
           \/ pc' = "contracts" 
              /\ Row("agreement", contract, 0) \in db' /\ \A m \in Months : Row("charge", contract, m) \in db',
           pc' \in {"clearing", "months"} => Row("agreement", contract, 0) \in db',
           pc' = "months" => \A m \in Months \ left' : Row("charge", contract, m) \in db'
    PROVE  ProgressInv'
<1>1. ASSUME NEW c \in Due(polled)'
      PROVE  c \in todo' \/ (pc' \in InTurn /\ c = contract') \/ Reported(c)'
  <2>1. c \in Due(polled)
        BY <1>1 DEF Due
  <2>2. CASE c = contract
    <3>1. \A r, m : Row(r, c, m)' = Row(r, c, m)
          BY DEF Row
    <3> QED  BY <2>2, <3>1 DEF Reported
  <2>3. CASE c # contract /\ Reported(c)
    <3>1. \A r, m : Row(r, c, m)' = Row(r, c, m) /\ Row(r, c, m).contract = c
          BY DEF Row
    <3> QED  BY <2>3, <3>1 DEF Reported
  <2> QED  BY <2>1, <2>2, <2>3 DEF ProgressInv, Listed
<1>2. \A r, m : pc' \in InTurn => Row(r, contract, m)' = Row(r, contract, m)
      BY DEF Row, InTurn, Fresh
<1>3. pc' \notin {"listing", "payments", "marking"}
      BY DEF InTurn, Fresh
<1> QED  BY <1>1, <1>2, <1>3 DEF ProgressInv, Listed, InTurn

\* The steps of a turn, when they spoil nothing, bring it on.
LEMMA CleanTurnStep ==
    ASSUME Inv, CleanInv, ~ spoiled',
           \/ CloseContract \/ ReplaceAgreement \/ RemoveAgreement \/ AddAgreement \/ ClearCharges
           \/ MonthsFail \/ EndContract
           \/ \E m \in Months : AddCharge(m)
    PROVE  ProgressInv'
<1> USE DEF Inv, CleanInv, external
<1>1. CASE CloseContract
  <2>1. /\ ~ spoiled /\ ProgressInv /\ Goto("replacing") /\ inserted' = {} /\ deleted' = {}
        /\ \E ins : db' = (db \ {}) \cup ins
        BY <1>1, CleanOutcome DEF CloseContract
  <2> QED  BY <1>1, <2>1, CleanTurn DEF CloseContract, Goto, InTurn, Fresh
<1>2. CASE ReplaceAgreement
  <2>1. PICK old \in OldAgreement(contract) :
            AskAndSave({Row("agreement", contract, 0)}, old, "clearing", "clearing")
        BY <1>2 DEF ReplaceAgreement
  <2>2. /\ ~ spoiled /\ ProgressInv /\ Goto("clearing") /\ inserted' = {} /\ deleted' = {}
        /\ db' = (db \ old) \cup {Row("agreement", contract, 0)}
        BY <2>1, CleanOutcome
  <2>3. \A row \in old : row.contract = contract
        BY OldAgreementLemma
  <2> QED  BY <1>2, <2>2, <2>3, CleanTurn DEF ReplaceAgreement, Goto, InTurn, Fresh
<1>3. CASE RemoveAgreement
  <2>1. PICK old \in OldAgreement(contract) : AskAndSave({}, old, "adding", "clearing")
        BY <1>3 DEF RemoveAgreement
  <2>2. /\ ~ spoiled /\ ProgressInv /\ Goto("adding") /\ inserted' = {} /\ deleted' = {}
        /\ db' = (db \ old) \cup {}
        BY <2>1, CleanOutcome
  <2>3. \A row \in old : row.contract = contract
        BY OldAgreementLemma
  <2> QED  BY <1>3, <2>2, <2>3, CleanTurn DEF RemoveAgreement, Goto, InTurn, Fresh
<1>4. CASE AddAgreement
  <2>1. /\ ~ spoiled /\ ProgressInv /\ Goto("clearing") /\ inserted' = {} /\ deleted' = {}
        /\ db' = (db \ {}) \cup {Row("agreement", contract, 0)}
        BY <1>4, CleanOutcome DEF AddAgreement
  <2> QED  BY <1>4, <2>1, CleanTurn DEF AddAgreement, Goto, InTurn, Fresh
<1>5. CASE ClearCharges
  <2>1. AskAndSave({}, Of("charge", contract), "months", "contracts") /\ pc = "clearing"
        BY <1>5 DEF ClearCharges
  <2>2. /\ ~ spoiled /\ ProgressInv /\ Goto("months") /\ inserted' = {} /\ deleted' = {}
        /\ db' = (db \ Of("charge", contract)) \cup {}
        BY <2>1, CleanOutcome
  <2>3. left' = Months
        BY <1>5, <2>2 DEF ClearCharges, Goto
  <2>4. \A row \in Of("charge", contract) : row.contract = contract
        BY DEF Of
  <2>5. Row("agreement", contract, 0) \in db'
        BY <2>1, <2>2, RowLemma DEF ProgressInv, Of
  <2> QED  BY <1>5, <2>1, <2>2, <2>3, <2>4, <2>5, CleanTurn DEF ClearCharges, Goto, InTurn, Fresh
<1>6. ASSUME NEW m \in Months, AddCharge(m)
      PROVE  ProgressInv'
  <2>1. /\ ~ spoiled /\ ProgressInv /\ Goto("months") /\ inserted' = {} /\ deleted' = {}
        /\ db' = (db \ {}) \cup {Row("charge", contract, m)}
        BY <1>6, CleanOutcome DEF AddCharge
  <2>2. pc = "months" /\ left' = left \ {m}
        BY <1>6 DEF AddCharge
  <2>3. Row("agreement", contract, 0) \in db' /\ \A n \in Months \ left' : Row("charge", contract, n) \in db'
        BY <2>1, <2>2 DEF ProgressInv
  <2> QED  BY <1>6, <2>1, <2>2, <2>3, CleanTurn DEF AddCharge, Goto, InTurn, Fresh
<1>7. CASE EndContract
  <2>1. /\ ~ spoiled /\ ProgressInv /\ Goto("contracts") /\ inserted' = {} /\ deleted' = {}
        /\ db' = (db \ {}) \cup {} /\ pc = "months" /\ left = {}
        BY <1>7 DEF EndContract, Skip, tracker, ProgressInv
  <2>2. /\ Row("agreement", contract, 0) \in db'
        /\ \A n \in Months : Row("charge", contract, n) \in db'
        BY <2>1 DEF ProgressInv
  <2> QED  BY <1>7, <2>1, <2>2, CleanTurn DEF EndContract, Goto, InTurn, Fresh
<1>8. ~ MonthsFail
      BY DEF MonthsFail, CallFails
<1> QED  BY <1>1, <1>2, <1>3, <1>4, <1>5, <1>6, <1>7, <1>8

\* Every step keeps what an unspoiled run has reached.
LEMMA CleanStep ==
    ASSUME Inv, CleanInv, [Next]_vars, ~ spoiled'
    PROVE  ProgressInv'
<1> USE DEF Inv, CleanInv, external, tracker
<1>1. ASSUME NEW delivery \in Deliveries, Load(delivery)
      PROVE  ProgressInv'
  <2>1. ~ spoiled /\ ProgressInv
        BY <1>1 DEF Load
  <2>2. UNCHANGED <<db, pc, polled, run, todo, contract, left, inserted, deleted, day>>
        BY <1>1 DEF Load
  <2>3. \A r, c, m : Row(r, c, m)' = Row(r, c, m)
        BY <2>2 DEF Row
  <2>4. CASE pc \in {"listing", "payments"} \cup Listed
    <3>1. day # polled
          BY <1>1, <2>4 DEF Load, LoadInv
    <3>2. \A c \in Contracts : /\ updated'[c] = polled => updated[c] = polled
                               /\ modified'[c] = polled => modified[c] = polled
          BY <1>1, <3>1 DEF Load, TypeOK
    <3>3. Due(polled)' \subseteq Due(polled)
          BY <2>2, <3>2 DEF Due
    <3>4. \A c : Reported(c) => Reported(c)'
          BY <2>2, <2>3 DEF Reported
    <3> QED  BY <2>1, <2>2, <2>3, <3>2, <3>3, <3>4 DEF ProgressInv
  <2>5. CASE pc \notin {"listing", "payments"} \cup Listed
        BY <2>1, <2>2, <2>5 DEF ProgressInv, Listed, InTurn
  <2> QED  BY <2>4, <2>5
<1>2. CASE NextDay \/ UNCHANGED vars
  <2>1. ~ spoiled /\ (pc \in {"listing", "payments"} => day' = day)
    <3>1. CASE UNCHANGED vars
          BY <3>1 DEF vars
    <3>2. CASE NextDay
      <4>1. spoiled' = (spoiled \/ pc \in {"listing", "payments"})
            BY <3>2 DEF NextDay
      <4>2. ~ (spoiled \/ pc \in {"listing", "payments"})
            BY <4>1, Zenon
      <4> QED  BY <4>2
    <3> QED  BY <1>2, <3>1, <3>2
  <2>2. UNCHANGED <<updated, modified, db, pc, polled, run, todo, contract, left, inserted, deleted>>
        BY <1>2 DEF NextDay, vars
  <2>3. ProgressInv
        BY <2>1
  <2> QED  BY <2>1, <2>2, <2>3 DEF ProgressInv, Due, Reported, Row
<1>3. CASE Restart
      BY <1>3 DEF Restart, ProgressInv, Listed, InTurn, Fresh
<1>4. CASE Poll \/ MarkComplete \/ Wake
  <2>1. inserted' = {} /\ deleted' = {}
        BY <1>4 DEF Poll, MarkComplete, Wake, PendingInv, Quiet
  <2>2. pc' \in {"listing", "sleeping", "polling"} /\ (pc' = "listing" => day' = polled')
        BY <1>4 DEF Poll, MarkComplete, Wake
  <2> QED  BY <2>1, <2>2 DEF ProgressInv, Listed, InTurn, Fresh
<1>5. ~ WorkerFails /\ ~ QueryFails /\ \A c \in Contracts : ~ CalculatorFails(c)
      BY DEF WorkerFails, QueryFails, CalculatorFails, CallFails
<1>6. CASE ListContracts
  <2>1. ~ spoiled /\ ProgressInv /\ inserted' = {} /\ deleted' = {} /\ pc' = "payments" /\ polled' = polled
        BY <1>6 DEF ListContracts, ProgressInv
  <2>2. day' = polled' /\ todo' = {c \in Contracts \ Orphans : updated'[c] = polled'}
        BY <1>6, <2>1 DEF ListContracts, ProgressInv
  <2> QED  BY <2>1, <2>2 DEF ProgressInv, Listed, InTurn, Fresh
<1>7. CASE ListPayments
  <2>1. ~ spoiled /\ ProgressInv /\ inserted' = {} /\ deleted' = {} /\ pc' = "contracts" /\ pc = "payments"
        BY <1>7 DEF ListPayments, ProgressInv
  <2>2. todo' = todo \cup {c \in Contracts : modified[c] = polled}
        BY <1>7, <2>1 DEF ListPayments, ProgressInv
  <2>3. polled # 0
        BY <2>1 DEF LoadInv, Days
  <2>4. \A c \in Due(polled) : c \in todo'
        BY <2>1, <2>2, <2>3 DEF ProgressInv, Due, LoadInv
  <2>5. Due(polled)' = Due(polled)
        BY <1>7 DEF ListPayments, Due
  <2> QED  BY <2>1, <2>4, <2>5 DEF ProgressInv, InTurn, Fresh
<1>8. ASSUME NEW c \in Contracts, StartContract(c)
      PROVE  ProgressInv'
  <2>1. /\ ~ spoiled /\ ProgressInv /\ pc = "contracts" /\ pc' \in {"closing", "replacing", "removing"}
        /\ contract' = c /\ todo' = todo \ {c}
        /\ UNCHANGED <<updated, modified, db, polled, run, inserted, deleted>>
        BY <1>8 DEF StartContract, Take
  <2>2. \A d \in Due(polled) : d \in todo \/ Reported(d)
        BY <2>1 DEF ProgressInv, Listed, InTurn, Fresh
  <2>3. Due(polled)' = Due(polled) /\ \A d : Reported(d)' = Reported(d)
        BY <2>1 DEF Due, Reported, Row
  <2>4. \A d \in Due(polled)' : d \in todo' \/ (pc' \in InTurn /\ d = contract') \/ Reported(d)'
        BY <2>1, <2>2, <2>3 DEF InTurn, Fresh
  <2> QED  BY <2>1, <2>4 DEF ProgressInv
<1>9. ASSUME NEW c \in Contracts, NullReference(c)
      PROVE  ProgressInv'
      BY <1>9 DEF NullReference, EndJob, ProgressInv, Listed, InTurn, Fresh
<1>10. CASE NoMoreContracts
  <2>1. /\ ~ spoiled /\ ProgressInv /\ pc = "contracts" /\ pc' = "marking" /\ todo = {} /\ todo' = {}
        /\ inserted' = {} /\ deleted' = {}
        /\ UNCHANGED <<updated, modified, db, polled, run>>
        BY <1>10 DEF NoMoreContracts, EndJob
  <2>2. \A d \in Due(polled) : Reported(d)
        BY <2>1 DEF ProgressInv, Listed, InTurn, Fresh
  <2>3. Due(polled)' = Due(polled) /\ \A d : Reported(d)' = Reported(d)
        BY <2>1 DEF Due, Reported, Row
  <2>4. \A d \in Due(polled)' : Reported(d)'
        BY <2>2, <2>3
  <2> QED  BY <2>1, <2>4 DEF ProgressInv
<1>11. ASSUME NEW c \in Contracts, UnknownType(c)
       PROVE  ProgressInv'
  <2>1. /\ ~ spoiled /\ ProgressInv /\ pc = "contracts" /\ pc' = "contracts"
        /\ c \notin Known /\ todo' = todo \ {c}
        /\ UNCHANGED <<updated, modified, db, polled, run, inserted, deleted>>
        BY <1>11 DEF UnknownType, Take
  <2>2. \A d \in Due(polled) : d \in todo \/ Reported(d)
        BY <2>1 DEF ProgressInv, Listed, InTurn, Fresh
  <2>3. Due(polled)' = Due(polled) /\ \A d : Reported(d)' = Reported(d)
        BY <2>1 DEF Due, Reported, Row
  <2>4. Reported(c)
        BY <2>1 DEF Reported
  <2>5. \A d \in Due(polled)' : d \in todo' \/ Reported(d)'
        BY <2>1, <2>2, <2>3, <2>4
  <2> QED  BY <2>1, <2>5 DEF ProgressInv, InTurn, Fresh
<1> QED  BY <1>1, <1>2, <1>3, <1>4, <1>5, <1>6, <1>7, <1>8, <1>9, <1>10, <1>11, CleanTurnStep
            DEF Next, WorkerStep, JobStep

\* An unspoiled run is on its way to report all, in every state.
THEOREM CleanCorrect == Spec => []CleanInv
<1>1. Init => CleanInv
  <2> SUFFICES ASSUME Init PROVE CleanInv
      OBVIOUS
  <2>1. pc = "polling" /\ inserted = {} /\ deleted = {} /\ updated = [c \in Contracts |-> 0]
        BY DEF Init
  <2>2. LoadInv
        BY <2>1, ContractsAssumption DEF LoadInv, Listed, InTurn, Fresh
  <2> QED  BY <2>1, <2>2 DEF CleanInv, ProgressInv, Listed, InTurn, Fresh
<1>2. Inv /\ CleanInv /\ [Next]_vars => CleanInv'
      BY LoadStep, CleanStep DEF Inv, CleanInv
<1> QED  BY <1>1, <1>2, InvCorrect, PTL DEF Spec

\* A day is marked complete by an unspoiled run only when all annuity and PDL
\* contracts due on it have been reported by that run; of the others that were
\* due there is nothing in the registers.
THEOREM CleanRunsCorrect == Spec => CleanRunsReportAll
<1> DEFINE Claim == \A d \in Days : event[d] = "new" /\ event'[d] = "complete" /\ ~ spoiled =>
                        \A c \in Due(d) :
                            IF c \in Known
                            THEN Row("agreement", c, 0) \in db /\ \A m \in Months : Row("charge", c, m) \in db
                            ELSE \A row \in db : row.contract # c
<1>1. Inv /\ CleanInv /\ [Next]_vars => Claim
  <2> SUFFICES ASSUME Inv, CleanInv, [Next]_vars, NEW d \in Days, event[d] = "new", event'[d] = "complete",
                      ~ spoiled, NEW c \in Due(d)
               PROVE  IF c \in Known
                      THEN Row("agreement", c, 0) \in db /\ \A m \in Months : Row("charge", c, m) \in db
                      ELSE \A row \in db : row.contract # c
      OBVIOUS
  <2>1. MarkComplete
    <3> USE DEF Inv, TypeOK, external
    <3>1. ASSUME NEW delivery \in Deliveries, Load(delivery)
          PROVE  FALSE
          BY <3>1 DEF Load
    <3>2. CASE UNCHANGED event
          BY <3>2
    <3>3. CASE JobStep
          BY <3>3 DEF JobStep, ListContracts, ListPayments, QueryFails, StartContract, CalculatorFails,
                      UnknownType, NullReference, NoMoreContracts, CloseContract, ReplaceAgreement, RemoveAgreement,
                      AddAgreement, ClearCharges, MonthsFail, AddCharge, EndContract
    <3> QED  BY <3>1, <3>2, <3>3 DEF Next, WorkerStep, NextDay, Restart, Poll, WorkerFails, Wake, vars
  <2>2. d = polled
        BY <2>1 DEF MarkComplete, Inv, TypeOK
  <2>3. Reported(c)
        BY <2>1, <2>2 DEF MarkComplete, CleanInv, ProgressInv, Listed, InTurn, Fresh
  <2>4. \A row \in db : row.contract \in Known
        BY DEF Inv, TypeOK, Rows
  <2> QED  BY <2>3, <2>4 DEF Reported
<1> QED  BY <1>1, InvCorrect, CleanCorrect, PTL DEF Spec, CleanRunsReportAll

=============================================================================
