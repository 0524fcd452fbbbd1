---------------------------- MODULE PaymentLedger ----------------------------
(***************************************************************************)
(* What the upload promises about every payment order, whatever the number *)
(* of requests, blocks and exceptions: an order takes each of its steps at *)
(* most once and in one direction, the bank is asked to operate on it only *)
(* once it is scheduled on record, and it is settled as successful only if *)
(* the bank carried the operation out.  PaymentUpload implements it.       *)
(***************************************************************************)
CONSTANT Rows       \* the payment orders

VARIABLES
    stage,          \* how far the order is on record
    outcome         \* what the bank did with the operation on the order

vars == <<stage, outcome>>

Stages == {"new", "sent", "recorded", "scheduled", "settled ok", "settled error"}

TypeOK ==
    /\ stage \in [Rows -> Stages]
    /\ outcome \in [Rows -> {"none", "executed", "refused"}]

Init ==
    /\ stage = [r \in Rows |-> "new"]
    /\ outcome = [r \in Rows |-> "none"]

\* The orders of S, all at one of the given stages, advance together.
Advance(S, stages, next) ==
    /\ \A r \in S : stage[r] \in stages
    /\ stage' = [r \in Rows |-> IF r \in S THEN next ELSE stage[r]]
    /\ UNCHANGED outcome

\* The bank receives orders; the database knows nothing of them yet.
Send(S) == Advance(S, {"new"}, "sent")

\* Orders are put on record, those the bank rejected ("new") included.
Record(S) == Advance(S, {"new", "sent"}, "recorded")

\* Orders on record are scheduled to be bound.
Schedule(S) == Advance(S, {"recorded"}, "scheduled")

\* The bank operates on an order that has been scheduled, late answers included.
Operate(r, result) ==
    /\ stage[r] \in {"scheduled", "settled error"}
    /\ outcome[r] = "none"
    /\ outcome' = [outcome EXCEPT ![r] = result]
    /\ UNCHANGED stage

\* The orders of S are settled, those of Good as successful.
Settle(S, Good) ==
    /\ Good \subseteq S
    /\ \A r \in S : stage[r] = "scheduled"
    /\ \A r \in Good : outcome[r] = "executed"
    /\ stage' = [r \in Rows |-> IF r \in Good THEN "settled ok"
                                ELSE IF r \in S THEN "settled error" ELSE stage[r]]
    /\ UNCHANGED outcome

Next ==
    \/ \E S \in SUBSET Rows : Send(S) \/ Record(S) \/ Schedule(S)
    \/ \E r \in Rows, result \in {"executed", "refused"} : Operate(r, result)
    \/ \E S, Good \in SUBSET Rows : Settle(S, Good)

Spec == Init /\ [][Next]_vars
=============================================================================
