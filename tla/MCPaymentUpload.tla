-------------------------- MODULE MCPaymentUpload --------------------------
(* Small files for the model checker: lines 1 .. 4, cut into files. *)
EXTENDS PaymentUpload

\* Two files of two lines; the first line of each is the same order.
TwoByTwo == [r \in Rows |-> IF r <= 2 THEN "u1" ELSE "u2"]
FirstLinesAlike == [r \in Rows |-> IF r \in {1, 3} THEN 0 ELSE r]

\* A file of three lines and a file of one, which repeats the second line.
ThreeAndOne == [r \in Rows |-> IF r <= 3 THEN "u1" ELSE "u2"]
SecondLineAgain == [r \in Rows |-> IF r \in {2, 4} THEN 0 ELSE r]

\* Two files of one line: the orders agree in contract, number, amount and
\* payer, the fields that KeyOf stands for, but not in date and purpose.
OneByOne == [r \in Rows |-> IF r = 1 THEN "u1" ELSE "u2"]
AllAlike == [r \in Rows |-> 0]
DateAndPurpose == [r \in Rows |-> r]

\* "Date, number, amount, payer, recipient, purpose" (PaymentOrdersService.cs:28):
\* an order is skipped as processed before only if an order with the same date
\* and purpose, too, is on record.
SkippedIsTheSameOrder ==
    \A r \in Rows : shown[r] = "processed before" =>
        \E q \in Rows : storedOn[q] # Never /\ KeyOf[q] = KeyOf[r] /\ DateAndPurpose[q] = DateAndPurpose[r]
=============================================================================
