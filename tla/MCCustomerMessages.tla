------------------------- MODULE MCCustomerMessages -------------------------
(* Instances of CustomerMessages for TLC. *)
EXTENDS CustomerMessages

CONSTANTS a, q1, q2, q3, w1

\* Requests are interchangeable, so they may as well start in this order.
StartInOrder ==
    /\ pc[q2] # "idle" => pc[q1] # "idle"
    /\ pc[q3] # "idle" => pc[q2] # "idle"
=============================================================================
