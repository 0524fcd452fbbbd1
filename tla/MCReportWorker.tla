--------------------------- MODULE MCReportWorker ---------------------------
(* Instances of ReportWorker for TLC. *)
EXTENDS ReportWorker, TLC

CONSTANTS annuity, pdl, other, orphan

\* Both kinds of contract, by either query, a contract of another type, and a
\* payment that has no grace contract.
SomeDeliveries == {<<{annuity, pdl}, {}>>, <<{pdl}, {annuity, other}>>, <<{pdl}, {orphan}>>}
=============================================================================
