CONSTANTS
    annuity = annuity
    pdl = pdl
    other = other
    orphan = orphan
    Contracts = {annuity, pdl, other, orphan}
    Annuities = {annuity}
    Pdls = {pdl}
    Orphans = {orphan}
    Deliveries <- SomeDeliveries
    Months = {1, 2}
    MaxDay = 2
    MaxFailures = 2
    MaxRestarts = 1
SPECIFICATION Spec
INVARIANTS
    TypeOK
    RegistersAreOfOneRun
PROPERTIES
    AgreementIsKept
    CleanRunsReportAll
    EventsAreServed
CHECK_DEADLOCK FALSE
