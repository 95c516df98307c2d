\* A completed and a failed event for one endpoint, two workers, the four attempts of
\* the code, the endpoint patched or deleted twice and two faults of any kind.
SPECIFICATION Spec
CONSTANTS
    Endpoints = {e1}
    completed = completed
    failed = failed
    Events = {completed, failed}
    EventType <- TwoTypes
    Workers = {w1, w2}
    MaxAttempts = 4
    Subscriptions <- AllOrFailures
    MaxEdits = 2
    Faults = {"crash", "redis", "database"}
    MaxFaults = 2
    NoDelivery = NoDelivery
SYMMETRY Symmetry
INVARIANTS
    TypeOK
    CarriedOnce
    UsageMatchesAcks
    StampsEarned
PROPERTY
    ImplementsDelivery
CHECK_DEADLOCK FALSE
