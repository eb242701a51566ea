SPECIFICATION OutboxSpec
CONSTANTS
    Notifications = {n1}
    Urls = {a}
    Emails = {x, y}
    Off = Off
    Replicas = {r1, r2}
    NoReplica = NoReplica
    MaxAttempts = 2
    MaxChanges = 2
INVARIANTS SentToItsDestination SettledForCause
PROPERTY DeliveriesSettle
CHECK_DEADLOCK FALSE
