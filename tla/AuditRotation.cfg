SPECIFICATION Spec
CONSTANTS
    Backups = 2
    MaxLines = 2
    MaxEvents = 7
    Durable = {1, 3, 5, 7}
    Torn = Torn
INVARIANTS
    RecoveryPossible
    NoGluedRecord
    NoLeftover
PROPERTIES
    ImplementsLog
