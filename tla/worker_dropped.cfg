CONSTANTS
    a1 = a1
    a2 = a2
    Attempts <- MCAttempts
    NoAttempt = NoAttempt
    MaxRetries = 3
    MaxEvents = 3
SPECIFICATION Spec
PROPERTIES
    DroppedAttemptsNeverConnect
