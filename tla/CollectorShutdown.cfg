CONSTANTS
    Faults = TRUE
SPECIFICATION ShutSpec
INVARIANTS ShutTypeOK SuccessIsOrderly NodeStoppedUnlessPanic
PROPERTY ProcessExits
CHECK_DEADLOCK FALSE
