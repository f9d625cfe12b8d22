SPECIFICATION Spec
CONSTANTS
    Fields <- ThreeFields
    Seconds <- Timeouts
    Positive <- Shutdowns
    Values <- FiveValues
    Unit = 2
    MaxDuration = 1
    Overflowed <- Least
    Defaults <- ThreeDefaults
    MaxLoads = 2
    Omitted = Omitted
    None = None
INVARIANT OnlyDroppedFieldsDrift
PROPERTY NoFalseAlarm
