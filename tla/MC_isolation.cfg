CONSTANTS
    Words <- MCOtherWords
    MaxWrites <- MCMaxWrites
SPECIFICATION Spec
PROPERTY SubRegisterWriteIsolated
CHECK_DEADLOCK FALSE
