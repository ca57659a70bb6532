CONSTANTS
    Words <- MCModeWord
    MaxWrites <- MCMaxWrites
SPECIFICATION Spec
PROPERTY SubRegisterWriteIsolated
CHECK_DEADLOCK FALSE
