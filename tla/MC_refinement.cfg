CONSTANTS
    Words <- MCAllWords
    MaxWrites <- MCMaxWrites
SPECIFICATION Spec
PROPERTY RefinesRecord
CHECK_DEADLOCK FALSE
