CONSTANTS
    Words <- MCEnumWords
    MaxWrites <- MCMaxWrites
SPECIFICATION Spec
INVARIANT EnumReadBack
CHECK_DEADLOCK FALSE
