CONSTANTS
    Words <- MCAllWords
    MaxWrites <- MCMaxWrites
SPECIFICATION Spec
INVARIANT CrossBuildRoundTrip
CHECK_DEADLOCK FALSE
