CONSTANTS
    Words <- MCWords
    Buffers <- MCBuffers
    Values <- MCValues
    MaxStores <- MCMaxStores
SPECIFICATION Spec
INVARIANT TypeOK
PROPERTY RefinesLocations
CHECK_DEADLOCK FALSE
