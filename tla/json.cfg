SPECIFICATION FairSpec
CONSTANTS
    Contents <- MCContents
    MaxSize = 48
    SignatureSize = 4
    MaxKeys = 2
    MaxArray = 1
    MaxString = 6
INVARIANTS
    TypeOK
    SignedTextVerifies
PROPERTIES
    StopsOrStuck
\* A behaviour ends with the second parse.
CHECK_DEADLOCK FALSE
