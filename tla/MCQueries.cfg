SPECIFICATION Spec
CONSTANTS
    Characters <- MCCharacters
    BlockSize = 3
    AESKeyLen = 1
    Base64 <- MCBase64
    Options <- MCOptions
    Inputs <- MCInputs
    MaxLen = 3
    MaxOptions = 3
    MaxExplored = 2
CHECK_DEADLOCK FALSE
INVARIANTS
    TypeOK
    OrderIrrelevant
    AddressedAsAsked
    GatewayVerifies
