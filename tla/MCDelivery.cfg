SPECIFICATION FairSpec
CONSTANTS
    Events = {e1}
    Stray = stray
    Handlers = {h1}
    Windows = {0, 1}
    TicksPerMilli = 2
    Characters <- MCCharacters
    ClientID <- MCClientID
    Millis <- MCMillis
    Endpoint <- MCEndpoint
    Elsewhere <- MCElsewhere
    Body <- MCBody
    Torn <- MCTorn
    Base64 <- MCBase64
    MaxTime = 1
    MaxWire = 1
PROPERTIES
    EveryEventArrives
