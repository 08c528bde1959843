SPECIFICATION Spec
CONSTANTS
    Scenarios <- MCScenarios
    MaxChunk = 8
    MaxBuffer = 20
    ConnectBound = 1
    HeaderBound = 2
    BodyBound = 2
    IdleBound = 1
    MaxResponse = 9
    MaxError = 2
INVARIANTS DecodedAsSent SuccessIsWhole StreamedAsBuffered TurnsRoundTrip CallBounded
CHECK_DEADLOCK FALSE
