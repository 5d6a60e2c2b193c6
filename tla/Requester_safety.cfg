CONSTANTS
    None = None
    Calls <- MCCalls
    Responses <- MCResponses
    MissingFiles = {"ca", "cert", "key"}
    KeyKinds = {"plain", "encrypted"}
    Urllib3 = {"old", "new"}
    Ports = {"int", "bad"}
    FinishModes = {TRUE, FALSE}
    MaxCalls = 2
SPECIFICATION Spec
INVARIANT TypeOK
PROPERTY TransportRefinement
CHECK_DEADLOCK FALSE
