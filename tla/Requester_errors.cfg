\* Finish-on-error calls: responses the display code cannot handle, and an encrypted client key with either urllib3.
CONSTANTS
    None = None
    Calls <- MCCalls
    Responses <- MCResponses
    MissingFiles = {}
    KeyKinds = {"plain", "encrypted"}
    Urllib3 = {"old", "new"}
    Ports = {"int", "bad"}
    FinishModes = {TRUE}
    MaxCalls = 2
SPECIFICATION Spec
PROPERTY TransportErrorsAsSpecified
CHECK_DEADLOCK FALSE
