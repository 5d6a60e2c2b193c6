\* Every usage line of runner.py with every argument value, every result of perform_request.
CONSTANTS
    None = None
    IdInputs <- MCIdInputs
    UidInputs <- MCUidInputs
    AliasInputs <- MCAliasInputs
    RoleInputs <- MCRoleInputs
    TokenInputs <- MCTokenInputs
    FamilyInputs = {"0x34"}
    PdiInputs = {"pdi"}
    CertInputs = {"ok", "pem"}
    FileInputs = {"ok", "missing"}
    OutputInputs = {"out"}
    Outcomes = {"data", "empty", "created", "service_error", "exit1", "sysexit"}
    UidBytes = 2
SPECIFICATION Spec
INVARIANT TypeOK UnauthenticatedOnlyBootstrap NoRequestWithoutPrecursor
CHECK_DEADLOCK FALSE
