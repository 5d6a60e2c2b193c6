\* Every usage line: a scripted command that ends with status 0 although it did not do what was asked.
CONSTANTS
    None = None
    IdInputs <- MCIdInputs
    UidInputs <- MCUidInputs
    AliasInputs <- MCAliasInputs
    RoleInputs <- MCRoleInputs
    TokenInputs <- MCTokenInputs
    FamilyInputs = {"0x34"}
    PdiInputs = {"pdi"}
    CertInputs = {"ok", "pem"}
    FileInputs = {"ok", "missing"}
    OutputInputs = {"out"}
    Outcomes = {"data", "empty", "created", "service_error", "exit1", "sysexit"}
    UidBytes = 2
SPECIFICATION Spec
INVARIANT OneShotCommandAsAsked
CHECK_DEADLOCK FALSE
