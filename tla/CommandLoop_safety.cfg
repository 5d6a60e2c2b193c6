CONSTANTS
    None = None
    Junk = Junk
    Sections = {"health", "service-import-key", "sealing-key", "context-key", "signing-key", "root-signing-key", "service-import-pub-key", "configuration", "communication", "user", "prefetch", "prefetch-status"}
    OutputPaths <- MCOutputPaths
    Ids = {0, 1}
SPECIFICATION Spec
INVARIANT TypeOK
CHECK_DEADLOCK FALSE
