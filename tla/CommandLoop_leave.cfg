CONSTANTS
    None = None
    Junk = Junk
    Sections = {"configuration"}
    OutputPaths <- MCOutputPaths
    Ids = {0, 1}
SPECIFICATION FairSpec
PROPERTY LeavingReturnsToMain
CHECK_DEADLOCK FALSE
