CONSTANTS
    None = None
    Junk = Junk
    Sections = {"sealing-key", "communication", "configuration", "prefetch", "user"}
    OutputPaths <- MCOutputPaths
    Ids = {0, 1}
SPECIFICATION Spec
PROPERTY DispatchMatchesChoice
CHECK_DEADLOCK FALSE
