\* Interactive loop, two commands: key material of the first command in the second body, or an invalid document ending the session.
CONSTANTS
    None = None
    Empty = Empty
    NonHex = NonHex
    OddHex = OddHex
    ImportPub = ImportPub
    a1 = a1
    q1 = q1
    ImportModes = {"PLAINTEXT", "ENCRYPTED"}
    Names = {"cfg", Empty}
    PufTypes = {"IID"}
    AesValues = {a1}
    QekValues = {None, q1}
    KeyNames = {"kn"}
    TestPrograms = {TRUE}
    EfusesValues = {"B256"}
    CorimUrls = {"short"}
    OverbuildValues = {"int"}
    NumLists <- MCNumListsValid
    BuildIdLists = {None}
    Modes = {"interactive"}
    MaxCommands = 2
SPECIFICATION Spec
PROPERTY InteractiveCommandsIndependent
CHECK_DEADLOCK FALSE
