\* One docopt command, ENCRYPTED with or without a QEK, the mode in either
\* letter case.
CONSTANTS
    None = None
    Empty = Empty
    NonHex = NonHex
    OddHex = OddHex
    ImportPub = ImportPub
    a1 = a1
    q1 = q1
    ImportModes = {"encrypted", "ENCRYPTED"}
    Names = {"cfg"}
    PufTypes = {"IID"}
    AesValues = {a1}
    QekValues = {None, q1}
    KeyNames = {None, "kn"}
    TestPrograms = {TRUE}
    EfusesValues = {"B256"}
    CorimUrls = {"short"}
    OverbuildValues = {"int"}
    NumLists <- MCNumListsValid
    BuildIdLists = {None}
    Modes = {"docopt"}
    MaxCommands = 1
SPECIFICATION Spec
INVARIANT EncryptedAsSpecified
CHECK_DEADLOCK FALSE
