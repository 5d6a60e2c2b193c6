\* Two configuration commands per process in both run modes, over JSON
\* documents that exercise every verify() check and every prepare() branch.
CONSTANTS
    None = None
    Empty = Empty
    NonHex = NonHex
    OddHex = OddHex
    ImportPub = ImportPub
    a1 = a1
    q1 = q1
    ImportModes = {"PLAINTEXT", "ENCRYPTED", "encrypted", "BOGUS"}
    Names = {"cfg", Empty}
    PufTypes = {"IID", "iid"}
    AesValues = {a1, OddHex, NonHex}
    QekValues = {None, q1, OddHex}
    KeyNames = {"kn"}
    TestPrograms = {TRUE}
    EfusesValues = {"B256", "B255"}
    CorimUrls = {"short"}
    OverbuildValues = {"int", None}
    NumLists <- MCNumListsValid
    BuildIdLists <- MCBuildIdLists
    Modes = {"docopt", "interactive"}
    MaxCommands = 2
SPECIFICATION Spec
INVARIANT TypeOK
INVARIANT EnvelopesOpen
INVARIANT OwnAesKey
INVARIANT NoncesDistinct
CHECK_DEADLOCK FALSE
