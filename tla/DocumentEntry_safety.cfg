\* Every field varied over its input domain, both sources.
CONSTANTS
    None = None
    Sources = {"user", "json"}
    Focus = {"aes", "qek", "efusesValue", "efusesMask", "sdmSvns", "romVersions", "sdmBuildIdStrings"}
    HexInputs <- MCHexInputs
    ListInputs <- MCListInputs
    IdInputs <- MCIdInputs
    KeyNameInputs <- MCKeyNameInputs
    JsonNumLists <- MCJsonNumLists
    JsonIdLists <- MCJsonIdLists
    Lengths = {1, 2}
    GoodHex <- MCGoodHex
    GoodEfuses <- MCGoodHex
SPECIFICATION Spec
INVARIANT TypeOK UserEntryPassesVerify NoTokenDropped JsonNumbersRoundTrip
CHECK_DEADLOCK FALSE
