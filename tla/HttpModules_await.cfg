SPECIFICATION Spec
CONSTANTS
    Keys = {"page", "view", "store"}
    Imports <- MCImports
    SfcBase = {"store"}
    MaxModules = 4
    MaxImports = 3
PROPERTIES
    ResolvedAfterSettling
CHECK_DEADLOCK FALSE
