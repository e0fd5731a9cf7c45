SPECIFICATION Spec
CONSTANTS
    Keys = {"page", "view", "store"}
    Imports <- MCImports
    SfcBase = {"store"}
    MaxModules = 4
    MaxImports = 3
INVARIANTS
    TypeOK
    InFlightIsOwned
    OneInstance
PROPERTIES
    AnsweredOnce
    EveryImportSettles
CHECK_DEADLOCK FALSE
