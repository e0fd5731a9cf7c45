SPECIFICATION Spec
CONSTANTS
    Directories <- MCDirectories
    ApplicationPath <- App
    AppMain <- MCAppMain
    PackageMain <- MCPackageMain
    Debug = TRUE
    InitialFiles <- MCFiles
    SyncedFiles <- MCSynced
    Requests <- MCRequests
    Entries <- MCEntries
    MaxInstances = 3
    MaxSyncs = 1
INVARIANTS
    TypeOK
    SharedInstance
    NothingBroken
    DataWhole
PROPERTY LoadedStays
CHECK_DEADLOCK FALSE
