SPECIFICATION FairSpec
CONSTANTS
    c1 = c1
    c2 = c2
    db = db
    wal = wal
    fileF = fileF
    fileG = fileG
    fileH = fileH
    None = None
    Callers <- MCCallers
    Files <- MCFiles
    Stored = {db, fileF, fileG}
    WalOf <- MCWalOf
    MaxMessages = 10
    MayFail = {"instantiate", "open", "other", "runQuery"}
    Teardown = TRUE
    Scripts <- MCScripts
INVARIANTS
    OneAnswerUnderWay
    SynchronousInOrder
    RefusedHasNoEffect
    HandlesAgree
    DatabaseKeepsItsFile
    QueriesFindTheirFiles
    StoredFilesAreDropped
PROPERTIES
    ImplementsRequestServer
    AllCallsReturn
CHECK_DEADLOCK FALSE
