SPECIFICATION FairSpec
CONSTANTS
    c1 = c1
    c2 = c2
    q1 = q1
    q2 = q2
    q3 = q3
    None = None
    Clients <- MCClients
    Queries <- MCQueries
    Length <- MCLength
    Statements <- MCStatements
    Scripts <- MCScripts
    Streamed = {q1, q3}
    AutoFiles = {q2}
    MaxStalls = 3
    MayFail = {"send", "poll", "fetch", "query", "sendPrepared", "prepare"}
    MayAbandon = TRUE
INVARIANTS
    ReaderGetsItsResult
    EndIsComplete
    CanceledNeverCompletes
    BoundedReadAhead
PROPERTIES
    ImplementsCursors
    AllCallersFinish
