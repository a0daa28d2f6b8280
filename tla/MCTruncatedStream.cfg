SPECIFICATION Spec
CONSTANTS
    c1 = c1
    c2 = c2
    q1 = q1
    q2 = q2
    q3 = q3
    None = None
    Clients <- MCClients
    Queries <- MCQueries
    Length <- MCLength
    Statements <- MCStatements
    Scripts <- QueryScripts
    Streamed = {q1, q3}
    AutoFiles = {}
    MaxStalls = 2
    MayFail = {}
    MayAbandon = FALSE
INVARIANT
    EndIsComplete
