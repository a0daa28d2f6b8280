SPECIFICATION Spec
CONSTANTS
    c1 = c1
    c2 = c2
    q1 = q1
    q2 = q2
    q3 = q3
    None = None
    Clients <- MCClients
    Queries <- MCQueries
    Length <- MCLength
    Statements <- MCStatements
    Scripts <- CancelScripts
    Streamed = {q1, q3}
    AutoFiles = {q1}
    MaxStalls = 2
    MayFail = {}
    MayAbandon = FALSE
INVARIANT
    CanceledNeverCompletes
