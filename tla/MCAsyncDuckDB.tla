---------------------------- MODULE MCAsyncDuckDB ----------------------------
(* Small instances of AsyncDuckDB for TLC: two or three callers, a database in *)
(* OPFS with its write ahead log, and two or three files beside it.            *)
EXTENDS AsyncDuckDB, TLC

CONSTANTS c1, c2, db, wal, fileF, fileG, fileH

MCCallers == {c1, c2}
MCFiles == {db, wal, fileF, fileG, fileH}
MCWalOf == db :> wal

Open(path, auto) == [Rq("open", <<>>) EXCEPT !.config = [path |-> path, auto |-> auto]]
Read(file) == Rq("runQuery", <<file>>)
Write(file) == [Rq("runQuery", <<file>>) EXCEPT !.writes = {file}]
RegisterName(file) == Rq("registerOPFSFileName", <<file>>)
RegisterHandle(file) == Rq("registerFileHandle", <<file>>)
Drop(names) == Rq("dropFiles", names)
InstantiateIt == Rq("instantiate", <<>>)
SomeCall == Rq("other", <<>>)
PingIt == Rq("ping", <<>>)
ResetIt == Rq("reset", <<>>)

\* One caller opens the database, the other uses it, not always in time.
MCScripts ==
    LET Both(first, second) == c1 :> first @@ c2 :> second
        Start(auto) == <<InstantiateIt, Open(db, auto)>>
    IN {Both(Start(TRUE) \o <<Read(fileF)>>, <<Read(fileG), SomeCall>>),
        Both(Start(TRUE) \o <<Write(fileF)>>, <<Write(fileG), Drop(<<db>>)>>),
        Both(Start(TRUE) \o <<[Read(fileF) EXCEPT !.files = <<fileF, fileG>>]>>, <<ResetIt>>),
        Both(Start(FALSE) \o <<RegisterName(fileG), Read(fileG)>>, <<RegisterHandle(fileG), Drop(<<db, fileH>>)>>),
        Both(<<InstantiateIt, RegisterName(fileH), Write(fileH)>>, <<Open(db, FALSE), Drop(<<>>)>>),
        Both(<<InstantiateIt, Open(None, FALSE)>>, <<RegisterName(fileG), Drop(<<>>), PingIt>>),
        Both(<<InstantiateIt, Open(db, FALSE)>>, <<RegisterName(db), Drop(<<db>>)>>),
        Both(Start(FALSE) \o <<Open(None, FALSE)>>, <<Open(db, FALSE), Drop(<<db>>)>>),
        Both(Start(FALSE), <<Write(db), Drop(<<db>>)>>)}

\* These programs are among those that the theorems of AsyncDuckDBProofs are about.
ASSUME ProgramsInstantiateOnce == InstantiateOnce
ASSUME ProgramsKeepQueriesApart == QueriesKeepApart
===============================================================================
