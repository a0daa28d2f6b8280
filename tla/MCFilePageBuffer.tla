--------------------------- MODULE MCFilePageBuffer ---------------------------
(* Small instances of FilePageBuffer for TLC: a file with one page, which is   *)
(* written, appended to and flushed, a file with two pages, which is read, and *)
(* room for one frame, so that every page evicts another one.                  *)
EXTENDS FilePageBuffer, TLC

CONSTANTS t1, t2, t3, p1, q1, q2, f1, f2

MCThreads == {t1, t2, t3}
MCPages == {p1, q1, q2}
MCFiles == {f1, f2}
MCFileOf == p1 :> f1 @@ q1 :> f2 @@ q2 :> f2

Do(kind, page, val) == [kind |-> kind, page |-> page, val |-> val]

MCCalls == {Do("write", p1, 1), Do("read", p1, 0), Do("append", p1, 1),
            Do("flush", p1, 0), Do("stream", q1, 0)}
MCBudgets == {t1 :> 2 @@ t2 :> 2 @@ t3 :> 0, t1 :> 1 @@ t2 :> 1 @@ t3 :> 1}

\* A stream over a file that another thread appends to.
StreamCalls == {Do("stream", q1, 0), Do("append", q2, 1)}
===============================================================================
