---------------------------- MODULE MCResultStream ----------------------------
(* Small instances of ResultStream for TLC: two async functions on one          *)
(* connection, with results of one or two chunks.                               *)
EXTENDS ResultStream, TLC

CONSTANTS c1, c2, q1, q2, q3

MCClients == {c1, c2}
MCQueries == {q1, q2, q3}
MCLength == q1 :> 2 @@ q2 :> 2 @@ q3 :> 3
MCStatements == q1 :> 2 @@ q2 :> 1 @@ q3 :> 1

Do(kind, q) == [kind |-> kind, query |-> q]
CancelIt == Do("cancel", None)

Both(first, second) == c1 :> first @@ c2 :> second

\* One caller has readers, the other cancels or prepares a statement.
OneReaderScripts ==
    {Both(<<Do("send", q1), Do("send", q2)>>, <<CancelIt>>),
     Both(<<Do("send", q2), Do("sendPrepared", q3), Do("query", None)>>, <<CancelIt>>),
     Both(<<Do("sendPrepared", q3), Do("query", None), Do("send", q2)>>, <<CancelIt, CancelIt>>),
     Both(<<Do("send", q3), Do("send", q1), Do("send", q2)>>, <<>>),
     Both(<<Do("send", q1), Do("send", q2)>>, <<Do("prepare", None)>>)}

\* The other caller cancels and sends instead.
MCScripts ==
    OneReaderScripts
        \cup {Both(<<Do("send", q1)>>, <<CancelIt, Do("send", q2), Do("query", None)>>)}

\* The hypothesis of the theorems about readers holds of these scripts.
ASSUME ReadersAlone == \A s \in OneReaderScripts : \E r \in MCClients : ReadsAlone(r, s)

\* A caller cancels the query of another and sends one of its own instead.
CancelScripts == {Both(<<Do("send", q1)>>, <<CancelIt, Do("send", q2)>>)}

\* A caller queries while another one reads.
QueryScripts == {Both(<<Do("send", q1)>>, <<Do("query", None)>>)}
===============================================================================
