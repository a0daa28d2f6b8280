---------------------------- MODULE ResultStream ----------------------------
(***************************************************************************)
(* One connection of lib/src/webdb.cc (pending query, polling, cancel,     *)
(* fetch, prepared statements), and the async functions that use it from   *)
(* the other side of the worker: AsyncDuckDBConnection and the iterator of *)
(* parallel/async_connection.ts, which has one fetch under way while its   *)
(* caller works on the chunk before.                                       *)
(*                                                                         *)
(* Requests and replies are delivered in order.  A step is one request     *)
(* served by the worker, or one reply with the continuation of the async   *)
(* function that awaits it, or a caller's next call.  DuckDB is            *)
(* environment: a query stalls, fails or goes on; what shows of it is      *)
(* which query of the connection it still executes.                        *)
(***************************************************************************)
EXTENDS Integers, Sequences, FiniteSets

CONSTANTS Clients,     \* async functions that share the connection
          Scripts,     \* their calls: functions from Clients to sequences of calls
          Queries,     \* the texts that are sent; each occurs once in a behaviour
          Length,      \* the number of chunks in the result of each
          Statements,  \* the number of statements in each
          Streamed,    \* the queries whose results are streams, not materialized
          AutoFiles,   \* the texts sent that have OPFS files registered and dropped for them
          MaxStalls,   \* bound: how often DuckDB has nothing to give yet in a behaviour
          MayFail,     \* the requests that may fail
          MayAbandon,  \* may callers stop reading early?
          None

CallKinds == {"send", "sendPrepared", "query", "prepare", "cancel"}

Call == [kind : CallKinds, query : Queries \cup {None}]

ASSUME StreamAssumption ==
    /\ None \notin Queries
    /\ Length \in [Queries -> Nat]
    /\ Statements \in [Queries -> Nat \ {0}]
    /\ Streamed \subseteq Queries /\ AutoFiles \subseteq Queries
    /\ MaxStalls \in Nat
    /\ MayAbandon \in BOOLEAN
    /\ Scripts \subseteq [Clients -> Seq(Call)]

\* In a script with one reader r the others do no more than cancel and prepare, and r sends no
\* text twice.
Sends(call) == call.kind \in {"send", "sendPrepared"}

ReadsAlone(r, script) ==
    /\ \A c \in Clients \ {r} :
           \A i \in DOMAIN script[c] : script[c][i].kind \in {"cancel", "prepare"}
    /\ \A i \in DOMAIN script[r] :
           Sends(script[r][i]) =>
               /\ script[r][i].query # None
               /\ \A j \in DOMAIN script[r] :
                      Sends(script[r][j]) /\ script[r][j].query = script[r][i].query => i = j

OneReader == \A s \in Scripts : \E r \in Clients : ReadsAlone(r, s)

\* What a reply, or a promise that has settled, holds.
Values == [what : {"none", "posted", "null", "ok", "yes", "no", "header", "chunk", "end", "error"},
           query : Queries \cup {None}, index : Nat]

Value(what) == [what |-> what, query |-> None, index |-> 0]
Header(q)   == [what |-> "header", query |-> q, index |-> 0]
Chunk(q, i) == [what |-> "chunk", query |-> q, index |-> i]

\* The requests of a connection; ahead: the iterator's fetch that nobody awaits yet.
Request == [from : Clients, kind : CallKinds \cup {"poll", "fetch", "drop"},
            query : Queries \cup {None}, ahead : BOOLEAN]

NoResult == [query |-> None, next |-> 1]

VARIABLES
    \* the connection in the worker
    pending,       \* current_pending_query_result_
    statements,    \* the size of current_pending_statements_
    statement,     \* current_pending_statement_index_
    wasCanceled,   \* current_pending_query_was_canceled_
    result,        \* current_query_result_, with the chunk it comes to next
    executing,     \* the query whose pending result DuckDB still executes
    streaming,     \* the query whose stream result DuckDB still feeds
    stalls,
    \* between the callers and the worker
    requests, replies,
    \* the callers
    client,        \* client[c]: its calls to come, where it stands, for which query
    outcome,       \* outcome[q]: how far the caller of q has come
    got,           \* got[q]: the chunks the reader of q has been given
    canceled       \* the queries that were canceled before they had a result

duckdb  == <<executing, streaming, stalls>>
connection == <<pending, statements, statement, wasCanceled, result, duckdb>>
callers == <<client, outcome, got>>

vars == <<pending, statements, statement, wasCanceled, result, executing, streaming, stalls,
          requests, replies, client, outcome, got, canceled>>

Points == {"ready", "start", "drop", "poll", "reading", "inflight", "fetch", "answer"}

Init ==
    /\ pending = None /\ statements = 0 /\ statement = 0
    /\ wasCanceled = FALSE
    /\ result = NoResult
    /\ executing = None /\ streaming = None
    /\ stalls = 0
    /\ requests = <<>> /\ replies = <<>>
    /\ \E s \in Scripts :
         client = [c \in Clients |-> [script |-> s[c], at |-> "ready", query |-> None,
                                      header |-> Value("none"), ahead |-> Value("none")]]
    /\ outcome = [q \in Queries |-> "none"]
    /\ got = [q \in Queries |-> <<>>]
    /\ canceled = {}

-------------------------------------------------------------------------------
(* The worker *)

Serves(kind) == requests # <<>> /\ Head(requests).kind = kind

\* The request is answered, and the next one comes up.
Reply(value) ==
    /\ requests' = Tail(requests)
    /\ replies' = Append(replies, [to |-> Head(requests), value |-> value])

MayStall == stalls < MaxStalls /\ stalls' = stalls + 1

Fails(kind) == kind \in MayFail /\ Reply(Value("error"))

\* The bindings copy the response before they drop the engine's buffers: what is posted
\* is not overwritten by the call that comes next.
ReturnsResult == Reply(Value("ok"))
ReturnsHeader(q) == Reply(Header(q))
ReturnsStatement == Reply(Value("ok"))

\* A new query on the connection: DuckDB gives up the one it was executing.
Executes(q, stream) == executing' = q /\ streaming' = stream

\* PollPendingQuery from the given statement on, as far as DuckDB gets within the polling
\* interval: nowhere, to the next statements, to a failure, or to the result.
ExecuteTasks(q, from, n, before) ==
    /\ \/ /\ MayStall
          /\ pending' = q /\ statements' = n
          /\ statement' \in from .. n - 1
          /\ result' = before
          /\ Executes(q, None)
          /\ Reply(Value("null"))
       \/ /\ Fails("poll")
          /\ pending' = None /\ statements' = 0
          /\ statement' \in from .. n - 1
          /\ result' = before
          /\ Executes(None, None)
          /\ UNCHANGED stalls
       \/ /\ pending' = q /\ statements' = n
          /\ statement' = n
          /\ result' = [query |-> q, next |-> 1]
          /\ Executes(None, IF q \in Streamed THEN q ELSE None)
          /\ Reply(Header(q))
          /\ UNCHANGED stalls

\* PendingQuery: the text does not parse, or its first statement fails, or it is begun.
StartPending ==
    /\ Serves("send")
    /\ LET q == Head(requests).query
       IN  \/ /\ Fails("send")
              /\ UNCHANGED connection
           \/ /\ Fails("send")
              /\ statements' = 0 /\ statement' = 0
              /\ Executes(None, None)
              /\ UNCHANGED <<pending, wasCanceled, result, stalls>>
           \/ /\ wasCanceled' = FALSE
              /\ ExecuteTasks(q, 0, Statements[q], NoResult)
    /\ UNCHANGED <<callers, canceled>>

PollForever ==
    /\ Serves("poll")
    /\ \/ /\ wasCanceled \/ pending = None \/ executing # pending
          /\ Reply(Value("null"))
          /\ UNCHANGED connection
       \/ /\ ~wasCanceled /\ pending # None /\ executing = pending
          /\ ExecuteTasks(pending, statement, statements, result)
          /\ UNCHANGED wasCanceled
    /\ UNCHANGED <<callers, canceled>>

\* A pending result that DuckDB no longer executes throws.
PollPending ==
    /\ Serves("poll")
    /\ \/ /\ wasCanceled \/ pending = None \/ executing # pending
          /\ Reply(Value("error"))
          /\ UNCHANGED connection
       \/ /\ ~wasCanceled /\ pending # None /\ executing = pending
          /\ ExecuteTasks(pending, statement, statements, result)
          /\ UNCHANGED wasCanceled
    /\ UNCHANGED <<callers, canceled>>

CancelLater ==
    /\ Serves("cancel")
    /\ LET now == pending # None /\ result.query = None
       IN  /\ Reply(Value(IF now THEN "yes" ELSE "no"))
           /\ canceled' = IF now /\ executing = pending THEN canceled \cup {pending} ELSE canceled
    /\ UNCHANGED <<connection, callers>>

\* Only a query that is pending and has no result yet is reset.
CancelPending ==
    /\ Serves("cancel")
    /\ \/ /\ pending # None /\ result.query = None
          /\ wasCanceled' = TRUE
          /\ pending' = None /\ statements' = 0
          /\ executing' = IF executing = pending THEN None ELSE executing
          /\ canceled' = IF executing = pending THEN canceled \cup {pending} ELSE canceled
          /\ Reply(Value("yes"))
          /\ UNCHANGED <<statement, result, streaming, stalls>>
       \/ /\ pending = None \/ result.query # None
          /\ Reply(Value("no"))
          /\ UNCHANGED <<connection, canceled>>
    /\ UNCHANGED callers

\* RunQuery: the result is materialized in the reply, and no result is kept; it may fail before
\* and after the result that was kept is given up.
RunQuery ==
    /\ Serves("query")
    /\ Executes(None, None)
    /\ \/ Fails("query") /\ result' \in {result, NoResult}
       \/ ReturnsResult /\ result' = NoResult
    /\ UNCHANGED <<pending, statements, statement, wasCanceled, stalls, callers, canceled>>

\* SendPreparedStatement: a stream whose pending result is not kept.
SendPrepared ==
    /\ Serves("sendPrepared")
    /\ LET q == Head(requests).query
       IN  \/ /\ Fails("sendPrepared")
              /\ Executes(None, None)
              /\ UNCHANGED result
           \/ /\ Executes(None, q)
              /\ result' = [query |-> q, next |-> 1]
              /\ ReturnsHeader(q)
    /\ UNCHANGED <<pending, statements, statement, wasCanceled, stalls, callers, canceled>>

PrepareResets ==
    /\ Serves("prepare")
    /\ Executes(None, None)
    /\ result' = NoResult
    /\ Reply(Value("ok"))
    /\ UNCHANGED <<pending, statements, statement, wasCanceled, stalls, callers, canceled>>

\* CreatePreparedStatement: DuckDB prepares a statement, and gives up what it executes.
Prepare ==
    /\ Serves("prepare")
    /\ Executes(None, None)
    /\ Fails("prepare") \/ ReturnsStatement
    /\ UNCHANGED <<pending, statements, statement, wasCanceled, result, stalls, callers, canceled>>

IsStream(q) == q \in Streamed

\* A stream that DuckDB has given up for another query.
Overtaken == IsStream(result.query) /\ streaming # result.query

\* FetchQueryResults: the next chunk, or null to try again, or the end.
Fetch ==
    /\ Serves("fetch")
    /\ LET q == result.query
       IN  \/ /\ q = None
              /\ Reply(Value("end"))
              /\ UNCHANGED <<result, duckdb>>
           \/ /\ q # None /\ Overtaken
              /\ Reply(Value("error"))
              /\ UNCHANGED <<result, duckdb>>
           \/ /\ q # None /\ ~Overtaken /\ IsStream(q)
              /\ MayStall
              /\ Reply(Value("null"))
              /\ UNCHANGED <<result, executing, streaming>>
           \/ /\ q # None /\ ~Overtaken
              /\ Fails("fetch")
              /\ streaming' = None
              /\ UNCHANGED <<result, executing, stalls>>
           \/ /\ q # None /\ ~Overtaken /\ result.next <= Length[q]
              /\ Reply(Chunk(q, result.next))
              /\ result' = [result EXCEPT !.next = @ + 1]
              /\ UNCHANGED duckdb
           \/ /\ q # None /\ ~Overtaken /\ result.next > Length[q]
              /\ Reply(Value("end"))
              /\ result' = NoResult
              /\ streaming' = None
              /\ UNCHANGED <<executing, stalls>>
    /\ UNCHANGED <<pending, statements, statement, wasCanceled, callers, canceled>>

\* dropFiles: does not touch the connection.
DropFiles ==
    /\ Serves("drop")
    /\ Reply(Value("ok"))
    /\ UNCHANGED <<connection, callers, canceled>>

Serve == \/ StartPending \/ PollPending \/ CancelPending \/ RunQuery
         \/ SendPrepared \/ Prepare \/ Fetch \/ DropFiles

-------------------------------------------------------------------------------
(* The callers *)

Rq(c, kind, q, ahead) == [from |-> c, kind |-> kind, query |-> q, ahead |-> ahead]

Post(c, kind, q) == requests' = Append(requests, Rq(c, kind, q, FALSE))

PostTwoAhead(c, q) ==
    requests' = requests \o <<Rq(c, "fetch", q, TRUE), Rq(c, "fetch", q, TRUE)>>

PostAhead(c, q) == requests' = Append(requests, Rq(c, "fetch", q, TRUE))

\* Where a caller waits for the answer to its call.
WaitsAt(kind) == IF kind \in {"send", "sendPrepared"} THEN "start" ELSE "answer"

CallNextReusesIterator(c) ==
    /\ client[c].at = "ready" /\ client[c].script # <<>>
    /\ LET call == Head(client[c].script)
       IN  /\ client' = [client EXCEPT ![c].script = Tail(@), ![c].at = WaitsAt(call.kind),
                                      ![c].query = call.query]
           /\ Post(c, call.kind, call.query)
           /\ outcome' = IF WaitsAt(call.kind) = "start"
                         THEN [outcome EXCEPT ![call.query] = "sent"] ELSE outcome
    /\ UNCHANGED <<connection, replies, got, canceled>>

\* The next call of c's script. The query of a reader it leaves is forgotten with its promise.
CallNext(c) ==
    /\ client[c].at = "ready" /\ client[c].script # <<>>
    /\ LET call == Head(client[c].script)
       IN  /\ client' = [client EXCEPT ![c] =
                  [script |-> Tail(@.script), at |-> WaitsAt(call.kind), query |-> call.query,
                   header |-> Value("none"), ahead |-> Value("none")]]
           /\ Post(c, call.kind, call.query)
           /\ outcome' = IF WaitsAt(call.kind) = "start"
                         THEN [outcome EXCEPT ![call.query] = "sent"] ELSE outcome
    /\ UNCHANGED <<connection, replies, got, canceled>>

Goes(c, at) == client' = [client EXCEPT ![c].at = at]

Settles(q, to) == outcome' = [outcome EXCEPT ![q] = to]

\* The promise of a call rejects, and so does the async function: it calls no more.
Rejects(c) ==
    /\ client' = [client EXCEPT ![c].at = "ready", ![c].script = <<>>]
    /\ outcome' = IF client[c].at = "answer" THEN outcome
                  ELSE [outcome EXCEPT ![client[c].query] = "failed"]
    /\ UNCHANGED <<requests, got>>

\* The header of a query, null for one to be polled again, or an error.
Starts(c, value) ==
    LET q == client[c].query
    IN  \/ /\ value.what = "error" /\ Rejects(c)
        \/ /\ value.what = "header"
           /\ Goes(c, "reading") /\ Settles(q, "open")
           /\ UNCHANGED <<requests, got>>
        \/ /\ value.what = "null"
           /\ Goes(c, "poll") /\ Post(c, "poll", q)
           /\ UNCHANGED <<outcome, got>>

\* startPendingQuery drops the files it registered before it gives its answer.
StartAnswered(c, value) ==
    IF client[c].query \in AutoFiles
    THEN /\ client' = [client EXCEPT ![c].at = "drop", ![c].header = value]
         /\ Post(c, "drop", client[c].query)
         /\ UNCHANGED <<outcome, got>>
    ELSE Starts(c, value)

\* The iterator has a buffer: it gives it to the reader and fetches the one after, or is
\* depleted, or tries again.
Takes(c, value) ==
    LET q == client[c].query
    IN  \/ /\ value.what = "error" /\ Rejects(c)
        \/ /\ value.what = "null"
           /\ client' = [client EXCEPT ![c].at = "fetch", ![c].ahead = Value("none")]
           /\ Post(c, "fetch", q)
           /\ UNCHANGED <<outcome, got>>
        \/ /\ value.what = "chunk"
           /\ got' = [got EXCEPT ![q] = Append(@, [query |-> value.query, index |-> value.index])]
           /\ client' = [client EXCEPT ![c].at = "reading", ![c].ahead = Value("posted")]
           /\ PostAhead(c, q)
           /\ UNCHANGED outcome
        \/ /\ value.what = "end"
           /\ Goes(c, "ready") /\ Settles(q, "done")
           /\ UNCHANGED <<requests, got>>

NextBufferUnawaited(c) ==
    /\ client[c].at = "reading"
    /\ Goes(c, "fetch") /\ Post(c, "fetch", client[c].query)
    /\ UNCHANGED <<connection, replies, outcome, got, canceled>>

\* The reader asks for more: the fetch under way is awaited, or used if it has settled.
NextBuffer(c) ==
    /\ client[c].at = "reading"
    /\ LET ahead == client[c].ahead
       IN  \/ /\ ahead.what = "none"
              /\ Goes(c, "fetch") /\ Post(c, "fetch", client[c].query)
              /\ UNCHANGED <<outcome, got>>
           \/ /\ ahead.what = "posted"
              /\ Goes(c, "inflight")
              /\ UNCHANGED <<requests, outcome, got>>
           \/ /\ ahead.what \notin {"none", "posted"}
              /\ Takes(c, ahead)
    /\ UNCHANGED <<connection, replies, canceled>>

\* ... or leaves its loop, with a fetch still under way.
Abandon(c) ==
    /\ MayAbandon
    /\ client[c].at = "reading"
    /\ Goes(c, "ready")
    /\ UNCHANGED <<connection, requests, replies, outcome, got, canceled>>

\* A reply to a fetch ahead settles its promise, awaited or not; nobody has the promise of
\* a reader that is left.
AheadArrives(c, reply) ==
    \/ /\ client[c].at = "inflight" /\ Takes(c, reply.value)
    \/ /\ client[c].at = "reading"
       /\ client' = [client EXCEPT ![c].ahead = reply.value]
       /\ UNCHANGED <<requests, outcome, got>>
    \/ /\ client[c].at \notin {"inflight", "reading"}
       /\ UNCHANGED <<requests, callers>>

\* A reply and the continuation of the async function that awaits it. A caller whose cancel
\* comes too late leaves it at that.
Receive(c) ==
    /\ replies # <<>> /\ Head(replies).to.from = c
    /\ replies' = Tail(replies)
    /\ LET reply == Head(replies)
       IN  \/ reply.to.ahead /\ AheadArrives(c, reply)
           \/ /\ ~reply.to.ahead
              /\ \/ client[c].at = "start" /\ StartAnswered(c, reply.value)
                 \/ client[c].at = "drop" /\ Starts(c, client[c].header)
                 \/ client[c].at = "poll" /\ Starts(c, reply.value)
                 \/ client[c].at = "fetch" /\ Takes(c, reply.value)
                 \/ /\ client[c].at = "answer"
                    /\ \/ reply.value.what = "error" /\ Rejects(c)
                       \/ /\ reply.value.what \in {"ok", "yes"}
                          /\ Goes(c, "ready")
                          /\ UNCHANGED <<requests, outcome, got>>
                       \/ /\ reply.value.what = "no"
                          /\ client' = [client EXCEPT ![c].at = "ready", ![c].script = <<>>]
                          /\ UNCHANGED <<requests, outcome, got>>
    /\ UNCHANGED <<connection, canceled>>

-------------------------------------------------------------------------------

Finished == /\ \A c \in Clients : client[c].at = "ready" /\ client[c].script = <<>>
            /\ requests = <<>> /\ replies = <<>>
            /\ UNCHANGED vars

Next == \/ Serve
        \/ \E c \in Clients : CallNext(c) \/ NextBuffer(c) \/ Abandon(c) \/ Receive(c)
        \/ Finished

Spec == Init /\ [][Next]_vars

\* The worker serves, replies arrive, and callers go on; none of them need give up.
FairSpec == /\ Spec
            /\ WF_vars(Serve)
            /\ \A c \in Clients : /\ WF_vars(CallNext(c)) /\ WF_vars(NextBuffer(c))
                                  /\ WF_vars(Receive(c))

-------------------------------------------------------------------------------
(* What must hold *)

\* A reader is given the chunks of its own result, each once and in order: no fetch ahead of
\* a reader that has stopped, no retry and no cancel takes a chunk from it.
ReaderGetsItsResult ==
    \A q \in Queries : got[q] = [i \in 1 .. Len(got[q]) |-> [query |-> q, index |-> i]]

\* A reader that comes to the end of its stream has the whole result.
EndIsComplete == \A q \in Queries : outcome[q] = "done" => Len(got[q]) = Length[q]

\* A query that is canceled before it has a result never gets one: the next poll of its
\* caller is refused (test/bindings.test.ts:367-378).
CanceledNeverCompletes == \A q \in canceled : outcome[q] \in {"sent", "failed"}

\* The connection is never more than one chunk ahead of the reader: that chunk is all that
\* is lost when the reader stops.
BoundedReadAhead ==
    \A c \in Clients :
        client[c].at \in {"reading", "inflight", "fetch"} /\ result.query = client[c].query
            => result.next - 1 <= Len(got[client[c].query]) + 1

Cursors == INSTANCE ResultCursors

\* What its callers see of the connection is a set of cursors.
ImplementsCursors == Cursors!Spec

\* Every caller comes to the end of its calls: no one polls or waits for ever.
AllCallersFinish == <>[](\A c \in Clients : client[c].at = "ready" /\ client[c].script = <<>>)
===============================================================================
