-------------------------- MODULE ResultStreamProofs --------------------------
(***************************************************************************)
(* For any number of clients, results of any length and any calls, if one  *)
(* of the clients reads at a time (OneReader): what a reader is given is   *)
(* its own result, and a query that was canceled never has one.            *)
(*                                                                         *)
(* What a reader has been given and where the connection is in its result *)
(* differ by what is under way, so the invariant follows the messages.     *)
(* Requests and replies are one queue (Sent), in which serving a request   *)
(* changes nothing but the place where replies begin.  In that queue a     *)
(* client has one message that it waits for at most, and the reader one    *)
(* fetch ahead, which is before the message it waits for: a fetch of a     *)
(* reader that was left is served and answered before the next query.      *)
(***************************************************************************)
EXTENDS ResultStream, SequenceTheorems, TLAPS

-------------------------------------------------------------------------------
(* The inductive invariant *)

ClientStates == [script : Seq(Call), at : Points, query : Queries \cup {None},
                 header : Values, ahead : Values]

Typed ==
    /\ pending \in Queries \cup {None} /\ executing \in Queries \cup {None}
    /\ result \in [query : Queries \cup {None}, next : Nat]
    /\ requests \in Seq(Request)
    /\ replies \in Seq([to : Request, value : Values])
    /\ client \in [Clients -> ClientStates]
    /\ outcome \in [Queries -> {"none", "sent", "open", "done", "failed"}]
    /\ got \in [Queries -> Seq([query : Queries \cup {None}, index : Nat])]
    /\ canceled \subseteq Queries

\* The messages under way, the oldest first.
Sent == [i \in 1 .. Len(replies) + Len(requests) |->
            IF i <= Len(replies) THEN replies[i].to ELSE requests[i - Len(replies)]]

At(c) == client[c].at
Query(c) == client[c].query
Ahead(c) == client[c].ahead

Starting == {"start", "drop", "poll"}
Reading == {"reading", "inflight", "fetch"}

\* The requests that are awaited at a point.
Awaited(at) ==
    CASE at = "start"  -> {"send", "sendPrepared"}
      [] at = "drop"   -> {"drop"}
      [] at = "poll"   -> {"poll"}
      [] at = "fetch"  -> {"fetch"}
      [] at = "answer" -> {"query", "prepare", "cancel"}
      [] OTHER         -> {}

\* The message m of the reader r is one that r waits for, or the one fetch ahead.
Expected(r, m) ==
    \/ ~m.ahead /\ m.kind \in Awaited(At(r)) /\ (At(r) = "start" => m.query = Query(r))
    \/ /\ m.ahead /\ m.kind = "fetch"
       /\ At(r) \in {"ready", "start", "answer", "reading", "inflight"}
       /\ At(r) = "reading" => Ahead(r).what = "posted"

\* Every message is expected, and the reader's fetch ahead is before what it waits for.
Mailed(r, sent) ==
    /\ \A i \in DOMAIN sent :
           IF sent[i].from = r THEN Expected(r, sent[i])
           ELSE ~sent[i].ahead /\ sent[i].kind \in {"cancel", "prepare"}
    /\ \A i, j \in DOMAIN sent :
           sent[i].from = r /\ sent[j].from = r /\ i < j => sent[i].ahead /\ ~sent[j].ahead

\* r is the only reader, and its queries to come are new.
Alone(r) ==
    /\ r \in Clients
    /\ \A c \in Clients \ {r} : At(c) \in {"ready", "answer"}
    /\ ReadsAlone(r, [c \in Clients |-> client[c].script])
    /\ \A i \in DOMAIN client[r].script :
           Sends(client[r].script[i]) => outcome[client[r].script[i].query] = "none"

\* Where the query of the reader is.
Placed(r) ==
    /\ At(r) \in Starting =>
           Query(r) \in Queries /\ outcome[Query(r)] = "sent" /\ Ahead(r).what = "none"
    /\ At(r) \in Reading => Query(r) \in Queries /\ outcome[Query(r)] = "open"

\* DuckDB executes the query of the reader, which waits for it and can be canceled, or none.
Executed(r) ==
    executing # None =>
        /\ At(r) \in Starting /\ executing = Query(r)
        /\ pending = executing /\ ~wasCanceled /\ result.query = None
        /\ executing \notin canceled

\* The answers to a query: null for one that goes on, an error or a header when DuckDB has
\* done with it.  The header is that of the query, nothing has been fetched of its result.
AnswersIn(q, v, executes, results, cancels) ==
    /\ v.what \in {"null", "error", "header"}
    /\ v.what # "null" => executes = None
    /\ v.what = "header" => /\ v = Header(q) /\ results = [query |-> q, next |-> 1]
                            /\ q \notin cancels

Answers(r, v) == AnswersIn(Query(r), v, executing, result, canceled)

Answered(r) ==
    /\ At(r) = "drop" => Answers(r, client[r].header)
    /\ \A i \in DOMAIN replies :
           replies[i].to.from = r /\ ~replies[i].to.ahead /\ At(r) \in {"start", "poll"}
               => Answers(r, replies[i].value)
    /\ \A i \in DOMAIN requests :
           requests[i].from = r /\ ~requests[i].ahead /\ At(r) = "start"
               => executing = None /\ Query(r) \notin canceled

\* The reader has fetched nothing that it has not taken, a chunk, or the end.
Arrived(r) == {replies[i].value : i \in {j \in DOMAIN replies : replies[j].to.from = r}}
                  \cup IF At(r) = "reading" /\ Ahead(r).what \notin {"none", "posted"}
                       THEN {Ahead(r)} ELSE {}

Asked(r) == \/ \E i \in DOMAIN requests : requests[i].from = r
            \/ At(r) = "reading" /\ Ahead(r).what = "none"

Fetched(r) ==
    At(r) \in Reading =>
        LET q == Query(r)
            n == Len(got[q])
        IN  /\ n <= Length[q]
            /\ \/ /\ result = [query |-> q, next |-> n + 1]
                  /\ \A v \in Arrived(r) : v.what \in {"null", "error"}
               \/ /\ n < Length[q] /\ ~Asked(r)
                  /\ result = [query |-> q, next |-> n + 2]
                  /\ \A v \in Arrived(r) : v = Chunk(q, n + 1)
               \/ /\ n = Length[q] /\ ~Asked(r)
                  /\ result = NoResult
                  /\ \A v \in Arrived(r) : v.what = "end"

\* What has been read, and how queries come out.
Outcomes ==
    \A q \in Queries :
        /\ got[q] = [i \in 1 .. Len(got[q]) |-> [query |-> q, index |-> i]]
        /\ outcome[q] \in {"none", "sent"} => got[q] = <<>>
        /\ outcome[q] = "done" => Len(got[q]) = Length[q]
        /\ q \in canceled => outcome[q] \in {"sent", "failed"}

IInv(r) ==
    /\ Typed /\ Outcomes
    /\ Alone(r) /\ Mailed(r, Sent) /\ Placed(r)
    /\ Executed(r) /\ Answered(r) /\ Fetched(r)

-------------------------------------------------------------------------------
(* Types *)

LEMMA SeqSteps ==
    ASSUME NEW S, NEW s \in Seq(S)
    PROVE  /\ <<>> \in Seq(S)
           /\ \A x \in S : Append(s, x) \in Seq(S)
           /\ s # <<>> => Head(s) \in S /\ Tail(s) \in Seq(S)
OBVIOUS

LEMMA ServedTyped ==
    ASSUME Typed, requests # <<>>, NEW v \in Values, Reply(v)
    PROVE  requests' \in Seq(Request) /\ replies' \in Seq([to : Request, value : Values])
<1>1. Head(requests) \in Request
  BY DEF Typed
<1>. QED  BY <1>1 DEF Typed, Reply

LEMMA ValuesTyped ==
    ASSUME StreamAssumption
    PROVE  /\ \A what \in {"none", "posted", "null", "ok", "yes", "no", "end", "error"} :
                  Value(what) \in Values
           /\ \A q \in Queries \cup {None} : Header(q) \in Values
           /\ \A q \in Queries \cup {None}, i \in Nat : Chunk(q, i) \in Values
BY DEF Values, Value, Header, Chunk, StreamAssumption

LEMMA RequestsTyped ==
    ASSUME NEW c \in Clients, NEW kind \in CallKinds \cup {"poll", "fetch", "drop"},
           NEW q \in Queries \cup {None}, NEW ahead \in BOOLEAN
    PROVE  Rq(c, kind, q, ahead) \in Request
BY DEF Rq, Request

LEMMA ServeTyped ==
    ASSUME StreamAssumption, Typed, Serve
    PROVE  Typed'
<1>. USE ValuesTyped, ServedTyped DEF duckdb, connection, callers, Serves
<1>1. ASSUME NEW q \in Queries \cup {None}, NEW from, NEW n, NEW before,
             before \in [query : Queries \cup {None}, next : Nat],
             requests # <<>>, ExecuteTasks(q, from, n, before)
      PROVE  /\ pending' \in Queries \cup {None} /\ executing' \in Queries \cup {None}
             /\ result' \in [query : Queries \cup {None}, next : Nat]
             /\ requests' \in Seq(Request) /\ replies' \in Seq([to : Request, value : Values])
  <2>1. /\ pending' \in Queries \cup {None} /\ executing' \in Queries \cup {None}
        /\ result' \in [query : Queries \cup {None}, next : Nat]
    BY <1>1 DEF ExecuteTasks, Executes
  <2>2. \E v \in Values : Reply(v)
    BY <1>1 DEF ExecuteTasks, Fails
  <2>. QED  BY <1>1, <2>1, <2>2
<1>2. NoResult \in [query : Queries \cup {None}, next : Nat]
  BY DEF NoResult
<1>3. requests # <<>> => Head(requests) \in Request
  BY DEF Typed
<1>4. requests # <<>> => Head(requests).query \in Queries \cup {None}
  BY <1>3 DEF Request
<1>5. CASE StartPending
  BY <1>1, <1>2, <1>4, <1>5 DEF StartPending, Typed, Fails, Executes
<1>6. CASE PollPending
  BY <1>1, <1>6 DEF PollPending, Typed
<1>7. CASE CancelPending
  BY <1>7 DEF CancelPending, Typed
<1>8. CASE RunQuery
  BY <1>2, <1>8 DEF RunQuery, Typed, Fails, Executes, ReturnsResult
<1>9. CASE SendPrepared
  <2>1. requests # <<>> /\ \E v \in Values : Reply(v)
    BY <1>4, <1>9 DEF SendPrepared, Fails, ReturnsHeader
  <2>2. /\ result' \in [query : Queries \cup {None}, next : Nat]
        /\ executing' \in Queries \cup {None}
    BY <1>4, <1>9 DEF SendPrepared, Typed, Executes
  <2>. QED  BY <1>9, <2>1, <2>2 DEF SendPrepared, Typed
<1>10. CASE Prepare
  BY <1>10 DEF Prepare, Typed, Fails, Executes, ReturnsStatement
<1>11. CASE Fetch
  <2>1. requests # <<>> /\ \E v \in Values : Reply(v)
    BY <1>11 DEF Fetch, Typed, Fails
  <2>2. result' \in [query : Queries \cup {None}, next : Nat] /\ executing' = executing
    <3>1. result' \in {result, NoResult, [result EXCEPT !.next = @ + 1]} /\ executing' = executing
      BY <1>11 DEF Fetch
    <3>2. result \in [query : Queries \cup {None}, next : Nat]
      BY DEF Typed
    <3>3. [result EXCEPT !.next = @ + 1] \in [query : Queries \cup {None}, next : Nat]
      BY <3>2
    <3>. QED  BY <1>2, <3>1, <3>2, <3>3
  <2>. QED  BY <2>1, <2>2, <1>11 DEF Fetch, Typed
<1>12. CASE DropFiles
  BY <1>12 DEF DropFiles, Typed
<1>. QED  BY <1>5, <1>6, <1>7, <1>8, <1>9, <1>10, <1>11, <1>12 DEF Serve

LEMMA CallTyped ==
    ASSUME StreamAssumption, Typed, NEW c \in Clients, CallNext(c)
    PROVE  Typed'
<1>. DEFINE call == Head(client[c].script)
<1>1. client[c] \in ClientStates /\ client[c].script \in Seq(Call) /\ client[c].script # <<>>
  BY DEF Typed, ClientStates, CallNext
<1>2. call \in Call /\ Tail(client[c].script) \in Seq(Call)
  BY <1>1
<1>3. call.kind \in CallKinds /\ call.query \in Queries \cup {None} /\ WaitsAt(call.kind) \in Points
  BY <1>2 DEF Call, WaitsAt, Points
<1>4. client' \in [Clients -> ClientStates]
  <2>1. [script |-> Tail(client[c].script), at |-> WaitsAt(call.kind), query |-> call.query,
         header |-> Value("none"), ahead |-> Value("none")] \in ClientStates
    BY <1>2, <1>3, ValuesTyped DEF ClientStates
  <2>. QED  BY <2>1 DEF CallNext, Typed
<1>5. requests' \in Seq(Request)
  <2>1. Rq(c, call.kind, call.query, FALSE) \in Request
    BY <1>3, RequestsTyped
  <2>. QED  BY <2>1, SeqSteps DEF CallNext, Typed, Post
<1>6. outcome' \in [Queries -> {"none", "sent", "open", "done", "failed"}]
  BY DEF CallNext, Typed
<1>. QED  BY <1>4, <1>5, <1>6 DEF CallNext, Typed, connection, duckdb

LEMMA StoppedTyped ==
    ASSUME NEW x \in ClientStates
    PROVE  [x EXCEPT !.at = "ready", !.script = <<>>] \in ClientStates
<1>1. <<>> \in Seq(Call)
  BY SeqSteps
<1>. QED  BY <1>1 DEF ClientStates, Points

LEMMA RejectsTyped ==
    ASSUME Typed, NEW c \in Clients, Rejects(c)
    PROVE  /\ client' \in [Clients -> ClientStates]
           /\ outcome' \in [Queries -> {"none", "sent", "open", "done", "failed"}]
<1>1. client[c] \in ClientStates
  BY DEF Typed
<1>2. client' \in [Clients -> ClientStates]
  <2>1. client' = [client EXCEPT ![c] = [@ EXCEPT !.at = "ready", !.script = <<>>]]
    BY DEF Rejects
  <2>. QED  BY <1>1, <2>1, StoppedTyped DEF Typed
<1>. QED  BY <1>2 DEF Rejects, Typed

LEMMA StartsTyped ==
    ASSUME StreamAssumption, Typed, NEW c \in Clients, NEW v, Starts(c, v)
    PROVE  /\ client' \in [Clients -> ClientStates]
           /\ outcome' \in [Queries -> {"none", "sent", "open", "done", "failed"}]
           /\ requests' \in Seq(Request) /\ got' = got
<1>1. client[c] \in ClientStates
  BY DEF Typed
<1>2. CASE Rejects(c)
  BY <1>2, RejectsTyped DEF Rejects, Typed
<1>3. CASE Goes(c, "reading") /\ Settles(Query(c), "open") /\ UNCHANGED <<requests, got>>
  <2>1. client' \in [Clients -> ClientStates]
    BY <1>1, <1>3 DEF Typed, Goes, ClientStates, Points
  <2>. QED  BY <1>3, <2>1 DEF Typed, Settles
<1>4. CASE Goes(c, "poll") /\ Post(c, "poll", Query(c)) /\ UNCHANGED <<outcome, got>>
  <2>1. client' \in [Clients -> ClientStates]
    BY <1>1, <1>4 DEF Typed, Goes, ClientStates, Points
  <2>2. Rq(c, "poll", Query(c), FALSE) \in Request
    BY <1>1, RequestsTyped DEF ClientStates, Query
  <2>. QED  BY <1>4, <2>1, <2>2, SeqSteps DEF Typed, Post
<1>. QED  BY <1>2, <1>3, <1>4 DEF Starts, Query

LEMMA TakesTyped ==
    ASSUME StreamAssumption, Typed, NEW c \in Clients, NEW v \in Values, Takes(c, v)
    PROVE  /\ client' \in [Clients -> ClientStates]
           /\ outcome' \in [Queries -> {"none", "sent", "open", "done", "failed"}]
           /\ requests' \in Seq(Request)
           /\ got' \in [Queries -> Seq([query : Queries \cup {None}, index : Nat])]
<1>1. client[c] \in ClientStates
  BY DEF Typed
<1>2. \A ahead \in BOOLEAN : Rq(c, "fetch", Query(c), ahead) \in Request
  BY <1>1, RequestsTyped DEF ClientStates, Query
<1>3. CASE Rejects(c)
  BY <1>3, RejectsTyped DEF Rejects, Typed
<1>4. CASE /\ client' = [client EXCEPT ![c].at = "fetch", ![c].ahead = Value("none")]
           /\ Post(c, "fetch", Query(c))
           /\ UNCHANGED <<outcome, got>>
  <2>1. client' \in [Clients -> ClientStates]
    BY <1>1, <1>4, ValuesTyped DEF Typed, ClientStates, Points
  <2>. QED  BY <1>2, <1>4, <2>1, SeqSteps DEF Typed, Post
<1>5. CASE /\ got' = [got EXCEPT ![Query(c)] = Append(@, [query |-> v.query, index |-> v.index])]
           /\ client' = [client EXCEPT ![c].at = "reading", ![c].ahead = Value("posted")]
           /\ PostAhead(c, Query(c))
           /\ UNCHANGED outcome
  <2>1. client' \in [Clients -> ClientStates]
    BY <1>1, <1>5, ValuesTyped DEF Typed, ClientStates, Points
  <2>2. [query |-> v.query, index |-> v.index] \in [query : Queries \cup {None}, index : Nat]
    BY DEF Values
  <2>3. got' \in [Queries -> Seq([query : Queries \cup {None}, index : Nat])]
    <3>1. CASE Query(c) \in Queries
      <4>1. got[Query(c)] \in Seq([query : Queries \cup {None}, index : Nat])
        BY <3>1 DEF Typed
      <4>2. Append(got[Query(c)], [query |-> v.query, index |-> v.index])
                \in Seq([query : Queries \cup {None}, index : Nat])
        BY <2>2, <4>1, SeqSteps
      <4>. QED  BY <1>5, <3>1, <4>2 DEF Typed
    <3>2. CASE Query(c) \notin Queries
      BY <1>5, <3>2 DEF Typed
    <3>. QED  BY <3>1, <3>2
  <2>. QED  BY <1>2, <1>5, <2>1, <2>3, SeqSteps DEF Typed, PostAhead
<1>6. CASE Goes(c, "ready") /\ Settles(Query(c), "done") /\ UNCHANGED <<requests, got>>
  <2>1. client' \in [Clients -> ClientStates]
    BY <1>1, <1>6 DEF Typed, Goes, ClientStates, Points
  <2>. QED  BY <1>6, <2>1 DEF Typed, Settles
<1>. QED  BY <1>3, <1>4, <1>5, <1>6 DEF Takes, Query

LEMMA NextBufferTyped ==
    ASSUME StreamAssumption, Typed, NEW c \in Clients, NextBuffer(c)
    PROVE  Typed'
<1>1. client[c] \in ClientStates
  BY DEF Typed
<1>2. CASE Goes(c, "fetch") /\ Post(c, "fetch", client[c].query) /\ UNCHANGED <<outcome, got>>
  <2>1. client' \in [Clients -> ClientStates]
    BY <1>1, <1>2 DEF Typed, Goes, ClientStates, Points
  <2>2. Rq(c, "fetch", client[c].query, FALSE) \in Request
    BY <1>1, RequestsTyped DEF ClientStates
  <2>3. requests' \in Seq(Request)
    BY <1>2, <2>2, SeqSteps DEF Typed, Post
  <2>. QED  BY <1>2, <2>1, <2>3 DEF Typed, NextBuffer, connection, duckdb
<1>3. CASE Goes(c, "inflight") /\ UNCHANGED <<requests, outcome, got>>
  <2>1. client' \in [Clients -> ClientStates]
    BY <1>1, <1>3 DEF Typed, Goes, ClientStates, Points
  <2>. QED  BY <1>3, <2>1 DEF Typed, NextBuffer, connection, duckdb
<1>4. CASE Takes(c, client[c].ahead)
  <2>1. client[c].ahead \in Values
    BY <1>1 DEF ClientStates
  <2>. QED  BY <1>4, <2>1, TakesTyped DEF Typed, NextBuffer, connection, duckdb
<1>. QED  BY <1>2, <1>3, <1>4 DEF NextBuffer

LEMMA AbandonTyped ==
    ASSUME Typed, NEW c \in Clients, Abandon(c)
    PROVE  Typed'
<1>1. client[c] \in ClientStates
  BY DEF Typed
<1>2. client' \in [Clients -> ClientStates]
  BY <1>1 DEF Abandon, Goes, Typed, ClientStates, Points
<1>. QED  BY <1>2 DEF Typed, Abandon, connection, duckdb

LEMMA ReceiveTyped ==
    ASSUME StreamAssumption, Typed, NEW c \in Clients, Receive(c)
    PROVE  Typed'
<1>. DEFINE v == Head(replies).value
<1>1. client[c] \in ClientStates /\ client[c].header \in Values
  BY DEF Typed, ClientStates
<1>2. v \in Values
  <2>1. Head(replies) \in [to : Request, value : Values]
    BY SeqSteps DEF Typed, Receive
  <2>. QED  BY <2>1
<1>3. replies' \in Seq([to : Request, value : Values])
  BY SeqSteps DEF Receive, Typed
<1>4. SUFFICES /\ client' \in [Clients -> ClientStates]
               /\ outcome' \in [Queries -> {"none", "sent", "open", "done", "failed"}]
               /\ requests' \in Seq(Request)
               /\ got' \in [Queries -> Seq([query : Queries \cup {None}, index : Nat])]
  BY <1>3 DEF Receive, Typed, connection, duckdb
<1>5. CASE Takes(c, v)
  BY <1>2, <1>5, TakesTyped
<1>6. CASE Starts(c, v) \/ Starts(c, client[c].header)
  BY <1>6, StartsTyped DEF Typed
<1>7. CASE /\ client' = [client EXCEPT ![c].at = "drop", ![c].header = v]
           /\ Post(c, "drop", client[c].query)
           /\ UNCHANGED <<outcome, got>>
  <2>1. client' \in [Clients -> ClientStates]
    BY <1>1, <1>2, <1>7 DEF Typed, ClientStates, Points
  <2>2. Rq(c, "drop", client[c].query, FALSE) \in Request
    BY <1>1, RequestsTyped DEF ClientStates
  <2>. QED  BY <1>7, <2>1, <2>2, SeqSteps DEF Typed, Post
<1>8. CASE client' = [client EXCEPT ![c].ahead = v] /\ UNCHANGED <<requests, outcome, got>>
  <2>1. client' \in [Clients -> ClientStates]
    BY <1>1, <1>2, <1>8 DEF Typed, ClientStates
  <2>. QED  BY <1>8, <2>1 DEF Typed
<1>9. CASE UNCHANGED <<requests, client, outcome, got>>
  BY <1>9 DEF Typed
<1>10. CASE Rejects(c)
  BY <1>10, RejectsTyped DEF Rejects, Typed
<1>11. CASE Goes(c, "ready") /\ UNCHANGED <<requests, outcome, got>>
  <2>1. client' \in [Clients -> ClientStates]
    BY <1>1, <1>11 DEF Typed, Goes, ClientStates, Points
  <2>. QED  BY <1>11, <2>1 DEF Typed
<1>12. CASE /\ client' = [client EXCEPT ![c].at = "ready", ![c].script = <<>>]
            /\ UNCHANGED <<requests, outcome, got>>
  <2>1. client' \in [Clients -> ClientStates]
    <3>1. client' = [client EXCEPT ![c] = [@ EXCEPT !.at = "ready", !.script = <<>>]]
      BY <1>12
    <3>. QED  BY <1>1, <3>1, StoppedTyped DEF Typed
  <2>. QED  BY <1>12, <2>1 DEF Typed
<1>. QED
  BY <1>5, <1>6, <1>7, <1>8, <1>9, <1>10, <1>11, <1>12
  DEF Receive, AheadArrives, StartAnswered, callers

LEMMA TypedStep ==
    ASSUME StreamAssumption, Typed, [Next]_vars
    PROVE  Typed'
<1>1. CASE UNCHANGED vars
  BY <1>1 DEF vars, Typed
<1>. QED
  BY <1>1, ServeTyped, CallTyped, NextBufferTyped, AbandonTyped, ReceiveTyped DEF Next, Finished

-------------------------------------------------------------------------------
(* Messages *)

LEMMA SeqElements ==
    ASSUME NEW S, NEW s \in Seq(S)
    PROVE  /\ Len(s) \in Nat /\ DOMAIN s = 1 .. Len(s)
           /\ \A i \in DOMAIN s : s[i] \in S
OBVIOUS

LEMMA AppendElements ==
    ASSUME NEW S, NEW s \in Seq(S), NEW x
    PROVE  /\ Len(Append(s, x)) = Len(s) + 1 /\ DOMAIN Append(s, x) = 1 .. Len(s) + 1
           /\ \A i \in DOMAIN s : Append(s, x)[i] = s[i]
           /\ Append(s, x)[Len(s) + 1] = x
OBVIOUS

LEMMA AppendedElements ==
    ASSUME NEW S, NEW s \in Seq(S), NEW x, NEW t, t = Append(s, x)
    PROVE  /\ t # s /\ Len(t) = Len(s) + 1 /\ DOMAIN t = 1 .. Len(s) + 1
           /\ \A i \in DOMAIN s : t[i] = s[i]
           /\ t[Len(s) + 1] = x
OBVIOUS

LEMMA TailElements ==
    ASSUME NEW S, NEW s \in Seq(S), s # <<>>
    PROVE  /\ Len(s) > 0 /\ Head(s) = s[1]
           /\ Len(Tail(s)) = Len(s) - 1 /\ DOMAIN Tail(s) = 1 .. Len(s) - 1
           /\ \A i \in 1 .. Len(s) - 1 : Tail(s)[i] = s[i + 1]
OBVIOUS

LEMMA SentTyped ==
    ASSUME Typed
    PROVE  /\ Len(replies) \in Nat /\ Len(requests) \in Nat
           /\ DOMAIN Sent = 1 .. Len(replies) + Len(requests)
           /\ \A i \in DOMAIN Sent : Sent[i] \in Request
           /\ \A i \in DOMAIN replies : i \in DOMAIN Sent /\ Sent[i] = replies[i].to
           /\ \A i \in DOMAIN requests : /\ Len(replies) + i \in DOMAIN Sent
                                         /\ Sent[Len(replies) + i] = requests[i]
<1>1. requests \in Seq(Request) /\ replies \in Seq([to : Request, value : Values])
  BY DEF Typed
<1>2. /\ Len(replies) \in Nat /\ DOMAIN replies = 1 .. Len(replies)
      /\ \A i \in DOMAIN replies : replies[i] \in [to : Request, value : Values]
  BY ONLY <1>1, SeqElements
<1>3. /\ Len(requests) \in Nat /\ DOMAIN requests = 1 .. Len(requests)
      /\ \A i \in DOMAIN requests : requests[i] \in Request
  BY ONLY <1>1, SeqElements
<1>4. \A i \in DOMAIN replies : replies[i].to \in Request
  BY <1>2
<1>. QED  BY <1>2, <1>3, <1>4 DEF Sent

\* What serving a request does to the two queues.
LEMMA ServedQueues ==
    ASSUME Typed, requests # <<>>, NEW v, Reply(v)
    PROVE  /\ Len(replies) \in Nat /\ Len(requests) \in Nat /\ Len(requests) > 0
           /\ requests[1] = Head(requests)
           /\ DOMAIN requests' = 1 .. Len(requests) - 1
           /\ \A i \in DOMAIN requests' : requests'[i] = requests[i + 1]
           /\ DOMAIN replies' = 1 .. Len(replies) + 1
           /\ \A i \in DOMAIN replies : replies'[i] = replies[i]
           /\ replies'[Len(replies) + 1] = [to |-> requests[1], value |-> v]
           /\ Len(replies') = Len(replies) + 1 /\ Len(requests') = Len(requests) - 1
<1>1. requests \in Seq(Request) /\ replies \in Seq([to : Request, value : Values])
  BY DEF Typed
<1>2. requests' = Tail(requests) /\ replies' = Append(replies, [to |-> Head(requests), value |-> v])
  BY DEF Reply
<1>3. /\ Len(requests) \in Nat /\ Len(requests) > 0 /\ requests[1] = Head(requests)
      /\ Len(Tail(requests)) = Len(requests) - 1 /\ DOMAIN Tail(requests) = 1 .. Len(requests) - 1
      /\ \A i \in 1 .. Len(requests) - 1 : Tail(requests)[i] = requests[i + 1]
  BY ONLY <1>1, requests # <<>>, SeqElements, TailElements
<1>4. /\ Len(replies) \in Nat
      /\ \A x : /\ Len(Append(replies, x)) = Len(replies) + 1
                /\ DOMAIN Append(replies, x) = 1 .. Len(replies) + 1
                /\ \A i \in DOMAIN replies : Append(replies, x)[i] = replies[i]
                /\ Append(replies, x)[Len(replies) + 1] = x
  BY ONLY <1>1, SeqElements, AppendElements
<1>. QED  BY <1>2, <1>3, <1>4

\* The messages under way stay as they are.
LEMMA ServedSent ==
    ASSUME Typed, requests # <<>>, NEW v, Reply(v)
    PROVE  Sent' = Sent
<1>. DEFINE reply == [to |-> requests[1], value |-> v]
<1>0. /\ Len(replies) \in Nat /\ Len(requests) \in Nat /\ Len(requests) > 0
      /\ DOMAIN requests' = 1 .. Len(requests) - 1
      /\ \A i \in DOMAIN requests' : requests'[i] = requests[i + 1]
      /\ \A i \in DOMAIN replies : replies'[i] = replies[i]
      /\ replies'[Len(replies) + 1] = reply
      /\ Len(replies') = Len(replies) + 1 /\ Len(requests') = Len(requests) - 1
  BY ServedQueues
<1>1. /\ Len(replies) \in Nat /\ Len(requests) \in Nat /\ Len(requests) > 0
      /\ DOMAIN replies = 1 .. Len(replies)
      /\ Len(replies') = Len(replies) + 1 /\ Len(requests') = Len(requests) - 1
      /\ \A i \in DOMAIN replies : replies'[i] = replies[i]
      /\ replies'[Len(replies) + 1].to = requests[1]
      /\ \A i \in 1 .. Len(requests) - 1 : requests'[i] = requests[i + 1]
  <2>1. replies \in Seq([to : Request, value : Values])
    BY DEF Typed
  <2>2. DOMAIN replies = 1 .. Len(replies)
    BY ONLY <2>1, SeqElements
  <2>. QED  BY <1>0, <2>2
<1>2. /\ Len(replies') + Len(requests') = Len(replies) + Len(requests)
      /\ Len(replies) + Len(requests) \in Nat
  BY <1>1
<1>3. ASSUME NEW i \in 1 .. Len(replies) + Len(requests)
      PROVE  (IF i <= Len(replies') THEN replies'[i].to ELSE requests'[i - Len(replies')])
                 = (IF i <= Len(replies) THEN replies[i].to ELSE requests[i - Len(replies)])
  <2>1. CASE i <= Len(replies)
    BY <1>1, <2>1
  <2>2. CASE i = Len(replies) + 1
    BY <1>1, <2>2
  <2>3. CASE i > Len(replies) + 1
    <3>1. i - (Len(replies) + 1) \in 1 .. Len(requests) - 1
      BY <1>1, <2>3
    <3>2. requests'[i - (Len(replies) + 1)] = requests[(i - (Len(replies) + 1)) + 1]
      BY <1>1, <3>1
    <3>3. (i - (Len(replies) + 1)) + 1 = i - Len(replies)
      BY <1>1
    <3>. QED  BY <1>1, <2>3, <3>2, <3>3
  <2>. QED  BY <1>1, <2>1, <2>2, <2>3
<1>. QED  BY <1>2, <1>3 DEF Sent

\* The request that comes up: when it is the reader's, every reply to the reader is to its
\* fetch ahead, and every other request of the reader is what it waits for.
LEMMA HeadOfRequests ==
    ASSUME Typed, NEW r, Mailed(r, Sent), requests # <<>>
    PROVE  LET m == requests[1]
           IN  /\ m = Head(requests) /\ m \in Request
               /\ m.from # r => ~m.ahead /\ m.kind \in {"cancel", "prepare"}
               /\ m.from = r => /\ Expected(r, m)
                                /\ \A i \in DOMAIN replies :
                                       replies[i].to.from = r => replies[i].to.ahead /\ ~m.ahead
                                /\ \A i \in DOMAIN requests :
                                       requests[i].from = r /\ i > 1 => m.ahead /\ ~requests[i].ahead
<1>1. Len(requests) \in Nat /\ Len(requests) > 0 /\ Len(replies) \in Nat
      /\ DOMAIN replies = 1 .. Len(replies) /\ DOMAIN requests = 1 .. Len(requests)
      /\ requests[1] = Head(requests)
  BY DEF Typed
<1>2. Len(replies) + 1 \in DOMAIN Sent /\ Sent[Len(replies) + 1] = requests[1]
  BY <1>1, SentTyped
<1>3. requests[1] \in Request
  BY <1>1 DEF Typed
<1>4. /\ requests[1].from # r => ~requests[1].ahead /\ requests[1].kind \in {"cancel", "prepare"}
      /\ requests[1].from = r => Expected(r, requests[1])
  BY <1>2 DEF Mailed
<1>5. ASSUME requests[1].from = r, NEW i \in DOMAIN replies, replies[i].to.from = r
      PROVE  replies[i].to.ahead /\ ~requests[1].ahead
  <2>1. i \in DOMAIN Sent /\ Sent[i] = replies[i].to /\ i < Len(replies) + 1
    BY <1>1, SentTyped
  <2>. QED  BY <1>2, <1>5, <2>1 DEF Mailed
<1>6. ASSUME requests[1].from = r, NEW i \in DOMAIN requests, requests[i].from = r, i > 1
      PROVE  requests[1].ahead /\ ~requests[i].ahead
  <2>1. /\ Len(replies) + i \in DOMAIN Sent /\ Sent[Len(replies) + i] = requests[i]
        /\ Len(replies) + 1 < Len(replies) + i
    BY <1>1, <1>6, SentTyped
  <2>. QED  BY <1>2, <1>6, <2>1 DEF Mailed
<1>. QED  BY <1>1, <1>3, <1>4, <1>5, <1>6

-------------------------------------------------------------------------------
(* The worker *)

\* A request that does nothing to the reader but that it may stop what is executed: one of
\* another client, or one of the reader between two queries.
Passes(r, m) ==
    /\ m.from # r \/ At(r) \in {"answer", "drop"}
    /\ result' = result \/ At(r) = "answer"
    /\ \/ executing' = None
       \/ UNCHANGED <<executing, pending, wasCanceled>>
    /\ \/ canceled' = canceled
       \/ executing # None /\ executing' = None /\ canceled' = canceled \cup {executing}

\* The reader's query is begun or goes on.
Answering(r, m, v) ==
    /\ m.from = r /\ ~m.ahead /\ At(r) \in {"start", "poll"}
    /\ canceled' = canceled
    /\ Answers(r, v)'
    /\ executing' # None => /\ executing' = Query(r) /\ pending' = executing' /\ ~wasCanceled'
                            /\ result'.query = None /\ executing' \notin canceled

\* The reader fetches, from whatever result there is.
Fetching(r, m, v) ==
    /\ m.from = r /\ m.kind = "fetch"
    /\ UNCHANGED <<executing, pending, wasCanceled, canceled>>
    /\ \/ result' = result /\ v.what \in {"null", "error"}
       \/ result' = result /\ v = Value("end") /\ result.query = None
       \/ /\ result.query # None /\ result.next <= Length[result.query]
          /\ v = Chunk(result.query, result.next)
          /\ result' = [result EXCEPT !.next = @ + 1]
       \/ /\ result.query # None /\ result.next > Length[result.query]
          /\ v = Value("end")
          /\ result' = NoResult

WorkerStep(r, m, v) ==
    /\ requests # <<>> /\ m = requests[1] /\ Reply(v)
    /\ UNCHANGED <<client, outcome, got>>
    /\ Passes(r, m) \/ Answering(r, m, v) \/ Fetching(r, m, v)

LEMMA ServeIsStep ==
    ASSUME StreamAssumption, NEW r, IInv(r), Serve
    PROVE  \E m, v : WorkerStep(r, m, v)
<1>. DEFINE m == requests[1]
<1>. USE DEF Serves, callers, connection, duckdb
<1>1. requests # <<>> /\ UNCHANGED <<client, outcome, got>>
  BY DEF Serve, StartPending, PollPending, CancelPending, RunQuery, SendPrepared, Prepare,
         Fetch, DropFiles
<1>2. /\ m = Head(requests) /\ m \in Request
      /\ m.from # r => ~m.ahead /\ m.kind \in {"cancel", "prepare"}
      /\ m.from = r => Expected(r, m)
  BY <1>1, HeadOfRequests DEF IInv
<1>3. At(r) = "answer" => executing = None
  BY DEF IInv, Executed, Starting
<1>4. ASSUME m.from = r, m.kind \in {"send", "sendPrepared"}
      PROVE  /\ At(r) = "start" /\ ~m.ahead /\ m.query = Query(r) /\ executing = None
             /\ Query(r) \in Queries /\ Query(r) \notin canceled
  <2>1. At(r) = "start" /\ ~m.ahead /\ m.query = Query(r)
    BY <1>2, <1>4 DEF Expected, Awaited
  <2>2. executing = None /\ Query(r) \notin canceled
    <3>1. 1 \in DOMAIN requests
      BY <1>1 DEF IInv, Typed
    <3>. QED  BY <1>4, <2>1, <3>1 DEF IInv, Answered
  <2>3. Query(r) \in Queries /\ outcome[Query(r)] = "sent"
    BY <2>1 DEF IInv, Placed, Starting
  <2>. QED  BY <2>1, <2>2, <2>3
<1>5. CASE StartPending
  <2>1. m.kind = "send" /\ m.from = r
    BY <1>2, <1>5 DEF StartPending
  <2>2. PICK v : Reply(v) /\ Answering(r, m, v)
    <3>1. CASE /\ Fails("send") /\ UNCHANGED canceled
               /\ UNCHANGED connection \/ Executes(None, None)
      <4>1. Reply(Value("error")) /\ executing' = None
        BY <1>4, <2>1, <3>1 DEF Fails, Executes
      <4>. QED  BY <1>1, <1>4, <2>1, <3>1, <4>1 DEF Answering, Answers, AnswersIn, Value
    <3>2. CASE /\ wasCanceled' = FALSE /\ UNCHANGED canceled
               /\ ExecuteTasks(m.query, 0, Statements[m.query], NoResult)
      BY <1>1, <1>4, <2>1, <3>2 DEF ExecuteTasks, Answering, Answers, AnswersIn, Executes, Fails, Value,
         Header, NoResult, Query
    <3>. QED  BY <1>2, <1>5, <3>1, <3>2 DEF StartPending
  <2>. QED  BY <1>1, <2>2 DEF WorkerStep
<1>6. CASE PollPending
  <2>1. m.kind = "poll" /\ m.from = r
    BY <1>2, <1>6 DEF PollPending
  <2>2. At(r) = "poll" /\ ~m.ahead
    BY <1>2, <2>1 DEF Expected, Awaited
  <2>3. Query(r) \in Queries /\ Query(r) # None
    BY <2>2 DEF IInv, Placed, Starting, StreamAssumption
  <2>4. PICK v : Reply(v) /\ Answering(r, m, v)
    <3>1. CASE /\ wasCanceled \/ pending = None \/ executing # pending
               /\ Reply(Value("error"))
               /\ UNCHANGED <<connection, canceled>>
      <4>1. executing = None
        BY <3>1 DEF IInv, Executed
      <4>. QED  BY <1>1, <2>1, <2>2, <3>1, <4>1 DEF Answering, Answers, AnswersIn, Value
    <3>2. CASE /\ ~wasCanceled /\ pending # None /\ executing = pending
               /\ ExecuteTasks(pending, statement, statements, result)
               /\ UNCHANGED <<wasCanceled, canceled>>
      <4>1. pending = Query(r) /\ result.query = None /\ Query(r) \notin canceled
        BY <3>2 DEF IInv, Executed
      <4>. QED
        BY <1>1, <2>1, <2>2, <3>2, <4>1 DEF ExecuteTasks, Answering, Answers, AnswersIn, Executes, Fails, Value,
           Header, Query
    <3>. QED  BY <1>6, <3>1, <3>2 DEF PollPending
  <2>. QED  BY <1>1, <2>4 DEF WorkerStep
<1>7. CASE CancelPending
  <2>1. m.kind = "cancel"
    BY <1>2, <1>7 DEF CancelPending
  <2>2. m.from # r \/ At(r) = "answer"
    BY <1>2, <2>1 DEF Expected, Awaited
  <2>3. executing # None => executing = pending
    BY DEF IInv, Executed
  <2>4. Passes(r, m)
    BY <1>7, <2>2, <2>3 DEF CancelPending, Passes
  <2>. QED  BY <1>1, <1>7, <2>4 DEF WorkerStep, CancelPending
<1>8. CASE RunQuery
  <2>1. m.kind = "query" /\ m.from = r
    BY <1>2, <1>8 DEF RunQuery
  <2>2. At(r) = "answer"
    BY <1>2, <2>1 DEF Expected, Awaited
  <2>3. Passes(r, m)
    BY <1>8, <2>2 DEF RunQuery, Passes, Executes
  <2>. QED  BY <1>1, <1>8, <2>3 DEF WorkerStep, RunQuery, Fails, ReturnsResult
<1>9. CASE SendPrepared
  <2>1. m.kind = "sendPrepared" /\ m.from = r
    BY <1>2, <1>9 DEF SendPrepared
  <2>2. PICK v : Reply(v) /\ Answering(r, m, v)
    BY <1>1, <1>2, <1>4, <1>9, <2>1 DEF SendPrepared, Answering, Answers, AnswersIn, Executes, Fails, ReturnsHeader,
       Value, Header, Query
  <2>. QED  BY <1>1, <2>2 DEF WorkerStep
<1>10. CASE Prepare
  <2>1. m.kind = "prepare"
    BY <1>2, <1>10 DEF Prepare
  <2>2. m.from # r \/ At(r) = "answer"
    BY <1>2, <2>1 DEF Expected, Awaited
  <2>3. Passes(r, m)
    BY <1>10, <2>2 DEF Prepare, Passes, Executes
  <2>. QED  BY <1>1, <1>10, <2>3 DEF WorkerStep, Prepare, Fails, ReturnsStatement
<1>11. CASE Fetch
  <2>1. m.kind = "fetch" /\ m.from = r
    BY <1>2, <1>11 DEF Fetch
  <2>2. PICK v : Reply(v) /\ Fetching(r, m, v)
    BY <2>1, <1>11 DEF Fetch, Fetching, Fails, Value
  <2>. QED  BY <1>1, <2>2 DEF WorkerStep
<1>12. CASE DropFiles
  <2>1. m.kind = "drop" /\ m.from = r
    BY <1>2, <1>12 DEF DropFiles
  <2>2. At(r) = "drop"
    BY <1>2, <2>1 DEF Expected, Awaited
  <2>3. Passes(r, m)
    BY <1>12, <2>2 DEF DropFiles, Passes
  <2>. QED  BY <1>1, <1>12, <2>3 DEF WorkerStep, DropFiles
<1>. QED  BY <1>5, <1>6, <1>7, <1>8, <1>9, <1>10, <1>11, <1>12 DEF Serve

LEMMA WorkerOutcomes ==
    ASSUME NEW r, IInv(r), NEW m, NEW v, WorkerStep(r, m, v)
    PROVE  Outcomes' /\ Alone(r)' /\ Mailed(r, Sent)' /\ Placed(r)' /\ Executed(r)'
<1>1. UNCHANGED <<client, outcome, got>> /\ requests # <<>> /\ m = requests[1]
  BY DEF WorkerStep
<1>2. executing # None => outcome[executing] = "sent"
  BY DEF IInv, Executed, Placed
<1>3. Outcomes'
  <2>1. canceled' = canceled \/ (executing # None /\ canceled' = canceled \cup {executing})
    <3>1. CASE Passes(r, m)
      BY <3>1 DEF Passes
    <3>2. CASE Answering(r, m, v)
      BY <3>2 DEF Answering
    <3>3. CASE Fetching(r, m, v)
      BY <3>3 DEF Fetching
    <3>. QED  BY <3>1, <3>2, <3>3 DEF WorkerStep
  <2>. QED  BY <1>1, <1>2, <2>1 DEF IInv, Outcomes
<1>4. Alone(r)' /\ Placed(r)'
  BY <1>1 DEF IInv, Alone, Placed, At, Query, Ahead
<1>5. Mailed(r, Sent)'
  <2>1. Sent' = Sent
    BY ServedSent DEF WorkerStep, IInv
  <2>. QED  BY <1>1, <2>1 DEF IInv, Mailed, Expected, At, Query, Ahead
<1>6. Executed(r)'
  <2>1. CASE Passes(r, m)
    <3>1. At(r) = "answer" => executing = None
      BY DEF IInv, Executed, Starting
    <3>. QED  BY <1>1, <2>1, <3>1 DEF IInv, Executed, Passes, At, Query
  <2>2. CASE Answering(r, m, v)
    BY <1>1, <2>2 DEF Executed, Answering, At, Query, Starting
  <2>3. CASE Fetching(r, m, v)
    BY <1>1, <2>3 DEF IInv, Executed, Fetching, At, Query
  <2>. QED  BY <2>1, <2>2, <2>3 DEF WorkerStep
<1>. QED  BY <1>3, <1>4, <1>5, <1>6

\* Where what the reader waits for is served.
LEMMA WorkerQueues ==
    ASSUME NEW r, IInv(r), NEW m, NEW v, WorkerStep(r, m, v)
    PROVE  /\ m \in Request
           /\ m.from # r => ~m.ahead /\ m.kind \in {"cancel", "prepare"}
           /\ m.from = r => /\ Expected(r, m)
                            /\ \A i \in DOMAIN replies :
                                   replies[i].to.from = r => replies[i].to.ahead /\ ~m.ahead
           /\ 1 \in DOMAIN requests /\ m = requests[1]
           /\ \A i \in DOMAIN requests' :
                  /\ i + 1 \in DOMAIN requests /\ requests'[i] = requests[i + 1]
                  /\ m.from = r /\ requests'[i].from = r => m.ahead /\ ~requests'[i].ahead
           /\ \A i \in DOMAIN replies' :
                  \/ i \in DOMAIN replies /\ replies'[i] = replies[i]
                  \/ replies'[i] = [to |-> m, value |-> v]
           /\ \A i \in DOMAIN replies : i \in DOMAIN replies' /\ replies'[i] = replies[i]
           /\ \E i \in DOMAIN replies' : replies'[i] = [to |-> m, value |-> v]
<1>1. Typed /\ Mailed(r, Sent) /\ requests # <<>> /\ Reply(v) /\ m = requests[1]
  BY DEF IInv, WorkerStep
<1>2. /\ Len(replies) \in Nat /\ Len(requests) \in Nat /\ Len(requests) > 0
      /\ DOMAIN requests' = 1 .. Len(requests) - 1
      /\ \A i \in DOMAIN requests' : requests'[i] = requests[i + 1]
      /\ DOMAIN replies' = 1 .. Len(replies) + 1
      /\ \A i \in DOMAIN replies : replies'[i] = replies[i]
      /\ replies'[Len(replies) + 1] = [to |-> m, value |-> v]
  BY <1>1, ServedQueues
<1>3. DOMAIN requests = 1 .. Len(requests) /\ DOMAIN replies = 1 .. Len(replies)
  <2>1. requests \in Seq(Request) /\ replies \in Seq([to : Request, value : Values])
    BY <1>1 DEF Typed
  <2>. QED  BY ONLY <2>1, SeqElements
<1>4. /\ m \in Request
      /\ m.from # r => ~m.ahead /\ m.kind \in {"cancel", "prepare"}
      /\ m.from = r => /\ Expected(r, m)
                       /\ \A i \in DOMAIN replies :
                              replies[i].to.from = r => replies[i].to.ahead /\ ~m.ahead
                       /\ \A i \in DOMAIN requests :
                              requests[i].from = r /\ i > 1 => m.ahead /\ ~requests[i].ahead
  BY <1>1, HeadOfRequests
<1>5. 1 \in DOMAIN requests
  BY <1>2, <1>3
<1>6. ASSUME NEW i \in DOMAIN requests'
      PROVE  /\ i + 1 \in DOMAIN requests /\ requests'[i] = requests[i + 1]
             /\ m.from = r /\ requests'[i].from = r => m.ahead /\ ~requests'[i].ahead
  <2>1. i + 1 \in DOMAIN requests /\ i + 1 > 1 /\ requests'[i] = requests[i + 1]
    BY <1>2, <1>3
  <2>. QED  BY <1>4, <2>1
<1>7. \A i \in DOMAIN replies' : \/ i \in DOMAIN replies /\ replies'[i] = replies[i]
                                 \/ replies'[i] = [to |-> m, value |-> v]
  <2>1. \A i \in DOMAIN replies' : i \in DOMAIN replies \/ i = Len(replies) + 1
    BY <1>2, <1>3
  <2>. QED  BY <1>2, <2>1
<1>8. /\ \A i \in DOMAIN replies : i \in DOMAIN replies' /\ replies'[i] = replies[i]
      /\ Len(replies) + 1 \in DOMAIN replies'
  BY <1>2, <1>3
<1>. QED  BY <1>1, <1>2, <1>4, <1>5, <1>6, <1>7, <1>8

LEMMA WorkerAnswered ==
    ASSUME NEW r, IInv(r), NEW m, NEW v, WorkerStep(r, m, v)
    PROVE  Answered(r)'
<1>. USE WorkerQueues
<1>1. client' = client
  BY DEF WorkerStep
<1>2. Answered(r)
  BY DEF IInv
<1>3. CASE Passes(r, m)
  <2>1. At(r) = "answer" => At(r)' = "answer"
    BY <1>1 DEF At
  <2>2. CASE At(r) = "answer"
    BY <1>1, <2>2 DEF Answered, At
  <2>3. CASE At(r) # "answer"
    <3>1. result' = result /\ (executing = None => executing' = None /\ canceled' = canceled)
      BY <1>3, <2>3 DEF Passes
    <3>2. \A x : Answers(r, x) => AnswersIn(Query(r), x, executing', result', canceled')
      BY <3>1 DEF Answers, AnswersIn
    <3>3. At(r) = "drop" => AnswersIn(Query(r), client[r].header, executing', result', canceled')
      BY <1>2, <3>2 DEF Answered
    <3>4. m.from # r \/ At(r) = "drop"
      BY <1>3, <2>3 DEF Passes
    <3>5. ASSUME NEW i \in DOMAIN replies', replies'[i].to.from = r, ~replies'[i].to.ahead,
                 At(r) \in {"start", "poll"}
          PROVE  AnswersIn(Query(r), replies'[i].value, executing', result', canceled')
      <4>1. i \in DOMAIN replies /\ replies'[i] = replies[i]
        BY <3>4, <3>5
      <4>2. Answers(r, replies[i].value)
        BY <1>2, <3>5, <4>1 DEF Answered
      <4>. QED  BY <3>2, <4>1, <4>2
    <3>6. ASSUME NEW i \in DOMAIN requests', requests'[i].from = r, ~requests'[i].ahead, At(r) = "start"
          PROVE  executing' = None /\ Query(r) \notin canceled'
      BY <1>2, <3>1, <3>6 DEF Answered
    <3>. QED  BY <1>1, <3>3, <3>5, <3>6 DEF Answered, Answers, At, Query
  <2>. QED  BY <2>2, <2>3
<1>4. CASE Answering(r, m, v)
  <2>1. /\ m.from = r /\ ~m.ahead /\ At(r) \in {"start", "poll"}
        /\ AnswersIn(Query(r), v, executing', result', canceled')
    BY <1>1, <1>4 DEF Answering, Answers, Query
  <2>2. ASSUME NEW i \in DOMAIN replies', replies'[i].to.from = r, ~replies'[i].to.ahead
        PROVE  AnswersIn(Query(r), replies'[i].value, executing', result', canceled')
    <3>1. replies'[i] = [to |-> m, value |-> v]
      BY <2>1, <2>2
    <3>2. replies'[i].value = v
      BY <3>1
    <3>. QED  BY <2>1, <3>2
  <2>3. \A i \in DOMAIN requests' : requests'[i].from # r
    BY <2>1
  <2>. QED  BY <1>1, <2>1, <2>2, <2>3 DEF Answered, Answers, At, Query
<1>5. CASE Fetching(r, m, v)
  <2>1. m.from = r /\ m.kind = "fetch" /\ UNCHANGED <<executing, canceled>>
    BY <1>5 DEF Fetching
  <2>2. At(r) \notin {"drop", "poll"} /\ (At(r) = "start" => m.ahead)
    BY <2>1 DEF Expected, Awaited
  <2>3. ASSUME NEW i \in DOMAIN replies', replies'[i].to.from = r, ~replies'[i].to.ahead
        PROVE  At(r) # "start"
    BY <2>1, <2>2, <2>3
  <2>. QED  BY <1>1, <1>2, <2>1, <2>2, <2>3 DEF Answered, At, Query
<1>. QED  BY <1>3, <1>4, <1>5 DEF WorkerStep

LEMMA WorkerFetched ==
    ASSUME StreamAssumption, NEW r, IInv(r), NEW m, NEW v, WorkerStep(r, m, v)
    PROVE  Fetched(r)'
<1>. USE WorkerQueues
<1>1. client' = client /\ got' = got
  BY DEF WorkerStep
<1>2. SUFFICES ASSUME At(r) \in Reading PROVE Fetched(r)'
  BY <1>1 DEF Fetched, At
<1>. DEFINE q == Query(r)
            n == Len(got[q])
<1>3. q \in Queries /\ n \in Nat /\ Length[q] \in Nat /\ q # None
  <2>1. q \in Queries
    BY <1>2 DEF IInv, Placed
  <2>2. got[q] \in Seq([query : Queries \cup {None}, index : Nat])
    BY <2>1 DEF IInv, Typed
  <2>3. n \in Nat
    BY <2>2, SeqElements
  <2>. QED  BY <2>1, <2>3 DEF StreamAssumption
<1>4. Fetched(r)
  BY DEF IInv
<1>5. ~Answering(r, m, v)
  BY <1>2 DEF Answering, Reading
<1>6. CASE Passes(r, m)
  <2>1. m.from # r /\ result' = result
    BY <1>2, <1>6 DEF Passes, Reading
  <2>2. Arrived(r)' = Arrived(r)
    <3>1. \A x \in DOMAIN replies' : replies'[x].to.from = r => x \in DOMAIN replies /\ replies'[x] = replies[x]
      BY <2>1
    <3>. QED  BY <1>1, <3>1 DEF Arrived, At, Ahead
  <2>3. Asked(r)' => Asked(r)
    BY <1>1 DEF Asked, At, Ahead
  <2>. QED  BY <1>1, <1>2, <1>4, <2>1, <2>2, <2>3 DEF Fetched, At, Query
<1>7. CASE Fetching(r, m, v)
  <2>1. m.from = r /\ Asked(r)
    BY <1>7 DEF Fetching, Asked
  <2>2. n <= Length[q] /\ result = [query |-> q, next |-> n + 1]
    BY <1>2, <1>4, <2>1 DEF Fetched
  <2>3. At(r) = "reading" => Ahead(r).what = "posted"
    BY <1>7 DEF Fetching, Expected, Awaited
  <2>4. Expected(r, m) /\ (m.ahead \/ At(r) = "fetch")
    BY <1>2, <2>1 DEF Expected, Awaited, Reading
  <2>5. \A i \in DOMAIN Sent : Sent[i].from = r => (Sent[i].ahead <=> At(r) # "fetch")
    BY <1>2 DEF IInv, Mailed, Expected, Awaited, Reading
  <2>6. \A i \in DOMAIN replies : replies[i].to.from # r
    <3>1. \A i \in DOMAIN replies : replies[i].to.from = r => (replies[i].to.ahead <=> At(r) # "fetch")
      BY <2>5, SentTyped DEF IInv
    <3>. QED  BY <2>1, <2>4, <3>1
  <2>7. \A i \in DOMAIN requests' : requests'[i].from # r
    <3>1. \A i \in DOMAIN requests : requests[i].from = r => (requests[i].ahead <=> At(r) # "fetch")
      BY <2>5, SentTyped DEF IInv
    <3>. QED  BY <2>1, <2>4, <3>1
  <2>8. Arrived(r)' = {v}
    <3>1. \A i \in DOMAIN replies' : replies'[i].to.from = r => replies'[i] = [to |-> m, value |-> v]
      BY <2>6
    <3>2. \E i \in DOMAIN replies' : replies'[i] = [to |-> m, value |-> v]
      OBVIOUS
    <3>3. {replies'[i].value : i \in {j \in DOMAIN replies' : replies'[j].to.from = r}} = {v}
      BY <2>1, <3>1, <3>2
    <3>. QED  BY <1>1, <2>3, <3>3 DEF Arrived, At, Ahead
  <2>9. ~Asked(r)'
    BY <1>1, <2>3, <2>7 DEF Asked, At, Ahead
  <2>10. \/ result' = [query |-> q, next |-> n + 1] /\ v.what \in {"null", "error"}
         \/ n < Length[q] /\ result' = [query |-> q, next |-> n + 2] /\ v = Chunk(q, n + 1)
         \/ n = Length[q] /\ result' = NoResult /\ v.what = "end"
    BY <1>3, <1>7, <2>2 DEF Fetching, Value
  <2>. QED  BY <1>1, <1>2, <2>2, <2>8, <2>9, <2>10 DEF Fetched, At, Query
<1>. QED  BY <1>5, <1>6, <1>7 DEF WorkerStep

LEMMA WorkerInv ==
    ASSUME StreamAssumption, NEW r, IInv(r), Serve
    PROVE  IInv(r)'
<1>1. PICK m, v : WorkerStep(r, m, v)
  BY ServeIsStep
<1>2. Typed'
  BY ServeTyped DEF IInv
<1>. QED  BY <1>1, <1>2, WorkerOutcomes, WorkerAnswered, WorkerFetched DEF IInv

-------------------------------------------------------------------------------
(* The callers *)

\* A client takes the first k replies, none or one, and may post x.
Moved(k, x) ==
    /\ \/ k = 0 /\ replies' = replies
       \/ k = 1 /\ replies # <<>> /\ replies' = Tail(replies)
    /\ requests' = requests \/ requests' = Append(requests, x)

LEMMA MovedQueues ==
    ASSUME Typed, NEW k, NEW x, Moved(k, x)
    PROVE  /\ \A i \in DOMAIN replies' : i + k \in DOMAIN replies /\ replies'[i] = replies[i + k]
           /\ \A i \in DOMAIN requests' : \/ i \in DOMAIN requests /\ requests'[i] = requests[i]
                                          \/ requests' # requests /\ requests'[i] = x
           /\ \A i \in DOMAIN requests : i \in DOMAIN requests' /\ requests'[i] = requests[i]
<1>1. requests \in Seq(Request) /\ replies \in Seq([to : Request, value : Values])
  BY DEF Typed
<1>2. /\ Len(requests) \in Nat /\ DOMAIN requests = 1 .. Len(requests)
      /\ Len(replies) \in Nat /\ DOMAIN replies = 1 .. Len(replies)
  BY ONLY <1>1, SeqElements
<1>4. replies # <<>> => /\ DOMAIN Tail(replies) = 1 .. Len(replies) - 1
                        /\ \A i \in 1 .. Len(replies) - 1 : Tail(replies)[i] = replies[i + 1]
  BY ONLY <1>1, TailElements
<1>5. \A i \in DOMAIN replies' : i + k \in DOMAIN replies /\ replies'[i] = replies[i + k]
  <2>1. CASE k = 0 /\ replies' = replies
    BY <1>2, <2>1
  <2>2. CASE k = 1 /\ replies # <<>> /\ replies' = Tail(replies)
    BY <1>2, <1>4, <2>2
  <2>. QED  BY <2>1, <2>2 DEF Moved
<1>6. CASE requests' = requests
  BY <1>5, <1>6
<1>7. CASE requests' = Append(requests, x)
  <2>1. /\ requests' # requests
        /\ DOMAIN requests' = 1 .. Len(requests) + 1
        /\ \A i \in DOMAIN requests : requests'[i] = requests[i]
        /\ requests'[Len(requests) + 1] = x
    BY ONLY <1>1, <1>7, AppendedElements
  <2>2. \A i \in DOMAIN requests' : i \in DOMAIN requests \/ i = Len(requests) + 1
    BY <1>2, <2>1
  <2>. QED  BY <1>2, <1>5, <2>1, <2>2
<1>. QED  BY <1>6, <1>7 DEF Moved

\* What is under way moves up by k, and x is the last if it is posted.
LEMMA MovedSent ==
    ASSUME Typed, NEW k, NEW x, Moved(k, x)
    PROVE  /\ k \in {0, 1}
           /\ \A i \in DOMAIN Sent' :
                  /\ i \in Nat
                  /\ \/ i + k \in DOMAIN Sent /\ i + k > k /\ Sent'[i] = Sent[i + k]
                     \/ Sent'[i] = x /\ requests' # requests
           /\ \A i, j \in DOMAIN Sent' :
                  i < j => i + k \in DOMAIN Sent /\ i + k > k /\ Sent'[i] = Sent[i + k]
           /\ k = 1 => 1 \in DOMAIN Sent /\ Head(replies) = replies[1] /\ Sent[1] = replies[1].to
                       /\ 1 \in DOMAIN replies
<1>. DEFINE a == Len(replies)
            b == Len(requests)
<1>1. requests \in Seq(Request) /\ replies \in Seq([to : Request, value : Values])
  BY DEF Typed
<1>2. b \in Nat /\ DOMAIN requests = 1 .. b /\ a \in Nat /\ DOMAIN replies = 1 .. a
  BY ONLY <1>1, SeqElements
<1>3. PICK l \in {0, 1} : /\ Len(requests') = b + l
                          /\ \A i \in 1 .. b : requests'[i] = requests[i]
                          /\ l = 1 => requests'[b + 1] = x /\ requests' # requests
  <2>1. CASE requests' = requests
    BY <1>2, <2>1
  <2>2. CASE requests' = Append(requests, x)
    <3>1. /\ requests' # requests /\ Len(requests') = b + 1
          /\ \A i \in DOMAIN requests : requests'[i] = requests[i]
          /\ requests'[b + 1] = x
      BY ONLY <1>1, <2>2, AppendedElements
    <3>. QED  BY <1>2, <3>1
  <2>. QED  BY <2>1, <2>2 DEF Moved
<1>4. /\ k \in {0, 1} /\ k <= a /\ Len(replies') = a - k
      /\ \A i \in 1 .. a - k : replies'[i] = replies[i + k]
      /\ k = 1 => Head(replies) = replies[1]
  <2>1. replies # <<>> => /\ a > 0 /\ Head(replies) = replies[1] /\ Len(Tail(replies)) = a - 1
                          /\ \A i \in 1 .. a - 1 : Tail(replies)[i] = replies[i + 1]
    BY ONLY <1>1, TailElements
  <2>2. CASE k = 0 /\ replies' = replies
    BY <1>2, <2>2
  <2>3. CASE k = 1 /\ replies # <<>> /\ replies' = Tail(replies)
    BY <1>2, <2>1, <2>3
  <2>. QED  BY <2>2, <2>3 DEF Moved
<1>5. DOMAIN Sent = 1 .. a + b /\ DOMAIN Sent' = 1 .. (a - k) + (b + l)
  BY <1>3, <1>4 DEF Sent
<1>6. ASSUME NEW i \in 1 .. (a - k) + b
      PROVE  i + k \in DOMAIN Sent /\ i + k > k /\ Sent'[i] = Sent[i + k]
  <2>1. i + k \in 1 .. a + b /\ i + k > k /\ i \in 1 .. (a - k) + (b + l)
    BY <1>2, <1>3, <1>4
  <2>2. CASE i <= a - k
    <3>1. Sent'[i] = replies'[i].to /\ Sent[i + k] = replies[i + k].to
      BY <1>2, <1>3, <1>4, <2>1, <2>2 DEF Sent
    <3>. QED  BY <1>2, <1>4, <1>5, <2>1, <2>2, <3>1
  <2>3. CASE i > a - k
    <3>1. Sent'[i] = requests'[i - (a - k)] /\ Sent[i + k] = requests[(i + k) - a]
      BY <1>2, <1>3, <1>4, <2>1, <2>3 DEF Sent
    <3>2. i - (a - k) = (i + k) - a /\ (i + k) - a \in 1 .. b
      BY <1>2, <1>4, <2>3
    <3>. QED  BY <1>3, <1>5, <2>1, <3>1, <3>2
  <2>. QED  BY <1>2, <1>4, <2>2, <2>3
<1>7. ASSUME NEW i \in DOMAIN Sent', i \notin 1 .. (a - k) + b
      PROVE  Sent'[i] = x /\ requests' # requests /\ i = (a - k) + b + 1
  <2>1. l = 1 /\ i = (a - k) + b + 1
    BY <1>2, <1>3, <1>4, <1>5, <1>7
  <2>2. Sent'[i] = requests'[i - (a - k)]
    BY <1>2, <1>3, <1>4, <1>5, <2>1 DEF Sent
  <2>3. i - (a - k) = b + 1
    BY <1>2, <1>4, <2>1
  <2>. QED  BY <1>3, <2>1, <2>2, <2>3
<1>8. \A i, j \in DOMAIN Sent' : i < j => i \in 1 .. (a - k) + b
  BY <1>2, <1>3, <1>4, <1>5
<1>9. k = 1 => 1 \in DOMAIN Sent /\ Sent[1] = replies[1].to /\ 1 \in DOMAIN replies
  BY <1>2, <1>4, <1>5 DEF Sent
<1>10. \A i \in DOMAIN Sent' : i \in Nat
  BY <1>5
<1>. QED  BY <1>4, <1>6, <1>7, <1>8, <1>9, <1>10

\* The messages that stay must be expected by the reader as it then is; one that is posted
\* comes after no more than the reader's fetch ahead.
LEMMA MailedMoves ==
    ASSUME NEW r, Typed, Mailed(r, Sent), NEW k, NEW x, Moved(k, x),
           \A m : m.from = r /\ (\E i \in DOMAIN Sent : i > k /\ Sent[i] = m) => Expected(r, m)',
           requests' # requests =>
               IF x.from = r
               THEN /\ Expected(r, x)'
                    /\ \A i \in DOMAIN Sent :
                           i > k /\ Sent[i].from = r => Sent[i].ahead /\ ~x.ahead
               ELSE ~x.ahead /\ x.kind \in {"cancel", "prepare"}
    PROVE  Mailed(r, Sent)'
<1>. USE MovedSent
<1>1. ASSUME NEW i \in DOMAIN Sent', NEW m, m = Sent'[i]
      PROVE  IF m.from = r THEN Expected(r, m)'
             ELSE ~m.ahead /\ m.kind \in {"cancel", "prepare"}
  <2>1. CASE i + k \in DOMAIN Sent /\ i + k > k /\ m = Sent[i + k]
    BY <2>1 DEF Mailed
  <2>2. CASE m = x /\ requests' # requests
    BY <2>2
  <2>. QED  BY <1>1, <2>1, <2>2
<1>2. ASSUME NEW i \in DOMAIN Sent', NEW j \in DOMAIN Sent', i < j,
             Sent'[i].from = r, Sent'[j].from = r
      PROVE  Sent'[i].ahead /\ ~Sent'[j].ahead
  <2>1. i + k \in DOMAIN Sent /\ i + k > k /\ Sent'[i] = Sent[i + k]
    BY <1>2
  <2>2. CASE j + k \in DOMAIN Sent /\ Sent'[j] = Sent[j + k]
    <3>1. i + k < j + k
      BY <1>2
    <3>. QED  BY <1>2, <2>1, <2>2, <3>1 DEF Mailed
  <2>3. CASE Sent'[j] = x /\ requests' # requests
    BY <1>2, <2>1, <2>3
  <2>. QED  BY <2>2, <2>3
<1>3. ASSUME NEW i \in DOMAIN Sent'
      PROVE  IF Sent'[i].from = r THEN Expected(r, Sent[i])'
             ELSE ~Sent'[i].ahead /\ Sent'[i].kind \in {"cancel", "prepare"}
  <2>1. PICK m : m = Sent'[i]
    OBVIOUS
  <2>2. CASE m.from = r
    BY <1>1, <2>1, <2>2 DEF Expected
  <2>. QED  BY <1>1, <2>1, <2>2
<1>. QED  BY <1>2, <1>3 DEF Mailed

\* The invariant, but for the types.
Rest(r) ==
    /\ Outcomes
    /\ Alone(r) /\ Mailed(r, Sent) /\ Placed(r)
    /\ Executed(r) /\ Answered(r) /\ Fetched(r)

\* The caller's steps leave the connection alone.
Idle == UNCHANGED <<pending, wasCanceled, result, executing, canceled>>

Quiet(r, k) == \A i \in DOMAIN Sent : i > k => Sent[i].from # r

\* The reader's own calls: its script gets no longer, and no query becomes new.
LEMMA AloneKeeps ==
    ASSUME NEW r, Typed, Alone(r),
           \A c \in Clients \ {r} : client'[c] = client[c],
           client'[r].script \in {client[r].script, <<>>},
           \A q \in Queries : outcome[q] = "none" => outcome'[q] = "none"
    PROVE  Alone(r)'
<1>. DEFINE s == client[r].script
<1>1. r \in Clients /\ s \in Seq(Call) /\ DOMAIN s = 1 .. Len(s)
  BY DEF Alone, Typed, ClientStates
<1>2. ReadsAlone(r, [c \in Clients |-> client[c].script])
  BY DEF Alone
<1>3. /\ \A c \in Clients \ {r} : \A i \in DOMAIN client[c].script :
             client[c].script[i].kind \in {"cancel", "prepare"}
      /\ \A i \in DOMAIN s :
             Sends(s[i]) => /\ s[i].query # None
                            /\ \A j \in DOMAIN s : Sends(s[j]) /\ s[j].query = s[i].query => i = j
  BY <1>1, <1>2 DEF ReadsAlone
<1>4. ASSUME NEW i \in DOMAIN s, Sends(s[i])
      PROVE  outcome'[s[i].query] = "none"
  <2>1. s[i] \in Call
    BY <1>1
  <2>2. s[i].query \in Queries
    BY <1>3, <1>4, <2>1 DEF Call
  <2>3. outcome[s[i].query] = "none"
    BY <1>4 DEF Alone
  <2>. QED  BY <2>2, <2>3
<1>5. ReadsAlone(r, [c \in Clients |-> client'[c].script])
  <2>1. CASE client'[r].script = s
    BY <1>1, <1>3, <2>1 DEF ReadsAlone
  <2>2. CASE client'[r].script = <<>>
    BY <1>1, <1>3, <2>2 DEF ReadsAlone
  <2>. QED  BY <2>1, <2>2
<1>6. \A i \in DOMAIN client'[r].script :
          Sends(client'[r].script[i]) => outcome'[client'[r].script[i].query] = "none"
  BY <1>4
<1>7. \A c \in Clients \ {r} : client'[c].at \in {"ready", "answer"}
  BY DEF Alone, At
<1>. QED  BY <1>1, <1>5, <1>6, <1>7 DEF Alone, At

\* The others'.
LEMMA AloneOthers ==
    ASSUME NEW r, Typed, Alone(r), NEW c \in Clients \ {r},
           outcome' = outcome,
           \A d \in Clients \ {c} : client'[d] = client[d],
           client'[c].at \in {"ready", "answer"},
           \A i \in DOMAIN client'[c].script : \E j \in DOMAIN client[c].script :
               client'[c].script[i] = client[c].script[j]
    PROVE  Alone(r)'
<1>1. r \in Clients /\ client'[r] = client[r]
  BY DEF Alone
<1>2. ReadsAlone(r, [d \in Clients |-> client[d].script])
  BY DEF Alone
<1>3. \A d \in Clients \ {r} : \A i \in DOMAIN client'[d].script :
          client'[d].script[i].kind \in {"cancel", "prepare"}
  <2>. TAKE d \in Clients \ {r}
  <2>1. \A i \in DOMAIN client[d].script : client[d].script[i].kind \in {"cancel", "prepare"}
    BY <1>2 DEF ReadsAlone
  <2>2. CASE d = c
    BY <2>1, <2>2
  <2>3. CASE d # c
    BY <2>1, <2>3
  <2>. QED  BY <2>2, <2>3
<1>4. ReadsAlone(r, [d \in Clients |-> client'[d].script])
  BY <1>1, <1>2, <1>3 DEF ReadsAlone
<1>5. \A d \in Clients \ {r} : client'[d].at \in {"ready", "answer"}
  BY DEF Alone, At
<1>. QED  BY <1>1, <1>4, <1>5 DEF Alone, At

\* The reader stays where it is: another client takes a reply or posts a request that executes
\* nothing, or a reply to the reader is thrown away.
LEMMA OthersKeep ==
    ASSUME NEW r, IInv(r), NEW k, NEW x, Moved(k, x), Idle,
           client'[r] = client[r], outcome' = outcome, got' = got,
           requests' # requests => x.from # r /\ ~x.ahead /\ x.kind \in {"cancel", "prepare"},
           Alone(r)'
    PROVE  Rest(r)'
<1>. USE MovedQueues DEF IInv, Idle
<1>1. At(r)' = At(r) /\ Query(r)' = Query(r) /\ Ahead(r)' = Ahead(r)
  BY DEF At, Query, Ahead
<1>2. Outcomes'
  BY DEF Outcomes
<1>3. Mailed(r, Sent)'
  <2>1. \A m : Expected(r, m) => Expected(r, m)'
    BY <1>1 DEF Expected
  <2>2. \A m : m.from = r /\ (\E i \in DOMAIN Sent : i > k /\ Sent[i] = m) => Expected(r, m)
    BY DEF Mailed
  <2>. QED  BY <2>1, <2>2, MailedMoves
<1>4. Placed(r)'
  BY <1>1 DEF Placed
<1>5. Executed(r)'
  BY <1>1 DEF Executed
<1>6. Answered(r)'
  <2>1. \A v : Answers(r, v) => AnswersIn(Query(r), v, executing', result', canceled')
    BY DEF Answers
  <2>2. At(r) = "drop" => AnswersIn(Query(r), client[r].header, executing', result', canceled')
    BY <2>1 DEF Answered
  <2>3. ASSUME NEW i \in DOMAIN replies', replies'[i].to.from = r, ~replies'[i].to.ahead,
               At(r) \in {"start", "poll"}
        PROVE  AnswersIn(Query(r), replies'[i].value, executing', result', canceled')
    <3>1. i + k \in DOMAIN replies /\ replies'[i] = replies[i + k]
      OBVIOUS
    <3>2. Answers(r, replies[i + k].value)
      BY <2>3, <3>1 DEF Answered
    <3>. QED  BY <2>1, <3>1, <3>2
  <2>4. ASSUME NEW i \in DOMAIN requests', requests'[i].from = r, ~requests'[i].ahead, At(r) = "start"
        PROVE  executing' = None /\ Query(r) \notin canceled'
    <3>1. i \in DOMAIN requests /\ requests'[i] = requests[i]
      BY <2>4
    <3>. QED  BY <2>4, <3>1 DEF Answered
  <2>. QED  BY <1>1, <2>2, <2>3, <2>4 DEF Answered, Answers
<1>7. Fetched(r)'
  <2>1. Arrived(r)' \subseteq Arrived(r)
    <3>1. \A i \in DOMAIN replies' : i + k \in DOMAIN replies /\ replies'[i] = replies[i + k]
      OBVIOUS
    <3>. QED  BY <1>1, <3>1 DEF Arrived
  <2>2. Asked(r)' => Asked(r)
    BY <1>1 DEF Asked
  <2>. QED  BY <1>1, <2>1, <2>2 DEF Fetched
<1>. QED  BY <1>2, <1>3, <1>4, <1>5, <1>6, <1>7 DEF Rest

\* A client other than the reader takes a step.
LEMMA OtherMoves ==
    ASSUME StreamAssumption, NEW r, IInv(r), NEW c \in Clients \ {r},
           CallNext(c) \/ NextBuffer(c) \/ Abandon(c) \/ Receive(c)
    PROVE  Rest(r)'
<1>1. At(c) \in {"ready", "answer"} /\ client[c] \in ClientStates /\ Typed /\ Alone(r)
  BY DEF IInv, Alone, Typed
<1>2. client[c].script \in Seq(Call)
  BY <1>1 DEF ClientStates
<1>3. CASE CallNext(c)
  <2>. DEFINE call == Head(client[c].script)
  <2>1. client[c].script # <<>>
    BY <1>3 DEF CallNext
  <2>2. /\ 1 \in DOMAIN client[c].script /\ call = client[c].script[1]
        /\ \A i \in DOMAIN Tail(client[c].script) :
               i + 1 \in DOMAIN client[c].script
               /\ Tail(client[c].script)[i] = client[c].script[i + 1]
    BY <1>2, <2>1
  <2>3. call.kind \in {"cancel", "prepare"}
    BY <1>1, <2>2 DEF Alone, ReadsAlone
  <2>4. WaitsAt(call.kind) = "answer"
    BY <2>3 DEF WaitsAt
  <2>5. PICK x : x = Rq(c, call.kind, call.query, FALSE)
    OBVIOUS
  <2>6. Moved(0, x) /\ Idle /\ got' = got /\ outcome' = outcome
    BY <1>3, <2>4, <2>5 DEF CallNext, Moved, Idle, connection, duckdb, Post
  <2>7. x.from # r /\ ~x.ahead /\ x.kind \in {"cancel", "prepare"}
    BY <2>3, <2>5 DEF Rq
  <2>8. client' = [client EXCEPT ![c] =
            [script |-> Tail(@.script), at |-> WaitsAt(call.kind), query |-> call.query,
             header |-> Value("none"), ahead |-> Value("none")]]
    BY <1>3 DEF CallNext
  <2>9. /\ client'[c].script = Tail(client[c].script) /\ client'[c].at = "answer"
        /\ \A d \in Clients \ {c} : client'[d] = client[d]
    BY <1>1, <2>4, <2>8 DEF Typed
  <2>10. Alone(r)' /\ client'[r] = client[r]
    <3>1. \A i \in DOMAIN client'[c].script : \E j \in DOMAIN client[c].script :
              client'[c].script[i] = client[c].script[j]
      BY <2>2, <2>9
    <3>. QED  BY <1>1, <2>6, <2>9, <3>1, AloneOthers DEF Alone
  <2>. QED  BY <2>6, <2>7, <2>10, OthersKeep
<1>4. CASE Receive(c)
  <2>1. replies # <<>> /\ Head(replies).to.from = c /\ replies' = Tail(replies) /\ Idle
    BY <1>4 DEF Receive, connection, duckdb, Idle
  <2>2. Head(replies) = replies[1] /\ 1 \in DOMAIN replies /\ 1 \in DOMAIN Sent
        /\ Sent[1] = replies[1].to
    <3>1. replies \in Seq([to : Request, value : Values])
      BY <1>1 DEF Typed
    <3>2. Head(replies) = replies[1] /\ 1 \in DOMAIN replies
      BY ONLY <2>1, <3>1, SeqElements, TailElements
    <3>. QED  BY <1>1, <3>2, SentTyped
  <2>3. ~replies[1].to.ahead
    BY <2>1, <2>2 DEF IInv, Mailed
  <2>4. \/ Rejects(c) /\ client[c].at = "answer"
        \/ Goes(c, "ready") /\ UNCHANGED <<requests, outcome, got>>
        \/ /\ client' = [client EXCEPT ![c].at = "ready", ![c].script = <<>>]
           /\ UNCHANGED <<requests, outcome, got>>
    BY <1>1, <1>4, <2>2, <2>3 DEF Receive, At
  <2>5. UNCHANGED <<requests, outcome, got>>
    BY <2>4 DEF Rejects
  <2>6. /\ client'[c].script \in {client[c].script, <<>>} /\ client'[c].at = "ready"
        /\ \A d \in Clients \ {c} : client'[d] = client[d]
    BY <1>1, <2>4 DEF Typed, ClientStates, Rejects, Goes
  <2>7. Alone(r)' /\ client'[r] = client[r]
    <3>1. \A i \in DOMAIN client'[c].script : \E j \in DOMAIN client[c].script :
              client'[c].script[i] = client[c].script[j]
      BY <2>6
    <3>. QED  BY <1>1, <2>5, <2>6, <3>1, AloneOthers DEF Alone
  <2>8. Moved(1, r) /\ replies[1].to.from # r
    BY <2>1, <2>2, <2>5 DEF Moved
  <2>. QED  BY <2>1, <2>5, <2>7, <2>8, OthersKeep
<1>5. ~NextBuffer(c) /\ ~Abandon(c)
  BY <1>1 DEF NextBuffer, Abandon, At
<1>. QED  BY <1>3, <1>4, <1>5

-------------------------------------------------------------------------------
(* The reader *)

\* The reader has no message under way but the one it takes and the one it posts.
LEMMA QuietQueues ==
    ASSUME NEW r, Typed, Mailed(r, Sent), NEW k, NEW x, Moved(k, x), Quiet(r, k)
    PROVE  /\ \A i \in DOMAIN replies' : replies'[i].to.from # r
           /\ \A i \in DOMAIN requests' :
                  requests'[i].from = r => requests'[i] = x /\ requests' # requests
           /\ (requests' # requests => x.from = r /\ Expected(r, x)') => Mailed(r, Sent)'
<1>1. /\ Len(replies) \in Nat /\ Len(requests) \in Nat
      /\ \A i \in DOMAIN replies : i \in DOMAIN Sent /\ Sent[i] = replies[i].to
      /\ \A i \in DOMAIN requests : /\ Len(replies) + i \in DOMAIN Sent
                                    /\ Sent[Len(replies) + i] = requests[i]
  BY SentTyped
<1>2. /\ DOMAIN requests = 1 .. Len(requests) /\ DOMAIN replies = 1 .. Len(replies)
      /\ k \in {0, 1} /\ k <= Len(replies)
  <2>1. requests \in Seq(Request) /\ replies \in Seq([to : Request, value : Values])
    BY DEF Typed
  <2>2. DOMAIN requests = 1 .. Len(requests) /\ DOMAIN replies = 1 .. Len(replies)
    BY ONLY <2>1, SeqElements
  <2>3. k = 1 => 1 \in DOMAIN replies
    BY MovedSent
  <2>. QED  BY <1>1, <2>2, <2>3, MovedSent
<1>3. DOMAIN replies' \subseteq Nat \ {0}
  <2>1. replies' = replies \/ (replies # <<>> /\ replies' = Tail(replies))
    BY DEF Moved
  <2>2. replies \in Seq([to : Request, value : Values])
    BY DEF Typed
  <2>3. replies # <<>> => DOMAIN Tail(replies) = 1 .. Len(replies) - 1
    BY ONLY <2>2, TailElements
  <2>. QED  BY <1>1, <1>2, <2>1, <2>3
<1>4. ASSUME NEW i \in DOMAIN replies'
      PROVE  replies'[i].to.from # r
  <2>1. i + k \in DOMAIN replies /\ replies'[i] = replies[i + k] /\ i + k > k
    BY <1>2, <1>3, MovedQueues
  <2>. QED  BY <1>1, <2>1 DEF Quiet
<1>5. \A i \in DOMAIN requests : requests[i].from # r
  <2>. TAKE i \in DOMAIN requests
  <2>1. Len(replies) + i > k
    BY <1>1, <1>2
  <2>. QED  BY <1>1, <2>1 DEF Quiet
<1>6. ASSUME NEW i \in DOMAIN requests', requests'[i].from = r
      PROVE  requests'[i] = x /\ requests' # requests
  BY <1>5, <1>6, MovedQueues
<1>7. (requests' # requests => x.from = r /\ Expected(r, x)') => Mailed(r, Sent)'
  <2>1. \A m : ~(m.from = r /\ (\E i \in DOMAIN Sent : i > k /\ Sent[i] = m))
    BY DEF Quiet
  <2>2. \A i \in DOMAIN Sent : ~(i > k /\ Sent[i].from = r)
    BY DEF Quiet
  <2>. QED  BY <2>1, <2>2, MailedMoves
<1>. QED  BY <1>4, <1>6, <1>7

LEMMA AppendListed ==
    ASSUME NEW S, NEW s \in Seq(S), NEW q,
           s = [i \in 1 .. Len(s) |-> [query |-> q, index |-> i]],
           NEW t, t = Append(s, [query |-> q, index |-> Len(s) + 1])
    PROVE  Len(t) = Len(s) + 1 /\ t = [i \in 1 .. Len(s) + 1 |-> [query |-> q, index |-> i]]
<1>. DEFINE x == [query |-> q, index |-> Len(s) + 1]
<1>1. /\ Len(s) \in Nat /\ Len(t) = Len(s) + 1 /\ DOMAIN t = 1 .. Len(s) + 1
      /\ \A i \in DOMAIN s : t[i] = s[i]
      /\ t[Len(s) + 1] = x
  BY SeqElements, AppendedElements
<1>2. \A i \in 1 .. Len(s) : t[i] = [query |-> q, index |-> i]
  BY <1>1
<1>3. \A i \in 1 .. Len(s) + 1 : t[i] = [query |-> q, index |-> i]
  BY <1>1, <1>2
<1>4. t = [i \in DOMAIN t |-> t[i]]
  <2>1. t \in Seq(S \cup {x})
    <3>1. s \in Seq(S \cup {x}) /\ x \in S \cup {x}
      OBVIOUS
    <3>. QED  BY <3>1, SeqSteps
  <2>. QED  BY <2>1
<1>. QED  BY <1>1, <1>3, <1>4

\* The reader has the answer to its query.
LEMMA ReaderStarts ==
    ASSUME StreamAssumption, NEW r, IInv(r), At(r) \in Starting, Idle,
           NEW k, Quiet(r, k), \A x : requests' \in {requests, Append(requests, x)} => Moved(k, x),
           NEW v, Answers(r, v), Starts(r, v)
    PROVE  Rest(r)'
<1>. DEFINE q == Query(r)
<1>. USE DEF Idle
<1>1. /\ Typed /\ Outcomes /\ Alone(r) /\ Mailed(r, Sent) /\ Executed(r)
      /\ client \in [Clients -> ClientStates] /\ r \in Clients /\ client[r] \in ClientStates
      /\ outcome \in [Queries -> {"none", "sent", "open", "done", "failed"}]
  BY DEF IInv, Alone, Typed
<1>2. q \in Queries /\ outcome[q] = "sent" /\ Ahead(r).what = "none" /\ got[q] = <<>>
  BY DEF IInv, Placed, Outcomes
<1>3. Length[q] \in Nat /\ Len(<<>>) = 0
  BY <1>2 DEF StreamAssumption
<1>4. CASE v.what = "error" /\ Rejects(r)
  <2>1. /\ client'[r].at = "ready" /\ client'[r].script = <<>>
        /\ \A c \in Clients \ {r} : client'[c] = client[c]
    BY <1>1, <1>4 DEF Rejects, ClientStates
  <2>2. outcome' = [outcome EXCEPT ![q] = "failed"] /\ requests' = requests /\ got' = got
    BY <1>4 DEF Rejects, At, Query, Starting
  <2>3. executing = None
    BY <1>4 DEF Answers, AnswersIn
  <2>4. Outcomes'
    BY <1>1, <1>2, <2>2 DEF Outcomes
  <2>5. Alone(r)'
    BY <1>1, <1>2, <2>1, <2>2, AloneKeeps
  <2>6. Mailed(r, Sent)'
    BY <1>1, <2>2, QuietQueues
  <2>. QED
    BY <2>1, <2>3, <2>4, <2>5, <2>6
    DEF Rest, Placed, Executed, Answered, Fetched, At, Starting, Reading
<1>5. CASE /\ v.what = "header" /\ Goes(r, "reading") /\ Settles(q, "open")
           /\ UNCHANGED <<requests, got>>
  <2>1. /\ client'[r].at = "reading" /\ client'[r].script = client[r].script
        /\ client'[r].query = q /\ client'[r].ahead.what = "none"
        /\ \A c \in Clients \ {r} : client'[c] = client[c]
    BY <1>1, <1>2, <1>5 DEF Goes, ClientStates, Query, Ahead
  <2>2. outcome' = [outcome EXCEPT ![q] = "open"]
    BY <1>5 DEF Settles
  <2>3. executing = None /\ result = [query |-> q, next |-> 1] /\ q \notin canceled
    BY <1>5 DEF Answers, AnswersIn
  <2>4. Outcomes'
    BY <1>1, <1>2, <1>5, <2>2, <2>3 DEF Outcomes
  <2>5. Alone(r)'
    BY <1>1, <1>2, <2>1, <2>2, AloneKeeps
  <2>6. Mailed(r, Sent)' /\ \A i \in DOMAIN replies' : replies'[i].to.from # r
    BY <1>1, <1>5, QuietQueues
  <2>7. Fetched(r)'
    <3>1. Arrived(r)' = {}
      BY <2>1, <2>6 DEF Arrived, At, Ahead
    <3>. QED  BY <1>2, <1>3, <1>5, <2>1, <2>3, <3>1 DEF Fetched, Query
  <2>8. Placed(r)'
    BY <1>1, <1>2, <2>1, <2>2 DEF Placed, At, Query, Starting
  <2>. QED
    BY <2>1, <2>3, <2>4, <2>5, <2>6, <2>7, <2>8 DEF Rest, Executed, Answered, At
<1>6. CASE v.what = "null" /\ Goes(r, "poll") /\ Post(r, "poll", q) /\ UNCHANGED <<outcome, got>>
  <2>1. /\ client'[r].at = "poll" /\ client'[r].script = client[r].script
        /\ client'[r].query = q /\ client'[r].ahead.what = "none"
        /\ \A c \in Clients \ {r} : client'[c] = client[c]
    BY <1>1, <1>2, <1>6 DEF Goes, ClientStates, Query, Ahead
  <2>2. PICK x : x = Rq(r, "poll", q, FALSE)
    OBVIOUS
  <2>3. Moved(k, x)
    <3>1. requests' = Append(requests, x)
      BY <1>6, <2>2 DEF Post
    <3>. QED  BY <3>1
  <2>4. x.from = r /\ Expected(r, x)'
    BY <2>1, <2>2 DEF Rq, Expected, At, Awaited
  <2>5. Mailed(r, Sent)' /\ \A i \in DOMAIN replies' : replies'[i].to.from # r
    BY <1>1, <2>3, <2>4, QuietQueues
  <2>6. Alone(r)'
    BY <1>1, <1>6, <2>1, AloneKeeps
  <2>7. Placed(r)' /\ Executed(r)'
    BY <1>1, <1>2, <1>6, <2>1 DEF Placed, Executed, At, Query, Ahead, Starting, Reading
  <2>8. Outcomes'
    BY <1>1, <1>6 DEF Outcomes
  <2>. QED
    BY <2>1, <2>5, <2>6, <2>7, <2>8 DEF Rest, Answered, Fetched, At, Reading
<1>. QED  BY <1>4, <1>5, <1>6 DEF Starts, Query

\* The reader takes a buffer that was fetched.
LEMMA ReaderTakes ==
    ASSUME StreamAssumption, NEW r, IInv(r), At(r) \in Reading, Idle,
           NEW k, Quiet(r, k), \A x : requests' \in {requests, Append(requests, x)} => Moved(k, x),
           NEW v, v \in Arrived(r), Takes(r, v)
    PROVE  Rest(r)'
<1>. DEFINE q == Query(r)
            n == Len(got[q])
<1>. USE DEF Idle
<1>1. /\ Typed /\ Outcomes /\ Alone(r) /\ Mailed(r, Sent) /\ Executed(r) /\ Fetched(r)
      /\ client \in [Clients -> ClientStates] /\ r \in Clients /\ client[r] \in ClientStates
      /\ outcome \in [Queries -> {"none", "sent", "open", "done", "failed"}]
      /\ got \in [Queries -> Seq([query : Queries \cup {None}, index : Nat])]
  BY DEF IInv, Alone, Typed
<1>2. q \in Queries /\ outcome[q] = "open" /\ executing = None /\ q \notin canceled
  BY <1>1 DEF IInv, Placed, Executed, Outcomes, Starting, Reading
<1>3. got[q] \in Seq([query : Queries \cup {None}, index : Nat])
  BY <1>1, <1>2
<1>4. Length[q] \in Nat /\ n \in Nat
  BY <1>2, <1>3, SeqElements DEF StreamAssumption
<1>5. /\ n <= Length[q]
      /\ \/ result = [query |-> q, next |-> n + 1] /\ v.what \in {"null", "error"}
         \/ n < Length[q] /\ result = [query |-> q, next |-> n + 2] /\ v = Chunk(q, n + 1)
         \/ n = Length[q] /\ result = NoResult /\ v.what = "end"
  BY <1>1 DEF Fetched
<1>6. CASE v.what = "error" /\ Rejects(r)
  <2>1. /\ client'[r].at = "ready" /\ client'[r].script = <<>>
        /\ \A c \in Clients \ {r} : client'[c] = client[c]
    BY <1>1, <1>6 DEF Rejects, ClientStates
  <2>2. outcome' = [outcome EXCEPT ![q] = "failed"] /\ requests' = requests /\ got' = got
    BY <1>6 DEF Rejects, At, Query, Reading
  <2>3. Outcomes'
    BY <1>1, <1>2, <2>2 DEF Outcomes
  <2>4. Alone(r)'
    BY <1>1, <1>2, <2>1, <2>2, AloneKeeps
  <2>5. Mailed(r, Sent)'
    BY <1>1, <2>2, QuietQueues
  <2>. QED
    BY <1>2, <2>1, <2>3, <2>4, <2>5
    DEF Rest, Placed, Executed, Answered, Fetched, At, Starting, Reading
<1>7. CASE /\ v.what = "null"
           /\ client' = [client EXCEPT ![r].at = "fetch", ![r].ahead = Value("none")]
           /\ Post(r, "fetch", q)
           /\ UNCHANGED <<outcome, got>>
  <2>1. /\ client'[r].at = "fetch" /\ client'[r].script = client[r].script
        /\ client'[r].query = q
        /\ \A c \in Clients \ {r} : client'[c] = client[c]
    BY <1>1, <1>7 DEF ClientStates, Query
  <2>2. PICK x : x = Rq(r, "fetch", q, FALSE)
    OBVIOUS
  <2>3. Moved(k, x)
    <3>1. requests' = Append(requests, x)
      BY <1>7, <2>2 DEF Post
    <3>. QED  BY <3>1
  <2>4. x.from = r /\ Expected(r, x)'
    BY <2>1, <2>2 DEF Rq, Expected, At, Awaited
  <2>5. Mailed(r, Sent)' /\ \A i \in DOMAIN replies' : replies'[i].to.from # r
    BY <1>1, <2>3, <2>4, QuietQueues
  <2>6. Alone(r)'
    BY <1>1, <1>7, <2>1, AloneKeeps
  <2>7. Fetched(r)'
    <3>1. Arrived(r)' = {}
      BY <2>1, <2>5 DEF Arrived, At
    <3>2. result = [query |-> q, next |-> n + 1]
      BY <1>5, <1>7 DEF Chunk
    <3>. QED  BY <1>5, <1>7, <2>1, <3>1, <3>2 DEF Fetched, Query
  <2>8. Outcomes'
    BY <1>1, <1>7 DEF Outcomes
  <2>. QED
    BY <1>2, <1>7, <2>1, <2>5, <2>6, <2>7, <2>8
    DEF Rest, Placed, Executed, Answered, At, Query, Starting
<1>8. CASE /\ v.what = "chunk"
           /\ got' = [got EXCEPT ![q] = Append(@, [query |-> v.query, index |-> v.index])]
           /\ client' = [client EXCEPT ![r].at = "reading", ![r].ahead = Value("posted")]
           /\ PostAhead(r, q)
           /\ UNCHANGED outcome
  <2>1. /\ client'[r].at = "reading" /\ client'[r].script = client[r].script
        /\ client'[r].query = q /\ client'[r].ahead.what = "posted"
        /\ \A c \in Clients \ {r} : client'[c] = client[c]
    BY <1>1, <1>8 DEF ClientStates, Query, Value
  <2>2. PICK x : x = Rq(r, "fetch", q, TRUE)
    OBVIOUS
  <2>3. Moved(k, x)
    <3>1. requests' = Append(requests, x)
      BY <1>8, <2>2 DEF PostAhead
    <3>. QED  BY <3>1
  <2>4. x.from = r /\ Expected(r, x)'
    BY <2>1, <2>2 DEF Rq, Expected, At, Ahead
  <2>5. Mailed(r, Sent)' /\ \A i \in DOMAIN replies' : replies'[i].to.from # r
    BY <1>1, <2>3, <2>4, QuietQueues
  <2>6. Alone(r)'
    BY <1>1, <1>8, <2>1, AloneKeeps
  <2>7. n < Length[q] /\ result = [query |-> q, next |-> n + 2] /\ v = Chunk(q, n + 1)
    BY <1>5, <1>8
  <2>8. got' = [got EXCEPT ![q] = Append(@, [query |-> q, index |-> n + 1])]
    BY <1>8, <2>7 DEF Chunk
  <2>9. /\ got'[q] = Append(got[q], [query |-> q, index |-> n + 1])
        /\ \A p \in Queries : p # q => got'[p] = got[p]
    BY <1>1, <1>2, <2>8
  <2>10. /\ Len(got'[q]) = n + 1
         /\ got'[q] = [i \in 1 .. n + 1 |-> [query |-> q, index |-> i]]
    <3>1. got[q] = [i \in 1 .. n |-> [query |-> q, index |-> i]]
      BY <1>1, <1>2 DEF Outcomes
    <3>. QED  BY <1>3, <2>9, <3>1, AppendListed
  <2>11. Fetched(r)'
    <3>1. Arrived(r)' = {}
      BY <2>1, <2>5 DEF Arrived, At, Ahead
    <3>2. n + 1 <= Length[q] /\ n + 2 = (n + 1) + 1
      BY <1>4, <2>7
    <3>. QED  BY <2>1, <2>7, <2>10, <3>1, <3>2 DEF Fetched, Query
  <2>12. Outcomes'
    <3>. SUFFICES ASSUME NEW p \in Queries
                  PROVE  /\ got'[p] = [i \in 1 .. Len(got'[p]) |-> [query |-> p, index |-> i]]
                         /\ outcome'[p] \in {"none", "sent"} => got'[p] = <<>>
                         /\ outcome'[p] = "done" => Len(got'[p]) = Length[p]
                         /\ p \in canceled' => outcome'[p] \in {"sent", "failed"}
      BY DEF Outcomes
    <3>1. CASE p = q
      BY <1>2, <1>8, <2>10, <3>1
    <3>2. CASE p # q
      BY <1>1, <1>8, <2>9, <3>2 DEF Outcomes
    <3>. QED  BY <3>1, <3>2
  <2>. QED
    BY <1>2, <1>8, <2>1, <2>5, <2>6, <2>11, <2>12
    DEF Rest, Placed, Executed, Answered, At, Query, Starting
<1>9. CASE v.what = "end" /\ Goes(r, "ready") /\ Settles(q, "done") /\ UNCHANGED <<requests, got>>
  <2>1. /\ client'[r].at = "ready" /\ client'[r].script = client[r].script
        /\ \A c \in Clients \ {r} : client'[c] = client[c]
    BY <1>1, <1>9 DEF Goes, ClientStates
  <2>2. outcome' = [outcome EXCEPT ![q] = "done"]
    BY <1>9 DEF Settles
  <2>3. n = Length[q]
    BY <1>5, <1>9 DEF Chunk
  <2>4. Outcomes'
    BY <1>1, <1>2, <1>9, <2>2, <2>3 DEF Outcomes
  <2>5. Alone(r)'
    BY <1>1, <1>2, <2>1, <2>2, AloneKeeps
  <2>6. Mailed(r, Sent)'
    BY <1>1, <1>9, QuietQueues
  <2>. QED
    BY <1>2, <2>1, <2>4, <2>5, <2>6
    DEF Rest, Placed, Executed, Answered, Fetched, At, Starting, Reading
<1>. QED  BY <1>6, <1>7, <1>8, <1>9 DEF Takes, Query

\* The reader's next call: what is left of its script has other queries.
LEMMA AloneCalls ==
    ASSUME NEW r, Typed, Alone(r), client[r].script # <<>>, NEW call, call = Head(client[r].script),
           \A c \in Clients \ {r} : client'[c] = client[c],
           client'[r].script = Tail(client[r].script),
           \A q \in Queries : outcome[q] = "none" =>
               outcome'[q] = "none" \/ (Sends(call) /\ q = call.query)
    PROVE  /\ Alone(r)'
           /\ call \in Call
           /\ Sends(call) => call.query \in Queries /\ outcome[call.query] = "none"
<1>. DEFINE s == client[r].script
            t == Tail(s)
<1>1. r \in Clients /\ s \in Seq(Call) /\ DOMAIN s = 1 .. Len(s) /\ Len(s) \in Nat
  BY DEF Alone, Typed, ClientStates
<1>2. ReadsAlone(r, [c \in Clients |-> client[c].script])
  BY DEF Alone
<1>3. /\ \A c \in Clients \ {r} : \A i \in DOMAIN client[c].script :
             client[c].script[i].kind \in {"cancel", "prepare"}
      /\ \A i \in DOMAIN s :
             Sends(s[i]) => /\ s[i].query # None
                            /\ \A j \in DOMAIN s : Sends(s[j]) /\ s[j].query = s[i].query => i = j
  BY <1>1, <1>2 DEF ReadsAlone
<1>4. /\ 1 \in DOMAIN s /\ call = s[1] /\ DOMAIN t = 1 .. Len(s) - 1
      /\ \A i \in DOMAIN t : i + 1 \in DOMAIN s /\ i + 1 # 1 /\ t[i] = s[i + 1]
  <2>1. /\ Len(s) > 0 /\ Head(s) = s[1] /\ DOMAIN t = 1 .. Len(s) - 1
        /\ \A i \in 1 .. Len(s) - 1 : t[i] = s[i + 1]
    BY ONLY <1>1, s # <<>>, TailElements
  <2>. QED  BY <1>1, <2>1
<1>5. \A i \in DOMAIN s : /\ s[i] \in Call
                          /\ Sends(s[i]) => s[i].query \in Queries /\ outcome[s[i].query] = "none"
  <2>. TAKE i \in DOMAIN s
  <2>1. s[i] \in Call
    BY <1>1
  <2>2. Sends(s[i]) => s[i].query \in Queries
    BY <1>3, <2>1 DEF Call
  <2>. QED  BY <2>1, <2>2 DEF Alone
<1>6. ASSUME NEW i \in DOMAIN t, Sends(t[i])
      PROVE  outcome'[t[i].query] = "none"
  <2>1. i + 1 \in DOMAIN s /\ i + 1 # 1 /\ t[i] = s[i + 1] /\ Sends(s[i + 1])
    BY <1>4, <1>6
  <2>2. ~(Sends(call) /\ t[i].query = call.query)
    BY <1>3, <1>4, <2>1
  <2>. QED  BY <1>5, <2>1, <2>2
<1>7. ASSUME NEW i \in DOMAIN t, Sends(t[i])
      PROVE  /\ t[i].query # None
             /\ \A j \in DOMAIN t : Sends(t[j]) /\ t[j].query = t[i].query => i = j
  <2>1. i + 1 \in DOMAIN s /\ t[i] = s[i + 1]
    BY <1>4
  <2>2. ASSUME NEW j \in DOMAIN t, Sends(t[j]), t[j].query = t[i].query
        PROVE  i = j
    <3>1. j + 1 \in DOMAIN s /\ t[j] = s[j + 1]
      BY <1>4
    <3>2. i + 1 = j + 1
      BY <1>3, <1>7, <2>1, <2>2, <3>1
    <3>. QED  BY <1>1, <1>4, <3>2
  <2>. QED  BY <1>3, <1>7, <2>1, <2>2
<1>8. ReadsAlone(r, [c \in Clients |-> client'[c].script])
  BY <1>1, <1>3, <1>7 DEF ReadsAlone
<1>9. \A c \in Clients \ {r} : client'[c].at \in {"ready", "answer"}
  BY DEF Alone, At
<1>10. Alone(r)'
  BY <1>1, <1>6, <1>8, <1>9 DEF Alone, At
<1>. QED  BY <1>4, <1>5, <1>10

LEMMA ReaderCalls ==
    ASSUME StreamAssumption, NEW r, IInv(r), CallNext(r)
    PROVE  Rest(r)'
<1>1. /\ Typed /\ Outcomes /\ Alone(r) /\ Mailed(r, Sent) /\ At(r) = "ready" /\ executing = None
      /\ client \in [Clients -> ClientStates] /\ r \in Clients /\ client[r].script # <<>>
      /\ outcome \in [Queries -> {"none", "sent", "open", "done", "failed"}]
  BY DEF IInv, Alone, Typed, CallNext, At, Executed, Starting
<1>2. PICK call : call = Head(client[r].script)
  OBVIOUS
<1>3. /\ client' = [client EXCEPT ![r] =
             [script |-> Tail(@.script), at |-> WaitsAt(call.kind), query |-> call.query,
              header |-> Value("none"), ahead |-> Value("none")]]
      /\ requests' = Append(requests, Rq(r, call.kind, call.query, FALSE))
      /\ outcome' = IF WaitsAt(call.kind) = "start"
                    THEN [outcome EXCEPT ![call.query] = "sent"] ELSE outcome
      /\ Idle /\ UNCHANGED <<replies, got>>
  BY <1>2 DEF CallNext, Post, Idle, connection, duckdb
<1>4. /\ client'[r].script = Tail(client[r].script) /\ client'[r].at = WaitsAt(call.kind)
      /\ client'[r].query = call.query /\ client'[r].ahead.what = "none"
      /\ \A c \in Clients \ {r} : client'[c] = client[c]
  BY <1>1, <1>3 DEF Value
<1>5. WaitsAt(call.kind) = "start" <=> Sends(call)
  BY DEF WaitsAt, Sends
<1>6. /\ Alone(r)' /\ call \in Call
      /\ Sends(call) => call.query \in Queries /\ outcome[call.query] = "none"
  <2>1. \A q \in Queries : outcome[q] = "none" =>
            outcome'[q] = "none" \/ (Sends(call) /\ q = call.query)
    BY <1>1, <1>3, <1>5
  <2>. QED  BY <1>1, <1>2, <1>4, <2>1, AloneCalls
<1>7. WaitsAt(call.kind) \in {"start", "answer"} /\ call.kind \in Awaited(WaitsAt(call.kind))
  BY <1>6 DEF Call, CallKinds, WaitsAt, Awaited
<1>8. PICK x : x = Rq(r, call.kind, call.query, FALSE)
  OBVIOUS
<1>9. Moved(0, x) /\ requests' = Append(requests, x)
  BY <1>3, <1>8 DEF Moved
<1>10. \A i \in DOMAIN Sent : Sent[i].from = r => Sent[i].ahead /\ Sent[i].kind = "fetch"
  BY <1>1 DEF Mailed, Expected, Awaited
<1>11. x.from = r /\ ~x.ahead /\ Expected(r, x)'
  BY <1>4, <1>7, <1>8 DEF Rq, Expected, At, Query
<1>12. Mailed(r, Sent)'
  <2>1. \A m : m.from = r /\ (\E i \in DOMAIN Sent : i > 0 /\ Sent[i] = m) => Expected(r, m)'
    BY <1>4, <1>7, <1>10 DEF Expected, At
  <2>. QED  BY <1>1, <1>9, <1>10, <1>11, <2>1, MailedMoves
<1>13. Outcomes'
  BY <1>1, <1>3, <1>5, <1>6 DEF Outcomes, Idle
<1>14. Placed(r)'
  BY <1>1, <1>3, <1>4, <1>5, <1>6, <1>7 DEF Placed, At, Query, Ahead, Starting, Reading
<1>15. Answered(r)'
  <2>1. ASSUME NEW i \in DOMAIN replies', replies'[i].to.from = r
        PROVE  replies'[i].to.ahead
    BY <1>1, <1>3, <1>10, <2>1, SentTyped
  <2>2. Sends(call) => executing' = None /\ call.query \notin canceled'
    BY <1>1, <1>3, <1>6 DEF Idle, Outcomes
  <2>. QED  BY <1>4, <1>5, <1>7, <2>1, <2>2 DEF Answered, At, Query
<1>16. Executed(r)' /\ Fetched(r)'
  BY <1>1, <1>3, <1>4, <1>7 DEF Executed, Fetched, Idle, At, Reading
<1>. QED  BY <1>6, <1>12, <1>13, <1>14, <1>15, <1>16 DEF Rest

LEMMA ReaderAsks ==
    ASSUME StreamAssumption, NEW r, IInv(r), NextBuffer(r)
    PROVE  Rest(r)'
<1>1. /\ Typed /\ Outcomes /\ Alone(r) /\ Mailed(r, Sent) /\ At(r) = "reading" /\ executing = None
      /\ client \in [Clients -> ClientStates] /\ r \in Clients /\ client[r] \in ClientStates
      /\ Placed(r) /\ Fetched(r)
  BY DEF IInv, Alone, Typed, NextBuffer, At, Executed, Starting
<1>2. Idle /\ replies' = replies
  BY DEF NextBuffer, Idle, connection, duckdb
<1>3. \A i \in DOMAIN Sent : Sent[i].from = r => /\ Ahead(r).what = "posted"
                                                 /\ Sent[i].ahead /\ Sent[i].kind = "fetch"
  BY <1>1 DEF Mailed, Expected, Awaited
<1>4. CASE /\ Ahead(r).what = "none"
           /\ Goes(r, "fetch") /\ Post(r, "fetch", Query(r))
           /\ UNCHANGED <<outcome, got>>
  <2>1. /\ client'[r].at = "fetch" /\ client'[r].script = client[r].script
        /\ client'[r].query = Query(r)
        /\ \A c \in Clients \ {r} : client'[c] = client[c]
    BY <1>1, <1>4 DEF Goes, ClientStates, Query
  <2>2. PICK x : x = Rq(r, "fetch", Query(r), FALSE)
    OBVIOUS
  <2>3. Moved(0, x) /\ Quiet(r, 0)
    BY <1>2, <1>3, <1>4, <2>2 DEF Moved, Post, Quiet
  <2>4. x.from = r /\ Expected(r, x)'
    BY <2>1, <2>2 DEF Rq, Expected, At, Awaited
  <2>5. Mailed(r, Sent)' /\ \A i \in DOMAIN replies' : replies'[i].to.from # r
    BY <1>1, <2>3, <2>4, QuietQueues
  <2>6. Alone(r)'
    BY <1>1, <1>4, <2>1, AloneKeeps
  <2>7. Fetched(r)'
    <3>1. Arrived(r)' = {}
      BY <2>1, <2>5 DEF Arrived, At
    <3>2. Asked(r)
      BY <1>1, <1>4 DEF Asked
    <3>. QED  BY <1>1, <1>2, <1>4, <2>1, <3>1, <3>2 DEF Fetched, Query, Idle, Reading
  <2>8. Outcomes'
    BY <1>1, <1>2, <1>4 DEF Outcomes, Idle
  <2>. QED
    BY <1>1, <1>2, <1>4, <2>1, <2>5, <2>6, <2>7, <2>8
    DEF Rest, Placed, Executed, Answered, At, Query, Starting, Reading, Idle
<1>5. CASE Ahead(r).what = "posted" /\ Goes(r, "inflight") /\ UNCHANGED <<requests, outcome, got>>
  <2>1. /\ client'[r].at = "inflight" /\ client'[r].script = client[r].script
        /\ client'[r].query = Query(r)
        /\ \A c \in Clients \ {r} : client'[c] = client[c]
    BY <1>1, <1>5 DEF Goes, ClientStates, Query
  <2>2. Sent' = Sent
    BY <1>2, <1>5 DEF Sent
  <2>3. Mailed(r, Sent)'
    <3>1. ASSUME NEW i \in DOMAIN Sent, Sent[i].from = r
          PROVE  Sent[i].ahead /\ Sent[i].kind = "fetch"
      BY <1>3, <3>1
    <3>. QED  BY <1>1, <2>1, <2>2, <3>1 DEF Mailed, Expected, At
  <2>4. Alone(r)'
    BY <1>1, <1>5, <2>1, AloneKeeps
  <2>5. Fetched(r)'
    <3>1. Arrived(r)' = Arrived(r)
      BY <1>1, <1>2, <1>5, <2>1 DEF Arrived, At
    <3>2. Asked(r)' => Asked(r)
      BY <1>5, <2>1 DEF Asked, At
    <3>. QED  BY <1>1, <1>2, <1>5, <2>1, <3>1, <3>2 DEF Fetched, Query, Idle, Reading
  <2>6. Outcomes'
    BY <1>1, <1>2, <1>5 DEF Outcomes, Idle
  <2>. QED
    BY <1>1, <1>2, <1>5, <2>1, <2>3, <2>4, <2>5, <2>6
    DEF Rest, Placed, Executed, Answered, At, Query, Starting, Reading, Idle
<1>6. CASE Ahead(r).what \notin {"none", "posted"} /\ Takes(r, Ahead(r))
  <2>1. Quiet(r, 0)
    BY <1>3, <1>6 DEF Quiet
  <2>2. \A x : requests' \in {requests, Append(requests, x)} => Moved(0, x)
    BY <1>2 DEF Moved
  <2>3. PICK v : v = Ahead(r)
    OBVIOUS
  <2>4. v \in Arrived(r) /\ Takes(r, v)
    BY <1>1, <1>6, <2>3 DEF Arrived
  <2>5. At(r) \in Reading
    BY <1>1 DEF Reading
  <2>. QED  BY <1>2, <2>1, <2>2, <2>4, <2>5, ReaderTakes
<1>. QED  BY <1>4, <1>5, <1>6 DEF NextBuffer, Ahead, Query

LEMMA ReaderLeaves ==
    ASSUME NEW r, IInv(r), Abandon(r)
    PROVE  Rest(r)'
<1>1. /\ Typed /\ Outcomes /\ Alone(r) /\ Mailed(r, Sent) /\ At(r) = "reading" /\ executing = None
      /\ client \in [Clients -> ClientStates] /\ r \in Clients /\ client[r] \in ClientStates
  BY DEF IInv, Alone, Typed, Abandon, At, Executed, Starting
<1>2. Idle /\ UNCHANGED <<requests, replies, outcome, got>> /\ Goes(r, "ready")
  BY DEF Abandon, Idle, connection, duckdb
<1>3. /\ client'[r].at = "ready" /\ client'[r].script = client[r].script
      /\ \A c \in Clients \ {r} : client'[c] = client[c]
  BY <1>1, <1>2 DEF Goes, ClientStates
<1>4. Mailed(r, Sent)'
  <2>1. Sent' = Sent
    BY <1>2 DEF Sent
  <2>2. ASSUME NEW i \in DOMAIN Sent, Sent[i].from = r
        PROVE  Sent[i].ahead /\ Sent[i].kind = "fetch"
    BY <1>1, <2>2 DEF Mailed, Expected, Awaited
  <2>. QED  BY <1>1, <1>3, <2>1, <2>2 DEF Mailed, Expected, At
<1>5. Alone(r)'
  BY <1>1, <1>2, <1>3, AloneKeeps
<1>6. Outcomes'
  BY <1>1, <1>2 DEF Outcomes, Idle
<1>. QED
  BY <1>1, <1>2, <1>3, <1>4, <1>5, <1>6
  DEF Rest, Placed, Executed, Answered, Fetched, At, Starting, Reading, Idle

LEMMA ReaderReceives ==
    ASSUME StreamAssumption, NEW r, IInv(r), Receive(r)
    PROVE  Rest(r)'
<1>1. /\ Typed /\ Outcomes /\ Alone(r) /\ Mailed(r, Sent) /\ Placed(r) /\ Executed(r)
      /\ Answered(r) /\ Fetched(r)
      /\ client \in [Clients -> ClientStates] /\ r \in Clients /\ client[r] \in ClientStates
  BY DEF IInv, Alone, Typed
<1>2. replies # <<>> /\ Head(replies).to.from = r /\ replies' = Tail(replies) /\ Idle
  BY DEF Receive, connection, duckdb, Idle
<1>3. \A x : requests' \in {requests, Append(requests, x)} => Moved(1, x)
  BY <1>2 DEF Moved
<1>4. /\ Head(replies) = replies[1] /\ 1 \in DOMAIN replies /\ replies[1].to.from = r
      /\ 1 \in DOMAIN Sent /\ Sent[1] = replies[1].to
  <2>1. replies \in Seq([to : Request, value : Values])
    BY <1>1 DEF Typed
  <2>2. Head(replies) = replies[1] /\ 1 \in DOMAIN replies
    BY ONLY <1>2, <2>1, SeqElements, TailElements
  <2>. QED  BY <1>1, <1>2, <2>2, SentTyped
<1>5. PICK v : v = replies[1].value
  OBVIOUS
<1>6. v \in Arrived(r)
  BY <1>4, <1>5 DEF Arrived
<1>7. ASSUME NEW i \in DOMAIN Sent, i > 1, Sent[i].from = r
      PROVE  replies[1].to.ahead /\ ~Sent[i].ahead /\ Sent[i].kind \in Awaited(At(r))
  <2>1. replies[1].to.ahead /\ ~Sent[i].ahead
    BY <1>1, <1>4, <1>7 DEF Mailed
  <2>. QED  BY <1>1, <1>7, <2>1 DEF Mailed, Expected
<1>8. ~replies[1].to.ahead \/ At(r) \in {"inflight", "reading"} => Quiet(r, 1)
  BY <1>7 DEF Quiet, Awaited
<1>9. CASE replies[1].to.ahead /\ At(r) = "inflight" /\ Takes(r, v)
  <2>1. At(r) \in Reading /\ Quiet(r, 1)
    BY <1>8, <1>9 DEF Reading
  <2>. QED  BY <1>2, <1>3, <1>6, <1>9, <2>1, ReaderTakes
<1>10. CASE /\ replies[1].to.ahead /\ At(r) = "reading"
            /\ client' = [client EXCEPT ![r].ahead = v]
            /\ UNCHANGED <<requests, outcome, got>>
  <2>1. /\ client'[r].at = "reading" /\ client'[r].script = client[r].script
        /\ client'[r].query = Query(r) /\ client'[r].ahead = v
        /\ \A c \in Clients \ {r} : client'[c] = client[c]
    BY <1>1, <1>10 DEF ClientStates, Query, At
  <2>2. Moved(1, r) /\ Quiet(r, 1) /\ requests' = requests
    BY <1>3, <1>8, <1>10
  <2>3. /\ Mailed(r, Sent)'
        /\ \A i \in DOMAIN replies' : replies'[i].to.from # r
        /\ \A i \in DOMAIN requests' : requests'[i].from # r
    BY <1>1, <2>2, QuietQueues
  <2>4. Alone(r)'
    BY <1>1, <1>10, <2>1, AloneKeeps
  <2>5. Arrived(r)' \subseteq {v} /\ (v.what # "none" => ~Asked(r)')
    BY <2>1, <2>3 DEF Arrived, Asked, At, Ahead
  <2>6. executing = None /\ At(r) \in Reading
    BY <1>1, <1>10 DEF Executed, Starting, Reading
  <2>7. Fetched(r)'
    <3>. DEFINE n == Len(got[Query(r)])
    <3>1. /\ n <= Length[Query(r)]
          /\ \/ result = [query |-> Query(r), next |-> n + 1] /\ v.what \in {"null", "error"}
             \/ /\ n < Length[Query(r)] /\ v = Chunk(Query(r), n + 1)
                /\ result = [query |-> Query(r), next |-> n + 2]
             \/ n = Length[Query(r)] /\ result = NoResult /\ v.what = "end"
      BY <1>1, <1>6, <2>6 DEF Fetched
    <3>2. Query(r)' = Query(r) /\ got' = got /\ result' = result
      BY <1>2, <1>10, <2>1 DEF Query, Idle
    <3>3. v.what # "none"
      BY <3>1 DEF Chunk
    <3>. QED  BY <2>5, <3>1, <3>2, <3>3 DEF Fetched
  <2>8. Outcomes'
    BY <1>1, <1>2, <1>10 DEF Outcomes, Idle
  <2>. QED
    BY <1>1, <1>2, <1>10, <2>1, <2>3, <2>4, <2>6, <2>7, <2>8
    DEF Rest, Placed, Executed, Answered, At, Query, Starting, Reading, Idle
<1>11. CASE UNCHANGED <<requests, client, outcome, got>>
  <2>1. Alone(r)'
    BY <1>1, <1>11 DEF Alone, At
  <2>2. Moved(1, r)
    BY <1>3, <1>11
  <2>. QED  BY <1>2, <1>11, <2>1, <2>2, OthersKeep
<1>12. CASE ~replies[1].to.ahead /\ At(r) \in {"start", "poll"} /\ Starts(r, v)
  <2>1. Answers(r, v)
    BY <1>1, <1>4, <1>5, <1>12 DEF Answered
  <2>2. At(r) \in Starting /\ Quiet(r, 1)
    BY <1>8, <1>12 DEF Starting
  <2>. QED  BY <1>2, <1>3, <1>12, <2>1, <2>2, ReaderStarts
<1>13. CASE ~replies[1].to.ahead /\ At(r) = "drop" /\ Starts(r, client[r].header)
  <2>1. PICK h : h = client[r].header
    OBVIOUS
  <2>2. Answers(r, h) /\ Starts(r, h)
    BY <1>1, <1>13, <2>1 DEF Answered
  <2>3. At(r) \in Starting /\ Quiet(r, 1)
    BY <1>8, <1>13 DEF Starting
  <2>. QED  BY <1>2, <1>3, <2>2, <2>3, ReaderStarts
<1>14. CASE /\ ~replies[1].to.ahead /\ At(r) = "start"
            /\ client' = [client EXCEPT ![r].at = "drop", ![r].header = v]
            /\ Post(r, "drop", Query(r))
            /\ UNCHANGED <<outcome, got>>
  <2>1. /\ client'[r].at = "drop" /\ client'[r].script = client[r].script
        /\ client'[r].query = Query(r) /\ client'[r].header = v /\ client'[r].ahead = Ahead(r)
        /\ \A c \in Clients \ {r} : client'[c] = client[c]
    BY <1>1, <1>14 DEF ClientStates, Query, Ahead
  <2>2. PICK x : x = Rq(r, "drop", Query(r), FALSE)
    OBVIOUS
  <2>3. Moved(1, x) /\ Quiet(r, 1)
    <3>1. requests' = Append(requests, x)
      BY <1>14, <2>2 DEF Post
    <3>. QED  BY <1>3, <1>8, <1>14, <3>1
  <2>4. x.from = r /\ Expected(r, x)'
    BY <2>1, <2>2 DEF Rq, Expected, At, Awaited
  <2>5. Mailed(r, Sent)' /\ \A i \in DOMAIN replies' : replies'[i].to.from # r
    BY <1>1, <2>3, <2>4, QuietQueues
  <2>6. Alone(r)'
    BY <1>1, <1>14, <2>1, AloneKeeps
  <2>7. Answers(r, v)
    BY <1>1, <1>4, <1>5, <1>14 DEF Answered
  <2>8. Answered(r)'
    <3>1. AnswersIn(Query(r), v, executing', result', canceled')
      BY <1>2, <2>7 DEF Answers, Idle
    <3>. QED  BY <2>1, <2>5, <3>1 DEF Answered, Answers, At, Query
  <2>9. Placed(r)' /\ Executed(r)'
    BY <1>1, <1>2, <1>14, <2>1 DEF Placed, Executed, Idle, At, Query, Ahead, Starting, Reading
  <2>10. Outcomes' /\ Fetched(r)'
    BY <1>1, <1>2, <1>14, <2>1 DEF Outcomes, Fetched, Idle, At, Reading
  <2>. QED  BY <2>5, <2>6, <2>8, <2>9, <2>10 DEF Rest
<1>15. CASE ~replies[1].to.ahead /\ At(r) = "fetch" /\ Takes(r, v)
  <2>1. At(r) \in Reading /\ Quiet(r, 1)
    BY <1>8, <1>15 DEF Reading
  <2>. QED  BY <1>2, <1>3, <1>6, <1>15, <2>1, ReaderTakes
<1>16. CASE /\ ~replies[1].to.ahead /\ At(r) = "answer"
            /\ client'[r].at = "ready" /\ client'[r].script \in {client[r].script, <<>>}
            /\ \A c \in Clients \ {r} : client'[c] = client[c]
            /\ UNCHANGED <<requests, outcome, got>>
  <2>1. Moved(1, r) /\ Quiet(r, 1) /\ requests' = requests
    BY <1>3, <1>8, <1>16
  <2>2. Mailed(r, Sent)'
    BY <1>1, <2>1, QuietQueues
  <2>3. Alone(r)'
    BY <1>1, <1>16, AloneKeeps
  <2>4. executing = None
    BY <1>1, <1>16 DEF Executed, Starting
  <2>5. Outcomes'
    BY <1>1, <1>2, <1>16 DEF Outcomes, Idle
  <2>. QED
    BY <1>2, <1>16, <2>2, <2>3, <2>4, <2>5
    DEF Rest, Placed, Executed, Answered, Fetched, At, Starting, Reading, Idle
<1>17. CASE replies[1].to.ahead
  BY <1>2, <1>4, <1>5, <1>9, <1>10, <1>11, <1>17 DEF Receive, AheadArrives, At, callers
<1>18. CASE ~replies[1].to.ahead /\ At(r) = "answer"
  <2>1. \/ Rejects(r)
        \/ Goes(r, "ready") /\ UNCHANGED <<requests, outcome, got>>
        \/ /\ client' = [client EXCEPT ![r].at = "ready", ![r].script = <<>>]
           /\ UNCHANGED <<requests, outcome, got>>
    BY <1>4, <1>18 DEF Receive, At
  <2>2. UNCHANGED <<requests, outcome, got>>
    BY <1>18, <2>1 DEF Rejects, At
  <2>3. /\ client'[r].at = "ready" /\ client'[r].script \in {client[r].script, <<>>}
        /\ \A c \in Clients \ {r} : client'[c] = client[c]
    BY <1>1, <2>1 DEF Rejects, Goes, ClientStates
  <2>. QED  BY <1>16, <1>18, <2>2, <2>3
<1>19. CASE ~replies[1].to.ahead /\ At(r) # "answer"
  <2>1. \/ At(r) = "start" /\ StartAnswered(r, v)
        \/ At(r) = "drop" /\ Starts(r, client[r].header)
        \/ At(r) = "poll" /\ Starts(r, v)
        \/ At(r) = "fetch" /\ Takes(r, v)
    BY <1>4, <1>5, <1>19 DEF Receive, At
  <2>2. At(r) = "start" /\ StartAnswered(r, v) =>
            \/ Starts(r, v)
            \/ /\ client' = [client EXCEPT ![r].at = "drop", ![r].header = v]
               /\ Post(r, "drop", Query(r))
               /\ UNCHANGED <<outcome, got>>
    BY DEF StartAnswered, Query
  <2>. QED  BY <1>12, <1>13, <1>14, <1>15, <1>19, <2>1, <2>2
<1>. QED  BY <1>17, <1>18, <1>19

-------------------------------------------------------------------------------
(* The theorems *)

LEMMA IInvStep ==
    ASSUME StreamAssumption, NEW r, IInv(r), [Next]_vars
    PROVE  IInv(r)'
<1>1. Typed'
  BY TypedStep DEF IInv
<1>2. CASE Serve
  BY <1>2, WorkerInv
<1>3. CASE \E c \in Clients : CallNext(c) \/ NextBuffer(c) \/ Abandon(c) \/ Receive(c)
  <2>1. PICK c \in Clients : CallNext(c) \/ NextBuffer(c) \/ Abandon(c) \/ Receive(c)
    BY <1>3
  <2>2. Rest(r)'
    <3>1. CASE c = r
      BY <2>1, <3>1, ReaderCalls, ReaderAsks, ReaderLeaves, ReaderReceives
    <3>2. CASE c # r
      BY <2>1, <3>2, OtherMoves
    <3>. QED  BY <3>1, <3>2
  <2>. QED  BY <1>1, <2>2 DEF Rest, IInv
<1>4. CASE UNCHANGED vars
  <2>1. Moved(0, r) /\ Idle /\ requests' = requests
    BY <1>4 DEF vars, Moved, Idle
  <2>2. UNCHANGED <<client, outcome, got>>
    BY <1>4 DEF vars
  <2>3. Alone(r)'
    BY <2>2 DEF IInv, Alone, At
  <2>4. Rest(r)'
    BY <2>1, <2>2, <2>3, OthersKeep
  <2>. QED  BY <1>1, <2>4 DEF Rest, IInv
<1>. QED  BY <1>2, <1>3, <1>4 DEF Next, Finished

LEMMA IInvInit ==
    ASSUME StreamAssumption, OneReader, Init
    PROVE  \E r : IInv(r)
<1>1. PICK s \in Scripts :
          client = [c \in Clients |-> [script |-> s[c], at |-> "ready", query |-> None,
                                       header |-> Value("none"), ahead |-> Value("none")]]
  BY DEF Init
<1>2. PICK r \in Clients : ReadsAlone(r, s)
  BY DEF OneReader
<1>3. s \in [Clients -> Seq(Call)]
  BY DEF StreamAssumption
<1>4. Value("none") \in Values
  BY ValuesTyped
<1>5. client \in [Clients -> ClientStates]
  BY <1>1, <1>3, <1>4 DEF ClientStates, Points
<1>6. requests = <<>> /\ replies = <<>> /\ executing = None
  BY DEF Init
<1>7. Typed
  <2>1. \A S : <<>> \in Seq(S)
    OBVIOUS
  <2>. QED  BY <1>5, <1>6, <2>1 DEF Init, Typed, NoResult
<1>8. DOMAIN Sent = {}
  BY <1>6 DEF Sent
<1>9. Mailed(r, Sent)
  BY <1>8 DEF Mailed
<1>10. Alone(r)
  <2>1. [c \in Clients |-> client[c].script] = s
    BY <1>1, <1>3
  <2>2. ASSUME NEW i \in DOMAIN client[r].script, Sends(client[r].script[i])
        PROVE  outcome[client[r].script[i].query] = "none"
    <3>1. client[r].script = s[r] /\ s[r] \in Seq(Call)
      BY <1>1, <1>2, <1>3
    <3>2. s[r][i] \in Call
      BY <2>2, <3>1
    <3>3. s[r][i].query \in Queries
      BY <1>2, <2>2, <3>1, <3>2 DEF ReadsAlone, Call
    <3>. QED  BY <3>1, <3>3 DEF Init
  <2>. QED  BY <1>1, <1>2, <2>1, <2>2 DEF Alone, At
<1>11. At(r) = "ready"
  BY <1>1 DEF At
<1>12. Outcomes
  BY DEF Init, Outcomes
<1>13. Placed(r) /\ Executed(r) /\ Answered(r) /\ Fetched(r)
  BY <1>6, <1>11 DEF Placed, Executed, Answered, Fetched, Starting, Reading
<1>. QED  BY <1>7, <1>9, <1>10, <1>12, <1>13 DEF IInv

Inv == \E r : IInv(r)

LEMMA InvariantHolds ==
    ASSUME OneReader
    PROVE  Spec => []Inv
<1>1. Init => Inv
  BY StreamAssumption, IInvInit DEF Inv
<1>2. Inv /\ [Next]_vars => Inv'
  <2>. SUFFICES ASSUME Inv, [Next]_vars
                PROVE  Inv'
    OBVIOUS
  <2>1. PICK r : IInv(r)
    BY DEF Inv
  <2>2. IInv(r)'
    BY <2>1, StreamAssumption, IInvStep
  <2>. QED  BY <2>2 DEF Inv
<1>. QED  BY <1>1, <1>2, PTL DEF Spec

\* Where one client reads, a reader is given the chunks of its own result, each once and in
\* order (fetchQueryResults of parallel/async_connection.ts and webdb.cc).
THEOREM ReadersGetTheirResults ==
    ASSUME OneReader
    PROVE  Spec => []ReaderGetsItsResult
<1>1. Inv => ReaderGetsItsResult
  BY DEF Inv, IInv, Outcomes, ReaderGetsItsResult
<1>. QED  BY <1>1, InvariantHolds, PTL

\* Where one client reads, a stream that ends has been read in whole.
THEOREM EndsAreComplete ==
    ASSUME OneReader
    PROVE  Spec => []EndIsComplete
<1>1. Inv => EndIsComplete
  BY DEF Inv, IInv, Outcomes, EndIsComplete
<1>. QED  BY <1>1, InvariantHolds, PTL

\* Where one client reads, a query that CancelPendingQuery resets before it has a result fails:
\* no poll, under way or to come, is answered with its header.
THEOREM CanceledQueriesFail ==
    ASSUME OneReader
    PROVE  Spec => []CanceledNeverCompletes
<1>1. Inv => CanceledNeverCompletes
  BY DEF Inv, IInv, Outcomes, Typed, CanceledNeverCompletes
<1>. QED  BY <1>1, InvariantHolds, PTL

\* Where one client reads, the connection is at most one chunk ahead of the iterator.
THEOREM ReadAheadIsBounded ==
    ASSUME OneReader
    PROVE  Spec => []BoundedReadAhead
<1>1. Inv => BoundedReadAhead
  <2>. SUFFICES ASSUME Inv, NEW c \in Clients,
                       At(c) \in Reading, result.query = Query(c)
                PROVE  result.next - 1 <= Len(got[Query(c)]) + 1
    BY DEF BoundedReadAhead, At, Query, Reading
  <2>1. PICK r : IInv(r)
    BY DEF Inv
  <2>2. c = r
    BY <2>1 DEF IInv, Alone, Reading
  <2>3. Query(r) \in Queries /\ Query(r) # None
    BY <2>1, <2>2, StreamAssumption DEF IInv, Placed, StreamAssumption
  <2>4. Len(got[Query(r)]) \in Nat
    <3>1. got[Query(r)] \in Seq([query : Queries \cup {None}, index : Nat])
      BY <2>1, <2>3 DEF IInv, Typed
    <3>. QED  BY <3>1, SeqElements
  <2>5. \/ result.next = Len(got[Query(r)]) + 1
        \/ result.next = Len(got[Query(r)]) + 2
        \/ result = NoResult
    BY <2>1, <2>2 DEF IInv, Fetched
  <2>6. result # NoResult
    BY <2>2, <2>3 DEF NoResult
  <2>. QED  BY <2>2, <2>4, <2>5, <2>6
<1>. QED  BY <1>1, InvariantHolds, PTL

-------------------------------------------------------------------------------
(* Refinement *)

CursorStep == Cursors!Next \/ UNCHANGED <<outcome, got, canceled>>

LEMMA WorkerIsCursor ==
    ASSUME NEW r, IInv(r), NEW m, NEW v, WorkerStep(r, m, v)
    PROVE  CursorStep
<1>1. UNCHANGED <<outcome, got>>
  BY DEF WorkerStep
<1>2. CASE canceled' = canceled
  BY <1>1, <1>2 DEF CursorStep
<1>3. CASE executing # None /\ canceled' = canceled \cup {executing}
  <2>1. executing \in Queries /\ outcome[executing] = "sent"
    BY <1>3 DEF IInv, Executed, Placed
  <2>2. Cursors!Cancel(executing)
    BY <1>1, <1>3, <2>1 DEF Cursors!Cancel
  <2>. QED  BY <2>1, <2>2 DEF CursorStep, Cursors!Next
<1>4. canceled' = canceled \/ (executing # None /\ canceled' = canceled \cup {executing})
  <2>1. CASE Passes(r, m)
    BY <2>1 DEF Passes
  <2>2. CASE Answering(r, m, v)
    BY <2>2 DEF Answering
  <2>3. CASE Fetching(r, m, v)
    BY <2>3 DEF Fetching
  <2>. QED  BY <2>1, <2>2, <2>3 DEF WorkerStep
<1>. QED  BY <1>2, <1>3, <1>4

LEMMA StartsIsCursor ==
    ASSUME NEW r, IInv(r), At(r) \in Starting, canceled' = canceled,
           NEW v, Answers(r, v), Starts(r, v)
    PROVE  CursorStep
<1>. DEFINE q == Query(r)
<1>1. q \in Queries /\ outcome[q] = "sent"
  BY DEF IInv, Placed
<1>2. CASE Rejects(r)
  <2>1. outcome' = [outcome EXCEPT ![q] = "failed"] /\ got' = got
    BY <1>2 DEF Rejects, At, Query, Starting
  <2>2. Cursors!Fail(q)
    BY <1>1, <2>1 DEF Cursors!Fail, Cursors!Becomes
  <2>. QED  BY <1>1, <2>2 DEF CursorStep, Cursors!Next
<1>3. CASE v.what = "header" /\ Settles(q, "open") /\ got' = got
  <2>1. q \notin canceled
    BY <1>3 DEF Answers, AnswersIn
  <2>2. Cursors!Open(q)
    BY <1>1, <1>3, <2>1 DEF Cursors!Open, Cursors!Becomes, Settles
  <2>. QED  BY <1>1, <2>2 DEF CursorStep, Cursors!Next
<1>4. CASE UNCHANGED <<outcome, got>>
  BY <1>4 DEF CursorStep
<1>. QED  BY <1>2, <1>3, <1>4 DEF Starts, Query

LEMMA TakesIsCursor ==
    ASSUME StreamAssumption, NEW r, IInv(r), At(r) \in Reading, canceled' = canceled,
           NEW v, v \in Arrived(r), Takes(r, v)
    PROVE  CursorStep
<1>. DEFINE q == Query(r)
            n == Len(got[q])
<1>1. q \in Queries /\ outcome[q] = "open"
  BY DEF IInv, Placed
<1>2. got \in [Queries -> Seq([query : Queries \cup {None}, index : Nat])]
  BY DEF IInv, Typed
<1>3. /\ n <= Length[q]
      /\ \/ v.what \in {"null", "error"}
         \/ n < Length[q] /\ v = Chunk(q, n + 1)
         \/ n = Length[q] /\ v.what = "end"
  BY DEF IInv, Fetched
<1>4. CASE Rejects(r)
  <2>1. outcome' = [outcome EXCEPT ![q] = "failed"] /\ got' = got
    BY <1>4 DEF Rejects, At, Query, Reading
  <2>2. Cursors!Fail(q)
    BY <1>1, <2>1 DEF Cursors!Fail, Cursors!Becomes
  <2>. QED  BY <1>1, <2>2 DEF CursorStep, Cursors!Next
<1>5. CASE /\ v.what = "chunk" /\ outcome' = outcome
           /\ got' = [got EXCEPT ![q] = Append(@, [query |-> v.query, index |-> v.index])]
  <2>1. n < Length[q] /\ v = Chunk(q, n + 1)
    BY <1>3, <1>5
  <2>2. v.query = q /\ v.index = n + 1
    BY <2>1 DEF Chunk
  <2>3. got' = [got EXCEPT ![q] = Append(@, [query |-> q, index |-> Len(@) + 1])]
    BY <1>5, <2>2
  <2>4. Cursors!Deliver(q)
    BY <1>1, <1>5, <2>1, <2>3 DEF Cursors!Deliver
  <2>. QED  BY <1>1, <2>4 DEF CursorStep, Cursors!Next
<1>6. CASE v.what = "end" /\ Settles(q, "done") /\ got' = got
  <2>1. n = Length[q]
    BY <1>3, <1>6 DEF Chunk
  <2>2. Cursors!Finish(q)
    BY <1>1, <1>6, <2>1 DEF Cursors!Finish, Cursors!Becomes, Settles
  <2>. QED  BY <1>1, <2>2 DEF CursorStep, Cursors!Next
<1>7. CASE UNCHANGED <<outcome, got>>
  BY <1>7 DEF CursorStep
<1>. QED  BY <1>4, <1>5, <1>6, <1>7 DEF Takes, Query

LEMMA CallIsCursor ==
    ASSUME NEW r, IInv(r), NEW c \in Clients, CallNext(c)
    PROVE  CursorStep
<1>. DEFINE s == client[c].script
            call == Head(s)
<1>1. Typed /\ Alone(r) /\ s # <<>> /\ UNCHANGED <<got, canceled>>
  BY DEF IInv, CallNext
<1>2. s \in Seq(Call)
  BY <1>1 DEF Typed, ClientStates
<1>3. 1 \in DOMAIN s /\ call = s[1] /\ s[1] \in Call
  <2>1. Head(s) = s[1] /\ 1 \in DOMAIN s /\ s[1] \in Call
    BY ONLY <1>1, <1>2, SeqElements, TailElements
  <2>. QED  BY <2>1
<1>4. CASE Sends(call)
  <2>1. c = r
    BY <1>1, <1>3, <1>4 DEF Alone, ReadsAlone, Sends
  <2>2. call.query \in Queries
    BY <1>1, <1>3, <1>4, <2>1 DEF Alone, ReadsAlone, Call
  <2>3. outcome[call.query] = "none"
    BY <1>1, <1>3, <1>4, <2>1 DEF Alone
  <2>4. outcome' = [outcome EXCEPT ![call.query] = "sent"]
    BY <1>4 DEF CallNext, WaitsAt, Sends
  <2>5. Cursors!Send(call.query)
    BY <1>1, <2>3, <2>4 DEF Cursors!Send, Cursors!Becomes
  <2>. QED  BY <2>2, <2>5 DEF CursorStep, Cursors!Next
<1>5. CASE ~Sends(call)
  BY <1>1, <1>5 DEF CallNext, WaitsAt, Sends, CursorStep
<1>. QED  BY <1>4, <1>5

LEMMA ReplyIsCursor ==
    ASSUME StreamAssumption, NEW r, IInv(r), NEW c \in Clients, Receive(c)
    PROVE  CursorStep
<1>1. Typed /\ Alone(r) /\ canceled' = canceled /\ replies # <<>> /\ Head(replies).to.from = c
  BY DEF IInv, Receive
<1>2. Head(replies) = replies[1] /\ 1 \in DOMAIN replies
  <2>1. replies \in Seq([to : Request, value : Values])
    BY <1>1 DEF Typed
  <2>. QED  BY ONLY <1>1, <2>1, SeqElements, TailElements
<1>3. PICK v : v = replies[1].value
  OBVIOUS
<1>4. \/ At(c) \in Reading /\ Takes(c, v)
      \/ At(c) \in {"start", "poll"} /\ ~replies[1].to.ahead /\ Starts(c, v)
      \/ At(c) = "drop" /\ Starts(c, client[c].header)
      \/ UNCHANGED <<outcome, got>>
  <2>1. CASE replies[1].to.ahead
    BY <1>2, <1>3, <2>1 DEF Receive, AheadArrives, At, Reading, callers
  <2>2. CASE ~replies[1].to.ahead
    <3>1. At(c) = "answer" => UNCHANGED <<outcome, got>>
      BY <1>2, <2>2 DEF Receive, At, Rejects
    <3>2. At(c) # "answer" => \/ At(c) = "start" /\ StartAnswered(c, v)
                              \/ At(c) = "drop" /\ Starts(c, client[c].header)
                              \/ At(c) = "poll" /\ Starts(c, v)
                              \/ At(c) = "fetch" /\ Takes(c, v)
      BY <1>2, <1>3, <2>2 DEF Receive, At
    <3>3. StartAnswered(c, v) => Starts(c, v) \/ UNCHANGED <<outcome, got>>
      BY DEF StartAnswered
    <3>. QED  BY <2>2, <3>1, <3>2, <3>3 DEF Reading
  <2>. QED  BY <2>1, <2>2
<1>5. CASE UNCHANGED <<outcome, got>>
  BY <1>1, <1>5 DEF CursorStep
<1>6. CASE c # r
  BY <1>1, <1>4, <1>5, <1>6 DEF Alone, Reading
<1>7. CASE c = r
  <2>1. CASE At(c) \in Reading /\ Takes(c, v)
    <3>1. v \in Arrived(r)
      BY <1>1, <1>2, <1>3, <1>7 DEF Arrived
    <3>. QED  BY <1>1, <1>7, <2>1, <3>1, TakesIsCursor
  <2>2. CASE At(c) \in {"start", "poll"} /\ ~replies[1].to.ahead /\ Starts(c, v)
    <3>1. Answers(r, v)
      BY <1>1, <1>2, <1>3, <1>7, <2>2 DEF IInv, Answered
    <3>. QED  BY <1>1, <1>7, <2>2, <3>1, StartsIsCursor DEF Starting
  <2>3. CASE At(c) = "drop" /\ Starts(c, client[c].header)
    <3>1. PICK h : h = client[c].header
      OBVIOUS
    <3>2. Answers(r, h) /\ Starts(r, h)
      BY <1>7, <2>3, <3>1 DEF IInv, Answered
    <3>. QED  BY <1>1, <1>7, <2>3, <3>2, StartsIsCursor DEF Starting
  <2>. QED  BY <1>4, <1>5, <2>1, <2>2, <2>3
<1>. QED  BY <1>6, <1>7

LEMMA NextBufferIsCursor ==
    ASSUME StreamAssumption, NEW r, IInv(r), NEW c \in Clients, NextBuffer(c)
    PROVE  CursorStep
<1>1. At(c) = "reading" /\ canceled' = canceled
  BY DEF NextBuffer, At
<1>2. c = r
  BY <1>1 DEF IInv, Alone
<1>3. CASE Ahead(r).what \notin {"none", "posted"} /\ Takes(r, Ahead(r))
  <2>1. PICK v : v = Ahead(r)
    OBVIOUS
  <2>2. v \in Arrived(r) /\ Takes(r, v) /\ At(r) \in Reading
    BY <1>1, <1>2, <1>3, <2>1 DEF Arrived, Reading
  <2>. QED  BY <1>1, <2>2, TakesIsCursor
<1>4. CASE UNCHANGED <<outcome, got>>
  BY <1>1, <1>4 DEF CursorStep
<1>. QED  BY <1>2, <1>3, <1>4 DEF NextBuffer, Ahead

\* Where one client reads, what the callers see of a connection is a set of cursors: every step
\* of the connection is a step of ResultCursors or changes nothing there.
THEOREM StreamImplementsCursors ==
    ASSUME OneReader
    PROVE  Spec => ImplementsCursors
<1>1. Init => Cursors!Init
  BY DEF Init, Cursors!Init
<1>2. Inv /\ [Next]_vars => [Cursors!Next]_<<outcome, got, canceled>>
  <2>. SUFFICES ASSUME Inv, [Next]_vars
                PROVE  CursorStep
    BY DEF CursorStep
  <2>1. PICK r : IInv(r)
    BY DEF Inv
  <2>2. CASE Serve
    <3>1. PICK m, v : WorkerStep(r, m, v)
      BY <2>1, <2>2, StreamAssumption, ServeIsStep
    <3>. QED  BY <2>1, <3>1, WorkerIsCursor
  <2>3. CASE \E c \in Clients : CallNext(c)
    BY <2>1, <2>3, CallIsCursor
  <2>4. CASE \E c \in Clients : NextBuffer(c)
    BY <2>1, <2>4, StreamAssumption, NextBufferIsCursor
  <2>5. CASE \E c \in Clients : Receive(c)
    BY <2>1, <2>5, StreamAssumption, ReplyIsCursor
  <2>6. CASE \E c \in Clients : Abandon(c)
    BY <2>6 DEF Abandon, CursorStep
  <2>7. CASE UNCHANGED vars
    BY <2>7 DEF vars, CursorStep
  <2>. QED  BY <2>2, <2>3, <2>4, <2>5, <2>6, <2>7 DEF Next, Finished
<1>. QED  BY <1>1, <1>2, InvariantHolds, PTL DEF Spec, ImplementsCursors, Cursors!Spec
===============================================================================
