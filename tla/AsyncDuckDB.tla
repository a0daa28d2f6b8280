----------------------------- MODULE AsyncDuckDB -----------------------------
(***************************************************************************)
(* A database in a web worker: the client's AsyncDuckDB of                 *)
(* parallel/async_bindings.ts, the two message channels, the dispatcher of *)
(* parallel/worker_dispatcher.ts, and the OPFS access handles that the     *)
(* dispatcher, the bindings and the browser runtime keep for the files of  *)
(* a database and of its queries (under packages/duckdb-wasm/src).         *)
(*                                                                         *)
(* A step is one event handler with the microtasks it resolves.  On the    *)
(* client that is a call of the API, or a reply with the continuation of   *)
(* the async function that awaits it.  In the worker it is a request up to *)
(* its answer or its first suspending await, or the end of such an await.  *)
(*                                                                         *)
(* The database itself is DuckDB: all that shows of it is which requests   *)
(* changed it (database), which file it has open (opened), which files are *)
(* registered with it (pinned), and that a request may fail.               *)
(***************************************************************************)
EXTENDS Integers, Sequences, FiniteSets

CONSTANTS Callers,     \* the async functions that use the API concurrently
          Scripts,     \* the API calls of each caller, in order: functions from Callers
          Files,       \* names of OPFS files
          Stored,      \* the files that exist and are not empty at first
          WalOf,       \* the write ahead log of each file that may be a database
          MaxMessages, \* bound: more requests than the scripts can post
          MayFail,     \* the requests that may fail for reasons of their own
          Teardown,    \* may the client terminate, detach or see an error event?
          None

ASSUME ScriptAssumption ==
    /\ MaxMessages \in Nat
    /\ Stored \subseteq Files
    /\ \A f \in DOMAIN WalOf : f \in Files /\ WalOf[f] \in Files \ {f}
    /\ Teardown \in BOOLEAN
    /\ None \notin Files \cup (0 .. MaxMessages - 1)

Ids == 0 .. MaxMessages - 1

\* A configuration: where the database is (None: in memory), and whether files
\* are registered automatically for the queries that name them.
Configs == [path : DOMAIN WalOf \cup {None}, auto : BOOLEAN]

NoConfig == [path |-> None, auto |-> FALSE]

\* "other" stands for every request that is one synchronous call of the bindings.
Kinds == {"ping", "instantiate", "open", "reset", "registerOPFSFileName",
          "registerFileHandle", "dropFiles", "runQuery", "other"}

\* A request names files (those it registers, drops or reads, in order) and the
\* files it writes.  The requests that register files register one.
Request == {r \in [kind : Kinds, config : Configs, files : Seq(Files), writes : SUBSET Files] :
              r.kind \in {"registerOPFSFileName", "registerFileHandle"} => Len(r.files) = 1}

ASSUME RequestAssumption == Scripts \subseteq [Callers -> Seq(Request)]

\* The callers of a program instantiate the database once between them: the worker
\* refuses a second instantiate and starts it all the same, and so answers it twice.
InstantiateOnce ==
    \A s \in Scripts : \A c, d \in Callers : \A i \in DOMAIN s[c], j \in DOMAIN s[d] :
        s[c][i].kind = "instantiate" /\ s[d][j].kind = "instantiate" => c = d /\ i = j

NoRequest == [kind |-> "none", config |-> NoConfig, files |-> <<>>, writes |-> {}]

Rq(kind, files) == [NoRequest EXCEPT !.kind = kind, !.files = files]

Replies == [to : Ids, type : {"OK", "RESULT", "ERROR"}]

\* Where an async function on the client stands.
Awaits == {"start", "request", "register", "run", "drop"}

\* Where a handler in the worker stands that is suspended in an await.
Stages == {"none", "instantiate", "root", "acquire", "convert"}

NoHandler == [at |-> "none", inst |-> None, todo |-> <<>>, fresh |-> {}]

VARIABLES
    \* the client
    worker,          \* _worker is set
    listening,       \* the event handlers are installed
    nextMessageId,
    pendingRequests,
    promise,         \* promise[m]: how the promise of request m settled
    config,          \* _config
    caller,          \* caller[c]: its calls to come, where it stands, what it waits for
    \* between client and worker
    task,            \* task[m]: request m as it was posted
    requests,        \* the requests the worker has yet to take
    replies,         \* the replies the client has yet to see
    failed,          \* an error event has made the client forget its requests
    \* the worker
    alive,
    bindings,        \* _bindings: the request that instantiated them
    handler,         \* handler[m]: where the suspended handler of m stands
    root,            \* _opfsRoot is known
    files,           \* _files: the files with a registered access handle
    prepared,        \* _preparedHandles
    stored,          \* the OPFS files that are not empty
    pinned,          \* pinned_web_files_ of the database
    opened,          \* the configuration the database was opened with
    database,        \* the requests that made the database what it is
    answered         \* answered[m]: the worker's answer to m, for the abstract specification

client  == <<worker, listening, config, failed>>
calls   == <<nextMessageId, pendingRequests, promise, caller, task>>
handles == <<root, files, prepared, stored, pinned>>
engine      == <<bindings, opened, database>>

vars == <<worker, listening, nextMessageId, pendingRequests, promise, config, caller,
          task, requests, replies, failed, alive, bindings, handler, root, files,
          prepared, stored, pinned, opened, database, answered>>

Idle(script) == [script |-> script, at |-> "start", mid |-> None, todo |-> <<>>, mine |-> <<>>]

Init ==
    /\ worker = TRUE /\ listening = TRUE /\ failed = FALSE
    /\ nextMessageId = 0
    /\ pendingRequests = {}
    /\ promise = [m \in Ids |-> "none"]
    /\ config = NoConfig
    /\ \E s \in Scripts : caller = [c \in Callers |-> Idle(s[c])]
    /\ task = [m \in Ids |-> NoRequest]
    /\ requests = <<>> /\ replies = <<>>
    /\ alive = TRUE
    /\ bindings = None
    /\ handler = [m \in Ids |-> NoHandler]
    /\ root = FALSE
    /\ files = {} /\ prepared = {} /\ pinned = {}
    /\ stored = Stored
    /\ opened = NoConfig
    /\ database = <<>>
    /\ answered = [m \in Ids |-> "none"]

Named(r) == {r.files[i] : i \in DOMAIN r.files}

-------------------------------------------------------------------------------
(* The client *)

\* The call c is in.
CallOf(c) == Head(caller[c].script)

\* shouldOPFSFileHandling
ShouldOPFSFileHandling == config.path # None /\ config.auto

\* The call of c returns; kept are the requests that stay pending.
Return(c, kept) ==
    /\ caller' = [caller EXCEPT ![c] = Idle(Tail(@.script))]
    /\ pendingRequests' = kept
    /\ UNCHANGED <<nextMessageId, task, requests>>

\* c posts r and awaits the answer as s says.  Without a worker, postTask answers
\* undefined at once, and so do all the requests c would still make in this call.
PostTask(c, kept, r, s) ==
    \/ /\ worker
       /\ nextMessageId < MaxMessages  \* bound
       /\ nextMessageId' = nextMessageId + 1
       /\ pendingRequests' = kept \cup {nextMessageId}
       /\ task' = [task EXCEPT ![nextMessageId] = r]
       /\ requests' = Append(requests, nextMessageId)
       /\ caller' = [caller EXCEPT ![c] = [s EXCEPT !.mid = nextMessageId]]
    \/ ~worker /\ Return(c, kept)

\* Requests made under automatic file handling are marked as such.
RegisterNext(c, kept, s) ==
    PostTask(c, kept, [Rq("registerOPFSFileName", <<Head(s.todo)>>) EXCEPT !.config.auto = TRUE],
             [s EXCEPT !.at = "register"])

RunQuery(c, kept, s) ==
    PostTask(c, kept, [CallOf(c) EXCEPT !.config.auto = s.at = "register"], [s EXCEPT !.at = "run"])

\* Every call but a query posts one request and awaits its answer.  open sets the
\* client's configuration before it posts.
MakeRequest(c) ==
    /\ CallOf(c).kind # "runQuery"
    /\ PostTask(c, pendingRequests, CallOf(c), [caller[c] EXCEPT !.at = "request"])
    /\ config' = IF CallOf(c).kind = "open" THEN CallOf(c).config ELSE config

\* A caller makes its next call.  A query under automatic file handling first
\* registers the files it names.
Call(c) ==
    /\ caller[c].at = "start" /\ caller[c].script # <<>>
    /\ LET r == CallOf(c)
           s == caller[c]
       IN \/ /\ r.kind = "runQuery" /\ ShouldOPFSFileHandling /\ r.files # <<>>
             /\ RegisterNext(c, pendingRequests, [s EXCEPT !.todo = r.files])
             /\ UNCHANGED config
          \/ /\ r.kind = "runQuery" /\ (~ShouldOPFSFileHandling \/ r.files = <<>>)
             /\ RunQuery(c, pendingRequests, s)
             /\ UNCHANGED config
          \/ MakeRequest(c)
    /\ UNCHANGED <<worker, listening, failed, promise, replies, alive, handler, answered, handles, engine>>

\* The async function of c goes on when the promise it awaits has settled.
Continue(c, kept, status) ==
    LET s == caller[c] IN
    \/ /\ s.at = "register" /\ status = "ok" /\ Tail(s.todo) # <<>>
       /\ RegisterNext(c, kept, [s EXCEPT !.todo = Tail(@), !.mine = Append(@, Head(s.todo))])
    \/ /\ s.at = "register" /\ status = "ok" /\ Tail(s.todo) = <<>>
       /\ RunQuery(c, kept, [s EXCEPT !.todo = <<>>, !.mine = Append(@, Head(s.todo))])
    \/ /\ s.at = "run" /\ s.mine # <<>>  \* finally
       /\ PostTask(c, kept, Rq("dropFiles", s.mine), [s EXCEPT !.at = "drop"])
    \/ /\ \/ s.at \in {"request", "drop"}
          \/ s.at = "run" /\ s.mine = <<>>
          \/ s.at = "register" /\ status = "error"
       /\ Return(c, kept)

\* The type of a successful answer, as the dispatcher sends it ...
ReplyType(kind) == IF kind \in {"runQuery", "other"} THEN "RESULT" ELSE "OK"

\* Mutant: the client's switch expects OK for every request.
ExpectedOK(kind) == "OK"

\* ... and as the client expects it.
Expected(kind) == IF kind \in {"runQuery", "other"} THEN "RESULT" ELSE "OK"

Settlement(reply) ==
    IF reply.type = Expected(task[reply.to].kind) THEN "ok" ELSE "error"

\* A reply settles the promise of its request, and the caller goes on.
OnMessage ==
    /\ listening /\ replies # <<>>
    /\ replies' = Tail(replies)
    /\ LET reply == Head(replies) IN
       /\ reply.to \in pendingRequests
       /\ promise' = [promise EXCEPT ![reply.to] = Settlement(reply)]
       /\ \E c \in Callers : /\ caller[c].mid = reply.to
                             /\ Continue(c, pendingRequests \ {reply.to}, Settlement(reply))
    /\ UNCHANGED <<client, alive, handler, answered, handles, engine>>

\* A reply to a request the client does not know, or knows no longer.
UnassociatedResponse ==
    /\ listening /\ replies # <<>>
    /\ Head(replies).to \notin pendingRequests
    /\ replies' = Tail(replies)
    /\ UNCHANGED <<client, calls, requests, alive, handler, answered, handles, engine>>

\* The replies that were under way when the worker was killed may still arrive.
Terminate ==
    /\ Teardown /\ worker
    /\ worker' = FALSE /\ alive' = FALSE
    /\ requests' = <<>>
    /\ replies' \in {replies, <<>>}
    /\ UNCHANGED <<listening, config, failed, calls, handler, answered, handles, engine>>

\* The worker goes on, unheard.
Detach ==
    /\ Teardown /\ worker
    /\ worker' = FALSE /\ listening' = FALSE
    /\ UNCHANGED <<config, failed, calls, requests, replies, alive, handler, answered, handles, engine>>

\* An error event forgets all pending requests: their promises never settle.
OnError ==
    /\ Teardown /\ listening /\ ~failed
    /\ failed' = TRUE
    /\ pendingRequests' = {}
    /\ UNCHANGED <<worker, listening, config, nextMessageId, promise, caller, task,
                   requests, replies, alive, handler, answered, handles, engine>>

-------------------------------------------------------------------------------
(* The worker *)

\* The worker answers request m: "ok", "error", or "missing", the error of a query
\* one of whose files is not registered.
Answer(m, how) ==
    /\ replies' = Append(replies, [to |-> m, type |-> IF how = "ok" THEN ReplyType(task[m].kind)
                                                                    ELSE "ERROR"])
    /\ answered' = [answered EXCEPT ![m] = how]

Fails(m) == task[m].kind \in MayFail

DatabaseFiles(c) == IF c.path = None THEN {} ELSE {c.path, WalOf[c.path]}

\* The files DuckDB has open.
InUse == IF opened.path = None THEN {} ELSE {opened.path}

\* A file for which an access handle is open cannot get another one.
Locked == files \cup prepared

\* The worker takes the next request, which is of one of these kinds.
Take(kinds) ==
    /\ alive /\ requests # <<>>
    /\ task[Head(requests)].kind \in kinds
    /\ requests' = Tail(requests)

Ping ==
    /\ Take({"ping"})
    /\ Answer(Head(requests), "ok")
    /\ UNCHANGED <<client, calls, alive, handler, handles, engine>>

\* A second instantiate is refused and starts all the same.
Instantiate ==
    /\ Take({"instantiate"})
    /\ LET m == Head(requests) IN
       /\ handler' = [handler EXCEPT ![m] = [NoHandler EXCEPT !.at = "instantiate"]]
       /\ \/ bindings # None /\ Answer(m, "error")
          \/ bindings = None /\ UNCHANGED <<replies, answered>>
    /\ UNCHANGED <<client, calls, alive, handles, engine>>

\* The module is there, with a database of its own, or could not be had.
Instantiated(m) ==
    /\ alive /\ handler[m].at = "instantiate"
    /\ handler' = [handler EXCEPT ![m] = NoHandler]
    /\ \/ /\ Answer(m, "ok")
          /\ bindings' = m /\ database' = <<m>>
       \/ /\ Fails(m)
          /\ Answer(m, "error")
          /\ bindings' = None /\ database' = <<>>
    /\ opened' = NoConfig /\ pinned' = {}
    /\ UNCHANGED <<client, calls, requests, alive, root, files, prepared, stored>>

NotInitialized ==
    /\ Take(Kinds \ {"ping", "instantiate"})
    /\ bindings = None
    /\ Answer(Head(requests), "error")
    /\ UNCHANGED <<client, calls, alive, handler, handles, engine>>

\* Mutant: a request gives way to those that wait behind it.
OtherGivesWay ==
    /\ alive /\ requests # <<>> /\ task[Head(requests)].kind = "other" /\ bindings # None
    /\ \/ /\ Len(requests) > 1
          /\ requests' = Append(Tail(requests), Head(requests))
          /\ UNCHANGED <<replies, answered, database>>
       \/ /\ Len(requests) = 1
          /\ requests' = <<>>
          /\ Answer(Head(requests), "ok")
          /\ database' = Append(database, Head(requests))
    /\ UNCHANGED <<client, calls, alive, handler, handles, bindings, opened>>

\* Mutant: a request fails after it has changed the database.
OtherFailsLate ==
    /\ Take({"other"})
    /\ bindings # None
    /\ \E how \in {"ok", "error"} : Answer(Head(requests), how)
    /\ database' = Append(database, Head(requests))
    /\ UNCHANGED <<client, calls, alive, handler, handles, bindings, opened>>

\* A bound synchronous request with no effect that shows here, or the query of a
\* connection that is not modelled: DuckDB may fail it.
Other ==
    /\ Take({"other"})
    /\ bindings # None
    /\ LET m == Head(requests) IN
       \/ Answer(m, "ok") /\ database' = Append(database, m)
       \/ Fails(m) /\ Answer(m, "error") /\ UNCHANGED database
    /\ UNCHANGED <<client, calls, alive, handler, handles, bindings, opened>>

\* reset opens an empty database in memory.
Reset ==
    /\ Take({"reset"})
    /\ bindings # None
    /\ Answer(Head(requests), "ok")
    /\ opened' = NoConfig
    /\ database' = <<Head(requests)>>
    /\ UNCHANGED <<client, calls, alive, handler, handles, bindings>>

\* A file is found for reading if it has a registered access handle.  A file that is
\* written needs an access handle, and moves from the prepared to the registered ones.
Query ==
    /\ Take({"runQuery"})
    /\ bindings # None
    /\ LET m     == Head(requests)
           r     == task[m]
           found == Named(r) \ r.writes \subseteq files /\ r.writes \subseteq Locked
       IN \/ /\ found
             /\ Answer(m, "ok")
             /\ database' = Append(database, m)
             /\ files' = files \cup r.writes
             /\ prepared' = prepared \ r.writes
             /\ stored' = stored \cup r.writes
          \/ /\ ~found
             /\ Answer(m, "missing")
             /\ UNCHANGED <<database, files, prepared, stored>>
          \/ /\ Fails(m)
             /\ Answer(m, "error")
             /\ UNCHANGED <<database, files, prepared, stored>>
    /\ UNCHANGED <<client, calls, alive, handler, root, pinned, bindings, opened>>

\* Mutant: the handles are closed and the files stay pinned.
DropHandlesOnly ==
    /\ Take({"dropFiles"})
    /\ bindings # None
    /\ LET r == task[Head(requests)] IN
       /\ r.files # <<>>
       /\ files' = files \ (Named(r) \ InUse)
    /\ Answer(Head(requests), "ok")
    /\ UNCHANGED <<client, calls, alive, handler, root, prepared, stored, pinned, engine>>

\* Mutant: the names get lost, and dropFiles drops everything.
DropEverything ==
    /\ Take({"dropFiles"})
    /\ bindings # None
    /\ pinned' = pinned \cap InUse
    /\ files' = files \ (pinned \ InUse)
    /\ Answer(Head(requests), "ok")
    /\ UNCHANGED <<client, calls, alive, handler, root, prepared, stored, engine>>

\* Mutant: dropFiles returns after the first name.
DropFirstName ==
    /\ Take({"dropFiles"})
    /\ bindings # None
    /\ LET r == task[Head(requests)] IN
       /\ r.files # <<>>
       /\ pinned' = pinned \ {r.files[1]}
       /\ files' = files \ ({r.files[1]} \ InUse)
    /\ Answer(Head(requests), "ok")
    /\ UNCHANGED <<client, calls, alive, handler, root, prepared, stored, engine>>

\* dropFiles with names: each is unpinned, and its handle closed unless DuckDB has
\* the file open.  The answer is that of the last name.
DropNamed ==
    /\ Take({"dropFiles"})
    /\ bindings # None
    /\ LET m == Head(requests)
           r == task[m]
       IN /\ r.files # <<>>
          /\ pinned' = pinned \ Named(r)
          /\ files' = files \ (Named(r) \ InUse)
          /\ Answer(m, IF r.files[Len(r.files)] \in InUse THEN "error" ELSE "ok")
    /\ UNCHANGED <<client, calls, alive, handler, root, prepared, stored, engine>>

\* dropFiles without names: all pinned files, up to the first that is in use.
DropAll ==
    /\ Take({"dropFiles"})
    /\ bindings # None
    /\ task[Head(requests)].files = <<>>
    /\ \/ /\ pinned \cap InUse = {}
          /\ pinned' = {}
          /\ files' = files \ pinned
          /\ Answer(Head(requests), "ok")
       \/ \E f \in pinned \cap InUse, gone \in SUBSET (pinned \ InUse) :
             /\ pinned' = pinned \ (gone \cup {f})
             /\ files' = files \ gone
             /\ Answer(Head(requests), "error")
    /\ UNCHANGED <<client, calls, alive, handler, root, prepared, stored, engine>>

-------------------------------------------------------------------------------
(* Handlers that prepare access handles *)

\* The files of todo that still need a handle, from the first that has none.
Skip(todo) ==
    LET n == CHOOSE n \in 0 .. Len(todo) : /\ \A i \in 1 .. n : todo[i] \in files
                                           /\ n = Len(todo) \/ todo[n + 1] \notin files
    IN SubSeq(todo, n + 1, Len(todo))

Suspend(m, at, todo, fresh) ==
    /\ handler' = [handler EXCEPT ![m] =
           [at |-> at, inst |-> IF @.at = "none" THEN bindings ELSE @.inst,
            todo |-> todo, fresh |-> fresh]]
    /\ UNCHANGED <<replies, answered, files, pinned, engine>>

\* Mutant: the handler stays after its answer.
FinishLater(m) == UNCHANGED handler

Finish(m) == handler' = [handler EXCEPT ![m] = NoHandler]

\* Mutant: an exception after an await is not caught.
RefuseSilently(m) ==
    /\ Finish(m)
    /\ UNCHANGED <<replies, answered, files, pinned, engine>>

Refuse(m) ==
    /\ Finish(m)
    /\ Answer(m, "error")
    /\ UNCHANGED <<files, pinned, engine>>

\* registerFileHandle, with the bindings that the handler was started with.
Register(m, S) == pinned' = IF handler[m].inst = bindings THEN pinned \cup S ELSE pinned

\* Mutant: a handle that was found or made before an await is taken to be there after it.
OpenUnchecked(m, reg, prep) ==
    LET c     == task[m].config
        names == DatabaseFiles(c)
    IN \/ /\ bindings # None
          /\ files' = reg \cup (prep \cap names)
          /\ prepared' = prep \ names
          /\ opened' = c
          /\ database' = <<m>>
          /\ Answer(m, "ok")
          /\ UNCHANGED bindings
       \/ /\ Fails(m) \/ bindings = None
          /\ files' = reg /\ prepared' = prep
          /\ Answer(m, "error")
          /\ UNCHANGED engine

\* DuckDB opens the database of request m with the handles in reg and prep.
OpenDatabase(m, reg, prep) ==
    LET c     == task[m].config
        names == DatabaseFiles(c)
    IN \/ /\ bindings # None /\ (c.path # None => c.path \in reg \cup prep)
          /\ files' = reg \cup (prep \cap names)
          /\ prepared' = prep \ names
          /\ opened' = c
          /\ database' = <<m>>
          /\ Answer(m, "ok")
          /\ UNCHANGED bindings
       \/ /\ Fails(m) \/ bindings = None \/ (c.path # None /\ c.path \notin reg \cup prep)
          /\ files' = reg /\ prepared' = prep
          /\ Answer(m, "error")
          /\ UNCHANGED engine

\* All files of m have handles: those that are new and not empty are registered.
Prepared(m, fresh, prep) ==
    LET full == fresh \cap stored IN
    /\ Finish(m)
    /\ Register(m, full)
    /\ \/ /\ task[m].kind = "open"
          /\ OpenDatabase(m, files \cup full, prep \ full)
       \/ /\ task[m].kind = "registerOPFSFileName"
          /\ files' = files \cup full
          /\ prepared' = prep \ full
          /\ Answer(m, "ok")
          /\ UNCHANGED engine

\* prepareFileHandles goes on with todo; prep are the prepared handles by now.  A
\* handle that another request has closed since makes the handler fail.
Prepare(m, todo, fresh, prep) ==
    \/ /\ Skip(todo) # <<>>
       /\ Suspend(m, "acquire", Skip(todo), fresh)
       /\ prepared' = prep
    \/ /\ Skip(todo) = <<>> /\ fresh \subseteq files \cup prep
       /\ Prepared(m, fresh, prep)
    \/ /\ Skip(todo) = <<>> /\ ~(fresh \subseteq files \cup prep)
       /\ Refuse(m)
       /\ prepared' = prep

FilesToPrepare(r) ==
    IF r.kind = "open" THEN <<r.config.path, WalOf[r.config.path]>> ELSE r.files

\* Only a database in OPFS is prepared.  The first handler looks for the OPFS root.
StartPrepare ==
    /\ Take({"open", "registerOPFSFileName"})
    /\ bindings # None
    /\ LET m == Head(requests)
           r == task[m]
       IN \/ /\ r.kind = "open" /\ r.config.path = None
             /\ OpenDatabase(m, files, prepared)
             /\ UNCHANGED <<handler, pinned>>
          \/ /\ r.kind = "open" => r.config.path # None
             /\ ~root
             /\ Suspend(m, "root", FilesToPrepare(r), {})
             /\ UNCHANGED prepared
          \/ /\ r.kind = "open" => r.config.path # None
             /\ root
             /\ Prepare(m, FilesToPrepare(r), {}, prepared)
    /\ UNCHANGED <<client, calls, alive, root, stored>>

AssignOPFSRoot(m) ==
    /\ alive /\ handler[m].at = "root"
    /\ root' = TRUE
    /\ Prepare(m, handler[m].todo, {}, prepared)
    /\ UNCHANGED <<client, calls, requests, alive, stored>>

\* createSyncAccessHandle has ended for the next file.
Acquire(m) ==
    /\ alive /\ handler[m].at = "acquire"
    /\ LET h == handler[m]
           f == Head(h.todo)
       IN \/ /\ f \notin Locked
             /\ Prepare(m, Tail(h.todo), h.fresh \cup {f}, prepared \cup {f})
          \/ /\ f \in Locked \/ Fails(m)
             /\ Refuse(m)
             /\ UNCHANGED prepared
    /\ UNCHANGED <<client, calls, requests, alive, root, stored>>

\* registerFileHandle makes an access handle of the file handle it is given ...
StartConvert ==
    /\ Take({"registerFileHandle"})
    /\ bindings # None
    /\ Suspend(Head(requests), "convert", task[Head(requests)].files, {})
    /\ UNCHANGED <<client, calls, alive, root, prepared, stored>>

\* ... and registers it, empty or not.
Convert(m) ==
    /\ alive /\ handler[m].at = "convert"
    /\ LET f == Head(handler[m].todo) IN
       \/ /\ f \notin Locked
          /\ Finish(m)
          /\ Register(m, {f})
          /\ files' = files \cup {f}
          /\ Answer(m, "ok")
          /\ UNCHANGED engine
       \/ /\ f \in Locked
          /\ Refuse(m)
    /\ UNCHANGED <<client, calls, requests, alive, root, prepared, stored>>

-------------------------------------------------------------------------------
(* The specification *)

Serve == \/ Ping \/ Instantiate \/ NotInitialized \/ Other \/ Reset \/ Query
         \/ DropNamed \/ DropAll \/ StartPrepare \/ StartConvert

Resume(m) == Instantiated(m) \/ AssignOPFSRoot(m) \/ Acquire(m) \/ Convert(m)

Next == \/ \E c \in Callers : Call(c)
        \/ OnMessage \/ UnassociatedResponse
        \/ Terminate \/ Detach \/ OnError
        \/ Serve
        \/ \E m \in Ids : Resume(m)

Spec == Init /\ [][Next]_vars

\* The program makes its calls; events are delivered and awaits end.
Fairness ==
    /\ \A c \in Callers : WF_vars(Call(c))
    /\ WF_vars(OnMessage \/ UnassociatedResponse)
    /\ WF_vars(Serve)
    /\ \A m \in Ids : WF_vars(Resume(m))

FairSpec == Spec /\ Fairness

-------------------------------------------------------------------------------
(* Properties *)

\* The database in the worker serves requests as RequestServer promises: each takes
\* effect once, atomically, before its promise settles with its own answer, and a
\* refused request changes nothing, whatever handlers are suspended meanwhile.
Server == INSTANCE RequestServer WITH
    posted   <- 0 .. nextMessageId - 1,
    answer   <- [m \in Ids |-> IF answered[m] = "missing" THEN "error" ELSE answered[m]],
    settled  <- promise

ImplementsRequestServer == Server!Spec

\* The answer that the client still owes to a pending request is under way exactly
\* once: as a request, in a suspended handler, or as a reply.  No path through the
\* dispatcher forgets to answer, and none answers twice.
UnderWay(m) ==
    Cardinality({i \in DOMAIN requests : requests[i] = m})
    + (IF handler[m].at # "none" THEN 1 ELSE 0)
    + Cardinality({i \in DOMAIN replies : replies[i].to = m})

OneAnswerUnderWay ==
    /\ \A m \in Ids : UnderWay(m) <= 1
    /\ alive => \A m \in pendingRequests : UnderWay(m) = 1

\* Synchronous requests are answered in the order they were posted, even if others
\* are suspended in between; only those that await may be overtaken.
Synchronous == Kinds \ {"instantiate", "open", "registerOPFSFileName", "registerFileHandle"}

SynchronousInOrder ==
    \A m, n \in Ids :
        /\ m < n /\ n < nextMessageId
        /\ task[m].kind \in Synchronous /\ task[n].kind \in Synchronous
        /\ answered[n] # "none"
        => answered[m] # "none"

\* A promise that was rejected belongs to a request that has not changed the database.
RefusedHasNoEffect ==
    \A m \in Ids : promise[m] = "error" => \A i \in DOMAIN database : database[i] # m

\* A registered file has an access handle, and no file has two: what _files,
\* _preparedHandles and the pinned files say agrees over all interleavings of
\* handlers that prepare, register, drop and write the same files.
HandlesAgree == pinned \subseteq files /\ files \cap prepared = {}

\* The file of the open database keeps its access handle for as long as DuckDB has it
\* open: whatever callers register, drop or reset, whichever open replaces which, and
\* even if the handle that an open has found is closed while it awaits the next one.
DatabaseKeepsItsFile == opened.path # None => opened.path \in files

\* A query for which files are registered automatically finds them registered.
QueriesFindTheirFiles ==
    \A m \in Ids : task[m].kind = "runQuery" /\ task[m].config.auto => answered[m] # "missing"

\* It does in a program where such a query names files that exist, or that it writes, and
\* where what other callers query or drop are other files.  A dropFiles without names
\* drops those of every caller.
OpensAutomatically(r) == r.kind = "open" /\ r.config.path # None /\ r.config.auto

KeepApart(program) ==
    \A c \in Callers : \A r \in program[c] :
        /\ r.kind = "runQuery" =>
             /\ r.writes \subseteq Named(r) /\ Named(r) \ r.writes \subseteq Stored
             /\ \A d \in Callers \ {c} : \A q \in program[d] :
                  q.kind \in {"runQuery", "dropFiles"} => Named(r) \cap Named(q) = {}
        /\ r.kind = "dropFiles" => r.files # <<>>

CallsOf(script) == {script[i] : i \in DOMAIN script}

QueriesKeepApart ==
    \A s \in Scripts : LET program == [c \in Callers |-> CallsOf(s[c])] IN
        (\E c \in Callers : \E r \in program[c] : OpensAutomatically(r)) => KeepApart(program)

Opens == {m \in Ids : task[m].kind = "open"}

\* The access handles that callers have asked for themselves.
Kept == UNION {DatabaseFiles(task[m].config) : m \in Opens}
        \cup UNION {Named(task[m]) : m \in {n \in Ids :
                 /\ task[n].kind \in {"registerOPFSFileName", "registerFileHandle"}
                 /\ ~task[n].config.auto}}

AtRest == worker /\ \A c \in Callers : caller[c].at \notin {"register", "run", "drop"}

\* When no query is under way, automatic file handling has closed every file that
\* held data before; a file that was empty stays open if the query did not write it.
StoredFilesAreDropped == AtRest /\ ~failed => Locked \cap Stored \subseteq Kept

\* Every call of the API returns, unless the worker has been given up.
AllCallsReturn ==
    \A c \in Callers : caller[c].mid # None ~> caller[c].mid = None \/ ~worker \/ failed
=============================================================================
