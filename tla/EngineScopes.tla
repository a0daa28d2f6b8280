---------------------------- MODULE EngineScopes ----------------------------
(***************************************************************************)
(* The JavaScript scopes one engine runs in.  The build with threads (coi) *)
(* has a main scope and one worker per pthread, each with its own copy of  *)
(* the runtime and of the HTTP options, all over one memory; the main      *)
(* scope tells the workers by messages what changes.  The builds without   *)
(* threads (eh, blocking) have the main scope alone, and their synchronous *)
(* bindings let user functions be called from the engine.                  *)
(*                                                                         *)
(* http_options.ts, targets/duckdb-browser-coi.pthread.worker.ts, the      *)
(* parts of bindings_base.ts that talk to pthreads, freshHeapBuffer of     *)
(* runtime.ts.  Emscripten's pool of workers is outside the repository and *)
(* modelled as this code uses it: a worker is spawned with a `load'        *)
(* message, a thread is started by a `run' message and keeps its worker    *)
(* from its event loop until it ends, and the main scope hears of the end  *)
(* later.                                                                  *)
(***************************************************************************)
EXTENDS ScalarUDF, Integers

CONSTANTS
  Main,         \* the scope of the bindings
  Pthreads,     \* the workers that may be spawned
  Configs,      \* HTTP options that open may carry
  NoHttp,       \* no options
  Urls,         \* what the engine requests
  Files,        \* names of registered files
  Handles,      \* their handles
  Uncloneable,  \* those that postMessage refuses (a sync access handle)
  NoHandle,
  Chunks,       \* columns that a user function is called with
  MaxHeap,      \* bound: sizes of the memory
  MaxMail,      \* bound: messages under way to one worker
  MaxFunctions  \* bound: functions created

ASSUME ScopesAssumption ==
  /\ Main \notin Pthreads
  /\ NoHttp \notin Configs
  /\ Uncloneable \subseteq Handles
  /\ NoHandle \notin Handles

\* A chunk has a kind, and a validity for each of its rows.
ASSUME ChunksAssumption ==
  Chunks \subseteq [kind : Kinds, valid : Seq(BOOLEAN), value : {k.value : k \in Chunks}]

VARIABLES
  build,        \* "coi" or "eh"
  http,         \* the HTTP options of each scope
  pool,         \* what the main scope takes each worker for
  mail,         \* messages posted to each worker
  handler,      \* whose onmessage each worker has
  exec,         \* the workers that run a thread
  startedWith,  \* history: the main scope's options when the thread was started
  files,        \* _files of each scope
  latest,       \* history: the last registration of each name
  heap,         \* the size of the memory
  seen,         \* the size each scope's HEAPU8 covers
  sent,         \* the last request
  catalog,      \* the engine's user functions: id to function and type
  udfs,         \* _udfFunctions of the main scope
  nextUDFId,
  answer        \* the last call of a user function

poolVars == <<pool, handler, exec, startedWith>>
fileVars == <<files, latest>>
heapVars == <<heap, seen>>
udfVars == <<catalog, udfs, nextUDFId, answer>>
vars == <<build, http, mail, poolVars, fileVars, heapVars, sent, udfVars>>

Scopes == Pthreads \cup {Main}
Spawned == {w \in Pthreads : pool[w] # "none"}

(***************************************************************************)
(* URL patterns.  A pattern is a sequence of characters.  Without a "*" it *)
(* is a prefix, with one it becomes a regular expression that is anchored  *)
(* at the start alone.                                                     *)
(***************************************************************************)
IsStar(pattern, i) == i <= Len(pattern) /\ pattern[i] = "*"

GlobToRegExp(pattern) ==
  LET from[i \in 1 .. Len(pattern) + 2] ==
        IF i > Len(pattern) THEN <<>>
        ELSE IF IsStar(pattern, i)
        THEN IF IsStar(pattern, i + 1)
             THEN <<[run |-> TRUE, slash |-> TRUE]>> \o from[i + 2]
             ELSE <<[run |-> TRUE, slash |-> FALSE]>> \o from[i + 1]
        ELSE <<[run |-> FALSE, char |-> pattern[i]]>> \o from[i + 1]
  IN from[1]

\* Where a match may end that has come to the positions `at', after one item.
Step(item, url, at) ==
  IF item.run
  THEN {k \in 1 .. Len(url) + 1 :
          \E j \in at : j <= k /\ (item.slash \/ \A x \in j .. k - 1 : url[x] # "/")}
  ELSE {j + 1 : j \in {j \in at : j <= Len(url) /\ url[j] = item.char}}

RegExpTest(items, url) ==
  LET after[n \in 0 .. Len(items)] == IF n = 0 THEN {1} ELSE Step(items[n], url, after[n - 1])
  IN after[Len(items)] # {}

MatchesPattern(pattern, url) ==
  IF \A i \in DOMAIN pattern : pattern[i] # "*"
  THEN Len(pattern) <= Len(url) /\ SubSeq(url, 1, Len(pattern)) = pattern
  ELSE RegExpTest(GlobToRegExp(pattern), url)

WantsCredentials(config, url) ==
  config # NoHttp /\ (config.all \/ \E p \in config.creds : MatchesPattern(p, url))

\* Mutant: one matching pattern brings the headers of all.
HeadersTogether(config, url) ==
  IF config = NoHttp \/ \A p \in config.headers : ~MatchesPattern(p, url) THEN {}
  ELSE config.headers

\* The entries of `headers' whose headers a request gets.
ExtraHeaders(config, url) ==
  IF config = NoHttp THEN {} ELSE {p \in config.headers : MatchesPattern(p, url)}

(***************************************************************************)
(* The memory.  Growth by a thread refreshes that thread's view; a view    *)
(* beyond what HEAPU8 covers is refreshed first.                           *)
(***************************************************************************)
\* Mutant: HEAPU8 is used as it is.
StaleHeapBuffer(covers, size, end) == [ok |-> end <= covers, covers |-> covers]

FreshHeapBuffer(covers, size, end) ==
  IF end > covers THEN [ok |-> end <= size, covers |-> size]
                  ELSE [ok |-> TRUE, covers |-> covers]

Grow(s) ==
  /\ build = "coi"
  /\ s = Main \/ s \in exec
  /\ heap < MaxHeap
  /\ heap' = heap + 1
  /\ seen' = [seen EXCEPT ![s] = heap + 1]
  /\ UNCHANGED <<build, http, mail, poolVars, fileVars, sent, udfVars>>

(***************************************************************************)
(* Messages to the workers.  The message that disconnect sends is left    *)
(* out: it makes a worker look among its files for functions of the        *)
(* connection, and no entry there has one.                                 *)
(***************************************************************************)
Room == \A w \in Spawned : Len(mail[w]) < MaxMail

\* Mutant: the options go to the workers that run a thread.
PostToRunning(msg) ==
  mail' = [w \in Pthreads |-> IF pool[w] = "running" THEN Append(mail[w], msg) ELSE mail[w]]

PostToSpawned(msg) ==
  mail' = [w \in Pthreads |-> IF w \in Spawned THEN Append(mail[w], msg) ELSE mail[w]]

\* The dispatcher's OPEN carries options: store them, then tell every worker.
SetHTTPOptions(config) ==
  /\ build = "coi" => Room
  /\ http' = [http EXCEPT ![Main] = config]
  /\ PostToSpawned([cmd |-> "http", http |-> config])
  /\ UNCHANGED <<build, poolVars, fileVars, heapVars, sent, udfVars>>

\* Mutant: the fields of the message are swapped.
SwappedMsg(n, h) == [cmd |-> "registerFileHandle", file |-> h, handle |-> n]

RegisterMsg(n, h) == [cmd |-> "registerFileHandle", file |-> n, handle |-> h]
DropMsg(n) == [cmd |-> "dropFileHandle", file |-> n]

\* Mutant: workers at rest are not told.
TellRunning(w, n, h) ==
  IF pool[w] = "running" THEN Append(mail[w], RegisterMsg(n, h)) ELSE mail[w]

TellHandle(w, n, h) ==
  CASE pool[w] = "running" -> Append(mail[w], RegisterMsg(n, h))
    [] pool[w] = "unused"  -> Append(mail[w], DropMsg(n))
    [] pool[w] = "none"    -> mail[w]

\* The first postMessage of an uncloneable handle throws out of both loops.
RegisterFileHandle(n, h) ==
  LET throws == h \in Uncloneable /\ \E w \in Pthreads : pool[w] = "running"
  IN /\ build = "coi"
     /\ Room
     /\ files' = [files EXCEPT ![Main][n] = h]
     /\ latest' = [latest EXCEPT ![n] = [handle |-> h, told |-> ~throws]]
     /\ mail' = IF throws THEN mail ELSE [w \in Pthreads |-> TellHandle(w, n, h)]
     /\ UNCHANGED <<build, http, poolVars, heapVars, sent, udfVars>>

\* The runtime forgets the name; no worker is told.
DropFile(n) ==
  /\ build = "coi"
  /\ files[Main][n] # NoHandle
  /\ files' = [files EXCEPT ![Main][n] = NoHandle]
  /\ UNCHANGED <<build, http, mail, poolVars, latest, heapVars, sent, udfVars>>

(***************************************************************************)
(* The pool.                                                               *)
(***************************************************************************)
\* The wrapped Worker constructor writes the options into the worker's boot.
BootOptions == http[Main]

Spawn(w) ==
  /\ build = "coi"
  /\ pool[w] = "none"
  /\ pool' = [pool EXCEPT ![w] = "unused"]
  /\ http' = [http EXCEPT ![w] = BootOptions]
  /\ mail' = [mail EXCEPT ![w] = <<[cmd |-> "load"]>>]
  /\ seen' = [seen EXCEPT ![w] = heap]
  /\ UNCHANGED <<build, handler, exec, startedWith, fileVars, heap, sent, udfVars>>

Start(w) ==
  /\ pool[w] = "unused"
  /\ Room
  /\ pool' = [pool EXCEPT ![w] = "running"]
  /\ mail' = [mail EXCEPT ![w] = Append(@, [cmd |-> "run"])]
  /\ startedWith' = [startedWith EXCEPT ![w] = http[Main]]
  /\ UNCHANGED <<build, http, handler, exec, fileVars, heapVars, sent, udfVars>>

Finish(w) ==
  /\ w \in exec
  /\ exec' = exec \ {w}
  /\ UNCHANGED <<build, http, mail, pool, handler, startedWith, fileVars, heapVars, sent, udfVars>>

\* The thread has ended and the main scope hears of it.
Collect(w) ==
  /\ pool[w] = "running"
  /\ w \notin exec
  /\ \A i \in DOMAIN mail[w] : mail[w][i].cmd # "run"
  /\ pool' = [pool EXCEPT ![w] = "unused"]
  /\ UNCHANGED <<build, http, mail, handler, exec, startedWith, fileVars, heapVars, sent, udfVars>>

(***************************************************************************)
(* The worker's onmessage.  A worker that runs a thread does not come to   *)
(* its messages.                                                           *)
(***************************************************************************)
\* Mutant: the glue keeps the handler it installed while it was loaded.
LeaveOnMessage(current) == current

ReclaimOnMessage(current) == "duckdb"

Receive(w, msg) ==
  /\ w \notin exec
  /\ mail[w] # <<>>
  /\ Head(mail[w]) = msg
  /\ mail' = [mail EXCEPT ![w] = Tail(@)]

\* Loading the module installs the glue's own handler, which is replaced.
OnLoad(w) ==
  /\ Receive(w, [cmd |-> "load"])
  /\ handler' = [handler EXCEPT ![w] = ReclaimOnMessage("glue")]
  /\ UNCHANGED <<build, http, pool, exec, startedWith, fileVars, heapVars, sent, udfVars>>

\* Handled by the glue if the message comes to it, or is forwarded to it.
OnRun(w) ==
  /\ Receive(w, [cmd |-> "run"])
  /\ exec' = exec \cup {w}
  /\ UNCHANGED <<build, http, pool, handler, startedWith, fileVars, heapVars, sent, udfVars>>

OnHTTPOptions(w, config) ==
  /\ Receive(w, [cmd |-> "http", http |-> config])
  /\ http' = [http EXCEPT ![w] = IF handler[w] = "duckdb" THEN config ELSE @]
  /\ UNCHANGED <<build, poolVars, fileVars, heapVars, sent, udfVars>>

OnFileHandle(w, n, h) ==
  /\ \/ Receive(w, RegisterMsg(n, h))
     \/ h = NoHandle /\ Receive(w, DropMsg(n))
  /\ files' = [files EXCEPT ![w][n] = IF handler[w] = "duckdb" THEN h ELSE @]
  /\ UNCHANGED <<build, http, poolVars, latest, heapVars, sent, udfVars>>

(***************************************************************************)
(* A request of the engine on a scope's thread: the runtime reads the name *)
(* of the file from the memory, below `end', and sends a synchronous XHR.  *)
(***************************************************************************)
Request(s, url, end) ==
  LET view == FreshHeapBuffer(seen[s], heap, end)
  IN /\ s = Main \/ s \in exec
     /\ end <= heap
     /\ seen' = [seen EXCEPT ![s] = view.covers]
     /\ sent' = [by |-> s, url |-> url, done |-> view.ok,
                 force |-> IF s = Main THEN http[Main] ELSE startedWith[s],
                 creds |-> WantsCredentials(http[s], url),
                 headers |-> ExtraHeaders(http[s], url)]
     /\ UNCHANGED <<build, http, mail, poolVars, fileVars, heap, udfVars>>

(***************************************************************************)
(* User functions of the synchronous bindings.                             *)
(***************************************************************************)
FunctionIds == 1 .. MaxFunctions

\* The engine may refuse the declaration; the id is used up.
CreateScalarFunction(func, ret, refused) ==
  /\ build = "eh"
  /\ nextUDFId \in FunctionIds
  /\ nextUDFId' = nextUDFId + 1
  /\ IF refused THEN UNCHANGED <<catalog, udfs>>
     ELSE /\ catalog' = [catalog EXCEPT ![nextUDFId] = <<func, ret>>]
          /\ udfs' = [udfs EXCEPT ![nextUDFId] = <<func>>]
  /\ UNCHANGED <<build, http, mail, poolVars, fileVars, heapVars, sent, answer>>

\* Another database in the same module: a new catalog, the same runtime.
Reset ==
  /\ build = "eh"
  /\ catalog' = [id \in FunctionIds |-> <<>>]
  /\ UNCHANGED <<build, http, mail, poolVars, fileVars, heapVars, sent, udfs, nextUDFId, answer>>

CallFunction(id, chunk, grew) ==
  /\ catalog[id] # <<>>
  /\ LET func == catalog[id][1]
         ret == catalog[id][2]
         reply == CallScalarUDFFunction(udfs[id], chunk, ret, grew, Len(chunk.valid) + 1)
     IN answer' = [func |-> func, ret |-> ret, chunk |-> chunk, grew |-> grew,
                   status |-> reply.status, rows |-> ReadReply(ret, reply)]
  /\ UNCHANGED <<build, http, mail, poolVars, fileVars, heapVars, sent, catalog, udfs, nextUDFId>>

----------------------------------------------------------------------------
Init ==
  /\ build \in {"coi", "eh"}
  /\ http = [s \in Scopes |-> NoHttp]
  /\ pool = [w \in Pthreads |-> "none"]
  /\ mail = [w \in Pthreads |-> <<>>]
  /\ handler = [w \in Pthreads |-> "duckdb"]
  /\ exec = {}
  /\ startedWith = [w \in Pthreads |-> NoHttp]
  /\ files = [s \in Scopes |-> [n \in Files |-> NoHandle]]
  /\ latest = [n \in Files |-> [handle |-> NoHandle, told |-> TRUE]]
  /\ heap = 1
  /\ seen = [s \in Scopes |-> 1]
  /\ sent = <<>>
  /\ catalog = [id \in FunctionIds |-> <<>>]
  /\ udfs = [id \in FunctionIds |-> <<>>]
  /\ nextUDFId = 1
  /\ answer = <<>>

Worker(w) ==
  \/ Spawn(w)
  \/ Start(w)
  \/ Finish(w)
  \/ Collect(w)
  \/ OnLoad(w)
  \/ OnRun(w)
  \/ \E c \in Configs \cup {NoHttp} : OnHTTPOptions(w, c)
  \/ \E n \in Files, h \in Handles \cup {NoHandle} : OnFileHandle(w, n, h)

Next ==
  \/ \E w \in Pthreads : Worker(w)
  \/ \E s \in Scopes : Grow(s)
  \/ \E s \in Scopes, u \in Urls, end \in 1 .. MaxHeap : Request(s, u, end)
  \/ \E c \in Configs \cup {NoHttp} : SetHTTPOptions(c)
  \/ \E n \in Files, h \in Handles : RegisterFileHandle(n, h)
  \/ \E n \in Files : DropFile(n)
  \/ \E f \in Functions, r \in ReturnTypes, refused \in BOOLEAN : CreateScalarFunction(f, r, refused)
  \/ Reset
  \/ \E id \in FunctionIds, k \in Chunks : \E g \in SUBSET Points(Len(k.valid)) : CallFunction(id, k, g)

Spec == Init /\ [][Next]_vars

----------------------------------------------------------------------------
HttpMessages == [cmd : {"http"}, http : Configs \cup {NoHttp}]
FileMessages == [cmd : {"registerFileHandle"}, file : Files, handle : Handles]
                  \cup [cmd : {"dropFileHandle"}, file : Files]
Messages == HttpMessages \cup FileMessages \cup [cmd : {"load", "run"}]

\* The state has the shape the code gives it.
TypeOK ==
  /\ build \in {"coi", "eh"}
  /\ http \in [Scopes -> Configs \cup {NoHttp}]
  /\ pool \in [Pthreads -> {"none", "unused", "running"}]
  /\ mail \in [Pthreads -> Seq(Messages)]
  /\ handler \in [Pthreads -> {"duckdb", "glue"}]
  /\ exec \in SUBSET Pthreads
  /\ startedWith \in [Pthreads -> Configs \cup {NoHttp}]
  /\ files \in [Scopes -> [Files -> Handles \cup {NoHandle}]]
  /\ latest \in [Files -> [handle : Handles \cup {NoHandle}, told : BOOLEAN]]
  /\ heap \in Nat
  /\ seen \in [Scopes -> Nat]
  /\ \A s \in Scopes : seen[s] <= heap

\* After the first n messages of m a worker that had the options c has d.
EndsWith(m, n, c, d) ==
  \/ /\ \A j \in 1 .. n : m[j].cmd # "http"
     /\ c = d
  \/ \E i \in 1 .. n :
       /\ m[i].cmd = "http"
       /\ m[i].http = d
       /\ \A j \in i + 1 .. n : m[j].cmd # "http"

\* "COI pthread workers spawned before OPEN get the config re-broadcast ...
\* pthreads spawned later inherit it at spawn time" (http_options.ts:11-15):
\* a thread runs under the options the main scope had when it was started,
\* whatever the order of spawning, opening, loading and starting.
ThreadsHaveTheirOptions ==
  \A w \in exec : http[w] = startedWith[w]

\* The handle a worker will have for a name once it has come to its mail.
HandleToBe(w, n) ==
  LET about == {i \in DOMAIN mail[w] :
                  mail[w][i].cmd \in {"registerFileHandle", "dropFileHandle"}
                    /\ mail[w][i].file = n}
      msg == mail[w][CHOOSE i \in about : \A j \in about : j <= i]
  IN IF about = {} THEN files[w][n]
     ELSE IF msg.cmd = "registerFileHandle" THEN msg.handle ELSE NoHandle

\* registerFileHandle (bindings_base.ts:611-624) gives a new handle to the
\* running workers and makes the others forget the old one: no worker comes
\* out of its messages with a handle of an earlier registration of the name.
\* A registration that threw half way is excepted.
HandlesAreLatest ==
  \A w \in Spawned, n \in Files :
    latest[n].told => HandleToBe(w, n) \in {NoHandle, latest[n].handle}

\* What config.ts:75-82 says a pattern covers, piece by piece.
Covers(pattern, url) ==
  LET covers[i \in 1 .. Len(pattern) + 2, j \in 1 .. Len(url) + 1] ==
        IF i > Len(pattern) THEN TRUE
        ELSE IF IsStar(pattern, i) /\ IsStar(pattern, i + 1)
        THEN \E k \in j .. Len(url) + 1 : covers[i + 2, k]
        ELSE IF IsStar(pattern, i)
        THEN \E k \in j .. Len(url) + 1 :
               covers[i + 1, k] /\ "/" \notin {url[x] : x \in j .. k - 1}
        ELSE j <= Len(url) /\ url[j] = pattern[i] /\ covers[i + 1, j + 1]
  IN covers[1, 1]

\* The patterns in use match what they cover: a fact about constants.
PatternsMatch ==
  \A c \in Configs : \A p \in c.creds \cup c.headers, u \in Urls :
    MatchesPattern(p, u) <=> Covers(p, u)

\* An engine request reads its file name whoever has grown the memory, and
\* carries credentials and headers for exactly the URLs that the patterns of
\* the options in force cover (http_options.ts:57-69, runtime.ts:24-35).
RequestsFollowOptions ==
  sent # <<>> =>
    /\ sent.done
    /\ sent.creds <=> /\ sent.force # NoHttp
                      /\ sent.force.all \/ \E p \in sent.force.creds : Covers(p, sent.url)
    /\ sent.headers = IF sent.force = NoHttp THEN {}
                      ELSE {p \in sent.force.headers : Covers(p, sent.url)}

\* A call of a user function finds the function that the engine's catalog names, and
\* the engine reads back its value for every row that was done before the memory grew.
\* Growth between the allocations of the two views of the result fails the call
\* (udf_runtime.ts:187); growth later, or before a view of an argument is read, is not
\* noticed and may cost a row its value, but only the rows from there on.  A call fails
\* for no other reason than an exception, an argument type without a data view
\* (json_dataview.cc:141) or a result type without an array.  Functions that return
\* strings are StringsAreExact's.
AnswersAreExact ==
  answer # <<>> /\ answer.ret # "text" =>
    LET rows == Meaning(answer.func, answer.chunk)
        touched(i) == \E g \in answer.grew : g <= 2 + i /\ (g = 1 => answer.chunk.kind # "text")
    IN IF answer.chunk.kind = "unsupported" THEN answer.status = "unsupported argument"
       ELSE IF answer.ret = "INT64" \/ 2 \in answer.grew \/ answer.chunk.valid = <<>>
       THEN answer.status = "no arrays for the result"
       ELSE \/ /\ answer.status = "ok"
               /\ DOMAIN answer.rows = DOMAIN rows
               /\ \A i \in DOMAIN rows : touched(i) \/ (answer.rows[i] = rows[i] /\ rows[i] # Threw)
            \/ /\ answer.status = "the function threw"
               /\ \E i \in DOMAIN rows : touched(i) \/ rows[i] = Threw

\* webdb.cc:578-579 reads the strings of a reply through pointers, "basically
\* inverse of what happens above for strings": what it reads is what the
\* function returned.
StringsAreExact ==
  answer # <<>> /\ answer.grew = {} /\ answer.ret = "text" /\ answer.status = "ok" =>
    answer.rows = Meaning(answer.func, answer.chunk)
============================================================================
