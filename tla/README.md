# duckdb-wasm: specifications, model checking and proofs

duckdb-wasm runs DuckDB as a WebAssembly module, in a browser (usually inside a web worker)
or in Node. The repository holds the C++ side that is linked with DuckDB (`lib/`), the
TypeScript side that loads and drives the module (`packages/duckdb-wasm`), and a shell and
applications on top. This directory holds TLA+ modules of its concurrent and failure-prone
parts, the TLC configurations that check them, and proofs checked by TLAPS.

Paths below are relative to `src/`; `M.tla:Action` style references are avoided in favour of
the definition's name, which is the name of the function it models wherever TLA+ allows it.
`PROJECT.json` maps every definition to its source lines.

## 1. Inventory

| Component | State it keeps | Operations | Hard part |
|---|---|---|---|
| File page buffer (`lib/src/io/file_page_buffer.cc`) | frames with state, bytes, user count and dirty flag; FIFO and LRU queues; a directory latch, a latch per file and per frame | FixPage, LoadFrame, evict, FlushFrame, Flush, Append, Read, Write, streams | many threads, latches given up in the middle of operations, I/O errors |
| Its file registry (same file) | files by name and id, users of a file, size and flags | OpenFile, Release, ReOpen, TryDropFile, DropDanglingFiles, Truncate | checks and releases separated by unlocks; partial pages |
| Asynchronous database (`parallel/async_bindings.ts`, `parallel/worker_dispatcher.ts`) | client: pending requests, worker, configuration; worker: bindings | about 40 requests, terminate, detach, error events | handlers interleave at awaits; answers for requests that are forgotten |
| OPFS files (`async_bindings.ts`, `bindings_base.ts`, `runtime_browser.ts`) | `_files`, `_preparedHandles`, pinned files of the database | register, open, automatic register/drop around a query, drop | exclusive access handles, several requests per operation |
| Connection (`lib/src/webdb.cc`) | pending result, streamed result, statements, prepared statements | run, send, poll, cancel, fetch, prepare | state left from an earlier query; several statements in one text |
| Result streams (`async_connection.ts`, `connection.ts`) | first/depleted flags, a fetch in flight | send, next, cancelSent | prefetch across other requests of the connection |
| Web filesystem (`lib/src/io/web_filesystem.cc`) | files by id, name and URL; handle counts; cache epoch; data buffers; pins of `WebDB` | register, open, close, read, write, truncate, move, drop | opens and closes that fail half way, count-down to zero, lock order |
| Runtimes (`bindings/runtime_*.ts`, `utils/s3_helper.ts`) | handles by name or id, file and global infos cached by epoch | open, close, read, write, move, glob, signed requests | stale caches; servers that refuse HEAD, ranges or lengths |
| Scopes of the build with threads (`bindings/http_options.ts`, `targets/duckdb-browser-coi.pthread.worker.ts`) | options, file handles and heap views of each worker; mail under way | set options, spawn, load, run, collect, register and drop handles, grow the memory | each worker learns of changes by inheritance or by messages it may not read |
| User defined functions (`bindings/udf_runtime.ts`, `lib/src/webdb.cc`) | registered functions | create, call over a chunk | layout of the reply; memory that grows during the call |
| Module loading (`platform.ts`, `bindings/bindings_browser_base.ts`) | features of the browser | choose a bundle, fetch by stream, XHR or fetch, compile | loads that fail or never end |
| Read ahead buffer (`readahead_buffer.h`) | ten read heads in LRU order, a mask of invalidated file ids | Read, Invalidate, Drop | invalidations of other threads, boundaries |
| Buffered filesystem, file statistics | file positions; counters per block | read/write loops, resize, register | progress at end of file; saturation |
| Arrow insert stream | stream decoder, options of the insert | InsertArrowFromIPCStream in pieces | a failed piece |
| JSON, CSV, casts | none across calls | analysis and conversion | data conversion |
| Shell (`packages/duckdb-wasm-shell`) | prompt buffer, history in memory and in IndexedDB | embed, type, load and store inputs, links | waits for fonts and database; transactions that abort |
| React providers (`packages/react-duckdb`, `duckdb-wasm-app/src/pages/shell.tsx`) | bundle, database, connections, remembered ids; closures of renders | resolve, dial, render | effects that run with the state of another render |
| Benchmarks, build, pages that only draw | user interface state | | not core logic |

How they interact: a program calls `AsyncDuckDB`, which posts a request to the worker. The
dispatcher there calls the bindings, which call into the module: `WebDB` and its connections,
then DuckDB. DuckDB opens files through the `BufferedFileSystem`, which goes to the page
buffer or (direct I/O) straight to the `WebFileSystem`, which calls back into the JavaScript
runtime for bytes. Answers travel back as messages. In the build with threads every pthread has
a copy of the runtime, kept up to date by messages from the main scope. In the web application
the providers create one `AsyncDuckDB` for a page, and the shell and other components wait for it.

What makes each part correct:

* page buffer: callers see a store of pages, whatever is cached, evicted or flushed; no frame
  goes away under a thread that uses it; bytes are not raced; no thread waits for ever;
* asynchronous database: a request is served once and answered once, with its own answer; a
  refused request has no effect; synchronous requests keep their order; every call returns
  unless the worker is given up;
* OPFS files: what `_files`, `_preparedHandles` and the pinned files say agrees; a query finds
  its files; automatic handling closes what it opened;
* connection and streams: the chunks a reader sees are those of the query it sent,
  in order and complete; a canceled query gets no result;
* web filesystem and runtimes: the directories by name and by id agree, a pinned file stays
  registered, a dropped file is released, the runtime acts on live handles of the right file,
  what is read is what the server has, and what is sent is signed as it is sent;
* scopes: a thread runs under the options in force when it was started, whatever path they came
  by, no worker keeps a handle that was replaced, and a request carries what the patterns say;
* user functions: the engine reads back what the function returned, row by row;
* web application: one database per page, whoever waits for it hears of its end, remembered
  connections are made, inputs come back from the history and from links;
* read ahead (planned): a read returns what the file holds.

`lib/src/utils/shared_mutex.cc` and the parking lot are dead code: `utils/parallel.h` takes
`std::shared_mutex`. The page buffer's model therefore has the latch of the standard library
(libc++: a writer that has entered turns new readers away).

## 2. Modules

| Module | What it is |
|---|---|
| `PageStore` | abstract: pages that are read and written atomically, a call takes effect between its start and its return |
| `FilePageBuffer` | the page buffer, all operations on open files, any number of threads |
| `MCFilePageBuffer` | instances of it for TLC |
| `FilePageBufferProofs` | the inductive invariant and the safety theorems |
| `FilePageBufferFlushProofs` | on top of it: the queues hold the frames, a flush covers the writes before it |
| `FilePageBufferRefinement` | the proof that it implements `PageStore` |
| `RequestServer` | abstract: requests are posted, served atomically at most once, and their promises settle with their answers |
| `AsyncDuckDB` | client, channels, dispatcher and OPFS handles |
| `MCAsyncDuckDB` | instances of it for TLC |
| `AsyncDuckDBProofs` | its inductive invariant, the theorems about requests, answers, handles and the files of queries, and the refinement of `RequestServer` |
| `ResultCursors` | abstract: a query that was sent opens or fails; its reader gets each chunk once, in order |
| `ResultStream` | one connection of `webdb.cc` and the async functions that share it |
| `MCResultStream` | instances of it for TLC |
| `ResultStreamProofs` | its inductive invariant, what a reader is given, and the refinement of `ResultCursors` |
| `RemoteFile` | pure: how a file of a web server is opened and read, how S3 requests are addressed and signed |
| `WebFiles` | registry, pins, file API and both runtimes, one call at a time |
| `MCWebFiles` | instances of it for TLC |
| `WebFilesProofs` | its inductive invariant, and the theorems for all of its properties |
| `ScalarUDF` | pure: a call of a user function over a chunk, from the arguments to what the engine reads back |
| `EngineScopes` | main scope and pthread workers: options, handles, heap views, messages, functions |
| `MCEngineScopes` | instances of it for TLC |
| `EngineScopesProofs` | its inductive invariants and the theorems for all of its properties |
| `ModuleLoading` | pure: the bundle for a browser and the outcome of loading it |
| `ShellHistory` | the history store, its load into the shell, the link that replays inputs |
| `WebApp` | providers, module load, connections and shell of one page, over `ModuleLoading` and `ShellHistory` |
| `MCWebApp` | instances of it for TLC |
| `WebAppProofs` | one database for a page, and the inputs come back |

### FilePageBuffer

A thread takes one action from one synchronisation point of the code to the next. `pc[t]` names
the point, `call[t]` the operation. A critical section of the directory latch is one action;
only where `FixPage` allocates a frame is the latch kept over several actions (`dir`). The bytes
of a page are two halves, `head` and `tail`: a write changes both, an append only the tail, so a
torn or lost update shows. `users` is `num_users`, `frame` the frame's state. `LoadFail`,
`AppendFail` and `FlushFail` are the exceptions of the filesystem, with what they unwind: they
leave users counted and states unfinished, exactly as the code does.

Not modelled as separate things: the NEW state of a frame (set and left under the directory
latch, so the wait for it in `FixPage` is never taken); the count that the evicting thread takes
twice (in `EvictAnyBufferFrame` and in `FlushFrame`), which is one here; statistics.

### AsyncDuckDB

A step is one event handler with its microtasks. On the client: a call of the API (`Call`), or a
reply with the continuation of the async function that awaits it (`OnMessage`, `Continue`). In
the worker: a request up to its answer or its first suspending await, or the end of such an
await (`Instantiated`, `AssignOPFSRoot`, `Acquire`, `Convert`). `handler[m]` is the suspended
handler of request `m`. The dispatcher does not await its own handlers, so any of them
interleave. An automatic query is the three requests the code makes of it: register each file,
run, drop.

DuckDB is environment: a request may fail (`MayFail`), it has the file it was opened with in use
(`InUse`), and `database` records which requests made it what it is. `answered` is a history
variable, which the refinement maps to the answers of `RequestServer`; no guard reads it.

Left out: progress and log messages, forwarding of handles to pthread workers, builds with
WASMFS (the branch `hasWasmFS`), and the contents of files beyond empty or not.

### ResultStream

The worker's half is one connection: `pending`, `statement`, `statements`, `wasCanceled` and
`result` are the fields of `WebDB::Connection`. A request is served in one action, with every
outcome DuckDB can give it: `ExecuteTasks` is the loop of `PollPendingQuery`, which may get no
further, finish some statements, fail, or come to the result. `executing` and `streaming` say which query
DuckDB still works for on this connection: a new one ends the one before, so that a pending result
throws when it is executed and a stream reports that it was overtaken. The `query` of a script
stands for `RunQuery` and `RunPreparedStatement`.

The callers' half is `client[c]`: the calls still to come and where the async function stands.
`Starts` is the polling loop of `send`, `Takes` the body of the iterator's `next` once it has a
buffer, `ahead` the promise `_inFlight`: `posted`, or settled with a value that nobody has asked
for yet. `Abandon` is a reader that leaves its loop; the reply to its fetch then finds nobody. A caller
whose promise rejects, and one whose cancel comes too late, makes no further calls.
`outcome`, `got` and `canceled` are history: what the abstract cursors are about.

Left out: several connections, the connection's end, a detached or terminated database (see
`AsyncDuckDB`), schemas and the bytes of a chunk. `canceled` counts the queries that DuckDB was still
executing when cancel answered true; it also answers true for a query that is over, where the
pending result is kept and the result is gone (see the hazards).

### RemoteFile and WebFiles

The builds without threads call back and forth between C++ and JavaScript on one stack, so a step
of `WebFiles` is one call of the API, or one call that DuckDB makes of its filesystem, with
everything it causes on both sides. The state of both sides is the record `w`; an operator takes
`w` to `w` after a function of the code, with `ok` for whether it has thrown, so that a step is
written as the composition of what the handler calls (`Close` is `ClosedIn`, `WrittenBack`,
`Gone`). `listed`, `byName` and `byUrl` are the directories, `pin` the pins of `WebDB`, `handle`
what DuckDB has open, `files`, `prepared` and `byId` the runtime's maps, `os` the handles of the
system, which are never reused. `cache` and `global` are the infos the runtime has cached, with
the epoch they are of. `env` holds the runtime, the server and the HTTP settings, and `intact`: the
names whose entry still reads as it was after it has been erased. `TryDropFile` reads it there
(`web_filesystem.cc:490`), which is undefined, so either its URL is erased too or it stays listed
(`UrlLeft`).

A server is a record of how it answers HEAD and ranged GET, whether it shows lengths and accepts
uploads; `RemoteFile` is what `openFile` makes of it. In Node the system may refuse any open
(`SystemOpens`). A file that DuckDB has closed may be moved to any name of its kind: `MoveFile` gives it the
name, and lists it there only if the name is free, as `insert` does; `clashed` records the names that two
files have since. A signature is the record of what was signed
(`S3Headers`): two are equal when the same method, URL, payload and secret went in. Erasing an end
iterator (a close after the file was erased, a second failed open) sets `corrupt`, after which
nothing is claimed.

### ScalarUDF and EngineScopes

`pool[w]` is the list of Emscripten that worker `w` is in, `mail[w]` the messages to it,
`handler[w]` whose `onmessage` is installed, `exec` the workers whose thread runs and which
therefore read no mail. `heap` is the size of the memory, `seen[s]` the size that scope `s` has
views of. `sent` and `answer` are the last request of the engine and the last call of a user
function, as the rest of the system sees them. `ScalarUDF` computes a call: argument arrays by
kind, validity, the reply with its pointers, and what `CallScalarUDFFunction` reads from it;
`Points` names the allocations during which the memory may grow. `CallScalarUDFFunction` is the
engine's side: it refuses columns that have no data view before it calls.

### ModuleLoading, ShellHistory and WebApp

A page (`page`) is a browser with its features, what it can fetch, and what the application gives
the providers. `setup` and `bundle` are the Resolvables as set so far; `shown` and `memo` are what
React has rendered and what the closures of that render captured. `Render` is one render with its
effects. `load` is the module in the worker. The link, the ring of keys and the counters of the
history are those of `ShellHistory`; a transaction is queued by `Push` and committed or aborted
later, and a page that is left loses what it did not commit.

Merged or left out: React's render and its effects are one step, one shell is mounted per page and
none is unmounted, one tab is open, `connect` succeeds, and the initial queries of a link are
their texts only (`Replay`).

## 3. Runs

| Run | Shows |
|---|---|
| `page_buffer` (`MCFilePageBuffer.cfg`) | passes: 8 invariants, refinement of `PageStore`, every call returns |
| `stuck_eviction` | finding: a frame fixed during its eviction is never evictable again |
| `stream_append` | finding: a stream locks its file again while it holds it; with a writer waiting, both hang |
| `async_database` (`MCAsyncDuckDB.cfg`) | passes: 7 invariants, refinement of `RequestServer`, every call returns |
| `result_stream` (`MCResultStream.cfg`) | passes: 4 invariants, refinement of `ResultCursors`, every caller finishes |
| `canceled_send` | finding: a canceled send resolves with the header of the query sent after it |
| `truncated_stream` | finding: a query on the connection ends another function's stream without an error |
| `web_files` (`MCWebFiles.cfg`) | passes: types and handle counts, exact reads, signed requests, live handles, agreeing directories, drops release |
| `lost_registration` | finding: an open that fails unregisters a pinned file |
| `engine_scopes` (`MCEngineScopes.cfg`) | passes: types, options of threads, handles of workers, requests, answers of user functions |
| `udf_strings` | finding: strings that a user function returns are read from the wrong addresses |
| `web_app` (`MCWebApp.cfg`) | passes: one database, inputs come back, the shell hears, remembered ids are connected |

Bounds of `page_buffer`: three threads in two mixes (two threads with two calls, three with
one); a file of one page that is read, written, appended to and flushed, and a file of two pages
that is streamed; room for one frame (`Capacity = 1`), so every page that comes in evicts
another, and an evictor meets a thread that uses, loads or flushes its victim. Writes fail at any
point. `Unreadable` is the set of pages whose read may fail: here the second page of the stream,
which nobody writes, so that its lost frame keeps its user and its place in the queue under
everybody's feet. A page that is fixed again after such a failure is handed out unread (see the
divergences below), so the buffer is a page store for readable pages only. Three threads are what a cycle of waiting needs (reader, evictor
of another file, appender).

Bounds of `async_database`: two callers, nine scripts of one to four calls each, together
with the requests an automatic query adds at most ten requests (`MaxMessages`, never reached
before a script ends). The scripts are chosen so that every handler that suspends meets every
other one, a database is opened by both callers at once and again after it was opened, its file is
registered and dropped while it is opened, and a file is prepared by two requests at once. `MayFail` lets instantiate, open, a query and any other request fail for
reasons of their own; acquiring a handle fails where the handle is taken. At any time the worker
may be terminated, detached or report an error. Concurrent queries use different files there,
and name files that exist: the properties `QueriesFindTheirFiles` and `StoredFilesAreDropped`
are false otherwise, and one caller instantiates, since a second instantiate breaks
`RefusedHasNoEffect` (see the divergences below).

Bounds of `result_stream`: two callers, six scripts of up to three calls each: readers one after
the other, streams and materialized results, prepared statements, one query of two statements; the
other caller cancels (once, twice, or to send its own query instead) or prepares a statement under the
reader. Results have two or three chunks, so that the fetch ahead, the chunk in hand and the end
are different things; DuckDB stalls up to three times in a behaviour, in polls and fetches, and
every request may fail. Five of the scripts have one reader at a time, the hypothesis of the proofs
(`ReadersAlone` evaluates it); in the sixth the caller that cancels goes on to send a query. Callers
that share the connection without any agreement are left to the two runs that end in violations.

Bounds of `web_files` (461,184 states): four names (an OPFS name, an S3 URL, two paths), two file
ids, two open handles, two handles of the system, two S3 configurations, and a remote file of
three bytes, so that a range has a start, a middle and an end. Servers: four answers to HEAD times
three to GET times lengths shown or not, under all eight HTTP settings, and the typical server when it
refuses uploads. `Bounded` keeps the product small: all servers meet the remote file alone, with two
handles under the usual settings; a file that was moved meets a second one where both are paths (a
move onto a taken name needs two), with one handle that reads and one of the system; where entries that
were erased are not intact there is one handle and no move; everything else runs against the typical
server. `MaxEpoch` bounds the cache epoch at 3, since an upload that is refused
can be tried again for ever: an info can be current, one epoch old, and older. Every pair of operations on one
file, and a file with its successor under a reused name, fit into these bounds. Reads are of bytes that
exist.

Bounds of `engine_scopes` (312,028 states): two workers (one runs while the other is loaded),
three messages under way, a memory of two sizes, one file with a handle that can be cloned and one
that cannot, options with patterns of each kind against three URLs, and chunks of two rows of each
kind, with nulls and one kind that is not supported, while the memory grows at any of the allocations of
a call. A state with a request or an answer is checked and not continued from: neither
changes anything but the views of the scope that made it. The workers are interchangeable
(SYMMETRY; the run has invariants only).

Bounds of `web_app` (187,928 states): eleven pages (modern, not isolated, without exceptions,
without streaming, with neither streams nor XHR, unreachable, wrong MIME type, a build named in
the URL, a worker that does not start, the bundles of jsDelivr, no bundles), two ids, two dials, a
module of two chunks, one reload, and a ring of two keys for three inputs, so that the ring comes
round. Inputs are typed on the modern page with no connection dialed (`TypedAlone`): the two share
nothing but the reload.

CHECK_DEADLOCK is FALSE where a system may come to rest (all scripts done, or a worker killed) or
where the run's question is a violation.

Fairness. `FilePageBuffer`: each thread keeps running (weak fairness of its step); who gets a
contended latch is left open. `AsyncDuckDB`: the event loops deliver events in order and awaits
end (weak fairness of a caller's next call, of message delivery, of the worker's next request and
of each suspended handler); nothing is assumed of teardown. Its `AllCallsReturn` excludes calls to
a worker that has been given up and calls that an error event made the client forget: their
promises never settle (`onError` clears the map). `ResultStream`: the worker serves, replies
arrive and callers go on; that DuckDB comes to a result is the bound on stalls, and nothing forces a
reader to stop. `WebApp`: workers start, replies arrive, fonts load or
fail, React renders, a connect ends and a load comes to its outcome, which may be that it hangs;
nothing is assumed of the user (dial, mount, type, reload) or of the history's transactions.
`WebFiles` and `EngineScopes` have safety properties only and state no fairness.

## 4. Proofs

`FilePageBufferProofs` proves, for any number of threads, pages and files, any capacity and any
calls, `TypeOK`, `UsersCountPinners`, `PinnedStaysResident`, `NoDataRace`, `CleanFrameMatchesDisk`
and `ReadablePageIsLoaded`. `FilePageBufferRefinement` proves that the buffer implements
`PageStore` where no read fails (`Unreadable = {}`).

None of these is inductive. A frame is evicted when `num_users` is zero, so that a thread's
pointer stays valid rests on the count never falling below the number of threads that use the
frame (`Counted`); that count is kept because a thread releases exactly what it took, which rests
on where it stands (`Placed`). That bytes are not raced rests on which latch is held at which
point (`Latched`) and on the state of the frame there (`Framed`). That a clean frame equals the
file rests on all of these, with what a thread knows half way through a load, a flush, a write or
an append (`Synced`). The invariant `IInv` is their conjunction. `IInvStep` splits on the actions,
with a lemma for each part, most of them stated for the thread that moves (`Own...`) and for the
others (`Others...`). `IInv` was model-checked on the instance of `page_buffer` before it was
proved.

The assumptions are those of `FilePageBuffer`: each page belongs to a file, threads are finitely
many, budgets are natural numbers.

`FilePageBufferFlushProofs` builds on `IInv` and proves `QueuesHoldFrames` and
`FlushCoversEarlierWrites`. The first is a count, which no step changes by itself; the proof
works with what determines it: the two queues are injective, disjoint and together list the frames
of the directory (`Queued`), and lemmas say what appending, promoting and erasing do to that. The
second is about one thread while all others work. A flush owes every page that was newer than the
file when it began. The invariant (`FlushInv`) says where that debt is at any moment (`Owes`): each
page that is owed lies in a dirty frame of the file, no thread stands between writing that frame to
the file and clearing its flag, and the flush has still to visit it or is about to write it. That
another thread which clears a flag does not lose what is owed needs `Written`: a frame about to be
marked clean equals the file, or has been marked by somebody else before. That a load cannot hide a
debt needs `LoadsClean`: the page being loaded is not dirty.

`AsyncDuckDBProofs` proves, for any number of callers, files and any scripts, `TypeOK`,
`HandlesAgree` and `DatabaseKeepsItsFile`; and, if one instantiate is sent and no more (`InstantiateOnce`), `OneAnswerUnderWay`,
`SynchronousInOrder`, `RefusedHasNoEffect` and that every step is a step of
`RequestServer` or leaves its variables alone. The proof does not follow the handlers one by one:
all that the worker does to requests and answers is one of a few things (`WorkerStep`: take the
next request, suspend it, answer it, go on with one that was suspended), and likewise for callers
(`CallerStep`). Every action is shown to be such a step once, and the invariants are proved for
the steps. None of the properties is inductive: an answer is given once because a request is in
one place (queue, suspended, or answered and under way), which needs that ids are fresh, that
the channel keeps the order of ids, and that what is suspended was taken before what is queued.
`IInv` is the conjunction. `InstantiateOnce` is a hypothesis because the code breaks without it
(see the divergences: `worker_dispatcher.ts:78` answers a second instantiate twice); the instance
evaluates it on its scripts. `DatabaseKeepsItsFile` is about an open that finds the handle of its
database, or makes it, and then awaits that of the log: the handle may be dropped meanwhile, and what
saves the database is that the open looks again when it goes on, so that it fails instead
(`OpenDatabase`). Afterwards a drop of a file that DuckDB has open is refused. `RequestAssumption` and `ScriptAssumption` say
that calls are calls of the API.

`QueriesFindTheirFiles` has a hypothesis of its own, `QueriesKeepApart`: in a program that opens a
database with automatic file handling, queries name files that exist, or that they write, what one
caller queries no other queries or drops, and no `dropFiles` is called without names. A query
misses a file otherwise (see the divergences on automatic OPFS handling); the scripts of the run
satisfy it. Programs without automatic handling need nothing: no query is marked (`NothingAutomatic`).
For the others the invariant is in two parts. `OwnersAgree` says that every request without an
answer has a caller waiting for it, and that the request is then the one that the caller's call and
its place in it determine (`Awaited`): so a `dropFiles` under way names files of another call, and
`OthersSpare` follows from the hypothesis alone, although the request may have waited in the queue
since before the query began. `FilesReady` says that the files a query has registered are `Ready` from
the reply to their registration to the reply of the query: they have an access handle, and it is
registered if the file held data. What the worker does to files is said once (`Provides`): a step takes
nothing away unless it drops by name, registers what it says it has registered, and misses no file
that is ready. A handler suspended in the middle of a registration must still have the whole of its
list to do, which holds because such a request names one file. Both parts were model-checked
on the scripts of the run before they were proved.

`EngineScopesProofs` proves all five properties of `EngineScopes`, for any number of workers,
options, files, handles and any number of messages under way.

* `ThreadsHaveTheirOptions` is not inductive: a worker takes its options from the boot script or
  from the last message of options in its mail, and it acts on that message only if its
  `onmessage` is the one of this code. So the invariant adds that every worker's handler is this
  code's between two messages (`Reclaimed`), and that the options a worker comes to after all of
  its mail are those of the main scope, with the message that starts a thread standing behind
  those that the main scope sent before (`WorkersAgree`). `IInv` is their conjunction with
  `TypeOK`, `ScopesInvariance` its proof; lemmas say what a message at the end of a queue, or
  taken from its head, does to the options a worker comes to. It was model-checked in the bounds
  of `engine_scopes` first.
* `HandlesAreLatest` is about a worker's table after its mail has been read. The invariant
  (`HandlesFollow`) says that what the mail of a spawned worker leaves it with for a name
  (`LeavesWith`: the last message about that name decides, or what it has if there is none) is the
  latest handle of that name or none, and that a worker never spawned has no mail and no handle.
* `AnswersAreExact` holds of every call by itself, so its proof is about one call (`CallIsExact`): a
  function that was found is called with the arguments of its row and its answer is read back where
  it was put, for all rows that were done before the memory grew. It does not say that growth is
  harmless, because it is not: a view that was made before reads and writes nothing afterwards, so growth
  between the two allocations of the result fails the call, and growth later may cost the rows
  from there on. What a call that fails has met is one of the four reasons the code has. `MarksAssumption` keeps the model's mark for a lost
  value apart from the values, and `ChunksAssumption` says that a chunk has a
  kind, and a validity for each of its rows.
* `RequestsFollowOptions` has the hypothesis `PatternsMatch`: `GlobToRegExp` reads each of the
  patterns as `Covers` means it. Both are recursive functions over strings, so that this is
  induction over data; it is a fact about constants, and TLC evaluates it on every pattern and URL
  of the run.

`WebAppProofs` proves `OneDatabase` and `InputsComeBack`, for any browser, any number of
connections, any capacity of the history, and all inputs.

* `OneDatabase` rests on where the provider stands and what the worker has said: whatever is not
  progress is its last word (`LastWord`), and it is taken by the step that settles the setup or
  leaves nothing but the open to wait for (`WorkerPlaced`).
* `InputsComeBack` is arithmetic. Keys are counters modulo the capacity, the counter of a page goes
  back to that of the store when the page is left, and transactions may abort, so input numbers and
  counters drift apart. `StoredAt` bounds the drift: for an input `i` stored under counter `n`, the
  counters of the store and of the page are no further from `n` than what has been typed is from
  `i`. Two keys are then equal only if `Capacity` inputs lie between (`KeysDiffer`). That a history
  is loaded in order needs that finitely many keys can be put in order (`KeysCanBeOrdered`, by
  counting the keys below each one) and that the log is as long as the counter, which is what
  `load_history` checks by its panic. A link types what was typed because swapping twice gives the
  text back (`SwapsBack`).

The assumptions are that the capacity is positive, inputs are strings, and `Null` is not one.

`ResultStreamProofs` proves `ReaderGetsItsResult`, `EndIsComplete`, `CanceledNeverCompletes`,
`BoundedReadAhead` and that every step is a step of `ResultCursors` or leaves its variables alone:
for any number of clients, results of any length, queries of any number of statements, any failures
and stalls, provided that in each script one client reads (`OneReader`): it may send, query,
prepare, cancel and leave its readers as it likes, each query sent once, while the others cancel and
prepare statements. `OneReader` is a hypothesis because the code breaks without it: a second client
that sends or queries takes the reader's result (findings 3 and 4).

What a reader was given and where the connection is in its result differ by what is under way, so
the invariant is about the messages. Requests and replies are taken as one queue, `Sent`: to serve a
request changes nothing in it but where the replies begin. In that queue (`Mailed`) every client has
one message that it waits for at most, and the reader one fetch ahead beside it, which stands
before: a fetch of a reader that was left is answered before the query that follows. What the
connection executes is then the reader's query, or nothing that can still be asked for
(`Executed`); what it has produced is what the reader was given and the chunk under way, in a reply
or in the settled promise (`Fetched`); and a cancel counts only while the query executes, when
no header of it is on its way, and none can follow (`Answered`). The actions of the
worker are shown once to be a `WorkerStep` (one that passes a request by, answers it, or fetches),
and the parts of the invariant are proved for those steps. `IInv` was model-checked on the scripts
with one reader before it was proved.

`WebFilesProofs` proves every property of the run `web_files`: `TypeOK`, `DirectoriesAgree`,
`HandlesAreLive`, `DroppedIsReleased`, and, each with a hypothesis, `ReadsAreExact` and
`RequestsAreSigned`; for any names, servers and settings, any number of files, of DuckDB's handles
and of the system's. The hypotheses are `Honest` (no refusal shows a length) and `NoBareSlash` (no S3
endpoint has nothing but a slash after its host). The code breaks without them, see the
divergences; `HypothesesHold` evaluates both on the instance.

A step is a composition of operators on the record `w`, so the proof follows the operators and not
the actions. The invariant takes parameters: `Sound(e, s, hs, x)` is about the runtime `e`, the state
`s` in the middle of a step, the handles `hs` that DuckDB will have, and one handle `x` that is
counted although nobody has it yet (an open that may still fail) or any more (a close under way).
Every operator has one lemma that takes `Sound` from `s` to what the operator makes of it; an action
is then the chain of its operators' lemmas, and `IInv` is `Sound` between two steps. Its parts:

* `Counted`: the handles counted of a file are those of the pins and of DuckDB, by which the file
  stays as long as somebody can use it;
* `Registered`: the three directories lead to files of that name or URL, and a listed file is found
  by its name as long as nothing has been erased twice or moved onto the name;
* `Protocolled`: the protocol of a file is that of its URL until its bytes are in a buffer, and a
  buffer that came from a server is what the server has (`Loaded`), whether or not it is open: a
  pinned buffer is opened again without asking the runtime. A first invariant had this of open files
  only and was not inductive;
* `Timed`: no info of the runtime is newer than the registry;
* `Runs`: in the browser the handles of `_files` are open and of their name, and an open access
  handle is in `_files` or prepared, so that a dropped name leaves none; in Node a descriptor belongs
  to one file;
* `Held`: of every file that DuckDB has open, the size is the real one, what the runtime has cached is
  right or from an older epoch, and the runtime has a handle. Nothing of the sort holds of other
  files: after a failed open their infos are stale, and nobody asks.

Dropping many files is a fold over a set. That it keeps the invariant is an induction over how many
have been dropped, done by the least counterexample (`LeastElement`), since the induction rules of
the library cannot be used. `Released` is what a chain of drops does to names: one that was there is
gone with its handle, or somebody uses it. `IInv` was model-checked on the instance of `web_files`
before it was proved. The assumptions are those of `WebFiles`: finitely many names, of the four
kinds, and servers and settings as its comments say.

Checked by TLC only:

* liveness and `ENABLED`, outside the prover's reach;
* the sixth script of `result_stream`, where a query is sent by the client that canceled the one
  before: that it is safe depends on the calls the canceled one has left;
* `StoredFilesAreDropped` of `AsyncDuckDB`, which holds for the scripts of the run and not for all
  (see the divergences on automatic OPFS handling): it needs, beyond what `QueriesKeepApart` says,
  that no registration fails. A registration that fails after others have succeeded leaves their
  files registered, and one fails whenever an empty file still has the handle of an earlier query;
* `PatternsMatch`, induction over data.

## 5. Findings

Each is a run that ends in a violation, with the line of the code and the comment, test or document
it contradicts in `PROJECT.json`:

1. `EvictAnyBufferFrame` leaves a frame EVICTING or RELOADED when someone fixes it meanwhile.
2. `BufferRef::Release` keeps the file guard; a page stream locks its file recursively.
3. `startPendingQuery` drops files between its answer and the first poll; a canceled query can then
   take the result of the one sent after it.
4. `RunQuery` and `PendingQuery` reset a result that is still being read: its reader sees the end of
   the stream instead of the error for overtaken queries.
5. An `OpenFile` that fails takes a registered and pinned file out of the directories.
6. `callScalarUDF` stores offsets of result strings where `CallScalarUDFFunction` reads addresses.

Divergences that the passing runs steer round, or that no property claims:

* A read error in `LoadFrame` (`file_page_buffer.cc:111`) leaves a LOADING frame behind. The comment
  at 419-421 has other threads "try again until we're the one failing", but the retry (432-451) is
  only taken for state NEW: the next `FixPage` hands out bytes nobody read.
* `worker_dispatcher.ts:78` refuses a second instantiate ("duckdb already initialized") and does not
  return: the database of the first one is replaced, and the request is answered twice. Nothing
  that passes can cover this: run and theorems are about programs that instantiate once.
* `open` stores the client's configuration before the request is posted (`async_bindings.ts:386`), and
  nothing undoes it: after an open that failed, was overtaken by another or was followed by a reset,
  automatic file handling goes by a configuration the database does not have. The model has both
  configurations and does the same; no property says that they agree.
* Automatic OPFS handling ("Automatically register `opfs://` files and drop them after execution.",
  `bindings/config.ts:39`) does not count files per query: of two queries on one file, the first to
  end drops it under the other (`async_bindings.ts:427`). If the second file of a query cannot be
  registered, the first one is never dropped (422). A new, empty file is prepared and never
  registered (`bindings_base.ts:528`), so its access handle stays open.
* `openFile` does not look at the status of its second HEAD (`runtime_browser.ts:308-330`): with
  `reliableHeadRequests` off, the length of an error page can become the length of the file.
* An S3 endpoint that ends in the slash after its host ("https://host/") is pasted with the slash
  into the URL of the request (`s3_helper.ts:248`), but signed without it (49-51).
* `MoveFile` onto a name that is taken (`web_filesystem.cc:997`) gives two files the name, of which the
  moved one is found by its id only; `DirectoriesAgree` leaves such names out. `TryDropFile` reads the
  entry that it has erased (490).
* A user function whose memory grows during the call loses the rows from there on without an error
  (`udf_runtime.ts:211` writes to a view of the old memory).
* `moveFile` of the browser deletes the handle by the handle instead of by its name
  (`runtime_browser.ts:771`); the GET that glob falls back to is signed as a HEAD (480); Node's
  `openFile` overwrites the descriptor of a file that is opened again (`runtime_node.ts:91`), which
  is then never closed.
* `dropFile` tells no pthread (`bindings_base.ts:629`), and a running thread reads none of its
  messages before it ends.
* A shell whose fonts load after the database was rendered waits for ever (`pages/shell.tsx:45`, the
  closure of the first render). A dial while the database is being set up is forgotten
  (`connection_provider.tsx:45`, although 40 has "Resolve request or remember as pending"), a second
  dial from the same closure replaces the id remembered by the first (47), and an id may be
  connected twice, since nothing is ever put into `inFlight` (32).
* The history is not rotated once its ring is full (`history_store.ts:50` answers the capacity), and
  an aborted transaction leaves a gap that makes `load_history` panic (`shell.rs:211`).
* The bundles of jsDelivr have no `mvp`: a browser without exceptions gets `eh`, which it cannot
  compile (`platform.ts:128`).

Further hazards that no property covers: a reader of a detached database loops without end
(`async_connection.ts:149`); the files of a pending query are dropped while it executes
(`async_bindings.ts:455`); connection ids outlive an `open` (`webdb.cc:1029`); an insert that cannot
be decoded leaves the stream decoder broken (624); cancel answers true for a query that is over
(284); the loop of `Read` relies on progress (`web_filesystem.cc:740`); invalidations of the read
ahead buffer are a mask of ids (`readahead_buffer.h:66`); `Truncate` works under buffered pages
(`file_page_buffer.cc:751`); two tabs store inputs under the same keys (`history_store.ts:128`).

## 6. Plan

In order of importance:

1. done: `FilePageBuffer` with `PageStore`, proofs and refinement;
2. done: `AsyncDuckDB` with `RequestServer` and the OPFS handles, proofs and refinement;
3. done: `ResultStream` with `ResultCursors`, proofs and refinement for one reader at a time;
4. done: `WebFiles` over `RemoteFile`, with proofs of all its properties;
5. done: `EngineScopes` over `ScalarUDF`, with proofs of all its properties;
6. done: `WebApp` over `ModuleLoading` and `ShellHistory`, with proofs of its invariants;
7. `PagedFile`: registry of open files, sizes and partial pages of the page buffer, against an
   abstract file, and the locks of the web filesystem in builds with threads;
8. `ReadAheadBuffer`, `BufferedFileSystem`, file statistics: algorithms, checked against reference
   definitions over bounded inputs;
9. the arrow insert stream, several connections, the JSON analyzer's shape detection, the shell's
   prompt buffer.

## 7. Not modelled

DuckDB, Arrow and Emscripten are other repositories and appear as environments. Value conversions,
casts and formatting have no state. The hashes of a signature are a record of what was signed.
Builds with WASMFS, progress and log messages of the worker, the benchmarks, the build and the pages
that only draw are left out. The registry of the page buffer, the read ahead buffer, the buffered
filesystem, insertion of arrow data and JSON analysis are planned (items 7 to 9).
