------------------------------ MODULE WebFiles ------------------------------
(***************************************************************************)
(* The files of the database: the registry of WebFileSystem with the pins   *)
(* of WebDB (lib/src/io/web_filesystem.cc, lib/src/webdb.cc), the file API  *)
(* of the bindings (bindings_base.ts) and the runtime in the browser or in  *)
(* Node that the registry calls (runtime_browser.ts, runtime_node.ts).      *)
(*                                                                         *)
(* One thread: a step is one call of the API, or one call that DuckDB makes *)
(* of its filesystem, with everything it causes on both sides.  The whole   *)
(* state of both sides is the record w, so that a step is written as the    *)
(* composition of what it does; an operator takes w to w after a function   *)
(* of the code, and s.ok tells whether that function has thrown.            *)
(***************************************************************************)
EXTENDS RemoteFile, FiniteSets, FiniteSetsExt

CONSTANTS
  Names,          \* of files: names, paths and URLs
  Kind,           \* Kind[n]: what a name looks like: "opfs", "s3", "http" or "path"
  Url,            \* Url[n]: bucket and key of an S3 name
  Runtimes,       \* a subset of {"browser", "node"}
  Servers,        \* what the web server may be like
  Intact,         \* sets of names: whose freed entry of a map still reads as it was
  AllSettings,    \* how the filesystem may be configured for HTTP
  Configs,        \* ConfigOf[c] for c \in 1..Configs: the S3 configurations in turn
  ConfigOf,
  Modes,          \* how DuckDB opens files
  PagedModes,     \* those of them that go through the page buffer
  Aliases,        \* <<name, URL>>: what is registered
  RemoteBytes,    \* the bytes of the file that the server has
  MaxFiles, MaxHandles, MaxOs   \* bounds: ids, open handles of DuckDB, handles of the system

NoUrl == "none"

ASSUME WebFilesAssumption ==
  /\ IsFiniteSet(Names) /\ NoUrl \notin Names
  /\ Kind \in [Names -> {"opfs", "s3", "http", "path"}]
  /\ Runtimes \subseteq {"browser", "node"} /\ PagedModes \subseteq Modes /\ Aliases \subseteq Names \X Names
  /\ Modes \subseteq {"read", "probe", "write", "update", "append"}
  /\ Servers \subseteq [head : {"partial", "full", "denied", "unreachable"},
                        get : {"partial", "full", "denied"}, shows : BOOLEAN,
                        page : Nat \cup {NoLength}, put : BOOLEAN]
  /\ AllSettings \subseteq [reliable : BOOLEAN, allowFull : BOOLEAN, forceFull : BOOLEAN]
  /\ Intact \subseteq SUBSET Names
  /\ RemoteBytes \in Seq(Nat)
  /\ MaxFiles \in Nat /\ MaxHandles \in Nat /\ MaxOs \in Nat
  /\ Configs \in Nat \ {0}

VARIABLES
  env,  \* [runtime, server, set, intact]: chosen in the initial state, never changes
  w     \* both sides of the filesystem, see Init

vars == <<env, w>>

None == 0              \* no file, no handle, no entry in a map
Ids == 1..MaxFiles
Browser == env.runtime = "browser"

(* inferDataProtocol: from the prefix, or the runtime's default.           *)
DataProtocol(n) ==
  CASE Kind[n] = "opfs" -> "fsaccess"
    [] Kind[n] \in {"s3", "http"} -> Kind[n]
    [] OTHER -> IF Browser THEN "filereader" ELSE "node"
Native == {"fsaccess", "filereader", "node"}
Remote == {"http", "s3"}

(* WebFile.  listed: in files_by_id_; a file out of the directories lives   *)
(* on while somebody has a handle of it.  uploads: buffered_http_file_.     *)
(* altered is a history variable: its bytes are not what the server has.    *)
NoFile == [name |-> NoUrl, url |-> NoUrl, proto |-> "none", handles |-> 0, listed |-> FALSE,
           data |-> <<>>, size |-> 0, uploads |-> FALSE, upConfig |-> None, altered |-> FALSE]
NewFile(n, url, proto) ==
  [NoFile EXCEPT !.name = n, !.url = url, !.proto = proto, !.listed = TRUE]

NoInfo == [epoch |-> 0, name |-> NoUrl, url |-> NoUrl, proto |-> "none", config |-> None]
NoHandle == [file |-> None, mode |-> "none", paged |-> FALSE]

Init ==
  /\ env \in [runtime : Runtimes, server : Servers, set : AllSettings, intact : Intact]
  /\ w = [file |-> [i \in Ids |-> NoFile], last |-> 0,           \* WebFileSystem
          byName |-> [n \in Names |-> None], byUrl |-> [n \in Names |-> None],
          epoch |-> 1, config |-> 1,
          pin |-> [n \in Names |-> None],                        \* pinned_web_files_
          handle |-> [h \in 1..MaxHandles |-> NoHandle],         \* what DuckDB has open
          cache |-> [i \in Ids |-> NoInfo],                      \* _fileInfoCache
          global |-> NoInfo,                                     \* _globalFileInfo
          files |-> [n \in Names |-> None],                      \* _files
          prepared |-> [n \in Names |-> None],                   \* _preparedHandles
          byId |-> [i \in Ids |-> None],                         \* _filesById
          os |-> <<>>,                                           \* the system's handles
          remote |-> RemoteBytes,
          ok |-> TRUE, corrupt |-> FALSE,
          moved |-> {}, clashed |-> {}]     \* history: names moved, and taken when moved to

Fail(s) == [s EXCEPT !.ok = FALSE]
Caught(s) == [s EXCEPT !.ok = TRUE]

-----------------------------------------------------------------------------
(* The runtime's view of a file.                                           *)

\* Mutant: an upload is signed with the configuration of the day.
CurrentInfo(s, i) ==
  [epoch |-> s.epoch, name |-> s.file[i].name, url |-> s.file[i].url, proto |-> s.file[i].proto,
   config |-> s.config]
Info(s, i) ==
  [epoch |-> s.epoch, name |-> s.file[i].name, url |-> s.file[i].url, proto |-> s.file[i].proto,
   config |-> IF s.file[i].uploads THEN s.file[i].upConfig ELSE s.config]

(* getFileInfo, resolveFileInfo: nothing comes back for the epoch that the  *)
(* runtime knows and for a file that is not listed; the browser then takes  *)
(* over a handle that was prepared for the file.                           *)
Resolve(s, i) ==
  IF s.cache[i].epoch = s.epoch \/ ~s.file[i].listed THEN s
  ELSE LET n == s.file[i].name
           takes == Browser /\ s.files[n] = None /\ s.prepared[n] # None
       IN  [s EXCEPT !.cache[i] = Info(s, i),
                     !.files[n] = IF takes THEN s.prepared[n] ELSE @,
                     !.prepared[n] = IF takes THEN None ELSE @]

(* getGlobalFileInfo                                                       *)
ResolveGlobal(s) ==
  IF s.global.epoch = s.epoch THEN s
  ELSE [s EXCEPT !.global = [NoInfo EXCEPT !.epoch = s.epoch, !.config = s.config]]

(* The handle that the runtime takes for a file.                           *)
HandleFor(s, i) ==
  IF s.cache[i].proto = "node" THEN s.byId[i]
  ELSE IF s.cache[i].name = NoUrl THEN None ELSE s.files[s.cache[i].name]

(* One use of that handle; there may be none, or it may be closed.         *)
UseHandle(s, i) ==
  LET h == HandleFor(s, i) IN IF h # None /\ s.os[h].open THEN s ELSE Fail(s)

(* A request to S3, with the configuration that the runtime has cached.    *)
FileRequest(s, i, method, payload) ==
  S3Request(ConfigOf[s.cache[i].config], Url[s.cache[i].url], method, method, payload)

NewOs(s, path, kind) == [s EXCEPT !.os = Append(@, [path |-> path, kind |-> kind, open |-> TRUE])]
OpenOn(s, path) == {h \in DOMAIN s.os : s.os[h].path = path /\ s.os[h].open /\ s.os[h].kind = "access"}

-----------------------------------------------------------------------------
(* The runtime's file operations.                                          *)

(* closeFile.  In the browser only an access handle is flushed; in Node the *)
(* descriptor is closed if the cache still tells the protocol.              *)
Flushed(r, i) == IF r.cache[i].proto = "fsaccess" THEN UseHandle(r, i) ELSE r
RtClose(s, i) ==
  IF Browser THEN [Flushed(Resolve(s, i), i) EXCEPT !.cache[i] = NoInfo]
  ELSE LET node == s.cache[i].proto = "node"
       IN  [s EXCEPT !.cache[i] = NoInfo, !.byId[i] = IF node THEN None ELSE @,
                     !.os = IF node /\ s.byId[i] # None
                              THEN [@ EXCEPT ![s.byId[i]].open = FALSE] ELSE @]

(* writeFile of a whole buffer, as Close calls it                          *)
Uploaded(r, i) ==
  IF r.cache[i].proto = "s3" /\ Browser /\ env.server.put
    THEN [r EXCEPT !.remote = r.file[i].data,
                   !.file = [j \in Ids |-> [@[j] EXCEPT !.altered = TRUE]]]
    ELSE Fail(r)
RtUpload(s, i) == Uploaded(Resolve(s, i), i)

(* dropFile                                                                *)
\* Mutant: the handle is forgotten and not closed.
RtForget(s, n) == IF Browser THEN [s EXCEPT !.files[n] = None] ELSE s
RtDrop(s, n) ==
  LET h == s.files[n]
  IN  IF ~Browser \/ h = None THEN s
      ELSE LET d == [s EXCEPT !.files[n] = None]
           IN  CASE s.os[h].kind = "blob" -> d
                 [] s.os[h].kind # "blob" /\ s.os[h].open -> [d EXCEPT !.os[h].open = FALSE]
                 [] OTHER -> Fail(d)

(* truncateFile                                                            *)
Truncated(r, i) ==
  CASE r.cache[i].proto = "fsaccess" /\ Browser -> UseHandle(r, i)
    [] r.cache[i].proto = "node" -> r
    [] OTHER -> Fail(r)
RtTruncate(s, i) == Truncated(Resolve(s, i), i)

(* openFile: the answer is that of RemoteFile; "ranges" stands for reads    *)
(* that go to the runtime.                                                 *)
Answer(s, opened) == [w |-> Caught(s), opened |-> opened]
Ranges == Opened("ranges", 1, <<>>)
RtOpenRemote(r, mode) ==
  Answer(r, CASE mode \in {"update", "append"} -> Fails
              [] mode = "write" -> OpenForWrite(env.server, r.remote, TRUE)
              [] OTHER -> OpenForRead(env.server, env.set, r.remote))
RtOpenBrowser(r, i, mode) ==
  LET c == r.cache[i]
  IN  CASE c.proto \in Remote -> RtOpenRemote(r, mode)
        [] c.proto = "filereader" -> Answer(r, CASE r.files[c.name] # None -> Ranges
                                                 [] r.files[c.name] = None /\ mode = "probe" -> Nothing
                                                 [] OTHER -> Whole(<<0>>))
        [] c.proto = "fsaccess" -> Answer(r, IF UseHandle(r, i).ok THEN Ranges ELSE Fails)
        [] OTHER -> Answer(r, Fails)

(* opens: whether the system lets openSync have the file.                  *)
RtOpenNode(r, i, mode, opens) ==
  LET c == r.cache[i]
  IN  CASE c.proto # "node" -> Answer(r, Fails)
        [] c.proto = "node" /\ r.files[c.url] # None -> Answer(r, Ranges)
        [] c.proto = "node" /\ r.files[c.url] = None /\ mode = "probe" -> Answer(r, Nothing)
        [] OTHER -> IF opens THEN Answer([NewOs(r, c.url, "fd") EXCEPT !.byId[i] = Len(r.os) + 1], Ranges)
                    ELSE Answer(r, Fails)

RtOpen(s, i, mode, opens) ==
  IF Browser THEN RtOpenBrowser(Resolve([s EXCEPT !.cache[i] = NoInfo], i), i, mode)
             ELSE RtOpenNode(Resolve([s EXCEPT !.cache[i] = NoInfo], i), i, mode, opens)

(* moveFile, the same in both: the map is asked to forget the handle, not   *)
(* the name; the cached info of a file with that URL is forgotten.         *)
HandleMoved(s, from, to) ==
  IF s.files[from] = None THEN s ELSE [s EXCEPT !.files[to] = s.files[from]]
InfoForgotten(s, from) ==
  LET infos == {i \in Ids : s.cache[i].url = from}
  IN  IF infos = {} THEN s ELSE [s EXCEPT !.cache[CHOOSE i \in infos : TRUE] = NoInfo]
RtMove(s, from, to) == InfoForgotten(HandleMoved(s, from, to), from)

-----------------------------------------------------------------------------
(* WebFileSystem                                                           *)

(* Erasing an entry that is not there is undefined: the registry is then no *)
(* longer to be relied on.                                                 *)
\* Mutant: the file stays listed under its name.
EraseId(s, i) ==
  LET f == s.file[i]
      e == [s EXCEPT !.file[i].listed = FALSE, !.corrupt = @ \/ ~f.listed,
                     !.byUrl = IF f.url = NoUrl THEN @ ELSE [@ EXCEPT ![f.url] = None]]
  IN  IF f.handles = 0 THEN [e EXCEPT !.file[i] = NoFile] ELSE e
Erase(s, i) ==
  LET f == s.file[i]
      e == [s EXCEPT !.byName[f.name] = None,
                     !.byUrl = IF f.url = NoUrl THEN @ ELSE [@ EXCEPT ![f.url] = None],
                     !.file[i].listed = FALSE, !.corrupt = @ \/ ~f.listed]
  IN  IF f.handles = 0 THEN [e EXCEPT !.file[i] = NoFile] ELSE e

(* WebFileHandle::Close.  What was written to an HTTP file is uploaded, for *)
(* which the file becomes an HTTP file again.                              *)
WritesBack(s, i) ==
  [s EXCEPT !.file[i].proto = DataProtocol(s.file[i].url), !.epoch = @ + 1]
WrittenBack(s, i) == IF s.file[i].proto = "buffer" THEN RtUpload(WritesBack(s, i), i) ELSE s
ClosedIn(s, i) == IF s.ok THEN RtClose(s, i) ELSE s
Gone(s, i) == IF s.ok THEN Erase(s, i) ELSE s
Close(s, i) ==
  LET f == s.file[i]
      d == [s EXCEPT !.file[i].handles = @ - 1]
  IN  IF f.handles > 1 \/ (f.proto = "buffer" /\ ~f.uploads) THEN d
      ELSE Gone(ClosedIn(WrittenBack(d, i), i), i)

(* A handle that is destroyed swallows what Close throws.                  *)
Destroy(s, i) == [Close(s, i) EXCEPT !.ok = s.ok]

Register(s, n, file) ==
  LET i == s.last + 1
  IN  [s EXCEPT !.file[i] = file, !.last = i, !.byName[n] = i,
                !.byUrl = IF file.url # NoUrl /\ @[file.url] = None
                            THEN [@ EXCEPT ![file.url] = i] ELSE @]

AddHandle(s, i) == [s EXCEPT !.file[i].handles = @ + 1]

(* Truncate to nothing                                                     *)
Emptied(s, i) ==
  IF s.ok THEN [s EXCEPT !.file[i].size = 0, !.file[i].data = <<>>, !.file[i].altered = TRUE]
  ELSE s
Truncate(s, i) == Emptied(IF s.file[i].proto = "buffer" THEN s ELSE RtTruncate(s, i), i)

(* OpenFile: what the runtime has opened goes into the file; whatever fails *)
(* takes the file out of the directories, and then its handle is destroyed. *)
TakeOpened(s, i, opened, mode) ==
  LET f == s.file[i]
      b == opened.kind = "buffer"
      up == b /\ mode \in {"write", "update", "append"} /\ f.proto \in Remote
  IN  [s EXCEPT !.file[i] = [f EXCEPT !.size = opened.size,
                               !.data = IF b THEN opened.data ELSE @,
                               !.proto = IF b THEN "buffer" ELSE @,
                               !.uploads = up \/ @,
                               !.upConfig = IF up THEN s.config ELSE @]]
AbortOpen(s, i) == Fail(Destroy(Erase(Caught(s), i), i))

Handle(s, i) == [w |-> s, id |-> i]
Usable(s, i) == IF s.ok THEN Handle(s, i) ELSE Handle(AbortOpen(s, i), None)
Answered(r, i, mode) ==
  CASE r.opened.kind = "null" /\ mode = "probe" -> Handle(Destroy(r.w, i), None)
    [] r.opened.kind = "error" \/ (r.opened.kind = "null" /\ mode # "probe") ->
         Handle(AbortOpen(r.w, i), None)
    [] OTHER -> Usable(IF mode = "write" THEN Truncate(TakeOpened(r.w, i, r.opened, mode), i)
                       ELSE TakeOpened(r.w, i, r.opened, mode), i)
OpenListed(s, i, mode, opens) ==
  CASE s.file[i].proto # "buffer" -> Answered(RtOpen(s, i, mode, opens), i, mode)
    [] OTHER -> Handle(IF mode = "write" THEN Truncate(s, i) ELSE s, i)
OpenFile(s, n, mode, opens) ==
  IF s.byName[n] # None THEN OpenListed(AddHandle(s, s.byName[n]), s.byName[n], mode, opens)
  ELSE OpenListed(AddHandle(Register(s, n, NewFile(n, n, DataProtocol(n))), s.last + 1),
                  s.last + 1, mode, opens)

(* TryDropFile.  For the URL it reads the entry by name that it has erased, *)
(* which is undefined: the URL is found and erased, or it stays listed and  *)
(* keeps the file alive.                                                   *)
InUse(s, n) == s.byName[n] # None /\ s.file[s.byName[n]].handles > 0
UrlLeft(s, i) ==
  [s EXCEPT !.byName[s.file[i].name] = None,
            !.file[i] = IF \E u \in Names : s.byUrl[u] = i THEN [@ EXCEPT !.listed = FALSE]
                        ELSE NoFile]
Forget(s, n) ==
  CASE s.byName[n] = None -> s
    [] s.byName[n] # None /\ n \in env.intact -> Erase(s, s.byName[n])
    [] OTHER -> UrlLeft(s, s.byName[n])

-----------------------------------------------------------------------------
(* WebDB: registration, with a pin that keeps the file alive.              *)

(* buffered_filesystem_->TryDropFile: files that the page buffer has open.  *)
PageBufferHolds(s, n) ==
  \E h \in 1..MaxHandles : s.handle[h].paged /\ s.file[s.handle[h].file].name = n

\* Mutant: the pin is forgotten and its handle not closed.
ForgetPin(s, n) == [s EXCEPT !.pin[n] = None]
Unpin(s, n) == IF s.pin[n] = None THEN s ELSE Destroy([s EXCEPT !.pin[n] = None], s.pin[n])
Pin(s, n, i) == AddHandle([s EXCEPT !.pin[n] = i], i)

UrlPinned(u, n, url, proto) ==
  CASE u.byName[n] = None -> Pin(Register(u, n, NewFile(n, url, proto)), n, u.last + 1)
    [] u.byName[n] # None /\ u.file[u.byName[n]].url = url -> Pin(u, n, u.byName[n])
    [] OTHER -> Fail(u)
RegisterUrl(s, n, url, proto) ==
  IF PageBufferHolds(s, n) THEN Fail(s) ELSE UrlPinned(Unpin(s, n), n, url, proto)

(* A native file that is in use is closed and gets the buffer, but stays a  *)
(* native file.                                                            *)
NativePinned(c, n, i) == IF c.ok THEN [c EXCEPT !.pin[n] = i] ELSE Fail(Destroy(Caught(c), i))
BufferPinned(u, n, i, data) ==
  LET d == [u EXCEPT !.file[i].data = data, !.file[i].size = Len(data), !.file[i].altered = TRUE]
  IN  IF u.file[i].proto \in Native THEN NativePinned(RtClose(AddHandle(d, i), i), n, i)
      ELSE Pin([d EXCEPT !.file[i].proto = "buffer"], n, i)
BufferAdded(u, n, data) ==
  IF u.byName[n] # None THEN BufferPinned(u, n, u.byName[n], data)
  ELSE Pin(Register(u, n, [NewFile(n, NoUrl, "buffer") EXCEPT !.data = data, !.size = Len(data)]),
           n, u.last + 1)
RegisterBuffer(s, n, data) ==
  IF PageBufferHolds(s, n) THEN Fail(s) ELSE BufferAdded(Unpin(s, n), n, data)

(* DropFile: the pin goes even if the file turns out to be in use.         *)
\* Mutant: the runtime drops the handle of a file that is in use.
DropInUse(u, n) == RtDrop(IF InUse(u, n) THEN Fail(u) ELSE Forget(u, n), n)
DropUnpinned(u, n) == IF InUse(u, n) THEN Fail(u) ELSE RtDrop(Forget(u, n), n)
Drop(s, n) == DropUnpinned(Unpin(s, n), n)

DropIdle(s, i) ==
  IF s.file[i].listed /\ s.file[i].handles = 0 THEN RtDrop(Erase(s, i), s.file[i].name) ELSE s
DropDangling(s) == FoldSet(LAMBDA i, acc : DropIdle(acc, i), s, Ids)

-----------------------------------------------------------------------------
(* The API of the bindings.  After the registry is corrupt nothing is known *)
(* of what follows.                                                        *)

Room(s) == ~s.corrupt /\ s.last < MaxFiles /\ Len(s.os) < MaxOs
Becomes(s) == w' = Caught(s) /\ UNCHANGED env

(* registerFileURL *)
RegisterFileURL(n, url) == Room(w) /\ Becomes(RegisterUrl(w, n, url, DataProtocol(url)))

(* registerFileBuffer, registerFileText *)
RegisterFileBuffer(n) == Room(w) /\ Becomes(RegisterBuffer(w, n, <<7>>))

(* registerFileHandle of a Blob; of an OPFS file through prepareFileHandles *)
(* and registerFileHandleAsync: a handle that the runtime knows is kept, a  *)
(* new one is exclusive, and an empty file is left prepared.               *)
HandleAdded(r, n) ==
  IF r.ok THEN [NewOs(r, n, "blob") EXCEPT !.files[n] = Len(r.os) + 1] ELSE r
RegisterFileHandle(n) ==
  /\ Room(w) /\ Browser /\ Kind[n] = "path"
  /\ Becomes(HandleAdded(RegisterUrl(w, n, n, "filereader"), n))

HandleTaken(r, n, k) == IF r.ok THEN [r EXCEPT !.files[n] = k, !.prepared[n] = None] ELSE r
PrepareFileHandle(n, empty) ==
  LET p == [NewOs(w, n, "access") EXCEPT !.prepared[n] = Len(w.os) + 1]
  IN  /\ Room(w) /\ Browser /\ Kind[n] = "opfs"
      /\ Becomes(CASE w.files[n] # None -> w
                   [] w.files[n] = None /\ OpenOn(w, n) # {} -> Fail(w)
                   [] OTHER -> IF empty THEN p
                               ELSE HandleTaken(RegisterUrl(p, n, n, "fsaccess"), n, Len(p.os)))

PinnedNames(s) == {s.file[s.pin[n]].name : n \in {m \in Names : s.pin[m] # None}}

(* dropFile, and dropFiles without names: pinned files in any order up to   *)
(* one that is in use, then the files that nobody has open.                *)
DropFile(n) == ~w.corrupt /\ Becomes(Drop(w, n))
DropSome(d, rest) ==
  /\ d.ok
  /\ \/ rest = {} /\ Becomes(DropDangling(d))
     \/ \E n \in rest : ~Drop(d, n).ok /\ Becomes(Drop(d, n))
DropFiles ==
  \E done \in SUBSET PinnedNames(w) :
    ~w.corrupt /\ DropSome(FoldSet(LAMBDA n, acc : Drop(acc, n), w, done), PinnedNames(w) \ done)

(* SET s3_...: the callbacks of the configuration raise the epoch.         *)
SetConfig ==
  /\ ~w.corrupt /\ w.config < Configs
  /\ Becomes([w EXCEPT !.config = @ + 1, !.epoch = @ + 1])

(* checkFile and glob of a remote name that is not registered: requests     *)
(* with the global configuration; glob signs its GET as a HEAD.            *)
GlobRequest(s, n, method) ==
  S3Request(ConfigOf[s.global.config], Url[n], method, "HEAD", "")
FileExists(n) ==
  /\ ~w.corrupt /\ Browser /\ w.byName[n] = None /\ Kind[n] = "s3"
  /\ Becomes(ResolveGlobal(w))

-----------------------------------------------------------------------------
(* What DuckDB does with the filesystem.                                   *)

SystemOpens == IF Browser THEN {TRUE} ELSE BOOLEAN
Given(o, h, mode) ==
  IF o.id = None THEN o.w
  ELSE [o.w EXCEPT !.handle[h] = [file |-> o.id, mode |-> mode, paged |-> mode \in PagedModes]]
Open(h, n, mode) ==
  /\ Room(w) /\ w.handle[h] = NoHandle
  /\ \A g \in 1..h-1 : w.handle[g] # NoHandle
  /\ \E opens \in SystemOpens : Becomes(Given(OpenFile(w, n, mode, opens), h, mode))

CloseHandle(h) ==
  /\ ~w.corrupt /\ w.handle[h] # NoHandle
  /\ Becomes([Close(w, w.handle[h].file) EXCEPT !.handle[h] = NoHandle])

(* Read: from the buffer or through the runtime.  The bytes that come back *)
(* are BytesOf; only the runtime's caches change.                          *)
Fetched(r, i) == IF r.file[i].proto \in Native THEN UseHandle(r, i) ELSE r
Fetch(s, i) == IF s.file[i].proto = "buffer" THEN s ELSE Fetched(Resolve(s, i), i)
BytesOf(s, i, at, n) ==
  IF s.file[i].proto = "buffer" THEN SubSeq(s.file[i].data, at + 1, at + n)
  ELSE ReadRange(env.server, s.remote, at, n)

Read(h) ==
  /\ ~w.corrupt /\ w.handle[h] # NoHandle
  /\ w.file[w.handle[h].file].size > 0
  /\ Becomes(Fetch(w, w.handle[h].file))

(* Write: one byte at the start; past the end of a buffer it grows.        *)
WriteInBrowser(r, i) == IF r.file[i].proto = "fsaccess" THEN UseHandle(r, i) ELSE Fail(w)
WriteInNode(r, i) == IF r.file[i].proto = "node" THEN UseHandle(r, i) ELSE Fail(w)
WriteTo(r, i) == IF Browser THEN WriteInBrowser(r, i) ELSE WriteInNode(r, i)
Write(h) ==
  LET i == w.handle[h].file
  IN  /\ ~w.corrupt /\ w.handle[h] # NoHandle
      /\ w.handle[h].mode \in {"write", "update", "append"}
      /\ Becomes(IF w.file[i].proto = "buffer"
                   THEN [w EXCEPT !.file[i].data = <<9>>, !.file[i].size = 1, !.file[i].altered = TRUE]
                   ELSE WriteTo(Resolve(w, i), i))

(* MoveFile: DuckDB moves files that it has closed.  insert does nothing if *)
(* the name is taken: the moved file then has the name, and is not listed   *)
(* under it.                                                               *)
Relisted(map, from, to) ==
  [map EXCEPT ![from] = None, ![to] = IF @ = None THEN map[from] ELSE @]
UrlTo(s, from, to) ==
  LET j == s.byUrl[from]
  IN  IF j = None THEN s
      ELSE [s EXCEPT !.file[j].url = to, !.byUrl = Relisted(@, from, to)]
NameTo(s, from, to) ==
  LET i == s.byName[from]
  IN  IF i = None THEN s
      ELSE [s EXCEPT !.file[i].name = to, !.byName = Relisted(@, from, to),
                     !.clashed = IF s.byName[to] = None THEN @ ELSE @ \cup {to}]
MoveFile(from, to) ==
  /\ ~w.corrupt /\ from # to /\ Kind[from] = Kind[to]
  /\ \A h \in 1..MaxHandles : w.handle[h] = NoHandle \/
       w.handle[h].file \notin {w.byName[from], w.byUrl[from]}
  /\ Becomes([RtMove(NameTo(UrlTo(w, from, to), from, to), from, to)
                EXCEPT !.moved = @ \cup {from, to}])

(* copyFileToBuffer: the file is opened, read and closed.                  *)
Copied(o) ==
  CASE o.id = None -> o.w
    [] o.id # None /\ o.w.file[o.id].size = 0 -> Destroy(o.w, o.id)
    [] OTHER -> Destroy(Fetch(o.w, o.id), o.id)
CopyFileToBuffer(n) ==
  Room(w) /\ \E opens \in SystemOpens : Becomes(Copied(OpenFile(w, n, "read", opens)))

(* The names that are used: those that get registered, or moved files.     *)
Used == {alias[1] : alias \in Aliases} \cup w.moved
Next ==
  \/ \E alias \in Aliases : RegisterFileURL(alias[1], alias[2])
  \/ \E n \in Used : RegisterFileBuffer(n)
  \/ \E n \in Used : RegisterFileHandle(n)
  \/ \E n \in Used, empty \in BOOLEAN : PrepareFileHandle(n, empty)
  \/ \E n \in Used : DropFile(n)
  \/ DropFiles
  \/ SetConfig
  \/ \E n \in Used : FileExists(n)
  \/ \E n \in Used : CopyFileToBuffer(n)
  \/ \E n, m \in Names : MoveFile(n, m)
  \/ \E h \in 1..MaxHandles, n \in Used, mode \in Modes : Open(h, n, mode)
  \/ \E h \in 1..MaxHandles : CloseHandle(h)
  \/ \E h \in 1..MaxHandles : Read(h)
  \/ \E h \in 1..MaxHandles : Write(h)

Spec == Init /\ [][Next]_vars

-----------------------------------------------------------------------------
(* Every map of the registry and of the runtime leads to a file or a handle *)
(* that exists, and the handle counts are those of the pins and of DuckDB.  *)
TypeOK ==
  /\ w.epoch \in Nat /\ w.config \in 1..Configs /\ w.last \in 0..MaxFiles
  /\ \A i \in Ids : /\ w.file[i].handles \in Nat
                    /\ w.file[i].listed => w.file[i].name \in Names
                    /\ w.byId[i] \in {None} \cup DOMAIN w.os
  /\ \A n \in Names : /\ w.files[n] \in {None} \cup DOMAIN w.os
                      /\ w.prepared[n] \in {None} \cup DOMAIN w.os
                      /\ w.byName[n] \in 0..w.last /\ w.pin[n] \in 0..w.last
  /\ ~w.corrupt => \A i \in 1..w.last : w.file[i].handles =
       Cardinality({h \in 1..MaxHandles : w.handle[h].file = i})
         + Cardinality({n \in Names : w.pin[n] = i})

(* Where the next two properties hold: no refusal shows a length, which     *)
(* openFile might take for that of the file, and no endpoint has nothing    *)
(* but a slash after its host, which requests are sent with and signed      *)
(* without.                                                                *)
Honest == \A server \in Servers : server.page = NoLength
NoBareSlash == \A c \in 1..Configs : ConfigOf[c].endpoint.path # <<"">>

(* A file that comes from a web server is read as it is there: a size that  *)
(* openFile reports is the real one, and a read returns exactly the bytes   *)
(* that were asked for or fails (runtime_browser.ts, openFile and readFile; *)
(* 615-616: "We have to check in OPEN if such file supports range requests  *)
(* and upgrade to BUFFER if not").                                         *)
FromServer(h) ==
  LET f == w.file[w.handle[h].file]
  IN  w.handle[h] # NoHandle /\ f.url # NoUrl /\ Kind[f.url] \in Remote /\ ~f.altered
ReadsAreExact ==
  \A h \in 1..MaxHandles : FromServer(h) =>
    LET i == w.handle[h].file
    IN  /\ w.file[i].size = Len(w.remote)
        /\ \A at \in 0..Len(w.remote) - 1, n \in 1..Len(w.remote) :
             at + n <= Len(w.remote) =>
               BytesOf(w, i, at, n) \in {SubSeq(w.remote, at + 1, at + n), Threw}

(* What is sent to S3 is signed as it is sent (the method, the URL, the     *)
(* payload), with the configuration in force or, for an upload, the one in  *)
(* force when the file was opened for writing, although the runtime works   *)
(* from cached infos (runtime_browser.ts, getFileInfo; web_filesystem.cc,   *)
(* WriteInfo).  Left out: the GET that glob falls back to, signed as a      *)
(* HEAD, and the configuration of a file that has lost its registration,    *)
(* which the runtime never hears of again.                                 *)
IsSigned(request, config, n) ==
  /\ request.url = HTTPUrl(config, Url[n])
  /\ request.headers.secret = config.secret
  /\ config.secret # "" => request.headers = [url |-> request.url, method |-> request.method,
                                 payload |-> request.payload, secret |-> config.secret]
RequestsAreSigned ==
  /\ \A h \in 1..MaxHandles : w.handle[h] # NoHandle =>
       LET i == w.handle[h].file
           f == w.file[i]
           reads == Resolve(w, i)
           uploads == Resolve(WritesBack(w, i), i)
       IN  f.listed =>
             /\ f.proto = "s3" => IsSigned(FileRequest(reads, i, "GET", ""),
                                    ConfigOf[IF f.uploads THEN f.upConfig ELSE w.config], f.url)
             /\ f.proto = "buffer" /\ f.uploads =>
                  IsSigned(FileRequest(uploads, i, "PUT", "data"), ConfigOf[f.upConfig], f.url)
  /\ \A n \in Names : Kind[n] = "s3" =>
       IsSigned(GlobRequest(ResolveGlobal(w), n, "HEAD"), ConfigOf[w.config], n)

(* The runtime never acts on a handle that has been closed, or on one of    *)
(* another file, whatever was registered, dropped, opened again or prepared *)
(* in between (runtime_browser.ts, _files and _preparedHandles;             *)
(* runtime_node.ts, _filesById).  Files that were moved are left out.       *)
HandlesAreLive ==
  \A h \in 1..MaxHandles : w.handle[h] # NoHandle =>
    LET i == w.handle[h].file
        f == w.file[i]
        k == HandleFor(Resolve(w, i), i)
    IN  f.proto \in Native /\ f.name \notin w.moved =>
          /\ f.listed /\ ~f.altered /\ ~w.corrupt => k # None
          /\ k # None =>
               w.os[k].open /\ w.os[k].path = IF f.proto = "node" THEN f.url ELSE f.name

(* The directories by name and by id hold the same files, each under its    *)
(* own name (web_filesystem.cc: five functions erase from them, four insert *)
(* into them).  Left out: a name that was taken when a file was moved to    *)
(* it, which two files then have.                                          *)
DirectoriesAgree ==
  ~w.corrupt =>
    /\ \A n \in Names : w.byName[n] # None =>
         w.file[w.byName[n]].listed /\ w.file[w.byName[n]].name = n
    /\ \A i \in Ids : w.file[i].listed /\ w.file[i].name \notin w.clashed =>
         w.byName[w.file[i].name] = i

(* A drop that succeeds releases the file: an OPFS file has no access       *)
(* handle left that would lock it, unless one is prepared (webdb.cc,        *)
(* DropFile; runtime_browser.ts, dropFile).  Moved files are left out.      *)
Locked(n) ==
  /\ ~w.corrupt /\ w.byName[n] = None /\ w.prepared[n] = None
  /\ OpenOn(w, n) # {}
DroppedIsReleased ==
  [][\A n \in Names \ w.moved :
       Locked(n)' => ~DropFile(n) /\ (w.byName[n] = None \/ ~DropFiles)]_vars

(* webdb.cc:1060: "Pin the file handle to keep the file alive."  It does not *)
(* keep it in the directories: an open of the file that fails takes it out, *)
(* and the name that is still pinned is not known any more.                *)
PinnedStaysRegistered ==
  \A n \in Names : w.pin[n] # None /\ ~w.corrupt => w.file[w.pin[n]].listed

=============================================================================
