--------------------------- MODULE WebFilesProofs ---------------------------
(***************************************************************************)
(* For any names, servers, settings and number of files and handles: the   *)
(* registry of files agrees with itself, and the runtime's copies of it    *)
(* agree with the registry wherever DuckDB can still use them.             *)
(*                                                                         *)
(* A step is a composition of operators on the state s.  Each operator of  *)
(* the model has one lemma here, which takes the invariant from s to what  *)
(* the operator makes of it; in the middle of a step one handle may be     *)
(* counted that neither a pin nor DuckDB has (the parameter x), and what   *)
(* DuckDB will have open at its end is the parameter hs.                   *)
(***************************************************************************)
EXTENDS WebFiles, FiniteSetTheorems, WellFoundedInduction, SequenceTheorems, TLAPS

-----------------------------------------------------------------------------
(* The states                                                               *)

Texts == Names \cup {NoUrl}
Protocols == {"none", "buffer", "fsaccess", "filereader", "node", "http", "s3"}
FileRecords ==
  [name : Texts, url : Texts, proto : Protocols, handles : Nat, listed : BOOLEAN,
   data : Seq(Nat), size : Int, uploads : BOOLEAN, upConfig : 0..Configs, altered : BOOLEAN]
InfoRecords ==
  [epoch : Nat, name : Texts, url : Texts, proto : Protocols, config : 0..Configs]
HandleRecords == [file : Ids, mode : Modes, paged : BOOLEAN]
HandleMaps == [1..MaxHandles -> {NoHandle} \cup HandleRecords]
OsRecords == [path : Texts, kind : {"blob", "access", "fd"}, open : BOOLEAN]
Entries == [Names -> 0..MaxFiles]

States ==
  [file : [Ids -> FileRecords], last : 0..MaxFiles, byName : Entries, byUrl : Entries,
   epoch : Nat \ {0}, config : 1..Configs, pin : Entries, handle : HandleMaps,
   cache : [Ids -> InfoRecords], global : InfoRecords,
   files : [Names -> Nat], prepared : [Names -> Nat], byId : [Ids -> Nat],
   os : Seq(OsRecords), remote : Seq(Nat), ok : BOOLEAN, corrupt : BOOLEAN,
   moved : SUBSET Names, clashed : SUBSET Names]
Envs ==
  [runtime : {"browser", "node"}, server : Servers, set : AllSettings, intact : SUBSET Names]

-----------------------------------------------------------------------------
(* The invariant                                                            *)

\* Who has a handle of a file: DuckDB, with the handles hs, and the pins.
Users(pin, hs, i) ==
  Cardinality({h \in 1..MaxHandles : hs[h].file = i}) + Cardinality({n \in Names : pin[n] = i})
Counted(s, hs, x) ==
  \A i \in Ids : s.file[i].handles = Users(s.pin, hs, i) + IF i = x THEN 1 ELSE 0

\* The directories of the registry.
Named(s) ==
  \A n \in Names : s.byName[n] # None => s.file[s.byName[n]].listed /\ s.file[s.byName[n]].name = n
Directories(s) ==
  \A i \in Ids : s.file[i].listed /\ s.file[i].name \notin s.clashed => s.byName[s.file[i].name] = i
Registered(s) ==
  /\ \A i \in Ids : s.file[i].listed => s.file[i].name # NoUrl
  /\ \A i \in Ids : i > s.last => s.file[i].proto = "none"
  /\ \A n \in Names : s.byName[n] <= s.last
  /\ \A u \in Names : s.byUrl[u] # None => s.file[s.byUrl[u]].url = u
  /\ \A n \in Names : s.pin[n] # None =>
       s.file[s.pin[n]].name = n \/ s.file[s.pin[n]].name \in s.moved
  /\ Named(s) /\ (~s.corrupt => Directories(s)) /\ s.clashed \subseteq s.moved

\* The protocol of a file is that of its URL, until its bytes are in a buffer.
Proto(e, n) ==
  CASE Kind[n] = "opfs" -> "fsaccess"
    [] Kind[n] \in {"s3", "http"} -> Kind[n]
    [] OTHER -> IF e.runtime = "browser" THEN "filereader" ELSE "node"
Idle(f) == f.name = NoUrl /\ f.url = NoUrl /\ f.handles = 0 /\ ~f.listed /\ ~f.uploads
FollowsUrl(e, f) ==
  /\ f.proto \notin {"buffer", "none"} => f.url # NoUrl /\ f.proto = Proto(e, f.url)
  /\ f.uploads => f.url # NoUrl /\ Proto(e, f.url) \in Remote /\ f.upConfig # None
  /\ f.proto = "none" => Idle(f)

\* A file that was taken over whole from a server is what the server has.
IsRemote(f) == f.url # NoUrl /\ Kind[f.url] \in Remote
Exact(f, remote) ==
  Honest /\ IsRemote(f) /\ ~f.altered => f.size = Len(remote) /\ (f.proto = "buffer" => f.data = remote)
Loaded(f, remote) == f.proto = "buffer" => Exact(f, remote)
Protocolled(e, s) == \A i \in Ids : FollowsUrl(e, s.file[i]) /\ Loaded(s.file[i], s.remote)

\* No info is newer than the registry.
Timed(s) ==
  /\ \A i \in Ids : s.cache[i].epoch <= s.epoch
  /\ s.global.epoch <= s.epoch
  /\ s.global.epoch = s.epoch => s.global.config = s.config

\* The handles of the system that the runtime has.
PathFits(s, n, path) == path = n \/ (n \in s.moved /\ path \in s.moved)
InBrowser(s) ==
  /\ \A i \in Ids : s.byId[i] = None
  /\ \A n \in Names : s.files[n] # None =>
       /\ s.files[n] \in DOMAIN s.os /\ PathFits(s, n, s.os[s.files[n]].path)
       /\ n \in s.moved \/ s.os[s.files[n]].open
  /\ \A n \in Names : s.prepared[n] # None =>
       /\ s.prepared[n] \in DOMAIN s.os
       /\ s.os[s.prepared[n]].open /\ s.os[s.prepared[n]].path = n
       /\ s.os[s.prepared[n]].kind = "access"
       /\ \A m \in Names : s.files[m] # s.prepared[n]
  /\ \A k \in DOMAIN s.os : s.os[k].open /\ s.os[k].kind = "access" =>
       /\ s.os[k].path \in Names /\ Kind[s.os[k].path] = "opfs"
       /\ s.os[k].path \in s.moved \/ s.files[s.os[k].path] = k \/ s.prepared[s.os[k].path] = k
InNode(s) ==
  /\ \A n \in Names : s.files[n] = None /\ s.prepared[n] = None
  /\ \A k \in DOMAIN s.os : s.os[k].kind = "fd"
  /\ \A i \in Ids : s.byId[i] # None => s.byId[i] \in DOMAIN s.os /\ s.os[s.byId[i]].open
  /\ \A i, j \in Ids : s.byId[i] # None /\ s.byId[i] = s.byId[j] => i = j
Runs(e, s) == IF e.runtime = "browser" THEN InBrowser(s) ELSE InNode(s)

\* What is true of a file that DuckDB has open: its size is that of the server, ...
\* ... what the runtime has cached of it is right, ...
ConfigFor(f, config) == IF f.uploads THEN f.upConfig ELSE config
CacheFits(f, c, epoch, config) ==
  f.proto # "buffer" =>
    \/ c = NoInfo
    \/ /\ c.name = f.name /\ c.url = f.url /\ c.proto = f.proto
       /\ c.epoch = epoch => c.config = ConfigFor(f, config)
\* ... and the runtime has a handle for it.
HasHandle(e, s, i) ==
  LET f == s.file[i]
  IN  /\ e.runtime # "browser" => f.proto \in {"node", "buffer"}
      /\ f.proto \in Native /\ f.listed /\ ~f.altered /\ ~s.corrupt /\ f.name \notin s.clashed =>
           IF f.proto = "node" THEN s.byId[i] # None ELSE s.files[f.name] # None
      /\ f.proto = "node" /\ s.byId[i] # None => s.os[s.byId[i]].path = f.url
Fits(e, s, i) ==
  /\ Exact(s.file[i], s.remote)
  /\ CacheFits(s.file[i], s.cache[i], s.epoch, s.config)
  /\ HasHandle(e, s, i)
Opens(hs, i) == \E h \in 1..MaxHandles : hs[h].file = i
Held(e, s, hs) == \A i \in Ids : Opens(hs, i) => Fits(e, s, i)

Sound(e, s, hs, x) ==
  /\ e \in Envs /\ s \in States /\ hs \in HandleMaps
  /\ Counted(s, hs, x) /\ Registered(s) /\ Protocolled(e, s) /\ Timed(s)
  /\ Runs(e, s) /\ Held(e, s, hs)

IInv == Sound(env, w, w.handle, None)

-----------------------------------------------------------------------------
(* Counting                                                                 *)

LEMMA UsersType ==
  ASSUME NEW pin \in Entries, NEW hs \in HandleMaps, NEW i
  PROVE  /\ Users(pin, hs, i) \in Nat
         /\ IsFiniteSet({h \in 1..MaxHandles : hs[h].file = i})
         /\ IsFiniteSet({n \in Names : pin[n] = i})
  <1>1. IsFiniteSet(1..MaxHandles) /\ IsFiniteSet(Names)
    BY FS_Interval, WebFilesAssumption
  <1>2. /\ IsFiniteSet({h \in 1..MaxHandles : hs[h].file = i})
        /\ IsFiniteSet({n \in Names : pin[n] = i})
    <2> DEFINE H == {h \in 1..MaxHandles : hs[h].file = i}
               P == {n \in Names : pin[n] = i}
    <2>1. H \in SUBSET (1..MaxHandles) /\ P \in SUBSET Names
      OBVIOUS
    <2> QED BY <1>1, <2>1, FS_Subset
  <1> QED BY <1>2, FS_CardinalityType DEF Users

\* A file with users is one that somebody has a handle of.
LEMMA NoUsers ==
  ASSUME NEW pin \in Entries, NEW hs \in HandleMaps, NEW i, Users(pin, hs, i) = 0
  PROVE  ~Opens(hs, i) /\ \A n \in Names : pin[n] # i
  <1> DEFINE H == {h \in 1..MaxHandles : hs[h].file = i}
             P == {n \in Names : pin[n] = i}
  <1>1. IsFiniteSet(H) /\ IsFiniteSet(P)
    BY UsersType
  <1>2. Cardinality(H) \in Nat /\ Cardinality(P) \in Nat
    BY <1>1, FS_CardinalityType
  <1>3. Cardinality(H) = 0 /\ Cardinality(P) = 0
    BY <1>2 DEF Users
  <1>4. H = {} /\ P = {}
    BY <1>1, <1>3, FS_EmptySet
  <1> QED BY <1>4 DEF Opens

LEMMA PinnedUsers ==
  ASSUME NEW pin \in Entries, NEW hs \in HandleMaps, NEW n \in Names, pin[n] = None,
         NEW i \in Ids, NEW j \in Ids
  PROVE  Users([pin EXCEPT ![n] = i], hs, j) = Users(pin, hs, j) + IF j = i THEN 1 ELSE 0
  <1> DEFINE P == {m \in Names : pin[m] = j}
             Q == {m \in Names : [pin EXCEPT ![n] = i][m] = j}
  <1>1. IsFiniteSet(P)
    BY UsersType
  <1>0. n \notin P
    BY WebFilesAssumption DEF Ids, None
  <1>2. Q = IF j = i THEN P \cup {n} ELSE P
    BY DEF Ids, None, Entries
  <1>3. Cardinality(Q) = Cardinality(P) + IF j = i THEN 1 ELSE 0
    <2>1. Cardinality(P \cup {n}) = Cardinality(P) + 1
      BY <1>1, <1>0, FS_AddElement
    <2>2. Cardinality(P) \in Nat
      BY <1>1, FS_CardinalityType
    <2> HIDE DEF P, Q
    <2> QED BY <1>2, <2>1, <2>2
  <1>4. Cardinality({h \in 1..MaxHandles : hs[h].file = j}) \in Nat /\ Cardinality(P) \in Nat
    BY UsersType, FS_CardinalityType
  <1> HIDE DEF P, Q
  <1> QED BY <1>3, <1>4 DEF Users, P, Q

LEMMA UnpinnedUsers ==
  ASSUME NEW pin \in Entries, NEW hs \in HandleMaps, NEW n \in Names, pin[n] # None,
         NEW j \in Ids
  PROVE  Users([pin EXCEPT ![n] = None], hs, j) = Users(pin, hs, j) - IF j = pin[n] THEN 1 ELSE 0
  <1> DEFINE P == {m \in Names : pin[m] = j}
             Q == {m \in Names : [pin EXCEPT ![n] = None][m] = j}
  <1>1. IsFiniteSet(P)
    BY UsersType
  <1>2. Q = IF j = pin[n] THEN P \ {n} ELSE P
    BY DEF Ids, None, Entries
  <1>3. Cardinality(Q) = Cardinality(P) - IF j = pin[n] THEN 1 ELSE 0
    <2>1. j = pin[n] => Cardinality(P \ {n}) = Cardinality(P) - 1
      BY <1>1, FS_RemoveElement
    <2>2. Cardinality(P) \in Nat
      BY <1>1, FS_CardinalityType
    <2> HIDE DEF P, Q
    <2> QED BY <1>2, <2>1, <2>2
  <1>4. Cardinality({h \in 1..MaxHandles : hs[h].file = j}) \in Nat /\ Cardinality(P) \in Nat
    BY UsersType, FS_CardinalityType
  <1> HIDE DEF P, Q
  <1> QED BY <1>3, <1>4 DEF Users, P, Q

LEMMA OpenedUsers ==
  ASSUME NEW pin \in Entries, NEW hs \in HandleMaps, NEW h \in 1..MaxHandles, hs[h] = NoHandle,
         NEW r \in HandleRecords, NEW j \in Ids
  PROVE  /\ [hs EXCEPT ![h] = r] \in HandleMaps
         /\ Users(pin, [hs EXCEPT ![h] = r], j) = Users(pin, hs, j) + IF j = r.file THEN 1 ELSE 0
  <1> DEFINE H == {g \in 1..MaxHandles : hs[g].file = j}
             G == {g \in 1..MaxHandles : [hs EXCEPT ![h] = r][g].file = j}
  <1>0. [hs EXCEPT ![h] = r] \in HandleMaps
    BY DEF HandleMaps
  <1>1. IsFiniteSet(H)
    BY UsersType
  <1>2. h \notin H
    BY WebFilesAssumption DEF Ids, None, NoHandle
  <1>3. G = IF j = r.file THEN H \cup {h} ELSE H
    BY <1>2 DEF HandleMaps
  <1>4. Cardinality(H \cup {h}) = Cardinality(H) + 1
    BY <1>1, <1>2, FS_AddElement
  <1>5. Cardinality({n \in Names : pin[n] = j}) \in Nat /\ Cardinality(H) \in Nat
    BY UsersType, FS_CardinalityType
  <1> HIDE DEF G, H
  <1>6. Cardinality(G) = Cardinality(H) + IF j = r.file THEN 1 ELSE 0
    BY <1>3, <1>4, <1>5
  <1>7. /\ Users(pin, hs, j) = Cardinality(H) + Cardinality({n \in Names : pin[n] = j})
        /\ Users(pin, [hs EXCEPT ![h] = r], j)
             = Cardinality(G) + Cardinality({n \in Names : pin[n] = j})
    BY DEF Users, G, H
  <1>8. Users(pin, [hs EXCEPT ![h] = r], j) = Users(pin, hs, j) + IF j = r.file THEN 1 ELSE 0
    BY <1>5, <1>6, <1>7
  <1> QED BY <1>0, <1>8

LEMMA ClosedUsers ==
  ASSUME NEW pin \in Entries, NEW hs \in HandleMaps, NEW h \in 1..MaxHandles, NEW j \in Ids
  PROVE  /\ [hs EXCEPT ![h] = NoHandle] \in HandleMaps
         /\ Users(pin, hs, j) = Users(pin, [hs EXCEPT ![h] = NoHandle], j)
                                  + IF j = hs[h].file THEN 1 ELSE 0
  <1> DEFINE H == {g \in 1..MaxHandles : hs[g].file = j}
             G == {g \in 1..MaxHandles : [hs EXCEPT ![h] = NoHandle][g].file = j}
  <1>0. [hs EXCEPT ![h] = NoHandle] \in HandleMaps
    BY DEF HandleMaps
  <1>1. IsFiniteSet(H) /\ IsFiniteSet(G)
    BY <1>0, UsersType
  <1>2. h \notin G
    BY WebFilesAssumption DEF Ids, None, NoHandle, HandleMaps
  <1>3. H = IF j = hs[h].file THEN G \cup {h} ELSE G
    BY <1>2 DEF HandleMaps
  <1>4. Cardinality(G \cup {h}) = Cardinality(G) + 1
    BY <1>1, <1>2, FS_AddElement
  <1>5. Cardinality({n \in Names : pin[n] = j}) \in Nat /\ Cardinality(G) \in Nat
    BY <1>1, UsersType, FS_CardinalityType
  <1> HIDE DEF G, H
  <1>6. Cardinality(H) = Cardinality(G) + IF j = hs[h].file THEN 1 ELSE 0
    BY <1>3, <1>4, <1>5
  <1>7. /\ Users(pin, hs, j) = Cardinality(H) + Cardinality({n \in Names : pin[n] = j})
        /\ Users(pin, [hs EXCEPT ![h] = NoHandle], j)
             = Cardinality(G) + Cardinality({n \in Names : pin[n] = j})
    BY DEF Users, G, H
  <1> QED BY <1>0, <1>5, <1>6, <1>7

-----------------------------------------------------------------------------
(* What the operators leave alone                                           *)

SameMaps(s, t) ==
  /\ t.last = s.last /\ t.byName = s.byName /\ t.byUrl = s.byUrl /\ t.pin = s.pin
  /\ t.epoch = s.epoch /\ t.config = s.config /\ t.handle = s.handle
  /\ t.corrupt = s.corrupt /\ t.moved = s.moved /\ t.clashed = s.clashed /\ t.global = s.global
SameRegistry(s, t) == SameMaps(s, t) /\ t.file = s.file /\ t.remote = s.remote
SameRuntime(s, t) ==
  /\ t.files = s.files /\ t.prepared = s.prepared /\ t.byId = s.byId /\ t.os = s.os
  /\ t.cache = s.cache /\ t.moved = s.moved /\ t.clashed = s.clashed

\* What the runtime does by itself keeps the invariant if its handles are in order, and if
\* what it caches is what the registry says.
LEMMA RuntimeStep ==
  ASSUME NEW e, NEW s, NEW hs, NEW x, Sound(e, s, hs, x),
         NEW t \in States, SameRegistry(s, t), Runs(e, t),
         \A i \in Ids : t.cache[i] \in {s.cache[i], NoInfo, Info(s, i)},
         \A i \in Ids : Opens(hs, i) => HasHandle(e, t, i)
  PROVE  Sound(e, t, hs, x)
  <1>1. Counted(t, hs, x) /\ Registered(t) /\ Protocolled(e, t)
    BY DEF Sound, SameRegistry, SameMaps, Counted, Registered, Named, Directories, Protocolled
  <1>2. Timed(t)
    <2>1. s.epoch \in Nat /\ Timed(s) /\ t.epoch = s.epoch /\ t.global = s.global /\ t.config = s.config
      BY DEF Sound, States, SameRegistry, SameMaps
    <2>2. \A i \in Ids : Info(s, i).epoch = s.epoch /\ NoInfo.epoch = 0
      BY DEF Info, NoInfo
    <2>3. ASSUME NEW i \in Ids PROVE t.cache[i].epoch <= t.epoch
      <3>1. t.cache[i] \in {s.cache[i], NoInfo, Info(s, i)}
        OBVIOUS
      <3> QED BY <2>1, <2>2, <3>1 DEF Timed
    <2> QED BY <2>1, <2>3 DEF Timed
  <1>3. ASSUME NEW i \in Ids, CacheFits(s.file[i], s.cache[i], s.epoch, s.config)
        PROVE  CacheFits(t.file[i], t.cache[i], t.epoch, t.config)
    BY <1>3 DEF SameRegistry, SameMaps, CacheFits, Info, ConfigFor
  <1>4. Held(e, t, hs)
    BY <1>3 DEF Sound, Held, Fits, Opens, SameRegistry, SameMaps
  <1> QED BY <1>1, <1>2, <1>4 DEF Sound

\* Whether an operator has thrown is not part of it.
LEMMA OkStep ==
  ASSUME NEW e, NEW s, NEW hs, NEW x, Sound(e, s, hs, x), NEW ok \in BOOLEAN
  PROVE  /\ Sound(e, [s EXCEPT !.ok = ok], hs, x)
         /\ SameRegistry(s, [s EXCEPT !.ok = ok]) /\ SameRuntime(s, [s EXCEPT !.ok = ok])
  <1> DEFINE t == [s EXCEPT !.ok = ok]
  <1>1. t \in States /\ SameRegistry(s, t) /\ SameRuntime(s, t)
    BY DEF Sound, States, SameRegistry, SameMaps, SameRuntime
  <1>2. Runs(e, t)
    BY <1>1 DEF Sound, Runs, InBrowser, InNode, PathFits, SameRuntime
  <1>3. \A i \in Ids : Opens(hs, i) => HasHandle(e, t, i)
    <2>1. \A i \in Ids : Opens(hs, i) => HasHandle(e, s, i)
      BY DEF Sound, Held, Fits
    <2> QED BY <1>1, <2>1 DEF HasHandle, SameRegistry, SameMaps, SameRuntime
  <1> HIDE DEF t
  <1>4. \A i \in Ids : t.cache[i] = s.cache[i]
    BY <1>1 DEF SameRuntime
  <1>5. Sound(e, t, hs, x)
    BY <1>1, <1>2, <1>3, <1>4, RuntimeStep
  <1> QED BY <1>1, <1>5 DEF t

-----------------------------------------------------------------------------
(* The runtime                                                              *)

LEMMA ProtoAgrees == \A n \in Names : DataProtocol(n) = Proto(env, n)
  BY DEF DataProtocol, Proto, Browser

LEMMA NoInfoType == NoInfo \in InfoRecords
  BY WebFilesAssumption DEF NoInfo, InfoRecords, Texts, Protocols, None

LEMMA InfoType ==
  ASSUME NEW s \in States, NEW i \in Ids
  PROVE  Info(s, i) \in InfoRecords /\ Info(s, i).epoch = s.epoch
  BY DEF States, Info, InfoRecords, FileRecords

\* The name of a listed file is a name.
LEMMA ListedNames ==
  ASSUME NEW e, NEW s, NEW hs, NEW x, Sound(e, s, hs, x), NEW i \in Ids, s.file[i].listed
  PROVE  s.file[i].name \in Names
  BY DEF Sound, States, Registered, FileRecords, Texts

LEMMA CacheReset ==
  ASSUME NEW e, NEW s, NEW hs, NEW x, Sound(e, s, hs, x), NEW i \in Ids
  PROVE  LET t == [s EXCEPT !.cache[i] = NoInfo]
         IN  /\ Sound(e, t, hs, x) /\ SameRegistry(s, t)
             /\ t.files = s.files /\ t.prepared = s.prepared /\ t.byId = s.byId /\ t.os = s.os
             /\ t.ok = s.ok
             /\ t.cache = [s.cache EXCEPT ![i] = NoInfo]
  <1> DEFINE t == [s EXCEPT !.cache[i] = NoInfo]
  <1>1. /\ t \in States /\ SameRegistry(s, t)
        /\ t.files = s.files /\ t.prepared = s.prepared /\ t.byId = s.byId /\ t.os = s.os
        /\ t.ok = s.ok /\ t.cache = [s.cache EXCEPT ![i] = NoInfo]
    BY NoInfoType DEF Sound, States, SameRegistry, SameMaps
  <1> HIDE DEF t
  <1>2. Runs(e, t)
    BY <1>1 DEF Sound, Runs, InBrowser, InNode, PathFits, SameRegistry, SameMaps
  <1>3. \A j \in Ids : Opens(hs, j) => HasHandle(e, t, j)
    BY <1>1 DEF Sound, Held, Fits, HasHandle, SameRegistry, SameMaps
  <1>4. \A j \in Ids : t.cache[j] \in {s.cache[j], NoInfo}
    BY <1>1 DEF Sound, States
  <1>5. Sound(e, t, hs, x)
    BY <1>1, <1>2, <1>3, <1>4, RuntimeStep
  <1> QED BY <1>1, <1>5 DEF t

\* To resolve the info of a file may hand its prepared handle to it.
LEMMA ResolveStep ==
  ASSUME NEW s, NEW hs, NEW x, Sound(env, s, hs, x), NEW i \in Ids
  PROVE  LET t == Resolve(s, i)
         IN  /\ Sound(env, t, hs, x) /\ SameRegistry(s, t)
             /\ t.os = s.os /\ t.byId = s.byId /\ t.ok = s.ok
             /\ t.cache = [s.cache EXCEPT ![i] = IF s.cache[i].epoch = s.epoch \/ ~s.file[i].listed
                                                   THEN @ ELSE Info(s, i)]
             /\ \A n \in Names : t.files[n] = s.files[n] \/ s.files[n] = None
             /\ \A n \in Names : t.prepared[n] # s.prepared[n] =>
                  t.prepared[n] = None /\ t.files[n] = s.prepared[n] /\ n = s.file[i].name
  <1> DEFINE t == Resolve(s, i)
  <1>1. CASE s.cache[i].epoch = s.epoch \/ ~s.file[i].listed
    <2>1. t = s /\ s \in States
      BY <1>1 DEF Resolve, Sound
    <2> QED BY <1>1, <2>1 DEF SameRegistry, SameMaps, States
  <1>2. CASE ~(s.cache[i].epoch = s.epoch \/ ~s.file[i].listed)
    <2> DEFINE n == s.file[i].name
               takes == Browser /\ s.files[n] = None /\ s.prepared[n] # None
               u == [s EXCEPT !.cache[i] = Info(s, i),
                              !.files[n] = IF takes THEN s.prepared[n] ELSE @,
                              !.prepared[n] = IF takes THEN None ELSE @]
    <2>1. n \in Names /\ s \in States
      BY <1>2, ListedNames DEF Sound
    <2>2. t = u
      BY <1>2 DEF Resolve
    <2>3. /\ u \in States /\ SameRegistry(s, u) /\ u.os = s.os /\ u.byId = s.byId /\ u.ok = s.ok
          /\ u.cache = [s.cache EXCEPT ![i] = Info(s, i)]
          /\ u.files = IF takes THEN [s.files EXCEPT ![n] = s.prepared[n]] ELSE s.files
          /\ u.prepared = IF takes THEN [s.prepared EXCEPT ![n] = None] ELSE s.prepared
      BY <2>1, InfoType DEF States, SameRegistry, SameMaps, None
    <2> HIDE DEF n, u
    <2>4. Runs(env, u)
      <3>1. CASE takes
        <4>1. Browser /\ InBrowser(s) /\ s.files \in [Names -> Nat] /\ s.prepared \in [Names -> Nat]
          BY <3>1, <2>1 DEF Sound, Runs, Browser, States
        <4>2. /\ u.files = [s.files EXCEPT ![n] = s.prepared[n]]
              /\ u.prepared = [s.prepared EXCEPT ![n] = None]
          BY <2>3, <3>1
        <4>3. \A m \in Names : u.files[m] = IF m = n THEN s.prepared[n] ELSE s.files[m]
          BY <4>1, <4>2, <2>1
        <4>4. \A m \in Names : u.prepared[m] = IF m = n THEN None ELSE s.prepared[m]
          BY <4>1, <4>2, <2>1
        <4>5. s.files[n] = None /\ s.prepared[n] # None
          BY <3>1
        <4>6. InBrowser(u)
          BY <2>1, <2>3, <4>1, <4>3, <4>4, <4>5
             DEF InBrowser, PathFits, SameRegistry, SameMaps
        <4> QED BY <4>1, <4>6 DEF Runs, Browser
      <3>2. CASE ~takes
        <4>1. u.files = s.files /\ u.prepared = s.prepared
          BY <2>3, <3>2
        <4>2. Runs(env, s)
          BY DEF Sound
        <4>3. u.moved = s.moved /\ u.os = s.os /\ u.byId = s.byId
          BY <2>3 DEF SameRegistry, SameMaps
        <4> HIDE DEF takes
        <4> QED BY <4>1, <4>2, <4>3 DEF Runs, InBrowser, InNode, PathFits
      <3> QED BY <3>1, <3>2
    <2>5. \A m \in Names : /\ u.files[m] = s.files[m] \/ s.files[m] = None
                           /\ s.files[m] # None => u.files[m] # None
                           /\ u.prepared[m] # s.prepared[m] =>
                                u.prepared[m] = None /\ u.files[m] = s.prepared[m] /\ m = n
      <3>1. CASE takes
        <4>1. s.files \in [Names -> Nat] /\ s.prepared \in [Names -> Nat]
          BY <2>1 DEF States
        <4>2. /\ u.files = [s.files EXCEPT ![n] = s.prepared[n]]
              /\ u.prepared = [s.prepared EXCEPT ![n] = None]
          BY <2>3, <3>1
        <4>3. \A m \in Names : /\ u.files[m] = IF m = n THEN s.prepared[n] ELSE s.files[m]
                               /\ u.prepared[m] = IF m = n THEN None ELSE s.prepared[m]
          BY <4>1, <4>2
        <4> QED BY <3>1, <4>3
      <3>2. CASE ~takes
        <4>1. u.files = s.files /\ u.prepared = s.prepared
          BY <2>3, <3>2
        <4> QED BY <4>1
      <3> QED BY <3>1, <3>2
    <2>6. ASSUME NEW j \in Ids, HasHandle(env, s, j) PROVE HasHandle(env, u, j)
      <3>1. s.file[j].listed => s.file[j].name \in Names
        BY ListedNames
      <3> QED BY <2>3, <2>5, <2>6, <3>1 DEF HasHandle, SameRegistry, SameMaps
    <2>7. \A j \in Ids : u.cache[j] \in {s.cache[j], NoInfo, Info(s, j)}
      BY <2>3, <2>1 DEF States
    <2>8. \A j \in Ids : Opens(hs, j) => HasHandle(env, u, j)
      BY <2>6 DEF Sound, Held, Fits
    <2>9. Sound(env, u, hs, x)
      BY <2>3, <2>4, <2>7, <2>8, RuntimeStep
    <2> QED BY <1>2, <2>2, <2>3, <2>5, <2>9 DEF n
  <1> QED BY <1>1, <1>2

LEMMA ResolveSound ==
  ASSUME NEW s, NEW hs, NEW x, Sound(env, s, hs, x), NEW i \in Ids
  PROVE  Sound(env, Resolve(s, i), hs, x) /\ SameRegistry(s, Resolve(s, i))
  BY ResolveStep

\* What closing a file named n0 leaves alone.
Handed(s, t) ==
  \A n \in Names : \/ t.files[n] = s.files[n] /\ t.prepared[n] = s.prepared[n]
                   \/ s.files[n] = None /\ t.files[n] = s.prepared[n] /\ t.prepared[n] = None
Beside(s, t, n0) ==
  \A n \in Names \ {n0} : t.files[n] = s.files[n] /\ t.prepared[n] = s.prepared[n]
SameSystem(e, s, t) == e.runtime = "browser" => t.os = s.os

LEMMA HandedTwice ==
  ASSUME NEW s, NEW t, NEW u, Handed(s, t), Handed(t, u)
  PROVE  Handed(s, u)
  BY DEF Handed

\* An operation may fail where it uses the handle.
Uses(s, t) == t = s \/ t = Fail(s)
LEMMA UsesStep ==
  ASSUME NEW e, NEW s, NEW hs, NEW x, Sound(e, s, hs, x), NEW t, Uses(s, t)
  PROVE  Sound(e, t, hs, x) /\ SameRegistry(s, t) /\ SameRuntime(s, t)
  <1>1. CASE t = s
    BY <1>1 DEF SameRegistry, SameMaps, SameRuntime
  <1>2. CASE t = Fail(s)
    <2>1. /\ Sound(e, [s EXCEPT !.ok = FALSE], hs, x)
          /\ SameRegistry(s, [s EXCEPT !.ok = FALSE]) /\ SameRuntime(s, [s EXCEPT !.ok = FALSE])
      BY OkStep
    <2> QED BY <1>2, <2>1 DEF Fail
  <1> QED BY <1>1, <1>2 DEF Uses

LEMMA ResolveHands ==
  ASSUME NEW s, NEW hs, NEW x, Sound(env, s, hs, x), NEW i \in Ids
  PROVE  Handed(s, Resolve(s, i)) /\ Beside(s, Resolve(s, i), s.file[i].name)
  <1>1. CASE s.cache[i].epoch = s.epoch \/ ~s.file[i].listed
    BY <1>1 DEF Resolve, Handed, Beside
  <1>2. CASE ~(s.cache[i].epoch = s.epoch \/ ~s.file[i].listed)
    <2> DEFINE n == s.file[i].name
               takes == Browser /\ s.files[n] = None /\ s.prepared[n] # None
    <2>1. n \in Names /\ s \in States
      BY <1>2, ListedNames DEF Sound
    <2>2. /\ Resolve(s, i).files = [s.files EXCEPT ![n] = IF takes THEN s.prepared[n] ELSE @]
          /\ Resolve(s, i).prepared = [s.prepared EXCEPT ![n] = IF takes THEN None ELSE @]
      BY <1>2, <2>1 DEF Resolve, States
    <2> HIDE DEF n
    <2> QED BY <2>1, <2>2 DEF Handed, Beside, States, n
  <1> QED BY <1>1, <1>2

\* In Node a file that is closed gives up its descriptor.
NodeClosed(s, i) ==
  [s EXCEPT !.cache[i] = NoInfo, !.byId[i] = None, !.os = [@ EXCEPT ![s.byId[i]].open = FALSE]]

LEMMA NodeCloses ==
  ASSUME NEW e, NEW s, NEW hs, NEW x, Sound(e, s, hs, x), e.runtime # "browser",
         NEW i \in Ids, ~Opens(hs, i) \/ s.file[i].altered, s.byId[i] # None
  PROVE  LET t == NodeClosed(s, i)
         IN  /\ Sound(e, t, hs, x) /\ SameRegistry(s, t)
             /\ t.files = s.files /\ t.prepared = s.prepared
  <1> DEFINE b == s.byId[i]
             t == [s EXCEPT !.cache[i] = NoInfo, !.byId[i] = None, !.os = [@ EXCEPT ![b].open = FALSE]]
  <1>0. s \in States /\ InNode(s) /\ b \in DOMAIN s.os
    BY DEF Sound, Runs, InNode
  <1>1. [s.os EXCEPT ![b].open = FALSE] \in Seq(OsRecords)
    <2>1. s.os \in Seq(OsRecords) /\ s.os[b] \in OsRecords
      BY <1>0, ElementOfSeq DEF States
    <2>2. [s.os[b] EXCEPT !.open = FALSE] \in OsRecords
      BY <2>1 DEF OsRecords
    <2> QED BY <1>0, <2>1, <2>2, ExceptSeq
  <1>2. /\ t \in States /\ SameRegistry(s, t) /\ t.files = s.files /\ t.prepared = s.prepared
        /\ t.cache = [s.cache EXCEPT ![i] = NoInfo] /\ t.byId = [s.byId EXCEPT ![i] = None]
        /\ t.os = [s.os EXCEPT ![b].open = FALSE]
    BY <1>0, <1>1, NoInfoType DEF States, SameRegistry, SameMaps, None
  <1> HIDE DEF t
  <1>3. /\ DOMAIN t.os = DOMAIN s.os
        /\ \A k \in DOMAIN s.os : /\ t.os[k].kind = s.os[k].kind /\ t.os[k].path = s.os[k].path
                                  /\ k # b => t.os[k] = s.os[k]
    <2>1. \A k \in DOMAIN s.os : s.os[k] \in OsRecords
      BY <1>0, ElementOfSeq DEF States
    <2> QED BY <1>0, <1>2, <2>1 DEF OsRecords
  <1>4. \A j \in Ids : t.byId[j] = IF j = i THEN None ELSE s.byId[j]
    BY <1>0, <1>2 DEF States
  <1>5. Runs(e, t)
    BY <1>0, <1>2, <1>3, <1>4 DEF Runs, InNode
  <1>6. ASSUME NEW j \in Ids, Opens(hs, j) PROVE HasHandle(e, t, j)
    <2>1. HasHandle(e, s, j) /\ (j = i => s.file[j].altered)
      BY <1>6 DEF Sound, Held, Fits
    <2>2. s.byId[j] # None => s.byId[j] \in DOMAIN s.os
      BY <1>0 DEF InNode
    <2> QED BY <1>2, <1>3, <1>4, <2>1, <2>2 DEF HasHandle, SameRegistry, SameMaps
  <1>7. \A j \in Ids : t.cache[j] \in {s.cache[j], NoInfo, Info(s, j)}
    BY <1>0, <1>2 DEF States
  <1>8. Sound(e, t, hs, x)
    <2>1. \A j \in Ids : Opens(hs, j) => HasHandle(e, t, j)
      BY <1>6
    <2>2. t \in States /\ SameRegistry(s, t)
      BY <1>2
    <2> QED BY <1>5, <1>7, <2>1, <2>2, RuntimeStep
  <1> QED BY <1>2, <1>8 DEF t, NodeClosed

LEMMA CloseStep ==
  ASSUME NEW s, NEW hs, NEW x, Sound(env, s, hs, x),
         NEW i \in Ids, ~Opens(hs, i) \/ s.file[i].altered
  PROVE  LET t == RtClose(s, i)
         IN  /\ Sound(env, t, hs, x) /\ SameRegistry(s, t)
             /\ Handed(s, t) /\ Beside(s, t, s.file[i].name) /\ SameSystem(env, s, t)
  <1>1. CASE Browser
    <2> DEFINE r == Resolve(s, i)
               f == Flushed(r, i)
               t == [f EXCEPT !.cache[i] = NoInfo]
    <2>1. Sound(env, r, hs, x) /\ SameRegistry(s, r) /\ r.os = s.os
      BY ResolveStep
    <2>2. Handed(s, r) /\ Beside(s, r, s.file[i].name)
      BY ResolveHands
    <2>3. Uses(r, f)
      BY DEF Flushed, UseHandle, Uses
    <2>4. Sound(env, f, hs, x) /\ SameRegistry(r, f) /\ SameRuntime(r, f)
      BY <2>1, <2>3, UsesStep
    <2>5. /\ Sound(env, t, hs, x) /\ SameRegistry(f, t)
          /\ t.files = f.files /\ t.prepared = f.prepared /\ t.os = f.os
      BY <2>4, CacheReset
    <2>6. RtClose(s, i) = t
      BY <1>1 DEF RtClose
    <2> HIDE DEF r, f, t
    <2>7. SameRegistry(s, t) /\ Handed(s, t) /\ Beside(s, t, s.file[i].name) /\ SameSystem(env, s, t)
      BY <2>1, <2>2, <2>4, <2>5 DEF SameRegistry, SameMaps, SameRuntime, Handed, Beside, SameSystem
    <2> QED BY <2>5, <2>6, <2>7
  <1>2. CASE ~Browser
    <2>0. s \in States /\ env.runtime # "browser"
      BY <1>2 DEF Sound, Browser
    <2>1. CASE s.cache[i].proto = "node" /\ s.byId[i] # None
      <3>1. RtClose(s, i) = NodeClosed(s, i)
        BY <1>2, <2>1 DEF RtClose, NodeClosed
      <3> DEFINE t == NodeClosed(s, i)
      <3>2. /\ Sound(env, t, hs, x) /\ SameRegistry(s, t)
            /\ t.files = s.files /\ t.prepared = s.prepared
        BY <2>0, <2>1, NodeCloses
      <3>3. RtClose(s, i) = t
        BY <3>1
      <3> HIDE DEF t
      <3>4. Handed(s, t) /\ Beside(s, t, s.file[i].name) /\ SameSystem(env, s, t)
        BY <2>0, <3>2 DEF Handed, Beside, SameSystem
      <3> QED BY <3>2, <3>3, <3>4
    <2>2. CASE ~(s.cache[i].proto = "node" /\ s.byId[i] # None)
      <3>1. RtClose(s, i) = [s EXCEPT !.cache[i] = NoInfo]
        BY <1>2, <2>0, <2>2 DEF RtClose, States
      <3> QED BY <2>0, <3>1, CacheReset DEF Handed, Beside, SameSystem
    <2> QED BY <2>1, <2>2
  <1> QED BY <1>1, <1>2

-----------------------------------------------------------------------------
(* The registry                                                             *)

\* One file has changed, and perhaps who has a handle of it.
LEMMA FileChanged ==
  ASSUME NEW e, NEW s, NEW hs, NEW x, Sound(e, s, hs, x),
         NEW i \in Ids, NEW g \in FileRecords, FollowsUrl(e, g), Loaded(g, s.remote),
         g.proto = "none" <=> s.file[i].proto = "none",
         g.name = s.file[i].name, g.url = s.file[i].url, g.listed = s.file[i].listed,
         NEW t, t = [s EXCEPT !.file[i] = g], NEW y, Counted(t, hs, y),
         Opens(hs, i) => Fits(e, t, i)
  PROVE  Sound(e, t, hs, y)
  <1>1. s \in States /\ s.file \in [Ids -> FileRecords]
    BY DEF Sound, States
  <1>2. /\ t \in States /\ t.file = [s.file EXCEPT ![i] = g]
        /\ SameMaps(s, t) /\ SameRuntime(s, t) /\ t.remote = s.remote
    BY <1>1 DEF States, SameMaps, SameRuntime
  <1>3. \A j \in Ids : t.file[j] = IF j = i THEN g ELSE s.file[j]
    BY <1>1, <1>2
  <1>4. \A j \in Ids : /\ t.file[j].name = s.file[j].name /\ t.file[j].url = s.file[j].url
                       /\ t.file[j].listed = s.file[j].listed
                       /\ t.file[j].proto = "none" <=> s.file[j].proto = "none"
    BY <1>3
  <1>5. Registered(t)
    <2>1. \A n \in Names : /\ s.byName[n] # None => s.byName[n] \in Ids
                           /\ s.byUrl[n] # None => s.byUrl[n] \in Ids
                           /\ s.pin[n] # None => s.pin[n] \in Ids
      BY <1>1 DEF States, Entries, Ids, None
    <2> QED BY <1>2, <1>4, <2>1 DEF Sound, Registered, Named, Directories, SameMaps
  <1>6. Protocolled(e, t)
    BY <1>2, <1>3 DEF Sound, Protocolled
  <1>7. Timed(t)
    BY <1>2 DEF Sound, Timed, SameMaps, SameRuntime
  <1>8. Runs(e, t)
    BY <1>2 DEF Sound, Runs, InBrowser, InNode, PathFits, SameMaps, SameRuntime
  <1>9. ASSUME NEW j \in Ids, Opens(hs, j), j # i PROVE Fits(e, t, j)
    <2>1. Fits(e, s, j) /\ t.file[j] = s.file[j]
      BY <1>3, <1>9 DEF Sound, Held
    <2> QED BY <1>2, <2>1 DEF Fits, HasHandle, SameMaps, SameRuntime
  <1>10. Held(e, t, hs)
    BY <1>9 DEF Held
  <1> QED BY <1>2, <1>5, <1>6, <1>7, <1>8, <1>10 DEF Sound

\* The configuration may change with the epoch: what was cached is out of date.
LEMMA EpochRaised ==
  ASSUME NEW e, NEW s, NEW hs, NEW x, Sound(e, s, hs, x), NEW c \in 1..Configs,
         NEW t, t = [s EXCEPT !.config = c, !.epoch = @ + 1]
  PROVE  Sound(e, t, hs, x)
  <1>1. s \in States
    BY DEF Sound
  <1>0. s.epoch + 1 \in Nat \ {0}
    BY <1>1 DEF States
  <1>2. /\ t \in States /\ t.epoch = s.epoch + 1 /\ t.global = s.global /\ SameRuntime(s, t)
        /\ t.file = s.file /\ t.remote = s.remote /\ t.corrupt = s.corrupt /\ t.pin = s.pin
        /\ t.byName = s.byName /\ t.byUrl = s.byUrl /\ t.last = s.last
    BY <1>0, <1>1 DEF States, SameRuntime
  <1>3. Counted(t, hs, x) /\ Registered(t) /\ Protocolled(e, t) /\ Runs(e, t)
    BY <1>2 DEF Sound, Counted, Registered, Named, Directories, Protocolled, Runs, InBrowser,
                InNode, PathFits, SameRuntime
  <1>4. /\ \A i \in Ids : s.cache[i].epoch \in Nat /\ s.cache[i].epoch <= s.epoch
        /\ s.global.epoch \in Nat /\ s.global.epoch <= s.epoch /\ s.epoch \in Nat
    BY <1>1 DEF Sound, Timed, States, InfoRecords
  <1>5. Timed(t)
    BY <1>2, <1>4 DEF Timed, SameRuntime
  <1>6. ASSUME NEW i \in Ids, Fits(e, s, i) PROVE Fits(e, t, i)
    <2>1. t.cache[i] = s.cache[i] /\ t.cache[i].epoch # t.epoch
      BY <1>2, <1>4 DEF SameRuntime
    <2> QED BY <1>2, <1>6, <2>1 DEF Fits, CacheFits, HasHandle, SameRuntime
  <1> QED BY <1>2, <1>3, <1>5, <1>6 DEF Sound, Held

LEMMA PinSet ==
  ASSUME NEW e, NEW s, NEW hs, NEW i \in Ids, Sound(e, s, hs, i),
         NEW n \in Names, s.pin[n] = None, s.file[i].name = n,
         NEW t, t = [s EXCEPT !.pin[n] = i]
  PROVE  Sound(e, t, hs, None)
  <1>1. s \in States /\ s.pin \in Entries /\ hs \in HandleMaps /\ i \in 1..MaxFiles
    BY DEF Sound, States, Ids
  <1>2. /\ t.pin = [s.pin EXCEPT ![n] = i] /\ t.last = s.last /\ t.file = s.file
        /\ t.byName = s.byName /\ t.byUrl = s.byUrl /\ t.epoch = s.epoch /\ t.config = s.config
        /\ t.corrupt = s.corrupt /\ t.global = s.global /\ t.remote = s.remote /\ SameRuntime(s, t)
    BY <1>1 DEF States, SameRuntime
  <1>3. t \in States
    <2>1. [s.pin EXCEPT ![n] = i] \in Entries
      BY <1>1, WebFilesAssumption DEF Entries
    <2> QED BY <1>1, <2>1 DEF States
  <1>4. Counted(t, hs, None)
    <2>1. ASSUME NEW j \in Ids
          PROVE  t.file[j].handles = Users(t.pin, hs, j) + IF j = None THEN 1 ELSE 0
      <3>1. Users(t.pin, hs, j) = Users(s.pin, hs, j) + IF j = i THEN 1 ELSE 0
        BY <1>1, <1>2, PinnedUsers
      <3>2. s.file[j].handles = Users(s.pin, hs, j) + IF j = i THEN 1 ELSE 0
        BY DEF Sound, Counted
      <3>3. Users(s.pin, hs, j) \in Nat
        BY <1>1, UsersType
      <3>4. j # None
        BY DEF Ids, None
      <3> QED BY <1>2, <3>1, <3>2, <3>3, <3>4
    <2> QED BY <2>1 DEF Counted
  <1>5. Registered(t)
    <2>1. \A m \in Names : t.pin[m] = IF m = n THEN i ELSE s.pin[m]
      BY <1>1, <1>2 DEF Entries
    <2>2. t.moved = s.moved /\ t.clashed = s.clashed
      BY <1>2 DEF SameRuntime
    <2> QED BY <1>2, <2>1, <2>2 DEF Sound, Registered, Named, Directories
  <1>6. Protocolled(e, t) /\ Timed(t) /\ Runs(e, t) /\ Held(e, t, hs)
    BY <1>2 DEF Sound, Protocolled, Timed, Runs, InBrowser, InNode, PathFits, Held, Fits, HasHandle,
                SameRuntime
  <1> QED BY <1>3, <1>4, <1>5, <1>6 DEF Sound

LEMMA PinUnset ==
  ASSUME NEW e, NEW s, NEW hs, Sound(e, s, hs, None),
         NEW n \in Names, s.pin[n] # None,
         NEW t, t = [s EXCEPT !.pin[n] = None]
  PROVE  Sound(e, t, hs, s.pin[n])
  <1>1. s \in States /\ s.pin \in Entries /\ hs \in HandleMaps
    BY DEF Sound, States
  <1>2. /\ t.pin = [s.pin EXCEPT ![n] = None] /\ t.last = s.last /\ t.file = s.file
        /\ t.byName = s.byName /\ t.byUrl = s.byUrl /\ t.epoch = s.epoch /\ t.config = s.config
        /\ t.corrupt = s.corrupt /\ t.global = s.global /\ t.remote = s.remote /\ SameRuntime(s, t)
    BY <1>1 DEF States, SameRuntime
  <1>3. t \in States
    <2>1. [s.pin EXCEPT ![n] = None] \in Entries
      BY <1>1, WebFilesAssumption DEF Entries, None
    <2> QED BY <1>1, <2>1 DEF States
  <1>4. Counted(t, hs, s.pin[n])
    <2>1. ASSUME NEW j \in Ids
          PROVE  t.file[j].handles = Users(t.pin, hs, j) + IF j = s.pin[n] THEN 1 ELSE 0
      <3>1. Users(t.pin, hs, j) = Users(s.pin, hs, j) - IF j = s.pin[n] THEN 1 ELSE 0
        BY <1>1, <1>2, UnpinnedUsers
      <3>2. s.file[j].handles = Users(s.pin, hs, j) + IF j = None THEN 1 ELSE 0
        BY DEF Sound, Counted
      <3>3. Users(s.pin, hs, j) \in Nat
        BY <1>1, UsersType
      <3>4. j # None
        BY DEF Ids, None
      <3> QED BY <1>2, <3>1, <3>2, <3>3, <3>4
    <2> QED BY <2>1 DEF Counted
  <1>5. Registered(t)
    <2>1. \A m \in Names : t.pin[m] = IF m = n THEN None ELSE s.pin[m]
      BY <1>1, <1>2 DEF Entries
    <2>2. t.moved = s.moved /\ t.clashed = s.clashed
      BY <1>2 DEF SameRuntime
    <2> QED BY <1>2, <2>1, <2>2 DEF Sound, Registered, Named, Directories
  <1>6. Protocolled(e, t) /\ Timed(t) /\ Runs(e, t) /\ Held(e, t, hs)
    BY <1>2 DEF Sound, Protocolled, Timed, Runs, InBrowser, InNode, PathFits, Held, Fits, HasHandle,
                SameRuntime
  <1> QED BY <1>3, <1>4, <1>5, <1>6 DEF Sound

\* A name that is not taken gets a new file.
LEMMA RegisterStep ==
  ASSUME NEW e, NEW s, NEW hs, Sound(e, s, hs, None), s.last < MaxFiles,
         NEW n \in Names, s.byName[n] = None,
         NEW g \in FileRecords, FollowsUrl(e, g), Loaded(g, s.remote), g.proto # "none",
         g.name = n, g.handles = 0, g.listed
  PROVE  LET t == Register(s, n, g)
         IN  /\ Sound(e, t, hs, None) /\ s.last + 1 \in Ids
             /\ t.last = s.last + 1 /\ t.pin = s.pin /\ t.file[s.last + 1] = g
             /\ t.byName[n] = s.last + 1
             /\ t.handle = s.handle /\ t.corrupt = s.corrupt /\ t.ok = s.ok /\ SameRuntime(s, t)
  <1> DEFINE i == s.last + 1
             t == Register(s, n, g)
  <1>1. s \in States /\ hs \in HandleMaps
    BY DEF Sound
  <1>2. s.last \in Nat /\ MaxFiles \in Nat /\ i \in Ids /\ i \in 0..MaxFiles /\ i > s.last
    BY <1>1, WebFilesAssumption DEF States, Ids
  <1>3. /\ s.file[i].proto = "none" /\ Idle(s.file[i])
        /\ s.file[i].url = NoUrl /\ ~s.file[i].listed /\ s.file[i].name = NoUrl
    BY <1>2 DEF Sound, Registered, Protocolled, FollowsUrl, Idle
  <1>4. /\ t.file = [s.file EXCEPT ![i] = g] /\ t.last = i /\ t.byName = [s.byName EXCEPT ![n] = i]
        /\ t.byUrl = IF g.url # NoUrl /\ s.byUrl[g.url] = None THEN [s.byUrl EXCEPT ![g.url] = i]
                     ELSE s.byUrl
        /\ t.pin = s.pin /\ t.handle = s.handle /\ t.corrupt = s.corrupt /\ t.ok = s.ok
        /\ t.epoch = s.epoch /\ t.config = s.config /\ t.global = s.global /\ t.remote = s.remote
        /\ SameRuntime(s, t)
    BY <1>1 DEF Register, States, SameRuntime
  <1>0. s.byName \in [Names -> 0..MaxFiles] /\ s.byUrl \in [Names -> 0..MaxFiles]
    BY <1>1 DEF States, Entries
  <1>5. t \in States
    <2>1. t.file \in [Ids -> FileRecords]
      BY <1>1, <1>2, <1>4 DEF States
    <2>2. t.byName \in Entries
      <3>1. i \in 0..MaxFiles /\ t.byName = [s.byName EXCEPT ![n] = i]
        BY <1>2, <1>4
      <3> HIDE DEF i, t
      <3> QED BY <1>0, <3>1 DEF Entries
    <2>4. t.byUrl \in Entries
      <3>1. /\ i \in 0..MaxFiles
            /\ t.byUrl = s.byUrl \/ t.byUrl = [s.byUrl EXCEPT ![g.url] = i]
        BY <1>2, <1>4
      <3> HIDE DEF i, t
      <3> QED BY <1>0, <3>1 DEF Entries
    <2>3. t.last \in 0..MaxFiles
      BY <1>2, <1>4
    <2> QED BY <1>1, <2>1, <2>2, <2>3, <2>4 DEF Register, States
  <1> HIDE DEF i, t
  <1>6. \A j \in Ids : t.file[j] = IF j = i THEN g ELSE s.file[j]
    BY <1>1, <1>4 DEF States
  <1>7. Users(s.pin, hs, i) = 0
    <2>1. s.file[i].handles = Users(s.pin, hs, i) + IF i = None THEN 1 ELSE 0
      BY <1>2 DEF Sound, Counted
    <2>2. Users(s.pin, hs, i) \in Nat /\ s.file[i].handles = 0
      BY <1>1, <1>3, UsersType DEF States, Idle
    <2>3. i # None
      BY <1>2 DEF Ids, None
    <2> QED BY <2>1, <2>2, <2>3
  <1>8. ~Opens(hs, i) /\ \A m \in Names : s.pin[m] # i
    BY <1>1, <1>7, NoUsers DEF States
  <1>9. Counted(t, hs, None)
    <2>1. ASSUME NEW j \in Ids
          PROVE  t.file[j].handles = Users(t.pin, hs, j) + IF j = None THEN 1 ELSE 0
      <3>1. j # None
        BY DEF Ids, None
      <3>2. s.file[j].handles = Users(s.pin, hs, j) + IF j = None THEN 1 ELSE 0
        BY DEF Sound, Counted
      <3>3. s.file[i].handles = 0
        BY <1>3 DEF Idle
      <3> QED BY <1>4, <1>6, <1>7, <3>1, <3>2, <3>3
    <2> QED BY <2>1 DEF Counted
  <1>10. Registered(t)
    <2>1. \A m \in Names : /\ s.byName[m] # None => s.byName[m] \in Ids
                           /\ s.byUrl[m] # None => s.byUrl[m] \in Ids
                           /\ s.pin[m] # None => s.pin[m] \in Ids
      BY <1>1 DEF States, Entries, Ids, None
    <2>2. t.moved = s.moved /\ t.clashed = s.clashed /\ NoUrl \notin Names
      BY <1>4, WebFilesAssumption DEF SameRuntime
    <2>3. \A j \in Ids : t.file[j].listed => t.file[j].name # NoUrl
      BY <1>6, <2>2 DEF Sound, Registered
    <2>4. \A j \in Ids : j > t.last => t.file[j].proto = "none"
      BY <1>2, <1>4, <1>6 DEF Sound, Registered, Ids
    <2>5. \A m \in Names : t.byName[m] = IF m = n THEN i ELSE s.byName[m]
      BY <1>0, <1>4
    <2>6. \A m \in Names : t.byName[m] <= t.last
      <3>1. \A m \in Names : s.byName[m] <= s.last /\ s.byName[m] \in Nat
        BY <1>1 DEF Sound, Registered, States, Entries
      <3> QED BY <1>2, <1>4, <2>5, <3>1
    <2>7. \A u \in Names : t.byUrl[u] # None => t.file[t.byUrl[u]].url = u
      <3>1. ASSUME NEW u \in Names, t.byUrl[u] # None PROVE t.file[t.byUrl[u]].url = u
        <4>1. CASE s.byUrl[u] = None
          <5>1. u = g.url /\ t.byUrl[u] = i
            BY <1>1, <1>4, <3>1, <4>1 DEF States, Entries
          <5> QED BY <1>2, <1>6, <5>1
        <4>2. CASE s.byUrl[u] # None
          <5>1. t.byUrl[u] = s.byUrl[u]
            BY <1>0, <1>4, <4>2
          <5>2. s.file[s.byUrl[u]].url = u
            BY <4>2 DEF Sound, Registered
          <5> QED BY <1>3, <1>6, <2>1, <2>2, <4>2, <5>1, <5>2
        <4> QED BY <4>1, <4>2
      <3> QED BY <3>1
    <2>8. \A m \in Names : t.pin[m] # None =>
            t.file[t.pin[m]].name = m \/ t.file[t.pin[m]].name \in t.moved
      BY <1>4, <1>6, <1>8, <2>1, <2>2 DEF Sound, Registered
    <2>9. Named(t)
      <3>1. ASSUME NEW m \in Names, t.byName[m] # None
            PROVE  t.file[t.byName[m]].listed /\ t.file[t.byName[m]].name = m
        <4>1. CASE m = n
          BY <1>2, <1>6, <2>5, <4>1
        <4>2. CASE m # n
          <5>1. t.byName[m] = s.byName[m] /\ s.byName[m] \in Ids
            BY <2>1, <2>5, <3>1, <4>2
          <5>2. s.file[s.byName[m]].listed /\ s.file[s.byName[m]].name = m
            BY <3>1, <5>1 DEF Sound, Registered, Named
          <5> QED BY <1>3, <1>6, <5>1, <5>2
        <4> QED BY <4>1, <4>2
      <3> QED BY <3>1 DEF Named
    <2>10. ~t.corrupt => Directories(t)
      <3>1. ASSUME NEW j \in Ids, ~t.corrupt, t.file[j].listed, t.file[j].name \notin t.clashed
            PROVE  t.byName[t.file[j].name] = j
        <4>1. CASE j = i
          BY <1>6, <2>5, <4>1
        <4>2. CASE j # i
          <5>1. s.file[j].listed /\ t.file[j] = s.file[j] /\ s.byName[s.file[j].name] = j
            BY <1>4, <1>6, <2>2, <3>1, <4>2 DEF Sound, Registered, Directories
          <5>2. s.file[j].name \in Names /\ j # None
            BY <1>1, <5>1, ListedNames DEF Ids, None
          <5> QED BY <2>5, <5>1, <5>2
        <4> QED BY <4>1, <4>2
      <3> QED BY <3>1 DEF Directories
    <2>11. t.clashed \subseteq t.moved
      BY <2>2 DEF Sound, Registered
    <2> QED BY <2>3, <2>4, <2>6, <2>7, <2>8, <2>9, <2>10, <2>11 DEF Registered
  <1>11. Protocolled(e, t) /\ Timed(t) /\ Runs(e, t)
    BY <1>4, <1>6 DEF Sound, Protocolled, Timed, Runs, InBrowser, InNode, PathFits, SameRuntime
  <1>12. Held(e, t, hs)
    <2>1. ASSUME NEW j \in Ids, Opens(hs, j) PROVE Fits(e, t, j)
      <3>1. Fits(e, s, j) /\ t.file[j] = s.file[j]
        BY <1>6, <1>8, <2>1 DEF Sound, Held
      <3> QED BY <1>4, <3>1 DEF Fits, HasHandle, SameRuntime
    <2> QED BY <2>1 DEF Held
  <1>13. Sound(e, t, hs, None)
    BY <1>5, <1>9, <1>10, <1>11, <1>12 DEF Sound
  <1>14. t.file[i] = g /\ t.byName[n] = i
    BY <1>1, <1>2, <1>4, <1>6 DEF States, Entries
  <1> QED BY <1>2, <1>4, <1>13, <1>14 DEF i, t

\* What a step leaves alone, and which names it is about.
Keeps(s, t) ==
  /\ t.handle = s.handle /\ t.moved = s.moved /\ t.clashed = s.clashed
  /\ s.corrupt => t.corrupt
Apart(s, t, n0) ==
  \A n \in Names \ ({n0} \cup s.moved) : t.byName[n] = s.byName[n] /\ t.files[n] = s.files[n]

LEMMA KeepsTwice ==
  ASSUME NEW s, NEW t, NEW u, Keeps(s, t), Keeps(t, u)
  PROVE  Keeps(s, u) /\ \A n0 : Apart(s, t, n0) /\ Apart(t, u, n0) => Apart(s, u, n0)
  BY DEF Keeps, Apart

\* A file is taken out of the directories, and what is left of it is g.
Unlisted(s, t, i, g, urls) ==
  /\ t = [s EXCEPT !.file = t.file, !.byName = t.byName, !.byUrl = t.byUrl, !.corrupt = t.corrupt]
  /\ t.file = [s.file EXCEPT ![i] = g] /\ t.byName = [s.byName EXCEPT ![s.file[i].name] = None]
  /\ t.byUrl = urls /\ t.corrupt = (s.corrupt \/ ~s.file[i].listed)

LEMMA UnlistStep ==
  ASSUME NEW e, NEW s, NEW hs, NEW x, Sound(e, s, hs, x), NEW i \in Ids, NEW urls \in Entries,
         NEW g, g = NoFile \/ g = [s.file[i] EXCEPT !.listed = FALSE],
         \A u \in Names : urls[u] # None => urls[u] = s.byUrl[u],
         g = NoFile => s.file[i].handles = 0 /\ \A u \in Names : urls[u] # i,
         NEW t, Unlisted(s, t, i, g, urls)
  PROVE  /\ Sound(e, t, hs, x) /\ t.ok = s.ok /\ t.last = s.last /\ t.pin = s.pin
         /\ Keeps(s, t) /\ Apart(s, t, s.file[i].name) /\ SameRuntime(s, t)
         /\ s.file[i].name \in Names => t.byName[s.file[i].name] = None
  <1> DEFINE f == s.file[i]
  <1>1. s \in States /\ hs \in HandleMaps
    BY DEF Sound
  <1>2. f \in FileRecords /\ s.file \in [Ids -> FileRecords] /\ s.byName \in Entries /\ s.byUrl \in Entries
    BY <1>1 DEF States
  <1>3. NoFile \in FileRecords /\ NoFile.handles = 0 /\ ~NoFile.listed
    <2>1. <<>> \in Seq(Nat)
      OBVIOUS
    <2> QED BY <2>1, WebFilesAssumption DEF NoFile, FileRecords, Texts, Protocols, None
  <1>4. /\ t.file = [s.file EXCEPT ![i] = g] /\ t.byName = [s.byName EXCEPT ![f.name] = None]
        /\ t.byUrl = urls /\ t.corrupt = (s.corrupt \/ ~f.listed)
    BY DEF Unlisted
  <1>5. /\ t.last = s.last /\ t.pin = s.pin /\ t.handle = s.handle /\ t.ok = s.ok
        /\ t.epoch = s.epoch /\ t.config = s.config /\ t.global = s.global /\ t.remote = s.remote
        /\ t.moved = s.moved /\ t.clashed = s.clashed /\ SameRuntime(s, t)
    BY <1>1 DEF Unlisted, States, SameRuntime
  <1>6. g \in FileRecords /\ ~g.listed /\ g.handles = f.handles
    BY <1>2, <1>3 DEF FileRecords
  <1>7. t \in States
    <2>1. t.file \in [Ids -> FileRecords]
      BY <1>2, <1>4, <1>6
    <2>2. t.byName \in Entries /\ t.byUrl \in Entries
      <3>1. None \in 0..MaxFiles
        BY WebFilesAssumption DEF None
      <3>2. ASSUME NEW m \in Entries, NEW n PROVE [m EXCEPT ![n] = None] \in Entries
        BY <3>1 DEF Entries
      <3>3. [s.byName EXCEPT ![f.name] = None] \in Entries
        BY <1>2, <3>2
      <3> HIDE DEF f
      <3> QED BY <1>2, <1>4, <3>3
    <2>3. t.corrupt \in BOOLEAN
      BY <1>1, <1>2, <1>4 DEF States, FileRecords
    <2> QED BY <1>1, <2>1, <2>2, <2>3 DEF Unlisted, States
  <1>8. \A j \in Ids : t.file[j] = IF j = i THEN g ELSE s.file[j]
    BY <1>2, <1>4
  <1>9. f.handles = 0 => ~Opens(hs, i) /\ \A m \in Names : s.pin[m] # i
    <2>1. f.handles = Users(s.pin, hs, i) + IF i = x THEN 1 ELSE 0
      BY DEF Sound, Counted
    <2>2. Users(s.pin, hs, i) \in Nat
      BY <1>1, UsersType DEF States
    <2>3. f.handles = 0 => Users(s.pin, hs, i) = 0
      BY <2>1, <2>2
    <2> QED BY <1>1, <2>3, NoUsers DEF States
  <1>10. Counted(t, hs, x)
    BY <1>5, <1>6, <1>8 DEF Sound, Counted
  <1>11. \A n \in Names : t.byName[n] = IF n = f.name THEN None ELSE s.byName[n]
    BY <1>2, <1>4 DEF Entries
  <1>12. Registered(t)
    <2>1. \A m \in Names : /\ s.byName[m] # None => s.byName[m] \in Ids
                           /\ s.byUrl[m] # None => s.byUrl[m] \in Ids
                           /\ s.pin[m] # None => s.pin[m] \in Ids
      BY <1>1 DEF States, Entries, Ids, None
    <2>3. \A j \in Ids : t.file[j].listed => t.file[j].name # NoUrl
      BY <1>6, <1>8 DEF Sound, Registered
    <2>4. \A j \in Ids : j > t.last => t.file[j].proto = "none"
      <3>1. f.proto = "none" => g.proto = "none"
        BY <1>2 DEF NoFile, FileRecords
      <3> QED BY <1>5, <1>8, <3>1 DEF Sound, Registered
    <2>6. \A m \in Names : t.byName[m] <= t.last
      <3>1. \A m \in Names : s.byName[m] <= s.last
        BY DEF Sound, Registered
      <3>2. 0 <= s.last
        BY <1>1 DEF States
      <3> QED BY <1>5, <1>11, <3>1, <3>2 DEF None
    <2>7. \A u \in Names : t.byUrl[u] # None => t.file[t.byUrl[u]].url = u
      <3>1. ASSUME NEW u \in Names, t.byUrl[u] # None PROVE t.file[t.byUrl[u]].url = u
        <4>1. t.byUrl[u] = s.byUrl[u]
          BY <1>4, <3>1
        <4>2. s.file[s.byUrl[u]].url = u /\ s.byUrl[u] \in Ids
          BY <2>1, <3>1, <4>1 DEF Sound, Registered
        <4>3. g # NoFile => g.url = f.url
          BY <1>2 DEF FileRecords
        <4>4. s.byUrl[u] = i => g # NoFile
          BY <1>4, <3>1, <4>1
        <4> QED BY <1>8, <4>1, <4>2, <4>3, <4>4
      <3> QED BY <3>1
    <2>8. \A m \in Names : t.pin[m] # None =>
            t.file[t.pin[m]].name = m \/ t.file[t.pin[m]].name \in t.moved
      <3>1. f.handles # 0 => g.name = f.name
        BY <1>2 DEF FileRecords
      <3>2. ASSUME NEW m \in Names, s.pin[m] # None
            PROVE  t.file[s.pin[m]].name = s.file[s.pin[m]].name
        <4>1. CASE s.pin[m] = i
          BY <1>8, <1>9, <3>1, <4>1
        <4>2. CASE s.pin[m] # i
          BY <1>8, <2>1, <3>2, <4>2
        <4> QED BY <4>1, <4>2
      <3> QED BY <1>5, <3>2 DEF Sound, Registered
    <2>9. \A m \in Names : t.byName[m] # None => t.byName[m] = s.byName[m] /\ s.byName[m] # i
      BY <1>11 DEF Sound, Registered, Named
    <2>10. Named(t)
      <3>1. ASSUME NEW m \in Names, t.byName[m] # None
            PROVE  t.file[t.byName[m]].listed /\ t.file[t.byName[m]].name = m
        BY <1>8, <2>1, <2>9, <3>1 DEF Sound, Registered, Named
      <3> QED BY <3>1 DEF Named
    <2>11. ASSUME ~t.corrupt PROVE Directories(t)
      <3>1. ASSUME NEW j \in Ids, t.file[j].listed, t.file[j].name \notin t.clashed
            PROVE  t.byName[t.file[j].name] = j
        <4>1. j # i /\ t.file[j] = s.file[j] /\ s.file[j].listed /\ s.file[j].name \notin s.clashed
          BY <1>5, <1>6, <1>8, <3>1
        <4>2. /\ s.byName[s.file[j].name] = j
              /\ f.name \notin s.clashed => s.byName[f.name] = i
          BY <1>4, <2>11, <4>1 DEF Sound, Registered, Directories
        <4>3. s.file[j].name \in Names
          BY <4>1, ListedNames
        <4> QED BY <1>11, <4>1, <4>2, <4>3
      <3> QED BY <3>1 DEF Directories
    <2>12. t.clashed \subseteq t.moved
      BY <1>5 DEF Sound, Registered
    <2> QED BY <2>3, <2>4, <2>6, <2>7, <2>8, <2>10, <2>11, <2>12 DEF Registered
  <1>13. Protocolled(e, t)
    <2>1. FollowsUrl(e, f)
      BY DEF Sound, Protocolled
    <2>2. FollowsUrl(e, NoFile)
      BY DEF FollowsUrl, NoFile, Idle
    <2>3. FollowsUrl(e, g)
      BY <1>2, <2>1, <2>2 DEF FollowsUrl, Idle, FileRecords
    <2>4. Loaded(f, s.remote)
      BY DEF Sound, Protocolled
    <2>5. Loaded(g, s.remote)
      BY <1>2, <2>4 DEF Loaded, Exact, IsRemote, FileRecords, NoFile
    <2> QED BY <1>5, <1>8, <2>3, <2>5 DEF Sound, Protocolled
  <1>14. Timed(t) /\ Runs(e, t)
    BY <1>5 DEF Sound, Timed, Runs, InBrowser, InNode, PathFits, SameRuntime
  <1>15. Held(e, t, hs)
    <2>1. ASSUME NEW j \in Ids, Opens(hs, j) PROVE Fits(e, t, j)
      <3>1. Fits(e, s, j)
        BY <2>1 DEF Sound, Held
      <3>2. CASE j # i
        <4>1. t.file[j] = s.file[j] /\ (~t.corrupt => ~s.corrupt)
          BY <1>4, <1>8, <3>2
        <4>2. HasHandle(e, t, j)
          BY <1>5, <3>1, <4>1 DEF Fits, HasHandle, SameRuntime
        <4> QED BY <1>5, <3>1, <4>1, <4>2 DEF Fits, SameRuntime
      <3>3. CASE j = i
        <4>1. /\ t.file[j].name = f.name /\ t.file[j].url = f.url /\ t.file[j].proto = f.proto
              /\ t.file[j].altered = f.altered /\ t.file[j].size = f.size /\ t.file[j].data = f.data
              /\ t.file[j].uploads = f.uploads /\ t.file[j].upConfig = f.upConfig
              /\ ~t.file[j].listed
          BY <1>2, <1>8, <1>9, <2>1, <3>3 DEF FileRecords
        <4>2. Exact(t.file[j], t.remote)
          BY <1>5, <3>1, <3>3, <4>1 DEF Fits, Exact, IsRemote
        <4>3. CacheFits(t.file[j], t.cache[j], t.epoch, t.config)
          BY <1>5, <3>1, <3>3, <4>1 DEF Fits, CacheFits, ConfigFor, SameRuntime
        <4>4. HasHandle(e, t, j)
          BY <1>5, <3>1, <3>3, <4>1 DEF Fits, HasHandle, SameRuntime
        <4> QED BY <4>2, <4>3, <4>4 DEF Fits
      <3> QED BY <3>2, <3>3
    <2> QED BY <2>1 DEF Held
  <1>16. Sound(e, t, hs, x)
    BY <1>7, <1>10, <1>12, <1>13, <1>14, <1>15 DEF Sound
  <1>17. Keeps(s, t) /\ Apart(s, t, f.name)
    BY <1>4, <1>5, <1>11 DEF Keeps, Apart, SameRuntime
  <1> QED BY <1>5, <1>11, <1>16, <1>17

LEMMA EraseStep ==
  ASSUME NEW e, NEW s, NEW hs, NEW x, Sound(e, s, hs, x), NEW i \in Ids
  PROVE  LET t == Erase(s, i)
         IN  /\ Sound(e, t, hs, x) /\ t.ok = s.ok /\ t.last = s.last /\ t.pin = s.pin
             /\ Keeps(s, t) /\ Apart(s, t, s.file[i].name) /\ SameRuntime(s, t)
             /\ s.file[i].name \in Names => t.byName[s.file[i].name] = None
  <1> DEFINE f == s.file[i]
             g == IF f.handles = 0 THEN NoFile ELSE [f EXCEPT !.listed = FALSE]
             urls == IF f.url = NoUrl THEN s.byUrl ELSE [s.byUrl EXCEPT ![f.url] = None]
             t == Erase(s, i)
  <1>1. s \in States /\ s.byUrl \in Entries /\ s.file \in [Ids -> FileRecords]
    BY DEF Sound, States
  <1>2. Unlisted(s, t, i, g, urls)
    <2>1. /\ t.file = [s.file EXCEPT ![i] = g] /\ t.byName = [s.byName EXCEPT ![f.name] = None]
          /\ t.byUrl = urls /\ t.corrupt = (s.corrupt \/ ~f.listed)
      BY <1>1 DEF Erase, States
    <2>2. t = [s EXCEPT !.file = t.file, !.byName = t.byName, !.byUrl = t.byUrl,
                        !.corrupt = t.corrupt]
      <3> DEFINE names == [s.byName EXCEPT ![f.name] = None]
                 file == [s.file EXCEPT ![i].listed = FALSE]
                 c == s.corrupt \/ ~f.listed
                 r == [s EXCEPT !.byName = names, !.byUrl = urls, !.file = file, !.corrupt = c]
                 gone == [file EXCEPT ![i] = NoFile]
      <3>1. t = r \/ t = [r EXCEPT !.file = gone]
        BY <1>1 DEF Erase, States
      <3> HIDE DEF names, file, c, gone, urls, t
      <3> QED BY <1>1, <3>1 DEF States
    <2> QED BY <2>1, <2>2 DEF Unlisted
  <1>3. urls \in Entries /\ \A u \in Names : urls[u] # None => urls[u] = s.byUrl[u]
    <2>1. None \in 0..MaxFiles
      BY WebFilesAssumption DEF None
    <2> QED BY <1>1, <2>1 DEF Entries
  <1>4. ASSUME NEW u \in Names PROVE urls[u] # i
    <2>1. s.byUrl[u] = i => f.url = u
      BY DEF Sound, Registered, Ids, None
    <2>2. i # None /\ NoUrl \notin Names
      BY WebFilesAssumption DEF Ids, None
    <2> QED BY <1>1, <2>1, <2>2 DEF Entries
  <1>5. g = NoFile \/ g = [s.file[i] EXCEPT !.listed = FALSE]
    OBVIOUS
  <1>6. g = NoFile => f.handles = 0
    BY <1>1 DEF NoFile, FileRecords
  <1>8. g = NoFile => s.file[i].handles = 0 /\ \A u \in Names : urls[u] # i
    BY <1>4, <1>6
  <1> HIDE DEF g, urls, t
  <1>7. /\ Sound(e, t, hs, x) /\ t.ok = s.ok /\ t.last = s.last /\ t.pin = s.pin
        /\ Keeps(s, t) /\ Apart(s, t, f.name) /\ SameRuntime(s, t)
        /\ f.name \in Names => t.byName[f.name] = None
    BY <1>2, <1>3, <1>5, <1>8, UnlistStep
  <1> QED BY <1>7 DEF t

LEMMA UrlLeftStep ==
  ASSUME NEW e, NEW s, NEW hs, NEW x, Sound(e, s, hs, x), NEW i \in Ids,
         s.file[i].listed, s.file[i].handles = 0
  PROVE  LET t == UrlLeft(s, i)
         IN  /\ Sound(e, t, hs, x)
             /\ Keeps(s, t) /\ Apart(s, t, s.file[i].name)
             /\ s.file[i].name \in Names => t.byName[s.file[i].name] = None
  <1> DEFINE f == s.file[i]
             g == IF \E u \in Names : s.byUrl[u] = i THEN [f EXCEPT !.listed = FALSE] ELSE NoFile
             urls == s.byUrl
             t == UrlLeft(s, i)
  <1>1. s \in States /\ s.byUrl \in Entries /\ s.file \in [Ids -> FileRecords] /\ s.corrupt \in BOOLEAN
    BY DEF Sound, States
  <1>2. Unlisted(s, t, i, g, urls)
    <2>1. /\ t.file = [s.file EXCEPT ![i] = g] /\ t.byName = [s.byName EXCEPT ![f.name] = None]
          /\ t.byUrl = urls
      BY <1>1 DEF UrlLeft, States
    <2>2. t.corrupt = (s.corrupt \/ ~f.listed)
      BY <1>1 DEF UrlLeft, States
    <2>3. t = [s EXCEPT !.file = t.file, !.byName = t.byName, !.byUrl = t.byUrl,
                        !.corrupt = t.corrupt]
      BY <1>1 DEF UrlLeft, States
    <2> QED BY <2>1, <2>2, <2>3 DEF Unlisted
  <1>3. g = NoFile \/ g = [s.file[i] EXCEPT !.listed = FALSE]
    OBVIOUS
  <1>4. g = NoFile => \A u \in Names : s.byUrl[u] # i
    <2>1. \A u \in Names : s.byUrl[u] = i => f.url = u
      BY DEF Sound, Registered, Ids, None
    <2>2. NoFile.url = NoUrl /\ NoUrl \notin Names /\ [f EXCEPT !.listed = FALSE].url = f.url
      BY <1>1, WebFilesAssumption DEF NoFile, FileRecords
    <2> QED BY <2>1, <2>2
  <1>7. urls \in Entries /\ \A u \in Names : urls[u] # None => urls[u] = s.byUrl[u]
    BY <1>1
  <1>8. g = NoFile => s.file[i].handles = 0 /\ \A u \in Names : urls[u] # i
    BY <1>4
  <1> HIDE DEF g, urls, t
  <1>5. /\ Sound(e, t, hs, x)
        /\ Keeps(s, t) /\ Apart(s, t, f.name)
        /\ f.name \in Names => t.byName[f.name] = None
    BY <1>2, <1>3, <1>7, <1>8, UnlistStep
  <1> QED BY <1>5 DEF t

LEMMA FitsAlike ==
  ASSUME NEW e, NEW s, NEW t, NEW i, Fits(e, s, i), SameRuntime(s, t),
         t.remote = s.remote, t.epoch = s.epoch, t.config = s.config, t.corrupt = s.corrupt,
         t.file[i].name = s.file[i].name, t.file[i].url = s.file[i].url,
         t.file[i].proto = s.file[i].proto, t.file[i].altered = s.file[i].altered,
         t.file[i].size = s.file[i].size, t.file[i].data = s.file[i].data,
         t.file[i].uploads = s.file[i].uploads, t.file[i].upConfig = s.file[i].upConfig,
         t.file[i].listed = s.file[i].listed
  PROVE  Fits(e, t, i)
  BY DEF Fits, Exact, IsRemote, CacheFits, ConfigFor, HasHandle, SameRuntime

\* One more handle of a file, and one less.
LEMMA OneMore ==
  ASSUME NEW e, NEW s, NEW hs, Sound(e, s, hs, None), NEW i \in Ids, s.file[i].proto # "none"
  PROVE  LET t == AddHandle(s, i)
         IN  /\ Sound(e, t, hs, i) /\ SameMaps(s, t) /\ SameRuntime(s, t)
             /\ t.remote = s.remote /\ t.ok = s.ok
             /\ t.file = [s.file EXCEPT ![i] = [s.file[i] EXCEPT !.handles = @ + 1]]
  <1> DEFINE f == s.file[i]
             g == [f EXCEPT !.handles = @ + 1]
             t == [s EXCEPT !.file[i] = g]
  <1>1. s \in States /\ hs \in HandleMaps /\ f \in FileRecords /\ FollowsUrl(e, f)
    BY DEF Sound, States, Protocolled
  <1>2. /\ t.file = [s.file EXCEPT ![i] = g] /\ SameMaps(s, t) /\ SameRuntime(s, t)
        /\ t.remote = s.remote /\ t.ok = s.ok
    BY <1>1 DEF States, SameMaps, SameRuntime
  <1>3. t = AddHandle(s, i)
    BY DEF AddHandle
  <1>4. f.handles \in Nat
    BY <1>1 DEF FileRecords
  <1>5. g \in FileRecords /\ g.handles = f.handles + 1
    <2>1. f.handles + 1 \in Nat
      BY <1>4
    <2> HIDE DEF f
    <2> QED BY <1>1, <2>1 DEF FileRecords
  <1>6. /\ g.name = f.name /\ g.url = f.url /\ g.proto = f.proto /\ g.altered = f.altered
        /\ g.size = f.size /\ g.data = f.data /\ g.uploads = f.uploads
        /\ g.upConfig = f.upConfig /\ g.listed = f.listed
    BY <1>1 DEF FileRecords
  <1> HIDE DEF f, g
  <1>7. \A j \in Ids : t.file[j] = IF j = i THEN g ELSE s.file[j]
    BY <1>1, <1>2 DEF States
  <1>8. Counted(t, hs, i)
    <2>1. ASSUME NEW j \in Ids
          PROVE  t.file[j].handles = Users(t.pin, hs, j) + IF j = i THEN 1 ELSE 0
      <3>1. s.file[j].handles = Users(s.pin, hs, j) + IF j = None THEN 1 ELSE 0
        BY DEF Sound, Counted
      <3>2. j # None
        BY DEF Ids, None
      <3>3. t.pin = s.pin
        BY <1>2 DEF SameMaps
      <3>4. Users(s.pin, hs, j) \in Nat
        BY <1>1, UsersType DEF States
      <3> QED BY <1>5, <1>7, <3>1, <3>2, <3>3, <3>4 DEF f
    <2> QED BY <2>1 DEF Counted
  <1>9. Opens(hs, i) => Fits(e, t, i)
    <2>1. Opens(hs, i) => Fits(e, s, i)
      BY DEF Sound, Held
    <2>2. /\ t.epoch = s.epoch /\ t.config = s.config /\ t.corrupt = s.corrupt
          /\ t.remote = s.remote /\ SameRuntime(s, t)
      BY <1>2 DEF SameMaps
    <2>3. /\ t.file[i].name = s.file[i].name /\ t.file[i].url = s.file[i].url
          /\ t.file[i].proto = s.file[i].proto /\ t.file[i].altered = s.file[i].altered
          /\ t.file[i].size = s.file[i].size /\ t.file[i].data = s.file[i].data
          /\ t.file[i].uploads = s.file[i].uploads /\ t.file[i].upConfig = s.file[i].upConfig
          /\ t.file[i].listed = s.file[i].listed
      BY <1>6, <1>7 DEF f
    <2> HIDE DEF t
    <2> QED BY <2>1, <2>2, <2>3, FitsAlike
  <1>10. FollowsUrl(e, g) /\ Loaded(g, s.remote)
    <2>1. Loaded(f, s.remote)
      BY DEF Sound, Protocolled, f
    <2> QED BY <1>1, <1>6, <2>1 DEF FollowsUrl, Loaded, Exact, IsRemote, f
  <1>11. Sound(e, t, hs, i)
    BY <1>5, <1>6, <1>8, <1>9, <1>10, FileChanged DEF f
  <1> QED BY <1>2, <1>3, <1>11 DEF f, g

LEMMA OneLess ==
  ASSUME NEW e, NEW s, NEW hs, NEW i \in Ids, Sound(e, s, hs, i)
  PROVE  LET t == [s EXCEPT !.file[i].handles = @ - 1]
         IN  /\ Sound(e, t, hs, None) /\ SameMaps(s, t) /\ SameRuntime(s, t)
             /\ t.remote = s.remote /\ t.ok = s.ok
             /\ t.file = [s.file EXCEPT ![i] = [s.file[i] EXCEPT !.handles = @ - 1]]
             /\ s.file[i].handles \in Nat \ {0}
             /\ s.file[i].handles = 1 => ~Opens(hs, i)
  <1> DEFINE f == s.file[i]
             g == [f EXCEPT !.handles = @ - 1]
             t == [s EXCEPT !.file[i] = g]
  <1>1. s \in States /\ hs \in HandleMaps /\ f \in FileRecords /\ FollowsUrl(e, f)
    BY DEF Sound, States, Protocolled
  <1>2. /\ t.file = [s.file EXCEPT ![i] = g] /\ SameMaps(s, t) /\ SameRuntime(s, t)
        /\ t.remote = s.remote /\ t.ok = s.ok
    BY <1>1 DEF States, SameMaps, SameRuntime
  <1>3. t = [s EXCEPT !.file[i].handles = @ - 1]
    OBVIOUS
  <1>4. f.handles = Users(s.pin, hs, i) + 1 /\ Users(s.pin, hs, i) \in Nat
    BY <1>1, UsersType DEF Sound, Counted, States
  <1>5. g \in FileRecords /\ g.handles = f.handles - 1
    <2>1. f.handles - 1 \in Nat
      BY <1>4
    <2> QED BY <1>1, <2>1 DEF FileRecords
  <1>6. /\ g.name = f.name /\ g.url = f.url /\ g.proto = f.proto /\ g.altered = f.altered
        /\ g.size = f.size /\ g.data = f.data /\ g.uploads = f.uploads
        /\ g.upConfig = f.upConfig /\ g.listed = f.listed
    BY <1>1 DEF FileRecords
  <1> HIDE DEF f, g
  <1>7. \A j \in Ids : t.file[j] = IF j = i THEN g ELSE s.file[j]
    BY <1>1, <1>2 DEF States
  <1>8. Counted(t, hs, None)
    <2>1. ASSUME NEW j \in Ids
          PROVE  t.file[j].handles = Users(t.pin, hs, j) + IF j = None THEN 1 ELSE 0
      <3>1. s.file[j].handles = Users(s.pin, hs, j) + IF j = i THEN 1 ELSE 0
        BY DEF Sound, Counted
      <3>2. j # None
        BY DEF Ids, None
      <3>3. t.pin = s.pin
        BY <1>2 DEF SameMaps
      <3>4. Users(s.pin, hs, j) \in Nat
        BY <1>1, UsersType DEF States
      <3> QED BY <1>4, <1>5, <1>7, <3>1, <3>2, <3>3, <3>4 DEF f
    <2> QED BY <2>1 DEF Counted
  <1>9. Opens(hs, i) => Fits(e, t, i)
    <2>1. Opens(hs, i) => Fits(e, s, i)
      BY DEF Sound, Held
    <2>2. /\ t.epoch = s.epoch /\ t.config = s.config /\ t.corrupt = s.corrupt
          /\ t.remote = s.remote /\ SameRuntime(s, t)
      BY <1>2 DEF SameMaps
    <2>3. /\ t.file[i].name = s.file[i].name /\ t.file[i].url = s.file[i].url
          /\ t.file[i].proto = s.file[i].proto /\ t.file[i].altered = s.file[i].altered
          /\ t.file[i].size = s.file[i].size /\ t.file[i].data = s.file[i].data
          /\ t.file[i].uploads = s.file[i].uploads /\ t.file[i].upConfig = s.file[i].upConfig
          /\ t.file[i].listed = s.file[i].listed
      BY <1>6, <1>7 DEF f
    <2> HIDE DEF t
    <2> QED BY <2>1, <2>2, <2>3, FitsAlike
  <1>10. f.handles # 0
    BY <1>4
  <1>11. FollowsUrl(e, g) /\ g.proto # "none" /\ Loaded(g, s.remote)
    <2>1. Loaded(f, s.remote)
      BY DEF Sound, Protocolled, f
    <2> QED BY <1>1, <1>6, <1>10, <2>1 DEF FollowsUrl, Idle, Loaded, Exact, IsRemote, f
  <1>12. Sound(e, t, hs, None)
    <2>1. g.proto = "none" <=> f.proto = "none"
      BY <1>6
    <2> QED BY <1>5, <1>6, <1>8, <1>9, <1>11, <2>1, FileChanged DEF f
  <1>13. f.handles = 1 => ~Opens(hs, i)
    <2>1. f.handles = 1 => Users(s.pin, hs, i) = 0
      BY <1>4
    <2> QED BY <1>1, <2>1, NoUsers DEF States
  <1>14. f.handles \in Nat \ {0}
    BY <1>4
  <1> QED BY <1>2, <1>3, <1>12, <1>13, <1>14 DEF f, g

\* An upload makes the bytes of the server other than those that were read, for every file.
LEMMA UploadStep ==
  ASSUME NEW s, NEW hs, NEW x, Sound(env, s, hs, x), NEW i \in Ids
  PROVE  LET t == RtUpload(s, i)
         IN  /\ Sound(env, t, hs, x) /\ SameMaps(s, t)
             /\ Handed(s, t) /\ Beside(s, t, s.file[i].name) /\ SameSystem(env, s, t)
             /\ \A j \in Ids : t.file[j].name = s.file[j].name
  <1> DEFINE r == Resolve(s, i)
             u == [r EXCEPT !.remote = r.file[i].data,
                            !.file = [j \in Ids |-> [@[j] EXCEPT !.altered = TRUE]]]
             t == RtUpload(s, i)
  <1>1. Sound(env, r, hs, x) /\ SameRegistry(s, r) /\ r.os = s.os
    <2> HIDE DEF u, t
    <2> QED BY ZenonT(60), ResolveStep
  <1>2. Handed(s, r) /\ Beside(s, r, s.file[i].name)
    BY ResolveHands
  <1>3. t = u \/ t = Fail(r)
    BY DEF RtUpload, Uploaded
  <1> HIDE DEF r, t
  <1>4. CASE t = Fail(r)
    <2>1. Uses(r, t)
      BY <1>4 DEF Uses
    <2>2. Sound(env, t, hs, x) /\ SameRegistry(r, t) /\ SameRuntime(r, t)
      BY <1>1, <2>1, UsesStep
    <2> QED
      BY <1>1, <1>2, <2>2 DEF SameRegistry, SameMaps, SameRuntime, Handed, Beside, SameSystem, t
  <1>5. CASE t = u
    <2>1. r \in States /\ r.file \in [Ids -> FileRecords] /\ r.file[i].data \in Seq(Nat)
      BY <1>1 DEF Sound, States, FileRecords
    <2>2. /\ SameMaps(r, u) /\ SameRuntime(r, u)
          /\ u.file = [j \in Ids |-> [r.file[j] EXCEPT !.altered = TRUE]]
      BY <2>1 DEF States, SameMaps, SameRuntime
    <2>3. u \in States
      <3>1. [j \in Ids |-> [r.file[j] EXCEPT !.altered = TRUE]] \in [Ids -> FileRecords]
        BY <2>1 DEF FileRecords
      <3> QED BY <2>1, <3>1 DEF States
    <2> HIDE DEF u
    <2>4. \A j \in Ids : /\ u.file[j].name = r.file[j].name /\ u.file[j].url = r.file[j].url
                         /\ u.file[j].proto = r.file[j].proto /\ u.file[j].handles = r.file[j].handles
                         /\ u.file[j].listed = r.file[j].listed /\ u.file[j].altered
                         /\ u.file[j].uploads = r.file[j].uploads
                         /\ u.file[j].upConfig = r.file[j].upConfig
      <3> SUFFICES ASSUME NEW j \in Ids
                   PROVE  LET q == u.file[j]
                              o == r.file[j]
                          IN  /\ q.name = o.name /\ q.url = o.url /\ q.proto = o.proto
                              /\ q.handles = o.handles /\ q.listed = o.listed /\ q.altered
                              /\ q.uploads = o.uploads /\ q.upConfig = o.upConfig
        OBVIOUS
      <3>1. r.file[j] \in FileRecords /\ u.file[j] = [r.file[j] EXCEPT !.altered = TRUE]
        BY <2>1, <2>2
      <3> QED BY <3>1 DEF FileRecords
    <2>5. Counted(u, hs, x) /\ Registered(u) /\ Protocolled(env, u)
      <3>1. \A m \in Names : /\ r.byName[m] # None => r.byName[m] \in Ids
                             /\ r.byUrl[m] # None => r.byUrl[m] \in Ids
                             /\ r.pin[m] # None => r.pin[m] \in Ids
        BY <2>1 DEF States, Entries, Ids, None
      <3>2. Counted(u, hs, x)
        BY <1>1, <2>2, <2>4 DEF Sound, Counted, SameMaps
      <3>3. Registered(u)
        BY <1>1, <2>2, <2>4, <3>1 DEF Sound, Registered, Named, Directories, SameMaps
      <3>4. Protocolled(env, u)
        BY <1>1, <2>4 DEF Sound, Protocolled, FollowsUrl, Idle, Loaded, Exact
      <3> QED BY <3>2, <3>3, <3>4
    <2>6. Timed(u) /\ Runs(env, u)
      <3>1. /\ u.cache = r.cache /\ u.global = r.global /\ u.epoch = r.epoch /\ u.config = r.config
            /\ u.files = r.files /\ u.prepared = r.prepared /\ u.byId = r.byId /\ u.os = r.os
            /\ u.moved = r.moved
        BY <2>2 DEF SameMaps, SameRuntime
      <3>2. Timed(r) /\ Runs(env, r)
        BY <1>1 DEF Sound
      <3>3. Timed(u)
        BY <3>1, <3>2 DEF Timed
      <3>4. Runs(env, u)
        BY <3>1, <3>2 DEF Runs, InBrowser, InNode, PathFits
      <3> QED BY <3>3, <3>4
    <2>7. ASSUME NEW j \in Ids, Fits(env, r, j) PROVE Fits(env, u, j)
      <3>1. Exact(u.file[j], u.remote)
        BY <2>4 DEF Exact
      <3>2. CacheFits(u.file[j], u.cache[j], u.epoch, u.config)
        BY <2>2, <2>4, <2>7 DEF Fits, CacheFits, ConfigFor, SameMaps, SameRuntime
      <3>3. HasHandle(env, u, j)
        BY <2>2, <2>4, <2>7 DEF Fits, HasHandle, SameMaps, SameRuntime
      <3> QED BY <3>1, <3>2, <3>3 DEF Fits
    <2>8. Sound(env, u, hs, x)
      BY <1>1, <2>3, <2>5, <2>6, <2>7 DEF Sound, Held
    <2>9. SameMaps(s, u) /\ Handed(s, u) /\ Beside(s, u, s.file[i].name) /\ SameSystem(env, s, u)
      BY <1>1, <1>2, <2>2
         DEF SameRegistry, SameMaps, SameRuntime, Handed, Beside, SameSystem
    <2>10. \A j \in Ids : u.file[j].name = s.file[j].name
      BY <1>1, <2>4 DEF SameRegistry
    <2> QED BY <1>5, <2>8, <2>9, <2>10 DEF t
  <1> QED BY <1>3, <1>4, <1>5

\* What a handle of a file named n0 leaves alone when it is closed.
Closes(s, t, n0) ==
  /\ Keeps(s, t) /\ Apart(s, t, n0) /\ Handed(s, t) /\ SameSystem(env, s, t)
  /\ t.last = s.last /\ t.pin = s.pin

LEMMA ClosesTwice ==
  ASSUME NEW s, NEW t, NEW u, NEW n0, Closes(s, t, n0), Closes(t, u, n0)
  PROVE  Closes(s, u, n0)
  <1>1. Keeps(s, u) /\ Apart(s, u, n0)
    BY KeepsTwice DEF Closes
  <1>2. Handed(s, u)
    BY HandedTwice DEF Closes
  <1> QED BY <1>1, <1>2 DEF Closes, SameSystem

LEMMA ClosesAlike ==
  ASSUME NEW s, NEW t, NEW n0, SameMaps(s, t)
  PROVE  /\ SameRuntime(s, t) => Closes(s, t, n0)
         /\ Handed(s, t) /\ Beside(s, t, n0) /\ SameSystem(env, s, t) => Closes(s, t, n0)
  BY DEF Closes, SameMaps, SameRuntime, Keeps, Apart, Handed, Beside, SameSystem

\* The last handle of a file that was written writes it back.
LEMMA WrittenBackStep ==
  ASSUME NEW s, NEW hs, NEW i \in Ids, Sound(env, s, hs, None), ~Opens(hs, i),
         s.file[i].proto = "buffer" => s.file[i].uploads
  PROVE  LET t == WrittenBack(s, i)
         IN  /\ Sound(env, t, hs, None) /\ Closes(s, t, s.file[i].name)
             /\ t.file[i].name = s.file[i].name
  <1> DEFINE f == s.file[i]
             p == DataProtocol(f.url)
             g == [f EXCEPT !.proto = p]
             u == [s EXCEPT !.config = s.config, !.epoch = @ + 1]
             v == [u EXCEPT !.file[i] = g]
  <1>0. s \in States /\ f \in FileRecords /\ FollowsUrl(env, f) /\ s.config \in 1..Configs
    BY DEF Sound, States, Protocolled
  <1>1. CASE f.proto # "buffer"
    <2>1. WrittenBack(s, i) = s
      BY <1>1 DEF WrittenBack
    <2>2. SameMaps(s, s) /\ SameRuntime(s, s)
      BY DEF SameMaps, SameRuntime
    <2> QED BY <2>1, <2>2, ClosesAlike
  <1>2. CASE f.proto = "buffer"
    <2>1. f.url \in Names /\ p = Proto(env, f.url) /\ Proto(env, f.url) \in Remote
      BY <1>0, <1>2, ProtoAgrees DEF FollowsUrl, FileRecords, Texts
    <2>2. Sound(env, u, hs, None)
      BY <1>0, EpochRaised
    <2>3. u.file = s.file
      BY <1>0 DEF States
    <2>4. g \in FileRecords /\ FollowsUrl(env, g) /\ g.proto # "none"
      <3>1. p \in {"http", "s3"}
        BY <2>1 DEF Remote
      <3>2. p \in Protocols /\ p \notin {"none", "buffer"}
        BY <3>1 DEF Protocols
      <3> HIDE DEF p
      <3>3. /\ g \in FileRecords /\ g.proto = p /\ g.url = f.url
            /\ g.uploads = f.uploads /\ g.upConfig = f.upConfig
        BY <1>0, <3>2 DEF FileRecords
      <3> HIDE DEF g
      <3> QED BY <1>0, <2>1, <3>2, <3>3, WebFilesAssumption DEF FollowsUrl
    <2>5. /\ g.name = f.name /\ g.url = f.url /\ g.listed = f.listed /\ g.handles = f.handles
          /\ g.proto = p
      BY <1>0 DEF FileRecords
    <2>6. /\ v.file = [s.file EXCEPT ![i] = g] /\ v.pin = s.pin
          /\ v.handle = s.handle /\ v.moved = s.moved /\ v.clashed = s.clashed /\ v.corrupt = s.corrupt
          /\ v.last = s.last /\ v.byName = s.byName /\ v.files = s.files
          /\ v.prepared = s.prepared /\ v.os = s.os
      BY <1>0 DEF States
    <2>7. v = WritesBack(s, i)
      BY <1>0 DEF WritesBack, States
    <2>8. \A j \in Ids : v.file[j] = IF j = i THEN g ELSE s.file[j]
      BY <1>0, <2>6 DEF States
    <2>9. Counted(v, hs, None)
      BY <2>5, <2>6, <2>8 DEF Sound, Counted
    <2> HIDE DEF g, u
    <2>10. Sound(env, v, hs, None)
      <3>1. g.proto = "none" <=> u.file[i].proto = "none"
        BY <1>2, <2>3, <2>4
      <3>2. Loaded(g, u.remote)
        BY <2>1, <2>5, WebFilesAssumption DEF Loaded, Remote
      <3> QED BY <2>2, <2>3, <2>4, <2>5, <2>9, <3>1, <3>2, FileChanged
    <2>11. Closes(s, v, f.name) /\ v.file[i].name = f.name
      BY <2>5, <2>6, <2>8 DEF Closes, Keeps, Apart, Handed, SameSystem
    <2>12. WrittenBack(s, i) = RtUpload(v, i)
      BY <1>2, <2>7 DEF WrittenBack
    <2> HIDE DEF v, f
    <2>13. LET t == RtUpload(v, i)
           IN  /\ Sound(env, t, hs, None) /\ SameMaps(v, t)
               /\ Handed(v, t) /\ Beside(v, t, v.file[i].name) /\ SameSystem(env, v, t)
               /\ \A j \in Ids : t.file[j].name = v.file[j].name
      BY <2>10, UploadStep
    <2>14. Closes(v, RtUpload(v, i), f.name)
      BY <2>11, <2>13, ClosesAlike
    <2>15. Closes(s, RtUpload(v, i), f.name)
      BY <2>11, <2>14, ClosesTwice
    <2> QED BY <2>11, <2>12, <2>13, <2>15 DEF f
  <1> QED BY <1>1, <1>2

LEMMA CloseHolds ==
  ASSUME NEW s, NEW hs, NEW i \in Ids, Sound(env, s, hs, i)
  PROVE  Sound(env, Close(s, i), hs, None) /\ Closes(s, Close(s, i), s.file[i].name)
  <1> DEFINE f == s.file[i]
             d == [s EXCEPT !.file[i].handles = @ - 1]
             b == WrittenBack(d, i)
             c == ClosedIn(b, i)
             g == Gone(c, i)
  <1>0. s \in States /\ f \in FileRecords
    BY DEF Sound, States
  <1>1. /\ Sound(env, d, hs, None) /\ SameMaps(s, d) /\ SameRuntime(s, d)
        /\ d.file = [s.file EXCEPT ![i] = [f EXCEPT !.handles = @ - 1]]
        /\ f.handles \in Nat \ {0} /\ (f.handles = 1 => ~Opens(hs, i))
    BY OneLess
  <1>2. Closes(s, d, f.name)
    BY <1>1, ClosesAlike
  <1>3. d.file[i].name = f.name /\ d.file[i].proto = f.proto /\ d.file[i].uploads = f.uploads
    BY <1>0, <1>1 DEF States, FileRecords
  <1>4. CASE f.handles > 1 \/ (f.proto = "buffer" /\ ~f.uploads)
    <2>1. Close(s, i) = d
      BY <1>4 DEF Close
    <2> QED BY <1>1, <1>2, <2>1
  <1>5. CASE ~(f.handles > 1 \/ (f.proto = "buffer" /\ ~f.uploads))
    <2>1. Close(s, i) = g
      BY <1>5 DEF Close
    <2>2. ~Opens(hs, i)
      BY <1>1, <1>5
    <2> HIDE DEF d
    <2>3. Sound(env, b, hs, None) /\ Closes(d, b, f.name) /\ b.file[i].name = f.name
      <3>1. d.file[i].proto = "buffer" => d.file[i].uploads
        BY <1>3, <1>5
      <3>2. Sound(env, d, hs, None)
        BY <1>1
      <3>3. Sound(env, b, hs, None) /\ Closes(d, b, d.file[i].name) /\ b.file[i].name = d.file[i].name
        BY SMTT(30), <2>2, <3>1, <3>2, WrittenBackStep
      <3> QED BY <1>3, <3>3
    <2> HIDE DEF b
    <2>4. Sound(env, c, hs, None) /\ Closes(b, c, f.name) /\ c.file[i].name = f.name
      <3>1. CASE b.ok
        <4>1. c = RtClose(b, i)
          BY <3>1 DEF ClosedIn
        <4>2. LET t == RtClose(b, i)
              IN  /\ Sound(env, t, hs, None) /\ SameRegistry(b, t)
                  /\ Handed(b, t) /\ Beside(b, t, b.file[i].name) /\ SameSystem(env, b, t)
          BY <2>2, <2>3, CloseStep
        <4> HIDE DEF c
        <4>3. /\ Sound(env, c, hs, None) /\ SameMaps(b, c) /\ c.file = b.file
              /\ Handed(b, c) /\ Beside(b, c, f.name) /\ SameSystem(env, b, c)
          BY <2>3, <4>1, <4>2 DEF SameRegistry
        <4> QED BY <2>3, <4>3, ClosesAlike
      <3>2. CASE ~b.ok
        <4>1. c = b
          BY <3>2 DEF ClosedIn
        <4>2. SameMaps(b, b) /\ SameRuntime(b, b)
          BY DEF SameMaps, SameRuntime
        <4> QED BY <2>3, <4>1, <4>2, ClosesAlike
      <3> QED BY <3>1, <3>2
    <2> HIDE DEF c
    <2>5. Sound(env, g, hs, None) /\ Closes(c, g, f.name)
      <3>1. CASE c.ok
        <4>1. g = Erase(c, i)
          BY <3>1 DEF Gone
        <4>2. LET t == Erase(c, i)
              IN  /\ Sound(env, t, hs, None) /\ t.ok = c.ok /\ t.last = c.last /\ t.pin = c.pin
                  /\ Keeps(c, t) /\ Apart(c, t, c.file[i].name) /\ SameRuntime(c, t)
          BY <2>4, EraseStep
        <4> HIDE DEF g
        <4>3. /\ Sound(env, g, hs, None) /\ g.last = c.last /\ g.pin = c.pin
              /\ Keeps(c, g) /\ Apart(c, g, f.name) /\ SameRuntime(c, g)
          BY <2>4, <4>1, <4>2
        <4> QED BY <4>3 DEF Closes, SameRuntime, Handed, SameSystem
      <3>2. CASE ~c.ok
        <4>1. g = c
          BY <3>2 DEF Gone
        <4>2. SameMaps(c, c) /\ SameRuntime(c, c)
          BY DEF SameMaps, SameRuntime
        <4> QED BY <2>4, <4>1, <4>2, ClosesAlike
      <3> QED BY <3>1, <3>2
    <2> HIDE DEF g, f
    <2>6. Closes(s, b, f.name)
      BY <1>2, <2>3, ClosesTwice
    <2>7. Closes(s, c, f.name)
      BY <2>4, <2>6, ClosesTwice
    <2>8. Closes(s, g, f.name)
      BY <2>5, <2>7, ClosesTwice
    <2> QED BY <2>1, <2>5, <2>8 DEF f
  <1> QED BY <1>4, <1>5

LEMMA DestroyHolds ==
  ASSUME NEW s, NEW hs, NEW i \in Ids, Sound(env, s, hs, i)
  PROVE  Sound(env, Destroy(s, i), hs, None) /\ Closes(s, Destroy(s, i), s.file[i].name)
  <1> DEFINE c == Close(s, i)
             t == [c EXCEPT !.ok = s.ok]
  <1>1. Sound(env, c, hs, None) /\ Closes(s, c, s.file[i].name)
    BY CloseHolds
  <1>2. s.ok \in BOOLEAN
    BY DEF Sound, States
  <1>3. t = Destroy(s, i)
    BY DEF Destroy
  <1> HIDE DEF c
  <1>4. Sound(env, t, hs, None) /\ SameRegistry(c, t) /\ SameRuntime(c, t)
    BY <1>1, <1>2, OkStep
  <1> HIDE DEF t
  <1>5. Closes(c, t, s.file[i].name)
    BY <1>4, ClosesAlike DEF SameRegistry
  <1>6. Closes(s, t, s.file[i].name)
    BY <1>1, <1>5, ClosesTwice
  <1> QED BY <1>3, <1>4, <1>6

LEMMA CaughtStep ==
  ASSUME NEW e, NEW s, NEW hs, NEW x, Sound(e, s, hs, x)
  PROVE  /\ Sound(e, Caught(s), hs, x) /\ SameRegistry(s, Caught(s)) /\ SameRuntime(s, Caught(s))
         /\ Sound(e, Fail(s), hs, x) /\ SameRegistry(s, Fail(s)) /\ SameRuntime(s, Fail(s))
  <1>1. LET t == [s EXCEPT !.ok = TRUE] IN Sound(e, t, hs, x) /\ SameRegistry(s, t) /\ SameRuntime(s, t)
    BY OkStep
  <1>2. LET t == [s EXCEPT !.ok = FALSE] IN Sound(e, t, hs, x) /\ SameRegistry(s, t) /\ SameRuntime(s, t)
    BY OkStep
  <1> QED BY <1>1, <1>2 DEF Caught, Fail

\* Unpin
LEMMA UnpinHolds ==
  ASSUME NEW s, NEW hs, Sound(env, s, hs, None), NEW n \in Names
  PROVE  LET u == Unpin(s, n)
         IN  /\ Sound(env, u, hs, None) /\ Keeps(s, u) /\ Apart(s, u, n) /\ Handed(s, u)
             /\ SameSystem(env, s, u) /\ u.last = s.last /\ u.pin[n] = None
  <1>0. s \in States /\ s.pin \in Entries
    BY DEF Sound, States
  <1>1. CASE s.pin[n] = None
    <2>1. Unpin(s, n) = s
      BY <1>1 DEF Unpin
    <2> QED BY <1>1, <2>1 DEF Keeps, Apart, Handed, SameSystem
  <1>2. CASE s.pin[n] # None
    <2> DEFINE i == s.pin[n]
               d == [s EXCEPT !.pin[n] = None]
               u == Destroy(d, i)
    <2>1. i \in Ids
      BY <1>0, <1>2 DEF Entries, Ids, None
    <2>2. Sound(env, d, hs, i)
      BY <1>2, PinUnset
    <2>3. /\ d.pin = [s.pin EXCEPT ![n] = None] /\ d.file = s.file /\ d.last = s.last
          /\ d.byName = s.byName /\ d.files = s.files /\ d.prepared = s.prepared /\ d.os = s.os
          /\ d.handle = s.handle /\ d.moved = s.moved /\ d.clashed = s.clashed /\ d.corrupt = s.corrupt
      BY <1>0 DEF States
    <2>4. s.file[i].name = n \/ s.file[i].name \in s.moved
      BY <1>2 DEF Sound, Registered
    <2>5. Unpin(s, n) = u
      BY <1>2 DEF Unpin
    <2>6. d.pin[n] = None
      BY <1>0, <2>3 DEF Entries
    <2> HIDE DEF d, i
    <2>7. Sound(env, u, hs, None) /\ Closes(d, u, d.file[i].name)
      BY <2>1, <2>2, DestroyHolds
    <2> HIDE DEF u
    <2>8. Apart(s, u, n)
      BY <2>3, <2>4, <2>7 DEF Closes, Apart
    <2>9. Keeps(s, u) /\ Handed(s, u) /\ SameSystem(env, s, u) /\ u.last = s.last /\ u.pin[n] = None
      BY <2>3, <2>6, <2>7 DEF Closes, Keeps, Handed, SameSystem
    <2> QED BY <2>5, <2>7, <2>8, <2>9
  <1> QED BY <1>1, <1>2

-----------------------------------------------------------------------------
(* The handles of the system                                                *)

LEMMA OsClosed ==
  ASSUME NEW os \in Seq(OsRecords), NEW b \in DOMAIN os
  PROVE  LET c == [os EXCEPT ![b].open = FALSE]
         IN  /\ c \in Seq(OsRecords) /\ DOMAIN c = DOMAIN os /\ ~c[b].open
             /\ \A k \in DOMAIN os : /\ c[k].kind = os[k].kind /\ c[k].path = os[k].path
                                     /\ k # b => c[k] = os[k]
  <1>1. \A k \in DOMAIN os : os[k] \in OsRecords
    BY ElementOfSeq
  <1>2. [os[b] EXCEPT !.open = FALSE] \in OsRecords
    BY <1>1 DEF OsRecords
  <1>3. [os EXCEPT ![b].open = FALSE] \in Seq(OsRecords)
    BY <1>2, ExceptSeq
  <1> QED BY <1>1, <1>3 DEF OsRecords

LEMMA OsOpened ==
  ASSUME NEW os \in Seq(OsRecords), NEW r \in OsRecords
  PROVE  LET c == Append(os, r)
             k == Len(os) + 1
         IN  /\ c \in Seq(OsRecords) /\ DOMAIN c = DOMAIN os \cup {k} /\ k \notin DOMAIN os
             /\ c[k] = r /\ \A j \in DOMAIN os : c[j] = os[j]
             /\ k \in Nat /\ k # None /\ Len(c) = k
  <1>1. Len(os) \in Nat /\ DOMAIN os = 1..Len(os)
    OBVIOUS
  <1>2. Append(os, r) \in Seq(OsRecords) /\ Len(Append(os, r)) = Len(os) + 1
    OBVIOUS
  <1>3. Append(os, r)[Len(os) + 1] = r /\ \A j \in 1..Len(os) : Append(os, r)[j] = os[j]
    OBVIOUS
  <1>4. DOMAIN Append(os, r) = 1..(Len(os) + 1)
    BY <1>2
  <1> QED BY <1>1, <1>2, <1>3, <1>4 DEF None

-----------------------------------------------------------------------------
(* Dropping                                                                 *)

\* The runtime may close the handle of a name that no file has.
LEMMA RtDropStep ==
  ASSUME NEW s, NEW hs, NEW x, Sound(env, s, hs, x), NEW n \in Names, s.byName[n] = None
  PROVE  LET t == RtDrop(s, n)
         IN  /\ Sound(env, t, hs, x) /\ SameRegistry(s, t)
             /\ \A m \in Names : t.files[m] = IF m = n THEN None ELSE s.files[m]
  <1> DEFINE h == s.files[n]
             d == [s EXCEPT !.files[n] = None]
             v == [d EXCEPT !.os[h].open = FALSE]
             t == RtDrop(s, n)
  <1>0. s \in States /\ s.os \in Seq(OsRecords) /\ s.files \in [Names -> Nat]
    BY DEF Sound, States
  <1>1. CASE ~Browser \/ h = None
    <2>1. t = s
      BY <1>1 DEF RtDrop
    <2>2. s.files[n] = None
      BY <1>1 DEF Sound, Runs, InNode, Browser
    <2>3. SameRegistry(s, s)
      BY DEF SameRegistry, SameMaps
    <2> QED BY <2>1, <2>2, <2>3
  <1>2. CASE Browser /\ h # None
    <2>1. InBrowser(s) /\ h \in DOMAIN s.os /\ env.runtime = "browser"
      BY <1>2 DEF Sound, Runs, InBrowser, Browser
    <2>2. \/ (t = d /\ s.os[h].kind = "blob")
          \/ t = v
          \/ (t = Fail(d) /\ ~s.os[h].open)
      <3>1. CASE s.os[h].kind = "blob"
        <4>1. t = d
          BY <1>2, <3>1 DEF RtDrop
        <4> QED BY <3>1, <4>1
      <3>2. CASE s.os[h].kind # "blob" /\ s.os[h].open
        <4>1. t = v
          BY <1>2, <3>2 DEF RtDrop
        <4> QED BY <4>1
      <3>3. CASE s.os[h].kind # "blob" /\ ~s.os[h].open
        BY <1>2, <3>3 DEF RtDrop
      <3> QED BY <3>1, <3>2, <3>3
    <2>3. d \in States /\ d.os = s.os
      BY <1>0 DEF States, None
    <2>4. LET c == [s.os EXCEPT ![h].open = FALSE]
          IN  /\ c \in Seq(OsRecords) /\ DOMAIN c = DOMAIN s.os /\ ~c[h].open
              /\ \A k \in DOMAIN s.os : /\ c[k].kind = s.os[k].kind /\ c[k].path = s.os[k].path
                                        /\ k # h => c[k] = s.os[k]
      BY <1>0, <2>1, OsClosed
    <2>5. v \in States /\ v.os = [s.os EXCEPT ![h].open = FALSE]
      BY <2>3, <2>4 DEF States
    <2>6. t \in States
      <3> HIDE DEF d, v, t
      <3>1. Fail(d) \in States
        BY <2>3 DEF States, Fail
      <3> QED BY <2>2, <2>3, <2>5, <3>1
    <2>7. /\ SameRegistry(s, t) /\ t.files = [s.files EXCEPT ![n] = None]
          /\ t.prepared = s.prepared /\ t.byId = s.byId /\ t.cache = s.cache
      <3> DEFINE Fine(u) ==
                   /\ SameRegistry(s, u) /\ u.files = [s.files EXCEPT ![n] = None]
                   /\ u.prepared = s.prepared /\ u.byId = s.byId /\ u.cache = s.cache
      <3>1. Fine(d)
        BY <1>0 DEF States, SameRegistry, SameMaps
      <3>2. Fine(v)
        BY <1>0 DEF States, SameRegistry, SameMaps
      <3>3. Fine(Fail(d))
        BY <1>0 DEF States, SameRegistry, SameMaps, Fail
      <3>4. t = d \/ t = v \/ t = Fail(d)
        BY <2>2
      <3> HIDE DEF Fine, t, d, v
      <3>5. Fine(t)
        BY <3>1, <3>2, <3>3, <3>4
      <3> QED BY <3>5 DEF Fine
    <2>8. /\ DOMAIN t.os = DOMAIN s.os /\ (t.os[h].kind = "blob" \/ ~t.os[h].open)
          /\ \A k \in DOMAIN s.os : /\ t.os[k].kind = s.os[k].kind /\ t.os[k].path = s.os[k].path
                                    /\ k # h => t.os[k] = s.os[k]
      <3>1. t = d => t.os = s.os
        BY <2>3
      <3>2. t = Fail(d) => t.os = s.os
        BY <2>3 DEF Fail, States
      <3>3. t = v => t.os = [s.os EXCEPT ![h].open = FALSE]
        BY <2>5
      <3> HIDE DEF t, d, v
      <3> QED BY <2>1, <2>2, <2>4, <3>1, <3>2, <3>3
    <2> HIDE DEF t
    <2>9. \A m \in Names : t.files[m] = IF m = n THEN None ELSE s.files[m]
      BY <1>0, <2>7
    <2> HIDE DEF d, v, h
    <2>10. InBrowser(t)
      <3>1. t.moved = s.moved
        BY <2>7 DEF SameRegistry, SameMaps
      <3>2. \A m \in Names : t.files[m] # None =>
              t.files[m] \in DOMAIN t.os /\ PathFits(t, m, t.os[t.files[m]].path)
        BY <2>1, <2>7, <2>8, <2>9, <3>1 DEF InBrowser, PathFits
      <3>3. ASSUME NEW m \in Names, t.files[m] # None, m \notin t.moved
            PROVE  t.os[t.files[m]].open
        <4>1. /\ m # n /\ t.files[m] = s.files[m] /\ s.files[m] # None
              /\ s.files[m] \in DOMAIN s.os /\ s.os[s.files[m]].open /\ s.os[s.files[m]].path = m
          BY <2>1, <2>9, <3>1, <3>3 DEF InBrowser, PathFits
        <4>2. s.files[m] # h
          BY <1>2, <2>1, <3>1, <3>3, <4>1 DEF InBrowser, PathFits, h
        <4> QED BY <2>8, <4>1, <4>2
      <3>4. \A m \in Names : t.prepared[m] # None =>
              /\ t.prepared[m] \in DOMAIN t.os
              /\ t.os[t.prepared[m]].open /\ t.os[t.prepared[m]].path = m
              /\ t.os[t.prepared[m]].kind = "access"
              /\ \A o \in Names : t.files[o] # t.prepared[m]
        <4>1. ASSUME NEW m \in Names, s.prepared[m] # None
              PROVE  /\ s.prepared[m] \in DOMAIN s.os /\ s.prepared[m] # h
                     /\ \A o \in Names : t.files[o] # s.prepared[m]
          BY <2>1, <2>9, <4>1 DEF InBrowser, h
        <4> QED BY <2>1, <2>7, <2>8, <4>1 DEF InBrowser
      <3>5. \A k \in DOMAIN t.os : t.os[k].open /\ t.os[k].kind = "access" =>
              /\ t.os[k].path \in Names /\ Kind[t.os[k].path] = "opfs"
              /\ \/ t.os[k].path \in t.moved
                 \/ t.files[t.os[k].path] = k \/ t.prepared[t.os[k].path] = k
        <4>1. ASSUME NEW k \in DOMAIN t.os, t.os[k].open, t.os[k].kind = "access"
              PROVE  /\ t.os[k].path \in Names /\ Kind[t.os[k].path] = "opfs"
                     /\ \/ t.os[k].path \in t.moved
                        \/ t.files[t.os[k].path] = k \/ t.prepared[t.os[k].path] = k
          <5>1. k # h /\ k \in DOMAIN s.os /\ t.os[k] = s.os[k]
            BY <2>1, <2>8, <4>1
          <5> QED BY <2>1, <2>7, <2>9, <3>1, <4>1, <5>1 DEF InBrowser, h
        <4> QED BY <4>1
      <3>6. \A i \in Ids : t.byId[i] = None
        BY <2>1, <2>7 DEF InBrowser
      <3> QED BY <3>2, <3>3, <3>4, <3>5, <3>6 DEF InBrowser
    <2>11. ASSUME NEW j \in Ids, Opens(hs, j) PROVE HasHandle(env, t, j)
      <3>1. HasHandle(env, s, j)
        BY <2>11 DEF Sound, Held, Fits
      <3>2. s.file[j].listed /\ ~s.corrupt /\ s.file[j].name \notin s.clashed =>
              s.file[j].name \in Names /\ s.file[j].name # n
        <4>1. s.file[j].listed /\ ~s.corrupt /\ s.file[j].name \notin s.clashed =>
                s.byName[s.file[j].name] = j
          BY DEF Sound, Registered, Directories
        <4>2. s.file[j].listed => s.file[j].name \in Names
          BY ListedNames
        <4> QED BY <4>1, <4>2 DEF Ids, None
      <3>3. t.file = s.file /\ t.corrupt = s.corrupt /\ t.clashed = s.clashed
        BY <2>7 DEF SameRegistry, SameMaps
      <3>4. s.byId[j] = None
        BY <2>1 DEF InBrowser
      <3> QED BY <2>1, <2>7, <2>9, <3>1, <3>2, <3>3, <3>4 DEF HasHandle
    <2>12. Sound(env, t, hs, x)
      <3>1. Runs(env, t)
        BY <2>1, <2>10 DEF Runs
      <3>2. \A j \in Ids : t.cache[j] \in {s.cache[j], NoInfo, Info(s, j)}
        BY <2>7
      <3> QED BY <2>6, <2>7, <2>11, <3>1, <3>2, RuntimeStep
    <2> QED BY <2>7, <2>9, <2>12 DEF t
  <1> QED BY <1>1, <1>2

\* What has happened to a name that was dropped: it is gone, or somebody uses it.
Dropped(s, t, n) ==
  Keeps(s, t) /\ Apart(s, t, n) /\ (t.byName[n] # None \/ t.files[n] = None)

LEMMA ReleaseHolds ==
  ASSUME NEW s, NEW hs, Sound(env, s, hs, None), NEW n \in Names, ~InUse(s, n)
  PROVE  LET t == RtDrop(Forget(s, n), n)
         IN  Sound(env, t, hs, None) /\ Dropped(s, t, n)
  <1> DEFINE u == Forget(s, n)
             t == RtDrop(u, n)
  <1>0. s \in States
    BY DEF Sound
  <1>1. Sound(env, u, hs, None) /\ Keeps(s, u) /\ Apart(s, u, n) /\ u.byName[n] = None
    <2>1. CASE s.byName[n] = None
      BY <2>1 DEF Forget, Keeps, Apart
    <2>2. CASE s.byName[n] # None
      <3> DEFINE i == s.byName[n]
                 v == IF n \in env.intact THEN Erase(s, i) ELSE UrlLeft(s, i)
      <3>1. i \in Ids
        BY <1>0, <2>2 DEF States, Entries, Ids, None
      <3>2. s.file[i].name = n /\ s.file[i].listed
        BY <2>2 DEF Sound, Registered, Named
      <3>3. u = v
        BY <2>2 DEF Forget
      <3>5. s.file[i].handles = 0
        <4>1. s.file[i].handles \in Nat
          BY <1>0, <3>1 DEF States, FileRecords
        <4> QED BY <2>2, <4>1 DEF InUse
      <3>4. /\ Sound(env, v, hs, None) /\ Keeps(s, v) /\ Apart(s, v, s.file[i].name)
            /\ s.file[i].name \in Names => v.byName[s.file[i].name] = None
        <4> HIDE DEF i
        <4> QED BY <3>1, <3>2, <3>5, EraseStep, UrlLeftStep
      <3> HIDE DEF u, v, i
      <3> QED BY <3>2, <3>3, <3>4
    <2> QED BY <2>1, <2>2
  <1> HIDE DEF u
  <1>2. /\ Sound(env, t, hs, None) /\ SameRegistry(u, t)
        /\ \A m \in Names : t.files[m] = IF m = n THEN None ELSE u.files[m]
    BY <1>1, RtDropStep
  <1> HIDE DEF t
  <1>3. Dropped(s, t, n)
    BY <1>1, <1>2 DEF Dropped, Keeps, Apart, SameRegistry, SameMaps
  <1> QED BY <1>2, <1>3 DEF t, u

LEMMA IdleHolds ==
  ASSUME NEW s, NEW hs, Sound(env, s, hs, None), NEW i \in Ids
  PROVE  LET t == DropIdle(s, i)
         IN  Sound(env, t, hs, None) /\ (t = s \/ \E n \in Names : Dropped(s, t, n))
  <1> DEFINE n == s.file[i].name
             u == Erase(s, i)
             t == RtDrop(u, n)
  <1>1. CASE ~(s.file[i].listed /\ s.file[i].handles = 0)
    BY <1>1 DEF DropIdle
  <1>2. CASE s.file[i].listed /\ s.file[i].handles = 0
    <2>1. n \in Names
      BY <1>2, ListedNames
    <2>2. Sound(env, u, hs, None) /\ Keeps(s, u) /\ Apart(s, u, n) /\ u.byName[n] = None
      BY <2>1, EraseStep
    <2>3. DropIdle(s, i) = t
      BY <1>2 DEF DropIdle
    <2> HIDE DEF u, n
    <2>4. /\ Sound(env, t, hs, None) /\ SameRegistry(u, t)
          /\ \A m \in Names : t.files[m] = IF m = n THEN None ELSE u.files[m]
      BY <2>1, <2>2, RtDropStep
    <2> HIDE DEF t
    <2>5. Dropped(s, t, n)
      BY <2>1, <2>2, <2>4 DEF Dropped, Keeps, Apart, SameRegistry, SameMaps
    <2> QED BY <2>1, <2>3, <2>4, <2>5
  <1> QED BY <1>1, <1>2

LEMMA DropHolds ==
  ASSUME NEW s, NEW hs, Sound(env, s, hs, None), NEW n \in Names
  PROVE  Sound(env, Drop(s, n), hs, None) /\ Dropped(s, Drop(s, n), n)
  <1> DEFINE u == Unpin(s, n)
             t == RtDrop(Forget(u, n), n)
  <1>1. Sound(env, u, hs, None) /\ Keeps(s, u) /\ Apart(s, u, n)
    BY UnpinHolds
  <1>2. CASE InUse(u, n)
    <2>1. Drop(s, n) = Fail(u)
      BY <1>2 DEF Drop, DropUnpinned
    <2>2. u.byName[n] # None
      BY <1>2 DEF InUse
    <2> HIDE DEF u
    <2>3. Sound(env, Fail(u), hs, None) /\ SameRegistry(u, Fail(u)) /\ SameRuntime(u, Fail(u))
      BY <1>1, CaughtStep
    <2>4. Dropped(s, Fail(u), n)
      BY <1>1, <2>2, <2>3 DEF Dropped, Keeps, Apart, SameRegistry, SameMaps, SameRuntime
    <2> QED BY <2>1, <2>3, <2>4
  <1>3. CASE ~InUse(u, n)
    <2>1. Drop(s, n) = t
      BY <1>3 DEF Drop, DropUnpinned
    <2> HIDE DEF u
    <2>2. Sound(env, t, hs, None) /\ Dropped(u, t, n)
      BY <1>1, <1>3, ReleaseHolds
    <2> HIDE DEF t
    <2>3. Dropped(s, t, n)
      BY <1>1, <2>2 DEF Dropped, Keeps, Apart
    <2> QED BY <2>1, <2>2, <2>3
  <1> QED BY <1>2, <1>3

-----------------------------------------------------------------------------
(* Dropping many files: a fold, by induction on how many have been dropped  *)

\* A set of natural numbers that is not empty has a least element.
LEMMA LeastOf ==
  ASSUME NEW R, \A x, y \in Nat : x < y => <<x, y>> \in R, IsWellFoundedOn(R, Nat),
         NEW S, S \subseteq Nat, S # {}
  PROVE  \E n \in S : \A k \in S : n <= k
  <1>1. PICK x \in S : \A y \in S : ~ (<<y, x>> \in R)
    BY ZenonT(60), WFMin
  <1>2. \A y \in S : ~ (y < x)
    BY <1>1
  <1> QED BY <1>2

LEMMA LeastElement ==
  ASSUME NEW S, S \subseteq Nat, S # {}
  PROVE  \E n \in S : \A k \in S : n <= k
  <1> DEFINE R == OpToRel(<, Nat)
  <1>1. IsWellFoundedOn(R, Nat)
    BY NatLessThanWellFounded
  <1>2. \A x, y \in Nat : x < y => <<x, y>> \in R
    BY Zenon DEF OpToRel
  <1> HIDE DEF R
  <1> QED BY <1>1, <1>2, LeastOf

Chosen(S) == CHOOSE x \in S : TRUE
DropsOne(all, acc, n) == IF all THEN Drop(acc, n) ELSE DropIdle(acc, n)
Dropping(all, s, S, f) ==
  [T \in SUBSET S |-> IF T = {} THEN s ELSE DropsOne(all, f[T \ {Chosen(T)}], Chosen(T))]
UpTo(S, k) == {T \in SUBSET S : Cardinality(T) <= k}
DroppingTo(all, s, S, k, f) ==
  [T \in UpTo(S, k) |-> IF T = {} THEN s ELSE DropsOne(all, f[T \ {Chosen(T)}], Chosen(T))]

\* A set without its chosen element is smaller.
LEMMA Smaller ==
  ASSUME NEW S, IsFiniteSet(S), NEW T \in SUBSET S, T # {}
  PROVE  /\ Chosen(T) \in T /\ T \ {Chosen(T)} \in SUBSET S
         /\ Cardinality(T) \in Nat /\ Cardinality(T \ {Chosen(T)}) = Cardinality(T) - 1
  <1>1. Chosen(T) \in T
    BY DEF Chosen
  <1>2. IsFiniteSet(T)
    BY FS_Subset
  <1>3. Cardinality(T) \in Nat
    BY <1>2, FS_CardinalityType
  <1> QED BY <1>1, <1>2, <1>3, FS_RemoveElement

LEMMA FirstDropping ==
  ASSUME NEW all, NEW s, NEW S, IsFiniteSet(S)
  PROVE  \E f : f = DroppingTo(all, s, S, 0, f)
  <1> DEFINE f == [T \in UpTo(S, 0) |-> s]
  <1>1. \A T \in UpTo(S, 0) : T = {}
    <2>1. ASSUME NEW T \in UpTo(S, 0) PROVE T = {}
      <3>1. T \in SUBSET S /\ Cardinality(T) <= 0
        BY DEF UpTo
      <3>2. IsFiniteSet(T)
        BY <3>1, FS_Subset
      <3>3. Cardinality(T) = 0
        BY <3>1, <3>2, FS_CardinalityType
      <3> QED BY <3>2, <3>3, FS_EmptySet
    <2> QED BY <2>1
  <1>2. f = DroppingTo(all, s, S, 0, f)
    BY <1>1 DEF DroppingTo
  <1> QED BY <1>2

LEMMA NextDropping ==
  ASSUME NEW all, NEW s, NEW S, IsFiniteSet(S), NEW k \in Nat,
         NEW f, f = DroppingTo(all, s, S, k, f)
  PROVE  \E g : g = DroppingTo(all, s, S, k + 1, g)
  <1> DEFINE g == DroppingTo(all, s, S, k + 1, f)
  <1>1. \A T \in UpTo(S, k) : T \in UpTo(S, k + 1) /\ g[T] = f[T]
    <2>1. ASSUME NEW T \in UpTo(S, k) PROVE T \in UpTo(S, k + 1) /\ g[T] = f[T]
      <3>1. T \in SUBSET S /\ Cardinality(T) <= k
        BY DEF UpTo
      <3>2. Cardinality(T) \in Nat
        BY <3>1, FS_Subset, FS_CardinalityType
      <3>3. T \in UpTo(S, k + 1)
        BY <3>1, <3>2 DEF UpTo
      <3>4. f[T] = DroppingTo(all, s, S, k, f)[T]
        OBVIOUS
      <3>5. f[T] = IF T = {} THEN s ELSE DropsOne(all, f[T \ {Chosen(T)}], Chosen(T))
        BY <3>4 DEF DroppingTo
      <3>6. g[T] = IF T = {} THEN s ELSE DropsOne(all, f[T \ {Chosen(T)}], Chosen(T))
        BY <3>3 DEF DroppingTo
      <3> QED BY <3>3, <3>5, <3>6
    <2> QED BY <2>1
  <1>2. \A T \in UpTo(S, k + 1) : T # {} => g[T \ {Chosen(T)}] = f[T \ {Chosen(T)}]
    <2>1. ASSUME NEW T \in UpTo(S, k + 1), T # {} PROVE T \ {Chosen(T)} \in UpTo(S, k)
      <3>1. T \in SUBSET S /\ Cardinality(T) <= k + 1
        BY DEF UpTo
      <3>2. /\ T \ {Chosen(T)} \in SUBSET S /\ Cardinality(T) \in Nat
            /\ Cardinality(T \ {Chosen(T)}) = Cardinality(T) - 1
        BY <2>1, <3>1, Smaller
      <3> QED BY <3>1, <3>2 DEF UpTo
    <2> HIDE DEF g
    <2> QED BY <1>1, <2>1
  <1>3. g = DroppingTo(all, s, S, k + 1, g)
    <2> DEFINE V(F, T) == IF T = {} THEN s ELSE DropsOne(all, F[T \ {Chosen(T)}], Chosen(T))
    <2>1. \A T \in UpTo(S, k + 1) : V(f, T) = V(g, T)
      <3> HIDE DEF g
      <3> QED BY <1>2
    <2>2. g = [T \in UpTo(S, k + 1) |-> V(f, T)]
      BY DEF DroppingTo
    <2>3. DroppingTo(all, s, S, k + 1, g) = [T \in UpTo(S, k + 1) |-> V(g, T)]
      BY DEF DroppingTo
    <2> HIDE DEF g, V
    <2> QED BY <2>1, <2>2, <2>3
  <1> QED BY <1>3

LEMMA DroppingExists ==
  ASSUME NEW all, NEW s, NEW S, IsFiniteSet(S)
  PROVE  \E f : f = Dropping(all, s, S, f)
  <1> DEFINE G(k) == \E f : f = DroppingTo(all, s, S, k, f)
             Bad == {k \in Nat : ~G(k)}
  <1>1. Bad = {}
    <2>1. SUFFICES ASSUME Bad # {} PROVE FALSE
      OBVIOUS
    <2>2. PICK m \in Bad : \A k \in Bad : m <= k
      <3> HIDE DEF G
      <3>1. Bad \subseteq Nat
        OBVIOUS
      <3> HIDE DEF Bad
      <3> QED BY <2>1, <3>1, LeastElement
    <2>3. m \in Nat /\ ~G(m)
      OBVIOUS
    <2>4. m # 0
      BY <2>3, FirstDropping
    <2>5. m - 1 \in Nat /\ G(m - 1)
      <3> HIDE DEF G
      <3> QED BY <2>2, <2>3, <2>4
    <2>6. PICK f : f = DroppingTo(all, s, S, m - 1, f)
      BY <2>5
    <2>7. G((m - 1) + 1)
      BY <2>5, <2>6, NextDropping
    <2>8. (m - 1) + 1 = m
      BY <2>3
    <2> QED BY <2>3, <2>7, <2>8
  <1>2. Cardinality(S) \in Nat
    BY FS_CardinalityType
  <1>3. UpTo(S, Cardinality(S)) = SUBSET S
    <2>1. ASSUME NEW T \in SUBSET S PROVE Cardinality(T) <= Cardinality(S)
      BY FS_Subset
    <2> QED BY <2>1 DEF UpTo
  <1>4. G(Cardinality(S))
    <2> HIDE DEF G
    <2> QED BY <1>1, <1>2
  <1> QED BY <1>3, <1>4 DEF Dropping, DroppingTo

\* What has happened to the names that were there before: they are gone, or somebody uses them.
Released(s, t) ==
  \A n \in Names \ s.moved : t.byName[n] = None =>
    t.files[n] = None \/ (s.byName[n] = None /\ t.files[n] = s.files[n])

LEMMA ReleasedTwice ==
  ASSUME NEW s, NEW t, NEW u, NEW n, Keeps(s, t), Released(s, t), Dropped(t, u, n)
  PROVE  Keeps(s, u) /\ Released(s, u)
  BY DEF Keeps, Released, Dropped, Apart

LEMMA DroppingHolds ==
  ASSUME NEW all \in BOOLEAN, NEW s, NEW hs, Sound(env, s, hs, None),
         NEW S, S \subseteq IF all THEN Names ELSE Ids,
         NEW f, f = Dropping(all, s, S, f)
  PROVE  Sound(env, f[S], hs, None) /\ Keeps(s, f[S]) /\ Released(s, f[S])
  <1> DEFINE Good(T) == Sound(env, f[T], hs, None) /\ Keeps(s, f[T]) /\ Released(s, f[T])
             Bad == {k \in Nat : \E T \in SUBSET S : Cardinality(T) = k /\ ~Good(T)}
  <1>1. IsFiniteSet(S)
    <2>1. IsFiniteSet(Names) /\ IsFiniteSet(Ids)
      BY WebFilesAssumption, FS_Interval DEF Ids
    <2> QED BY <2>1, FS_Subset
  <1>2. \A T \in SUBSET S :
          f[T] = IF T = {} THEN s ELSE DropsOne(all, f[T \ {Chosen(T)}], Chosen(T))
    <2>1. ASSUME NEW T \in SUBSET S
          PROVE  f[T] = IF T = {} THEN s ELSE DropsOne(all, f[T \ {Chosen(T)}], Chosen(T))
      <3>1. f[T] = Dropping(all, s, S, f)[T]
        OBVIOUS
      <3> QED BY <3>1 DEF Dropping
    <2> QED BY <2>1
  <1>3. Bad = {}
    <2>1. SUFFICES ASSUME Bad # {} PROVE FALSE
      OBVIOUS
    <2>2. PICK m \in Bad : \A k \in Bad : m <= k
      <3> HIDE DEF Good
      <3>1. Bad \subseteq Nat
        OBVIOUS
      <3> HIDE DEF Bad
      <3> QED BY <2>1, <3>1, LeastElement
    <2> HIDE DEF Good
    <2>3. PICK T \in SUBSET S : Cardinality(T) = m /\ ~Good(T)
      OBVIOUS
    <2>4. T # {}
      <3>1. CASE T = {}
        <4>1. f[T] = s
          BY <1>2, <3>1
        <4>2. Good(T)
          BY <4>1 DEF Good, Keeps, Released
        <4> QED BY <2>3, <4>2
      <3> QED BY <3>1
    <2> DEFINE n == Chosen(T)
               U == T \ {n}
    <2>5. n \in T /\ U \in SUBSET S /\ Cardinality(T) \in Nat /\ Cardinality(U) = Cardinality(T) - 1
      BY <1>1, <2>4, Smaller
    <2>6. Good(U)
      <3>1. Cardinality(U) \in Nat /\ Cardinality(U) < m
        BY <1>1, <2>3, <2>5, FS_Subset, FS_CardinalityType
      <3>2. CASE ~Good(U)
        <4>1. Cardinality(U) \in Bad
          BY <2>5, <3>1, <3>2
        <4> QED BY <2>2, <3>1, <4>1
      <3> QED BY <3>2
    <2>7. f[T] = DropsOne(all, f[U], n) /\ n \in IF all THEN Names ELSE Ids
      BY <1>2, <2>4, <2>5
    <2> HIDE DEF n, U
    <2>8. Sound(env, f[T], hs, None) /\ (f[T] = f[U] \/ \E m0 \in Names : Dropped(f[U], f[T], m0))
      <3>1. CASE all
        <4>1. f[T] = Drop(f[U], n) /\ n \in Names
          BY <2>7, <3>1 DEF DropsOne
        <4> QED BY <2>6, <4>1, DropHolds DEF Good
      <3>2. CASE ~all
        <4>1. f[T] = DropIdle(f[U], n) /\ n \in Ids
          BY <2>7, <3>2 DEF DropsOne
        <4> QED BY <2>6, <4>1, IdleHolds DEF Good
      <3> QED BY <3>1, <3>2
    <2>9. Good(T)
      BY <2>6, <2>8, ReleasedTwice DEF Good
    <2> QED BY <2>3, <2>9
  <1>4. Cardinality(S) \in Nat
    BY <1>1, FS_CardinalityType
  <1> HIDE DEF Good
  <1>5. Good(S)
    BY <1>3, <1>4
  <1> QED BY <1>5 DEF Good

\* Both folds of the model are such functions.
LEMMA ManyDropped ==
  ASSUME NEW s, NEW hs, Sound(env, s, hs, None), NEW S \in SUBSET Names
  PROVE  LET t == FoldSet(LAMBDA n, acc : Drop(acc, n), s, S)
         IN  Sound(env, t, hs, None) /\ Keeps(s, t) /\ Released(s, t)
  <1> DEFINE V(F, T) == IF T = {} THEN s ELSE Drop(F[T \ {Chosen(T)}], Chosen(T))
             C == CHOOSE f : f = [T \in SUBSET S |-> V(f, T)]
  <1>1. FoldSet(LAMBDA n, acc : Drop(acc, n), s, S) = C[S]
    BY DEF FoldSet, MapThenFoldSet, Chosen
  <1>2. \A f : Dropping(TRUE, s, S, f) = [T \in SUBSET S |-> V(f, T)]
    BY DEF Dropping, DropsOne
  <1>3. IsFiniteSet(S)
    BY WebFilesAssumption, FS_Subset
  <1>4. PICK f : f = Dropping(TRUE, s, S, f)
    BY <1>3, DroppingExists
  <1>5. f = [T \in SUBSET S |-> V(f, T)]
    BY <1>2, <1>4
  <1>6. C = [T \in SUBSET S |-> V(C, T)]
    <2> HIDE DEF V
    <2> QED BY <1>5
  <1> HIDE DEF C
  <1>7. C = Dropping(TRUE, s, S, C)
    BY <1>2, <1>6
  <1>8. Sound(env, C[S], hs, None) /\ Keeps(s, C[S]) /\ Released(s, C[S])
    BY <1>7, DroppingHolds
  <1> QED BY <1>1, <1>8

LEMMA DropDanglingHolds ==
  ASSUME NEW s, NEW hs, Sound(env, s, hs, None)
  PROVE  LET t == DropDangling(s)
         IN  Sound(env, t, hs, None) /\ Keeps(s, t) /\ Released(s, t)
  <1> DEFINE V(F, T) == IF T = {} THEN s ELSE DropIdle(F[T \ {Chosen(T)}], Chosen(T))
             C == CHOOSE f : f = [T \in SUBSET Ids |-> V(f, T)]
  <1>1. DropDangling(s) = C[Ids]
    BY DEF DropDangling, FoldSet, MapThenFoldSet, Chosen
  <1>2. \A f : Dropping(FALSE, s, Ids, f) = [T \in SUBSET Ids |-> V(f, T)]
    BY DEF Dropping, DropsOne
  <1>3. IsFiniteSet(Ids)
    BY WebFilesAssumption, FS_Interval DEF Ids
  <1>4. PICK f : f = Dropping(FALSE, s, Ids, f)
    BY <1>3, DroppingExists
  <1>5. f = [T \in SUBSET Ids |-> V(f, T)]
    BY <1>2, <1>4
  <1>6. C = [T \in SUBSET Ids |-> V(C, T)]
    <2> HIDE DEF V
    <2> QED BY <1>5
  <1> HIDE DEF C
  <1>7. C = Dropping(FALSE, s, Ids, C)
    BY <1>2, <1>6
  <1>8. Sound(env, C[Ids], hs, None) /\ Keeps(s, C[Ids]) /\ Released(s, C[Ids])
    BY <1>7, DroppingHolds
  <1> QED BY <1>1, <1>8

-----------------------------------------------------------------------------
(* Registering                                                              *)

LEMMA NewFileType ==
  ASSUME NEW n \in Names, NEW url \in Texts, NEW proto \in Protocols
  PROVE  LET g == NewFile(n, url, proto)
         IN  /\ g \in FileRecords /\ g.name = n /\ g.url = url /\ g.proto = proto
             /\ g.handles = 0 /\ g.listed /\ ~g.uploads
  <1>1. <<>> \in Seq(Nat)
    OBVIOUS
  <1>2. n \in Texts
    BY DEF Texts
  <1>3. NoFile \in FileRecords
    BY <1>1, WebFilesAssumption DEF NoFile, FileRecords, Texts, Protocols, None
  <1>4. NoFile.handles = 0 /\ ~NoFile.uploads
    BY DEF NoFile
  <1> HIDE DEF NoFile
  <1> QED BY <1>2, <1>3, <1>4 DEF NewFile, FileRecords

\* A file that is found by its name is a file of that name.
LEMMA FoundByName ==
  ASSUME NEW e, NEW s, NEW hs, NEW x, Sound(e, s, hs, x), NEW n \in Names, s.byName[n] # None
  PROVE  /\ s.byName[n] \in Ids /\ s.file[s.byName[n]].listed /\ s.file[s.byName[n]].name = n
         /\ s.file[s.byName[n]].proto # "none"
  <1>1. s.byName[n] \in Ids
    BY DEF Sound, States, Entries, Ids, None
  <1>2. s.file[s.byName[n]].listed /\ s.file[s.byName[n]].name = n
    BY DEF Sound, Registered, Named
  <1> QED BY <1>1, <1>2 DEF Sound, Protocolled, FollowsUrl, Idle

LEMMA PinHolds ==
  ASSUME NEW s, NEW hs, Sound(env, s, hs, None), NEW i \in Ids,
         NEW n \in Names, s.pin[n] = None, s.file[i].name = n, s.file[i].proto # "none"
  PROVE  LET t == Pin(s, n, i)
         IN  Sound(env, t, hs, None) /\ Keeps(s, t) /\ SameRuntime(s, t)
  <1> DEFINE a == AddHandle(s, i)
             t == [a EXCEPT !.pin[n] = i]
  <1>0. s \in States
    BY DEF Sound
  <1>1. /\ Sound(env, a, hs, i) /\ SameMaps(s, a) /\ SameRuntime(s, a)
        /\ a.file = [s.file EXCEPT ![i] = [s.file[i] EXCEPT !.handles = @ + 1]]
    BY OneMore
  <1>2. a.pin[n] = None /\ a.file[i].name = n
    BY <1>0, <1>1 DEF SameMaps, States, FileRecords
  <1>3. Pin(s, n, i) = t
    BY <1>0 DEF Pin, AddHandle, States
  <1> HIDE DEF a
  <1>4. Sound(env, t, hs, None)
    BY <1>1, <1>2, PinSet
  <1>5. Keeps(s, t) /\ SameRuntime(s, t)
    <2>1. a \in States
      BY <1>1 DEF Sound
    <2> QED BY <1>1, <2>1 DEF Keeps, SameMaps, SameRuntime, States
  <1> QED BY <1>3, <1>4, <1>5

LEMMA UrlPinnedHolds ==
  ASSUME NEW u, NEW hs, Sound(env, u, hs, None), u.last < MaxFiles,
         NEW n \in Names, u.pin[n] = None, NEW url \in Names
  PROVE  LET t == UrlPinned(u, n, url, DataProtocol(url))
         IN  Sound(env, t, hs, None) /\ Keeps(u, t) /\ SameRuntime(u, t)
  <1> DEFINE proto == DataProtocol(url)
             t == UrlPinned(u, n, url, proto)
  <1>1. CASE u.byName[n] = None
    <2> DEFINE g == NewFile(n, url, proto)
               v == Register(u, n, g)
               i == u.last + 1
               q == Pin(v, n, i)
    <2>1. proto = Proto(env, url)
      BY ProtoAgrees
    <2>2. proto \in Protocols /\ proto # "none" /\ url \in Texts /\ url # NoUrl
      BY <2>1, WebFilesAssumption DEF Proto, Protocols, Texts
    <2> HIDE DEF proto
    <2>3. /\ g \in FileRecords /\ g.name = n /\ g.url = url /\ g.proto = proto
          /\ g.handles = 0 /\ g.listed /\ ~g.uploads
      BY <2>2, NewFileType
    <2> HIDE DEF g
    <2>4. FollowsUrl(env, g) /\ Loaded(g, u.remote) /\ g.proto # "none"
      <3>1. proto # "buffer"
        BY <2>1, WebFilesAssumption DEF Proto
      <3> QED BY <2>1, <2>2, <2>3, <3>1 DEF FollowsUrl, Loaded
    <2>5. /\ Sound(env, v, hs, None) /\ u.last + 1 \in Ids
          /\ v.pin = u.pin /\ v.file[u.last + 1] = g
          /\ v.handle = u.handle /\ v.corrupt = u.corrupt /\ SameRuntime(u, v)
      BY <1>1, <2>3, <2>4, RegisterStep
    <2>6. t = q
      BY <1>1 DEF UrlPinned, proto, g
    <2> HIDE DEF v
    <2>7. Sound(env, q, hs, None) /\ Keeps(v, q) /\ SameRuntime(v, q)
      BY <2>3, <2>4, <2>5, PinHolds
    <2> HIDE DEF q, t
    <2>8. Keeps(u, q) /\ SameRuntime(u, q)
      BY <2>5, <2>7 DEF Keeps, SameRuntime
    <2> QED BY <2>6, <2>7, <2>8 DEF t, proto
  <1>2. CASE u.byName[n] # None /\ u.file[u.byName[n]].url = url
    <2>1. t = Pin(u, n, u.byName[n])
      BY <1>2 DEF UrlPinned
    <2>2. /\ u.byName[n] \in Ids /\ u.file[u.byName[n]].name = n
          /\ u.file[u.byName[n]].proto # "none"
      BY <1>2, FoundByName
    <2> QED BY <2>1, <2>2, PinHolds
  <1>3. CASE u.byName[n] # None /\ u.file[u.byName[n]].url # url
    <2>1. t = Fail(u)
      BY <1>3 DEF UrlPinned
    <2>2. Sound(env, Fail(u), hs, None) /\ SameRegistry(u, Fail(u)) /\ SameRuntime(u, Fail(u))
      BY CaughtStep
    <2> QED BY <2>1, <2>2 DEF Keeps, SameRegistry, SameMaps
  <1> QED BY <1>1, <1>2, <1>3

LEMMA RegisterUrlHolds ==
  ASSUME NEW s, NEW hs, Sound(env, s, hs, None), s.last < MaxFiles, NEW n \in Names, NEW url \in Names
  PROVE  LET t == RegisterUrl(s, n, url, DataProtocol(url))
         IN  Sound(env, t, hs, None) /\ Keeps(s, t) /\ Handed(s, t) /\ SameSystem(env, s, t)
  <1> DEFINE u == Unpin(s, n)
             t == UrlPinned(u, n, url, DataProtocol(url))
  <1>1. CASE PageBufferHolds(s, n)
    <2>1. RegisterUrl(s, n, url, DataProtocol(url)) = Fail(s)
      BY <1>1 DEF RegisterUrl
    <2>2. Sound(env, Fail(s), hs, None) /\ SameRegistry(s, Fail(s)) /\ SameRuntime(s, Fail(s))
      BY CaughtStep
    <2> QED BY <2>1, <2>2
            DEF Keeps, SameRegistry, SameMaps, SameRuntime, Handed, SameSystem
  <1>2. CASE ~PageBufferHolds(s, n)
    <2>1. RegisterUrl(s, n, url, DataProtocol(url)) = t
      BY <1>2 DEF RegisterUrl
    <2>2. /\ Sound(env, u, hs, None) /\ Keeps(s, u) /\ Handed(s, u)
          /\ SameSystem(env, s, u) /\ u.last = s.last /\ u.pin[n] = None
      BY UnpinHolds
    <2> HIDE DEF u
    <2>3. Sound(env, t, hs, None) /\ Keeps(u, t) /\ SameRuntime(u, t)
      BY <2>2, UrlPinnedHolds
    <2> HIDE DEF t
    <2>4. Keeps(s, t) /\ Handed(s, t) /\ SameSystem(env, s, t)
      BY <2>2, <2>3 DEF Keeps, SameRuntime, Handed, SameSystem
    <2> QED BY <2>1, <2>3, <2>4
  <1> QED BY <1>1, <1>2

\* The buffer of a file has changed: what is read is not what the server has.
LEMMA Buffered ==
  ASSUME NEW e, NEW s, NEW hs, NEW x, Sound(e, s, hs, x), NEW i \in Ids, s.file[i].proto # "none",
         NEW g \in FileRecords, g.proto = s.file[i].proto \/ g.proto = "buffer", g.altered,
         g.name = s.file[i].name, g.url = s.file[i].url, g.handles = s.file[i].handles,
         g.listed = s.file[i].listed, g.uploads = s.file[i].uploads, g.upConfig = s.file[i].upConfig
  PROVE  LET t == [s EXCEPT !.file[i] = g]
         IN  /\ Sound(e, t, hs, x) /\ SameMaps(s, t) /\ SameRuntime(s, t) /\ t.ok = s.ok
             /\ t.file[i] = g
  <1> DEFINE f == s.file[i]
             t == [s EXCEPT !.file[i] = g]
  <1>0. s \in States /\ f \in FileRecords /\ FollowsUrl(e, f)
    BY DEF Sound, States, Protocolled
  <1>1. g.proto # "none"
    OBVIOUS
  <1>3. FollowsUrl(e, g) /\ Loaded(g, s.remote)
    BY <1>0, <1>1 DEF FollowsUrl, Loaded, Exact
  <1>4. /\ t.file = [s.file EXCEPT ![i] = g] /\ SameMaps(s, t) /\ SameRuntime(s, t)
        /\ t.remote = s.remote /\ t.ok = s.ok
    BY <1>0 DEF States, SameMaps, SameRuntime
  <1>5. \A j \in Ids : t.file[j] = IF j = i THEN g ELSE s.file[j]
    BY <1>0, <1>4 DEF States
  <1>6. Counted(t, hs, x)
    BY <1>4, <1>5 DEF Sound, Counted, SameMaps
  <1>7. ASSUME Opens(hs, i) PROVE Fits(e, t, i)
    <2>1. Fits(e, s, i) /\ t.file[i] = g
      BY <1>5, <1>7 DEF Sound, Held
    <2>2. Exact(g, t.remote)
      BY DEF Exact
    <2>3. CacheFits(g, t.cache[i], t.epoch, t.config)
      BY <1>1, <1>4, <2>1 DEF Fits, CacheFits, ConfigFor, SameMaps, SameRuntime
    <2>4. HasHandle(e, t, i)
      BY <1>1, <1>4, <2>1 DEF Fits, HasHandle, SameMaps, SameRuntime
    <2> QED BY <2>1, <2>2, <2>3, <2>4 DEF Fits
  <1>8. g.proto = "none" <=> f.proto = "none"
    BY <1>1
  <1> HIDE DEF f
  <1>9. Sound(e, t, hs, x)
    BY <1>3, <1>6, <1>7, <1>8, FileChanged DEF f
  <1> QED BY <1>4, <1>5, <1>9 DEF f

LEMMA BufferPinnedHolds ==
  ASSUME NEW u, NEW hs, Sound(env, u, hs, None), NEW n \in Names, u.pin[n] = None,
         NEW i \in Ids, u.file[i].name = n, u.file[i].proto # "none", NEW data \in Seq(Nat)
  PROVE  LET t == BufferPinned(u, n, i, data)
         IN  Sound(env, t, hs, None) /\ Keeps(u, t)
  <1> DEFINE f == u.file[i]
             d == [u EXCEPT !.file[i].data = data, !.file[i].size = Len(data), !.file[i].altered = TRUE]
             t == BufferPinned(u, n, i, data)
  <1>0. u \in States /\ f \in FileRecords /\ Len(data) \in Int
    BY DEF Sound, States
  <1>1. CASE f.proto \in Native
    <2> DEFINE g == [f EXCEPT !.data = data, !.size = Len(data), !.altered = TRUE, !.proto = f.proto]
               a == AddHandle(d, i)
               c == RtClose(a, i)
               y == Destroy(Caught(c), i)
    <2>1. d = [u EXCEPT !.file[i] = g]
      <3>1. d.file = [u.file EXCEPT ![i] = g]
        BY <1>0 DEF States, FileRecords
      <3>2. d = [u EXCEPT !.file = d.file]
        BY <1>0 DEF States
      <3> QED BY <3>1, <3>2
    <2>0. /\ g \in FileRecords /\ g.proto = f.proto /\ g.altered
          /\ g.name = f.name /\ g.url = f.url /\ g.handles = f.handles
          /\ g.listed = f.listed /\ g.uploads = f.uploads /\ g.upConfig = f.upConfig
      BY <1>0 DEF FileRecords
    <2>2. t = NativePinned(c, n, i)
      BY <1>1 DEF BufferPinned
    <2> HIDE DEF d, g
    <2>3. /\ Sound(env, d, hs, None) /\ SameMaps(u, d) /\ SameRuntime(u, d)
          /\ d.file[i].name = n /\ d.file[i].proto = f.proto /\ d.file[i].altered
      <3>1. LET t0 == [u EXCEPT !.file[i] = g]
            IN  /\ Sound(env, t0, hs, None) /\ SameMaps(u, t0) /\ SameRuntime(u, t0)
                /\ t0.file[i] = g
        BY <2>0, Buffered
      <3> QED BY <2>0, <2>1, <3>1
    <2>4. /\ Sound(env, a, hs, i) /\ SameMaps(d, a)
          /\ a.file = [d.file EXCEPT ![i] = [d.file[i] EXCEPT !.handles = @ + 1]]
      BY <2>3, OneMore
    <2>5. a.file[i].altered /\ a.file[i].name = n
      BY <2>3, <2>4 DEF Sound, States, FileRecords
    <2> HIDE DEF a
    <2>6. Sound(env, c, hs, i) /\ SameRegistry(a, c)
      BY <2>4, <2>5, CloseStep
    <2>7. c.file[i].name = n /\ c.pin[n] = None /\ Keeps(u, c) /\ c \in States
      BY <2>3, <2>4, <2>5, <2>6 DEF SameRegistry, SameMaps, Keeps, Sound
    <2> HIDE DEF c
    <2>8. CASE c.ok
      <3>1. t = [c EXCEPT !.pin[n] = i]
        BY <2>2, <2>8 DEF NativePinned
      <3> HIDE DEF t
      <3>2. Sound(env, t, hs, None)
        BY <2>6, <2>7, <3>1, PinSet
      <3>3. Keeps(c, t)
        BY <2>7, <3>1 DEF Keeps, States
      <3>4. Keeps(u, t)
        BY <2>7, <3>3 DEF Keeps
      <3> QED BY <3>2, <3>4 DEF t
    <2>9. CASE ~c.ok
      <3>1. t = Fail(y)
        BY <2>2, <2>9 DEF NativePinned
      <3>2. Sound(env, Caught(c), hs, i) /\ SameRegistry(c, Caught(c))
        BY <2>6, CaughtStep
      <3>3. Sound(env, y, hs, None) /\ Keeps(Caught(c), y)
        BY <3>2, DestroyHolds DEF Closes
      <3> HIDE DEF y
      <3>4. Sound(env, Fail(y), hs, None) /\ SameRegistry(y, Fail(y))
        BY <3>3, CaughtStep
      <3>5. Keeps(u, Fail(y))
        BY <2>7, <3>2, <3>3, <3>4 DEF Keeps, SameRegistry, SameMaps
      <3> QED BY <3>1, <3>4, <3>5
    <2> QED BY <2>8, <2>9
  <1>2. CASE f.proto \notin Native
    <2> DEFINE g == [f EXCEPT !.data = data, !.size = Len(data), !.altered = TRUE, !.proto = "buffer"]
               v == [d EXCEPT !.file[i].proto = "buffer"]
    <2>1. v = [u EXCEPT !.file[i] = g]
      <3>1. v.file = [u.file EXCEPT ![i] = g]
        BY <1>0 DEF States, FileRecords
      <3>2. v = [u EXCEPT !.file = v.file]
        BY <1>0 DEF States
      <3> QED BY <3>1, <3>2
    <2>0. /\ g \in FileRecords /\ g.proto = "buffer" /\ g.altered
          /\ g.name = f.name /\ g.url = f.url /\ g.handles = f.handles
          /\ g.listed = f.listed /\ g.uploads = f.uploads /\ g.upConfig = f.upConfig
      BY <1>0 DEF FileRecords, Protocols
    <2>2. t = Pin(v, n, i)
      BY <1>2 DEF BufferPinned
    <2> HIDE DEF v, g
    <2>3. /\ Sound(env, v, hs, None) /\ SameMaps(u, v)
          /\ v.file[i].name = n /\ v.file[i].proto = "buffer"
      <3>1. LET t0 == [u EXCEPT !.file[i] = g]
            IN  /\ Sound(env, t0, hs, None) /\ SameMaps(u, t0) /\ SameRuntime(u, t0)
                /\ t0.file[i] = g
        BY <2>0, Buffered
      <3> QED BY <2>0, <2>1, <3>1
    <2>4. v.pin[n] = None
      BY <2>3 DEF SameMaps
    <2>5. Sound(env, t, hs, None) /\ Keeps(v, t)
      BY <2>2, <2>3, <2>4, PinHolds
    <2> QED BY <2>3, <2>5 DEF Keeps, SameMaps
  <1> QED BY <1>1, <1>2

LEMMA RegisterBufferHolds ==
  ASSUME NEW s, NEW hs, Sound(env, s, hs, None), s.last < MaxFiles, NEW n \in Names, NEW data \in Seq(Nat)
  PROVE  LET t == RegisterBuffer(s, n, data)
         IN  Sound(env, t, hs, None) /\ Keeps(s, t)
  <1> DEFINE u == Unpin(s, n)
             t == BufferAdded(u, n, data)
  <1>1. CASE PageBufferHolds(s, n)
    <2>1. RegisterBuffer(s, n, data) = Fail(s)
      BY <1>1 DEF RegisterBuffer
    <2>2. Sound(env, Fail(s), hs, None) /\ SameRegistry(s, Fail(s))
      BY CaughtStep
    <2> QED BY <2>1, <2>2 DEF Keeps, SameRegistry, SameMaps
  <1>2. CASE ~PageBufferHolds(s, n)
    <2>1. RegisterBuffer(s, n, data) = t
      BY <1>2 DEF RegisterBuffer
    <2>2. Sound(env, u, hs, None) /\ Keeps(s, u) /\ u.last = s.last /\ u.pin[n] = None
      BY UnpinHolds
    <2> HIDE DEF u
    <2>3. Sound(env, t, hs, None) /\ Keeps(u, t)
      <3>1. CASE u.byName[n] # None
        <4>1. t = BufferPinned(u, n, u.byName[n], data)
          BY <3>1 DEF BufferAdded
        <4>2. /\ u.byName[n] \in Ids /\ u.file[u.byName[n]].name = n
              /\ u.file[u.byName[n]].proto # "none"
          BY <2>2, <3>1, FoundByName
        <4> HIDE DEF t
        <4> QED BY <2>2, <4>1, <4>2, BufferPinnedHolds
      <3>2. CASE u.byName[n] = None
        <4> DEFINE b == NewFile(n, NoUrl, "buffer")
                   g == [b EXCEPT !.data = data, !.size = Len(data)]
                   v == Register(u, n, g)
                   q == Pin(v, n, u.last + 1)
        <4>1. t = q
          BY <3>2 DEF BufferAdded
        <4>2. NoUrl \in Texts /\ "buffer" \in Protocols /\ Len(data) \in Int
          BY DEF Texts, Protocols
        <4>3. /\ b \in FileRecords /\ b.name = n /\ b.url = NoUrl /\ b.proto = "buffer"
              /\ b.handles = 0 /\ b.listed /\ ~b.uploads
          BY <4>2, NewFileType
        <4> HIDE DEF b
        <4>4. /\ g \in FileRecords /\ g.name = n /\ g.proto = "buffer" /\ g.url = NoUrl
              /\ g.handles = 0 /\ g.listed /\ ~g.uploads
          BY <4>2, <4>3 DEF FileRecords
        <4> HIDE DEF g
        <4>5. FollowsUrl(env, g) /\ Loaded(g, u.remote)
          BY <4>4 DEF FollowsUrl, Loaded, Exact, IsRemote
        <4>6. /\ Sound(env, v, hs, None) /\ u.last + 1 \in Ids
              /\ v.pin = u.pin /\ v.file[u.last + 1] = g
              /\ v.handle = u.handle /\ v.corrupt = u.corrupt /\ SameRuntime(u, v)
          BY <2>2, <3>2, <4>4, <4>5, RegisterStep
        <4> HIDE DEF v
        <4>7. Sound(env, q, hs, None) /\ Keeps(v, q)
          BY <2>2, <4>4, <4>6, PinHolds
        <4> HIDE DEF q, t
        <4>8. Keeps(u, q)
          BY <4>6, <4>7 DEF Keeps, SameRuntime
        <4> QED BY <4>1, <4>7, <4>8
      <3> QED BY <3>1, <3>2
    <2> HIDE DEF t
    <2>4. Keeps(s, t)
      BY <2>2, <2>3 DEF Keeps
    <2> QED BY <2>1, <2>3, <2>4
  <1> QED BY <1>1, <1>2

-----------------------------------------------------------------------------
(* New handles of the system                                                *)

\* A handle is added for a name; nobody has lost one.
LEMMA HandleGiven ==
  ASSUME NEW e, NEW s, NEW hs, NEW x, Sound(e, s, hs, x), e.runtime = "browser",
         NEW t \in States, SameRegistry(s, t), InBrowser(t), t.cache = s.cache, t.byId = s.byId,
         \A m \in Names : s.files[m] # None => t.files[m] # None
  PROVE  Sound(e, t, hs, x)
  <1>1. Runs(e, t)
    BY DEF Runs
  <1>2. \A j \in Ids : t.cache[j] \in {s.cache[j], NoInfo, Info(s, j)}
    OBVIOUS
  <1>3. ASSUME NEW j \in Ids, Opens(hs, j) PROVE HasHandle(e, t, j)
    <2>1. HasHandle(e, s, j)
      BY <1>3 DEF Sound, Held, Fits
    <2>2. s.file[j].listed => s.file[j].name \in Names
      BY ListedNames
    <2>3. s.byId[j] = None
      BY DEF Sound, Runs, InBrowser
    <2> QED BY <2>1, <2>2, <2>3 DEF HasHandle, SameRegistry, SameMaps
  <1> QED BY <1>1, <1>2, <1>3, RuntimeStep

LEMMA BlobAdded ==
  ASSUME NEW s, NEW hs, NEW x, Sound(env, s, hs, x), Browser, NEW n \in Names, Kind[n] = "path"
  PROVE  LET t == [NewOs(s, n, "blob") EXCEPT !.files[n] = Len(s.os) + 1]
         IN  Sound(env, t, hs, x) /\ SameRegistry(s, t)
  <1> DEFINE k == Len(s.os) + 1
             r == [path |-> n, kind |-> "blob", open |-> TRUE]
             t == [NewOs(s, n, "blob") EXCEPT !.files[n] = k]
  <1>0. /\ s \in States /\ s.os \in Seq(OsRecords) /\ s.files \in [Names -> Nat]
        /\ InBrowser(s) /\ env.runtime = "browser"
    BY DEF Sound, States, Runs, Browser
  <1>1. r \in OsRecords
    BY DEF OsRecords, Texts
  <1>2. LET c == Append(s.os, r)
        IN  /\ c \in Seq(OsRecords) /\ DOMAIN c = DOMAIN s.os \cup {k} /\ k \notin DOMAIN s.os
            /\ c[k] = r /\ \A j \in DOMAIN s.os : c[j] = s.os[j]
            /\ k \in Nat /\ k # None /\ Len(c) = k
    BY <1>0, <1>1, OsOpened
  <1>3. /\ t \in States /\ SameRegistry(s, t) /\ t.cache = s.cache /\ t.byId = s.byId
        /\ t.prepared = s.prepared /\ t.os = Append(s.os, r) /\ t.files = [s.files EXCEPT ![n] = k]
    BY <1>0, <1>2 DEF NewOs, States, SameRegistry, SameMaps
  <1> HIDE DEF t, k, r
  <1>4. \A m \in Names : t.files[m] = IF m = n THEN k ELSE s.files[m]
    BY <1>0, <1>3
  <1>5. /\ DOMAIN t.os = DOMAIN s.os \cup {k} /\ k \notin DOMAIN s.os /\ k # None
        /\ t.os[k] = r /\ \A j \in DOMAIN s.os : t.os[j] = s.os[j]
    BY <1>2, <1>3
  <1>6. r.open /\ r.path = n /\ r.kind = "blob" /\ t.moved = s.moved
    BY <1>3 DEF r, SameRegistry, SameMaps
  <1>7. InBrowser(t)
    <2>1. \A m \in Names : t.files[m] # None =>
            /\ t.files[m] \in DOMAIN t.os /\ PathFits(t, m, t.os[t.files[m]].path)
            /\ m \in t.moved \/ t.os[t.files[m]].open
      BY <1>0, <1>4, <1>5, <1>6 DEF InBrowser, PathFits
    <2>2. \A m \in Names : t.prepared[m] # None =>
            /\ t.prepared[m] \in DOMAIN t.os
            /\ t.os[t.prepared[m]].open /\ t.os[t.prepared[m]].path = m
            /\ t.os[t.prepared[m]].kind = "access"
            /\ \A o \in Names : t.files[o] # t.prepared[m]
      BY <1>0, <1>3, <1>4, <1>5 DEF InBrowser
    <2>3. \A j \in DOMAIN t.os : t.os[j].open /\ t.os[j].kind = "access" =>
            /\ t.os[j].path \in Names /\ Kind[t.os[j].path] = "opfs"
            /\ \/ t.os[j].path \in t.moved
               \/ t.files[t.os[j].path] = j \/ t.prepared[t.os[j].path] = j
      BY <1>0, <1>3, <1>4, <1>5, <1>6 DEF InBrowser
    <2>4. \A j \in Ids : t.byId[j] = None
      BY <1>0, <1>3 DEF InBrowser
    <2> QED BY <2>1, <2>2, <2>3, <2>4 DEF InBrowser
  <1>8. Sound(env, t, hs, x)
    BY <1>0, <1>3, <1>4, <1>5, <1>7, HandleGiven
  <1> QED BY <1>3, <1>8 DEF t, k

\* An OPFS file that nobody has a handle of may be prepared.
LEMMA AccessPrepared ==
  ASSUME NEW s, NEW hs, NEW x, Sound(env, s, hs, x), Browser, NEW n \in Names, Kind[n] = "opfs",
         s.files[n] = None, OpenOn(s, n) = {}
  PROVE  LET t == [NewOs(s, n, "access") EXCEPT !.prepared[n] = Len(s.os) + 1]
         IN  /\ Sound(env, t, hs, x) /\ SameRegistry(s, t)
             /\ t.files[n] = None /\ t.prepared[n] = Len(t.os) /\ Len(t.os) \in Nat \ {0}
  <1> DEFINE k == Len(s.os) + 1
             r == [path |-> n, kind |-> "access", open |-> TRUE]
             t == [NewOs(s, n, "access") EXCEPT !.prepared[n] = k]
  <1>0. /\ s \in States /\ s.os \in Seq(OsRecords) /\ s.prepared \in [Names -> Nat]
        /\ s.files \in [Names -> Nat] /\ InBrowser(s) /\ env.runtime = "browser"
    BY DEF Sound, States, Runs, Browser
  <1>1. r \in OsRecords
    BY DEF OsRecords, Texts
  <1>2. LET c == Append(s.os, r)
        IN  /\ c \in Seq(OsRecords) /\ DOMAIN c = DOMAIN s.os \cup {k} /\ k \notin DOMAIN s.os
            /\ c[k] = r /\ \A j \in DOMAIN s.os : c[j] = s.os[j]
            /\ k \in Nat /\ k # None /\ Len(c) = k
    BY <1>0, <1>1, OsOpened
  <1>3. /\ t \in States /\ SameRegistry(s, t) /\ t.cache = s.cache /\ t.byId = s.byId
        /\ t.files = s.files /\ t.os = Append(s.os, r) /\ t.prepared = [s.prepared EXCEPT ![n] = k]
    BY <1>0, <1>2 DEF NewOs, States, SameRegistry, SameMaps
  <1>9. Len(t.os) = k /\ k \in Nat \ {0}
    BY <1>2, <1>3 DEF None
  <1> HIDE DEF t, k, r
  <1>4. \A m \in Names : t.prepared[m] = IF m = n THEN k ELSE s.prepared[m]
    BY <1>0, <1>3
  <1>5. /\ DOMAIN t.os = DOMAIN s.os \cup {k} /\ k \notin DOMAIN s.os /\ k # None
        /\ t.os[k] = r /\ \A j \in DOMAIN s.os : t.os[j] = s.os[j]
    BY <1>2, <1>3
  <1>6. r.open /\ r.path = n /\ r.kind = "access" /\ t.moved = s.moved
    BY <1>3 DEF r, SameRegistry, SameMaps
  <1>7. InBrowser(t)
    <2>1. \A m \in Names : t.files[m] # None =>
            /\ t.files[m] \in DOMAIN t.os /\ PathFits(t, m, t.os[t.files[m]].path)
            /\ m \in t.moved \/ t.os[t.files[m]].open
      BY <1>0, <1>3, <1>5, <1>6 DEF InBrowser, PathFits
    <2>2. \A m \in Names : t.prepared[m] # None =>
            /\ t.prepared[m] \in DOMAIN t.os
            /\ t.os[t.prepared[m]].open /\ t.os[t.prepared[m]].path = m
            /\ t.os[t.prepared[m]].kind = "access"
            /\ \A o \in Names : t.files[o] # t.prepared[m]
      BY <1>0, <1>3, <1>4, <1>5, <1>6 DEF InBrowser
    <2>3. \A j \in DOMAIN t.os : t.os[j].open /\ t.os[j].kind = "access" =>
            /\ t.os[j].path \in Names /\ Kind[t.os[j].path] = "opfs"
            /\ \/ t.os[j].path \in t.moved
               \/ t.files[t.os[j].path] = j \/ t.prepared[t.os[j].path] = j
      <3>1. \A j \in DOMAIN s.os : s.os[j].open /\ s.os[j].kind = "access" => s.os[j].path # n
        BY DEF OpenOn
      <3> QED BY <1>0, <1>3, <1>4, <1>5, <1>6, <3>1 DEF InBrowser
    <2>4. \A j \in Ids : t.byId[j] = None
      BY <1>0, <1>3 DEF InBrowser
    <2> QED BY <2>1, <2>2, <2>3, <2>4 DEF InBrowser
  <1>8. Sound(env, t, hs, x)
    BY <1>0, <1>3, <1>7, HandleGiven
  <1> QED BY <1>3, <1>4, <1>8, <1>9 DEF t, k

\* The handle that was prepared is the file's.
HasPrepared(s, n, k) ==
  \/ (s.files[n] = None /\ s.prepared[n] = k)
  \/ (s.files[n] = k /\ s.prepared[n] = None)

LEMMA PreparedTaken ==
  ASSUME NEW s, NEW hs, NEW x, Sound(env, s, hs, x), Browser, NEW n \in Names, NEW k \in Nat \ {0},
         HasPrepared(s, n, k)
  PROVE  LET t == [s EXCEPT !.files[n] = k, !.prepared[n] = None]
         IN  Sound(env, t, hs, x) /\ SameRegistry(s, t)
  <1> DEFINE t == [s EXCEPT !.files[n] = k, !.prepared[n] = None]
  <1>0. /\ s \in States /\ s.prepared \in [Names -> Nat]
        /\ s.files \in [Names -> Nat] /\ InBrowser(s) /\ env.runtime = "browser"
        /\ \/ (s.files[n] = None /\ s.prepared[n] = k)
           \/ (s.files[n] = k /\ s.prepared[n] = None)
    BY DEF Sound, States, Runs, Browser, HasPrepared
  <1>1. /\ t \in States /\ SameRegistry(s, t) /\ t.cache = s.cache /\ t.byId = s.byId
        /\ t.files = [s.files EXCEPT ![n] = k] /\ t.os = s.os
        /\ t.prepared = [s.prepared EXCEPT ![n] = None]
    BY <1>0 DEF States, SameRegistry, SameMaps, None
  <1> HIDE DEF t
  <1>2. \A m \in Names : /\ t.files[m] = IF m = n THEN k ELSE s.files[m]
                         /\ t.prepared[m] = IF m = n THEN None ELSE s.prepared[m]
    BY <1>0, <1>1
  <1>3. t.moved = s.moved /\ k # None
    BY <1>1 DEF SameRegistry, SameMaps, None
  <1>4. InBrowser(t)
    <2>1. \A m \in Names : t.files[m] # None =>
            /\ t.files[m] \in DOMAIN t.os /\ PathFits(t, m, t.os[t.files[m]].path)
            /\ m \in t.moved \/ t.os[t.files[m]].open
      BY <1>0, <1>1, <1>2, <1>3 DEF InBrowser, PathFits
    <2>2. \A m \in Names : t.prepared[m] # None =>
            /\ t.prepared[m] \in DOMAIN t.os
            /\ t.os[t.prepared[m]].open /\ t.os[t.prepared[m]].path = m
            /\ t.os[t.prepared[m]].kind = "access"
            /\ \A o \in Names : t.files[o] # t.prepared[m]
      BY <1>0, <1>1, <1>2, <1>3 DEF InBrowser
    <2>3. \A j \in DOMAIN t.os : t.os[j].open /\ t.os[j].kind = "access" =>
            /\ t.os[j].path \in Names /\ Kind[t.os[j].path] = "opfs"
            /\ \/ t.os[j].path \in t.moved
               \/ t.files[t.os[j].path] = j \/ t.prepared[t.os[j].path] = j
      BY <1>0, <1>1, <1>2, <1>3 DEF InBrowser
    <2>4. \A j \in Ids : t.byId[j] = None
      BY <1>0, <1>1 DEF InBrowser
    <2> QED BY <2>1, <2>2, <2>3, <2>4 DEF InBrowser
  <1>5. Sound(env, t, hs, x)
    BY <1>0, <1>1, <1>2, <1>3, <1>4, HandleGiven
  <1> QED BY <1>1, <1>5 DEF t

-----------------------------------------------------------------------------
(* Opening                                                                  *)

LEMMA UsesFits ==
  ASSUME NEW e, NEW s, NEW t, NEW i, Fits(e, s, i), SameRegistry(s, t), SameRuntime(s, t)
  PROVE  Fits(e, t, i)
  BY FitsAlike DEF SameRegistry, SameMaps

\* What is resolved anew is right, and no file loses its handle.
LEMMA ResolveFits ==
  ASSUME NEW s, NEW hs, NEW x, Sound(env, s, hs, x), NEW i \in Ids, NEW j \in Ids, Fits(env, s, j)
  PROVE  Fits(env, Resolve(s, i), j)
  <1> DEFINE t == Resolve(s, i)
  <1>1. /\ SameRegistry(s, t) /\ t.os = s.os /\ t.byId = s.byId
        /\ t.cache = [s.cache EXCEPT ![i] = IF s.cache[i].epoch = s.epoch \/ ~s.file[i].listed
                                              THEN @ ELSE Info(s, i)]
        /\ \A n \in Names : t.files[n] = s.files[n] \/ s.files[n] = None
    BY ResolveStep
  <1>2. s \in States
    BY DEF Sound
  <1> HIDE DEF t
  <1>3. t.cache[j] = s.cache[j] \/ t.cache[j] = Info(s, j)
    BY <1>1, <1>2 DEF States
  <1>4. CacheFits(t.file[j], t.cache[j], t.epoch, t.config)
    BY <1>1, <1>3 DEF Fits, CacheFits, Info, ConfigFor, SameRegistry, SameMaps
  <1>5. HasHandle(env, t, j)
    <2>1. s.file[j].listed => s.file[j].name \in Names
      BY ListedNames
    <2>2. HasHandle(env, s, j)
      BY DEF Fits
    <2> QED BY <1>1, <2>1, <2>2 DEF HasHandle, SameRegistry, SameMaps
  <1>6. Exact(t.file[j], t.remote)
    BY <1>1 DEF Fits, SameRegistry
  <1> QED BY <1>4, <1>5, <1>6 DEF Fits, t

LEMMA EmptiedHolds ==
  ASSUME NEW s, NEW hs, NEW x, Sound(env, s, hs, x), NEW i \in Ids, s.file[i].proto # "none"
  PROVE  LET t == Emptied(s, i)
         IN  Sound(env, t, hs, x) /\ SameMaps(s, t) /\ (Fits(env, s, i) => Fits(env, t, i))
  <1>1. CASE ~s.ok
    BY <1>1 DEF Emptied, SameMaps
  <1>2. CASE s.ok
    <2> DEFINE f == s.file[i]
               g == [f EXCEPT !.size = 0, !.data = <<>>, !.altered = TRUE]
               t == [s EXCEPT !.file[i] = g]
    <2>0. s \in States /\ f \in FileRecords
      BY DEF Sound, States
    <2>1. t = Emptied(s, i)
      BY <1>2, <2>0 DEF Emptied, States
    <2>2. <<>> \in Seq(Nat) /\ 0 \in Int
      OBVIOUS
    <2>3. /\ g \in FileRecords /\ g.proto = f.proto /\ g.altered /\ g.name = f.name /\ g.url = f.url
          /\ g.handles = f.handles /\ g.listed = f.listed /\ g.uploads = f.uploads
          /\ g.upConfig = f.upConfig
      BY <2>0, <2>2 DEF FileRecords
    <2> HIDE DEF g
    <2>4. Sound(env, t, hs, x) /\ SameMaps(s, t) /\ SameRuntime(s, t) /\ t.file[i] = g
      BY <2>3, Buffered
    <2> HIDE DEF t
    <2>5. ASSUME Fits(env, s, i) PROVE Fits(env, t, i)
      <3>1. Exact(t.file[i], t.remote)
        BY <2>3, <2>4 DEF Exact
      <3>2. CacheFits(t.file[i], t.cache[i], t.epoch, t.config)
        BY <2>3, <2>4, <2>5 DEF Fits, CacheFits, ConfigFor, SameMaps, SameRuntime
      <3>3. HasHandle(env, t, i)
        BY <2>3, <2>4, <2>5 DEF Fits, HasHandle, SameMaps, SameRuntime
      <3> QED BY <3>1, <3>2, <3>3 DEF Fits
    <2> QED BY <2>1, <2>4, <2>5
  <1> QED BY <1>1, <1>2

LEMMA TruncateHolds ==
  ASSUME NEW s, NEW hs, NEW x, Sound(env, s, hs, x), NEW i \in Ids, s.file[i].proto # "none"
  PROVE  LET t == Truncate(s, i)
         IN  Sound(env, t, hs, x) /\ SameMaps(s, t) /\ (Fits(env, s, i) => Fits(env, t, i))
  <1>1. CASE s.file[i].proto = "buffer"
    BY <1>1, EmptiedHolds DEF Truncate
  <1>2. CASE s.file[i].proto # "buffer"
    <2> DEFINE r == Resolve(s, i)
               t == RtTruncate(s, i)
    <2>1. Sound(env, r, hs, x) /\ SameRegistry(s, r) /\ (Fits(env, s, i) => Fits(env, r, i))
      BY ResolveStep, ResolveFits
    <2>2. Uses(r, t)
      BY DEF RtTruncate, Truncated, UseHandle, Uses
    <2>3. Truncate(s, i) = Emptied(t, i)
      BY <1>2 DEF Truncate
    <2> HIDE DEF r, t
    <2>4. Sound(env, t, hs, x) /\ SameRegistry(r, t) /\ SameRuntime(r, t)
      BY <2>1, <2>2, UsesStep
    <2>5. Fits(env, r, i) => Fits(env, t, i)
      BY <2>4, UsesFits
    <2>6. SameMaps(s, t) /\ t.file[i].proto # "none"
      BY <2>1, <2>4 DEF SameRegistry, SameMaps
    <2>7. /\ Sound(env, Emptied(t, i), hs, x) /\ SameMaps(t, Emptied(t, i))
          /\ Fits(env, t, i) => Fits(env, Emptied(t, i), i)
      BY <2>4, <2>6, EmptiedHolds
    <2>8. SameMaps(s, Emptied(t, i))
      BY <2>6, <2>7 DEF SameMaps
    <2> QED BY <2>1, <2>3, <2>5, <2>7, <2>8
  <1> QED BY <1>1, <1>2

\* What fails while a file is opened takes it out of the directories, and its handle away.
LEMMA AbortHolds ==
  ASSUME NEW s, NEW hs, NEW i \in Ids, Sound(env, s, hs, i)
  PROVE  Sound(env, AbortOpen(s, i), hs, None) /\ Keeps(s, AbortOpen(s, i))
  <1> DEFINE c == Caught(s)
             e == Erase(c, i)
             d == Destroy(e, i)
  <1>1. Sound(env, c, hs, i) /\ SameRegistry(s, c)
    BY CaughtStep
  <1> HIDE DEF c
  <1>2. Sound(env, e, hs, i) /\ Keeps(c, e)
    BY <1>1, EraseStep
  <1> HIDE DEF e
  <1>3. Sound(env, d, hs, None) /\ Keeps(e, d)
    BY <1>2, DestroyHolds DEF Closes
  <1> HIDE DEF d
  <1>4. Sound(env, Fail(d), hs, None) /\ SameRegistry(d, Fail(d))
    BY <1>3, CaughtStep
  <1>5. AbortOpen(s, i) = Fail(d)
    BY DEF AbortOpen, c, e, d
  <1>6. Keeps(s, Fail(d))
    BY <1>1, <1>2, <1>3, <1>4 DEF Keeps, SameRegistry, SameMaps
  <1> QED BY <1>4, <1>5, <1>6

\* What a response tells: its body, and its length if it is the file's.
LEMMA ResponseTells ==
  ASSUME NEW answer \in {"partial", "full", "denied", "unreachable"}, NEW server \in Servers,
         NEW file \in Seq(Nat), NEW body \in Seq(Nat)
  PROVE  LET r == Response(answer, server, file, body)
         IN  /\ r.length \in Int
             /\ r.status = 206 /\ body = file => r.length \in {NoLength, Len(body)}
             /\ r.status = 200 /\ answer # "unreachable" => answer = "full" /\ r.body = body
             /\ Honest => r.length \in {NoLength, Len(body)}
  <1> DEFINE r == Response(answer, server, file, body)
             found == answer \in {"partial", "full"} /\ file # Absent
  <1>1. /\ r.length = (CASE ~server.shows -> NoLength [] found -> Len(body) [] OTHER -> server.page)
        /\ r.body = IF found THEN body ELSE <<>>
        /\ r.status = (CASE answer = "denied" -> 403
                         [] file = Absent -> 404
                         [] answer = "partial" -> IF body = <<>> THEN 416 ELSE 206
                         [] OTHER -> 200)
    BY DEF Response
  <1>2. server.page \in Nat \cup {NoLength} /\ Len(body) \in Int /\ NoLength \in Int
    BY WebFilesAssumption DEF NoLength
  <1>3. r.length \in {NoLength, Len(body)} \/ (r.length = server.page /\ ~found)
    <2>1. CASE ~server.shows
      BY <1>1, <2>1
    <2>2. CASE server.shows /\ found
      BY <1>1, <2>2
    <2>3. CASE server.shows /\ ~found
      BY <1>1, <2>3
    <2> QED BY <2>1, <2>2, <2>3
  <1>4. r.status = 206 => answer = "partial" /\ body # <<>>
    BY <1>1
  <1>5. r.status = 200 => answer # "denied" /\ answer # "partial" /\ file # Absent
    BY <1>1
  <1>6. Honest => server.page = NoLength
    BY DEF Honest
  <1> HIDE DEF r
  <1>7. r.length \in Int
    BY <1>2, <1>3
  <1>8. r.status = 200 /\ answer # "unreachable" => answer = "full" /\ r.body = body
    BY <1>1, <1>5
  <1>9. r.status = 206 /\ body = file => found
    BY <1>4 DEF Absent
  <1> QED BY <1>3, <1>9, <1>6, <1>7, <1>8 DEF r

\* OpenForRead: the size that it finds is the file's, and so are the bytes.
OpensExactly(o, file) ==
  o.kind \in {"ranges", "buffer"} => o.size = Len(file) /\ (o.kind = "buffer" => o.data = file)
OpenedType(o) ==
  o.kind \in {"null", "error", "ranges", "buffer"} /\ o.size \in Int /\ o.data \in Seq(Nat)

LEMMA FullReadHolds ==
  ASSUME NEW server \in Servers, NEW set \in AllSettings, NEW file \in Seq(Nat)
  PROVE  LET o == FullRead(server, set, file) IN OpenedType(o) /\ OpensExactly(o, file)
  <1> DEFINE all == GetAll(server, file)
             o == FullRead(server, set, file)
  <1>1. Plain(server.get) \in {"partial", "full", "denied", "unreachable"} /\ server.get # "unreachable"
    BY WebFilesAssumption DEF Plain
  <1>2. all.status = 200 => all.body = file
    BY <1>1, WebFilesAssumption, ResponseTells DEF GetAll, Plain
  <1> HIDE DEF all
  <1>3. o \in {Fails, Nothing} \/ (o = Whole(all.body) /\ all.status = 200)
    BY DEF FullRead, all
  <1> HIDE DEF o
  <1>4. ASSUME o \in {Fails, Nothing} PROVE OpenedType(o) /\ OpensExactly(o, file)
    <2>1. o.kind \in {"error", "null"} /\ o.size = 0 /\ o.data = <<>>
      BY <1>4 DEF Fails, Nothing, Opened
    <2> QED BY <2>1 DEF OpenedType, OpensExactly
  <1>5. ASSUME o = Whole(all.body), all.status = 200 PROVE OpenedType(o) /\ OpensExactly(o, file)
    <2>1. o.kind = "buffer" /\ o.size = Len(file) /\ o.data = file
      BY <1>2, <1>5 DEF Whole, Opened
    <2> QED BY <2>1 DEF OpenedType, OpensExactly
  <1> QED BY <1>3, <1>4, <1>5 DEF o

LEMMA HeadTells ==
  ASSUME NEW server \in Servers, NEW file \in Seq(Nat)
  PROVE  LET r == HeadRange(server, file)
         IN  /\ r.length \in Int
             /\ r.status = 206 => r.length \in {NoLength, Len(file)}
             /\ Honest => r.length \in {NoLength, Len(file)}
  <1> DEFINE r == HeadRange(server, file)
  <1>1. server.head \in {"partial", "full", "denied", "unreachable"}
    BY WebFilesAssumption
  <1>2. r = Response(server.head, server, file, file)
    BY DEF HeadRange
  <1>3. /\ r.length \in Int
        /\ r.status = 206 => r.length \in {NoLength, Len(file)}
        /\ Honest => r.length \in {NoLength, Len(file)}
    <2> HIDE DEF r
    <2> QED BY <1>1, <1>2, ResponseTells
  <1> QED BY <1>3

LEMMA ProbeHolds ==
  ASSUME NEW server \in Servers, NEW set \in AllSettings, NEW file \in Seq(Nat)
  PROVE  LET o == Probe(server, set, file) IN OpenedType(o) /\ (Honest => OpensExactly(o, file))
  <1> DEFINE probe == Get(server, file, 0, 0)
             presumed == PresumedLength(server, set, file)
             o == Probe(server, set, file)
  <1>1. presumed \in Int /\ (Honest => presumed \in {NoLength, Len(file)})
    BY HeadTells DEF PresumedLength, NoLength
  <1>2. probe.status = 200 => probe.body = file
    <2> DEFINE body == IF server.get = "partial" THEN SubSeq(file, 0 + 1, Upto(file, 0)) ELSE file
    <2>1. server.get \in {"partial", "full", "denied"}
      BY WebFilesAssumption
    <2>2. body \in Seq(Nat)
      <3>1. SubSeq(file, 0 + 1, Upto(file, 0)) \in Seq(Nat)
        <4>1. Upto(file, 0) \in 0..Len(file)
          BY DEF Upto
        <4> QED BY <4>1, SubSeqProperties
      <3> QED BY <3>1
    <2>3. probe = Response(server.get, server, file, body)
      BY DEF Get
    <2> HIDE DEF body, probe
    <2>4. probe.status = 200 => server.get = "full" /\ probe.body = body
      BY <2>1, <2>2, <2>3, ResponseTells
    <2> QED BY <2>4 DEF body
  <1>3. \/ o = Fails
        \/ o = Opened("ranges", presumed, <<>>) /\ presumed # NoLength
        \/ o = Whole(probe.body) /\ probe.status = 200
        \/ o = FullRead(server, set, file)
    BY DEF Probe
  <1> HIDE DEF o, probe, presumed
  <1>4. CASE o = Fails
    <2>1. o.kind = "error" /\ o.size = 0 /\ o.data = <<>>
      BY <1>4 DEF Fails, Opened
    <2> QED BY <2>1 DEF OpenedType, OpensExactly, o
  <1>5. ASSUME o = Opened("ranges", presumed, <<>>), presumed # NoLength
        PROVE  OpenedType(o) /\ (Honest => OpensExactly(o, file))
    <2>1. o.kind = "ranges" /\ o.size = presumed /\ o.data = <<>>
      BY <1>5 DEF Opened
    <2>2. o.size \in Int /\ (Honest => o.size = Len(file))
      BY <1>1, <1>5, <2>1
    <2>3. o.data \in Seq(Nat)
      BY <2>1
    <2> QED BY <2>1, <2>2, <2>3 DEF OpenedType, OpensExactly
  <1>6. CASE o = Whole(probe.body) /\ probe.status = 200
    <2>1. o.kind = "buffer" /\ o.size = Len(file) /\ o.data = file
      BY <1>2, <1>6 DEF Whole, Opened
    <2> QED BY <2>1 DEF OpenedType, OpensExactly, o
  <1>7. CASE o = FullRead(server, set, file)
    BY <1>7, FullReadHolds DEF o
  <1> QED BY <1>3, <1>4, <1>5, <1>6, <1>7 DEF o

LEMMA OpenForReadHolds ==
  ASSUME NEW server \in Servers, NEW set \in AllSettings, NEW file \in Seq(Nat)
  PROVE  LET o == OpenForRead(server, set, file)
         IN  OpenedType(o) /\ (Honest => OpensExactly(o, file))
  <1> DEFINE head == HeadRange(server, file)
             o == OpenForRead(server, set, file)
  <1>1. \/ o = Opened("ranges", head.length, <<>>) /\ head.status = 206 /\ head.length # NoLength
        \/ o = Probe(server, set, file)
        \/ o = FullRead(server, set, file)
    BY DEF OpenForRead
  <1>2. head.length \in Int /\ (head.status = 206 => head.length \in {NoLength, Len(file)})
    BY HeadTells
  <1> HIDE DEF o, head
  <1>3. ASSUME o = Opened("ranges", head.length, <<>>), head.status = 206, head.length # NoLength
        PROVE  OpenedType(o) /\ (Honest => OpensExactly(o, file))
    <2>1. o.kind = "ranges" /\ o.size = head.length /\ o.data = <<>>
      BY <1>3 DEF Opened
    <2>2. o.size \in Int /\ o.size = Len(file)
      BY <1>2, <1>3, <2>1
    <2>3. o.data \in Seq(Nat)
      BY <2>1
    <2> QED BY <2>1, <2>2, <2>3 DEF OpenedType, OpensExactly
  <1>4. CASE o = Probe(server, set, file)
    BY <1>4, ProbeHolds DEF o
  <1>5. CASE o = FullRead(server, set, file)
    BY <1>5, FullReadHolds DEF o
  <1> QED BY <1>1, <1>3, <1>4, <1>5 DEF o

\* openFile of the runtime: a listed file is resolved anew.
LEMMA FreshInfo ==
  ASSUME NEW s, NEW hs, NEW x, Sound(env, s, hs, x), NEW i \in Ids, s.file[i].listed
  PROVE  LET q == Resolve([s EXCEPT !.cache[i] = NoInfo], i)
         IN  Sound(env, q, hs, x) /\ SameRegistry(s, q) /\ q.cache[i] = Info(s, i)
  <1> DEFINE c == [s EXCEPT !.cache[i] = NoInfo]
             q == Resolve(c, i)
  <1>1. Sound(env, c, hs, x) /\ SameRegistry(s, c) /\ c.cache = [s.cache EXCEPT ![i] = NoInfo]
    BY CacheReset
  <1>2. s \in States
    BY DEF Sound
  <1>3. c.cache[i] = NoInfo
    BY <1>1, <1>2 DEF States
  <1> HIDE DEF c
  <1>4. /\ Sound(env, q, hs, x) /\ SameRegistry(c, q)
        /\ q.cache = [c.cache EXCEPT ![i] = IF c.cache[i].epoch = c.epoch \/ ~c.file[i].listed
                                              THEN @ ELSE Info(c, i)]
    <2>1. Sound(env, c, hs, x)
      BY <1>1
    <2> QED BY <2>1, ResolveStep
  <1>5. c \in States /\ c.epoch # 0
    BY <1>1 DEF Sound, States
  <1>6. c.cache[i].epoch # c.epoch /\ c.file[i].listed
    BY <1>1, <1>3, <1>5 DEF NoInfo, SameRegistry
  <1>7. q.cache[i] = Info(c, i)
    <2> HIDE DEF q
    <2> QED BY <1>4, <1>5, <1>6 DEF States
  <1>8. Info(c, i) = Info(s, i) /\ SameRegistry(s, q)
    BY <1>1, <1>4 DEF Info, SameRegistry, SameMaps
  <1> QED BY <1>4, <1>7, <1>8 DEF c

\* In Node a file is opened anew whenever DuckDB opens it.
LEMMA NodeOpens ==
  ASSUME NEW s, NEW hs, NEW x, Sound(env, s, hs, x), env.runtime # "browser",
         NEW i \in Ids, s.file[i].proto = "node", NEW path, path = s.file[i].url
  PROVE  LET t == [NewOs(s, path, "fd") EXCEPT !.byId[i] = Len(s.os) + 1]
         IN  /\ Sound(env, t, hs, x) /\ SameRegistry(s, t) /\ t.cache = s.cache
             /\ HasHandle(env, t, i)
  <1> DEFINE new == [path |-> path, kind |-> "fd", open |-> TRUE]
             k == Len(s.os) + 1
             os == Append(s.os, new)
             t == [NewOs(s, path, "fd") EXCEPT !.byId[i] = k]
  <1>1. s \in States /\ s.os \in Seq(OsRecords) /\ s.byId \in [Ids -> Nat] /\ InNode(s)
    BY DEF Sound, States, Runs
  <1>2. new \in OsRecords
    BY <1>1 DEF OsRecords, States, FileRecords
  <1>3. /\ os \in Seq(OsRecords) /\ DOMAIN os = DOMAIN s.os \cup {k} /\ k \notin DOMAIN s.os
        /\ os[k] = new /\ \A j \in DOMAIN s.os : os[j] = s.os[j]
        /\ k \in Nat /\ k # None
    BY <1>1, <1>2, OsOpened
  <1> HIDE DEF os, k
  <1>4. t = [s EXCEPT !.os = os, !.byId = [s.byId EXCEPT ![i] = k]]
    BY <1>1 DEF NewOs, os, k, States
  <1> HIDE DEF t
  <1>5. [s.byId EXCEPT ![i] = k] \in [Ids -> Nat]
    BY <1>1, <1>3
  <1>6. /\ t \in States /\ SameRegistry(s, t) /\ t.os = os /\ t.byId = [s.byId EXCEPT ![i] = k]
        /\ t.cache = s.cache /\ t.files = s.files /\ t.prepared = s.prepared
    BY <1>1, <1>3, <1>4, <1>5 DEF States, SameRegistry, SameMaps
  <1>7. \A j \in Ids : t.byId[j] = IF j = i THEN k ELSE s.byId[j]
    BY <1>1, <1>6
  <1>8. new.kind = "fd" /\ new.open /\ new.path = path
    OBVIOUS
  <1> HIDE DEF new
  <1>9. InNode(t)
    BY <1>1, <1>3, <1>6, <1>7, <1>8 DEF InNode
  <1>10. \A j \in Ids : s.byId[j] # None => s.byId[j] \in DOMAIN s.os
    BY <1>1 DEF InNode
  <1>11. ASSUME NEW j \in Ids, HasHandle(env, s, j) \/ j = i PROVE HasHandle(env, t, j)
    <2>1. CASE j = i
      BY <1>3, <1>6, <1>7, <1>8, <2>1 DEF HasHandle, SameRegistry, SameMaps
    <2>2. CASE j # i
      BY <1>3, <1>6, <1>7, <1>10, <1>11, <2>2 DEF HasHandle, SameRegistry, SameMaps
    <2> QED BY <2>1, <2>2
  <1>12. Sound(env, t, hs, x)
    <2>1. \A j \in Ids : Opens(hs, j) => HasHandle(env, t, j)
      BY <1>11 DEF Sound, Held, Fits
    <2>2. \A j \in Ids : t.cache[j] \in {s.cache[j], NoInfo, Info(s, j)}
      BY <1>6
    <2>3. Runs(env, t)
      BY <1>9 DEF Runs
    <2> QED BY <1>6, <2>1, <2>2, <2>3, RuntimeStep
  <1> QED BY <1>6, <1>11, <1>12 DEF t, k

\* What comes of it.
Brings(s, i, mode, r) ==
  /\ SameRegistry(s, r.w) /\ r.w.ok /\ OpenedType(r.opened) /\ r.w.cache[i] = Info(s, i)
  /\ r.opened.kind = "ranges" =>
       HasHandle(env, r.w, i) /\ (mode = "write" => s.file[i].proto \notin Remote)
  /\ s.file[i].proto \in Remote /\ mode # "write" /\ Honest => OpensExactly(r.opened, s.remote)

AllModes == {"read", "probe", "write", "update", "append"}

\* An answer that is given without anything new.
LEMMA AnswerHolds ==
  ASSUME NEW s, NEW hs, NEW x, Sound(env, s, hs, x), NEW opened
  PROVE  LET r == Answer(s, opened)
         IN  /\ Sound(env, r.w, hs, x) /\ SameRegistry(s, r.w) /\ SameRuntime(s, r.w)
             /\ r.w.ok /\ r.opened = opened
  <1>1. Answer(s, opened).w = Caught(s) /\ Answer(s, opened).opened = opened
    BY DEF Answer
  <1>2. Caught(s).ok
    BY DEF Caught, Sound, States
  <1> QED BY <1>1, <1>2, CaughtStep

LEMMA RemoteOpens ==
  ASSUME NEW s, NEW hs, NEW x, Sound(env, s, hs, x), NEW mode \in AllModes
  PROVE  LET o == RtOpenRemote(s, mode).opened
         IN  /\ OpenedType(o) /\ (Honest /\ mode # "write" => OpensExactly(o, s.remote))
             /\ mode = "write" => o.kind # "ranges"
  <1>1. env.server \in Servers /\ env.set \in AllSettings /\ s.remote \in Seq(Nat)
    BY DEF Sound, Envs, States
  <1>2. mode \in {"read", "probe", "write", "update", "append"}
    BY DEF AllModes
  <1>3. Fails.kind = "error" /\ OpenedType(Fails)
    <2>1. Fails.kind = "error" /\ Fails.size = 0 /\ Fails.data = <<>>
      BY DEF Fails, Opened
    <2>2. <<>> \in Seq(Nat)
      OBVIOUS
    <2> QED BY <2>1, <2>2 DEF OpenedType
  <1>4. CASE mode \in {"update", "append"}
    <2>1. RtOpenRemote(s, mode).opened = Fails
      BY <1>4 DEF RtOpenRemote, Answer
    <2> QED BY <1>3, <2>1 DEF OpensExactly
  <1>5. CASE mode = "write"
    <2> DEFINE b == Opened("buffer", 1, <<0>>)
    <2>1. RtOpenRemote(s, mode).opened \in {Fails, b}
      BY <1>5 DEF RtOpenRemote, Answer, OpenForWrite
    <2>2. b.kind = "buffer" /\ OpenedType(b)
      <3>1. <<0>> \in Seq(Nat) /\ 1 \in Int
        OBVIOUS
      <3>2. b.kind = "buffer" /\ b.size = 1 /\ b.data = <<0>>
        BY DEF Opened
      <3> QED BY <3>1, <3>2 DEF OpenedType
    <2> QED BY <1>3, <1>5, <2>1, <2>2
  <1>6. CASE mode \in {"read", "probe"}
    <2>1. RtOpenRemote(s, mode).opened = OpenForRead(env.server, env.set, s.remote)
      BY <1>6 DEF RtOpenRemote, Answer
    <2> QED BY <1>1, <1>6, <2>1, OpenForReadHolds
  <1> QED BY <1>2, <1>4, <1>5, <1>6

LEMMA RtOpenHolds ==
  ASSUME NEW s, NEW hs, NEW x, Sound(env, s, hs, x), NEW i \in Ids, s.file[i].listed,
         s.file[i].proto \notin {"buffer", "none"}, NEW mode \in AllModes, NEW opens \in BOOLEAN
  PROVE  Sound(env, RtOpen(s, i, mode, opens).w, hs, x) /\ Brings(s, i, mode, RtOpen(s, i, mode, opens))
  <1> DEFINE q == Resolve([s EXCEPT !.cache[i] = NoInfo], i)
             f == s.file[i]
  <1>1. Sound(env, q, hs, x) /\ SameRegistry(s, q) /\ q.cache[i] = Info(s, i)
    BY FreshInfo
  <1>2. /\ q.cache[i].proto = f.proto /\ q.cache[i].name = f.name /\ q.cache[i].url = f.url
        /\ q.file[i] = f /\ q.remote = s.remote
    BY <1>1 DEF Info, SameRegistry
  <1>3. /\ f.url \in Names /\ f.proto = Proto(env, f.url) /\ f.name \in Names
        /\ env.runtime \in {"browser", "node"} /\ NoUrl \notin Names
    <2>1. f \in FileRecords /\ FollowsUrl(env, f) /\ env \in Envs
      BY DEF Sound, States, Protocolled
    <2>2. f.name \in Names
      BY ListedNames
    <2> QED BY <2>1, <2>2, WebFilesAssumption DEF FollowsUrl, FileRecords, Texts, Envs
  <1>4. f.proto \in {"fsaccess", "http", "s3", "filereader", "node"}
    BY <1>3, WebFilesAssumption DEF Proto
  <1>5. <<>> \in Seq(Nat) /\ <<0>> \in Seq(Nat) /\ Len(<<0>>) \in Int
    OBVIOUS
  <1>6. /\ OpenedType(Fails) /\ Fails.kind = "error"
        /\ OpenedType(Nothing) /\ Nothing.kind = "null"
        /\ OpenedType(Ranges) /\ Ranges.kind = "ranges"
        /\ OpenedType(Whole(<<0>>)) /\ Whole(<<0>>).kind = "buffer"
    BY <1>5 DEF Fails, Nothing, Ranges, Whole, Opened, OpenedType
  <1> HIDE DEF q, f
  \* An answer that leaves the state alone.
  <1>7. ASSUME NEW o, OpenedType(o),
               o.kind = "ranges" => HasHandle(env, q, i) /\ (mode = "write" => f.proto \notin Remote),
               f.proto \in Remote /\ mode # "write" /\ Honest => OpensExactly(o, q.remote)
        PROVE  Sound(env, Answer(q, o).w, hs, x) /\ Brings(s, i, mode, Answer(q, o))
    <2> DEFINE r == Answer(q, o)
    <2>1. /\ Sound(env, r.w, hs, x) /\ SameRegistry(q, r.w) /\ SameRuntime(q, r.w)
          /\ r.w.ok /\ r.opened = o
      BY <1>1, AnswerHolds
    <2> HIDE DEF r
    <2>2. HasHandle(env, q, i) => HasHandle(env, r.w, i)
      BY <2>1 DEF HasHandle, SameRegistry, SameMaps, SameRuntime
    <2>3. SameRegistry(s, r.w) /\ r.w.cache[i] = Info(s, i)
      BY <1>1, <2>1 DEF SameRegistry, SameMaps, SameRuntime
    <2>4. f = s.file[i]
      BY DEF f
    <2>5. Brings(s, i, mode, r)
      BY <1>2, <1>7, <2>1, <2>2, <2>3, <2>4 DEF Brings
    <2> QED BY <2>1, <2>5 DEF r
  <1>8. CASE Browser
    <2>0. env.runtime = "browser"
      BY <1>8 DEF Browser
    <2>1. RtOpen(s, i, mode, opens) = RtOpenBrowser(q, i, mode)
      BY <1>8 DEF RtOpen, q
    <2>2. CASE f.proto \in Remote
      <3> DEFINE o == RtOpenRemote(q, mode).opened
      <3>1. RtOpen(s, i, mode, opens) = Answer(q, o)
        BY <1>2, <2>1, <2>2 DEF RtOpenBrowser, RtOpenRemote, Answer, Remote
      <3>2. /\ OpenedType(o) /\ (Honest /\ mode # "write" => OpensExactly(o, q.remote))
            /\ mode = "write" => o.kind # "ranges"
        BY <1>1, RemoteOpens
      <3>3. HasHandle(env, q, i)
        BY <1>2, <2>0, <2>2 DEF HasHandle, Native, Remote
      <3> HIDE DEF o
      <3> QED BY <1>7, <3>1, <3>2, <3>3
    <2>3. CASE f.proto = "filereader"
      <3> DEFINE o == CASE q.files[f.name] # None -> Ranges
                        [] q.files[f.name] = None /\ mode = "probe" -> Nothing
                        [] OTHER -> Whole(<<0>>)
      <3>1. RtOpen(s, i, mode, opens) = Answer(q, o)
        BY <1>2, <2>1, <2>3 DEF RtOpenBrowser, Remote
      <3>2. o \in {Ranges, Nothing, Whole(<<0>>)} /\ (o = Ranges => q.files[f.name] # None)
        <4>1. Ranges # Nothing /\ Ranges # Whole(<<0>>)
          BY <1>6
        <4> QED BY <4>1
      <3> HIDE DEF o
      <3>3. OpenedType(o) /\ (o.kind = "ranges" => q.files[f.name] # None)
        BY <1>6, <3>2
      <3>4. q.files[f.name] # None => HasHandle(env, q, i)
        BY <1>2, <2>0, <2>3 DEF HasHandle
      <3>5. f.proto \notin Remote
        BY <2>3 DEF Remote
      <3> QED BY <1>7, <3>1, <3>3, <3>4, <3>5
    <2>4. CASE f.proto = "fsaccess"
      <3> DEFINE o == IF UseHandle(q, i).ok THEN Ranges ELSE Fails
      <3>1. RtOpen(s, i, mode, opens) = Answer(q, o)
        BY <1>2, <2>1, <2>4 DEF RtOpenBrowser, Remote
      <3>2. UseHandle(q, i).ok => q.files[f.name] # None
        <4>1. q \in States
          BY <1>1 DEF Sound
        <4>2. HandleFor(q, i) = q.files[f.name]
          BY <1>2, <1>3, <2>4 DEF HandleFor
        <4>3. ~Fail(q).ok
          BY <4>1 DEF Fail, States
        <4> QED BY <4>2, <4>3 DEF UseHandle
      <3>3. OpenedType(o) /\ (o.kind = "ranges" => q.files[f.name] # None)
        BY <1>6, <3>2
      <3> HIDE DEF o
      <3>4. q.files[f.name] # None => HasHandle(env, q, i)
        BY <1>2, <2>0, <2>4 DEF HasHandle
      <3>5. f.proto \notin Remote
        BY <2>4 DEF Remote
      <3> QED BY <1>7, <3>1, <3>3, <3>4, <3>5
    <2>5. f.proto # "node"
      BY <1>3, <2>0, WebFilesAssumption DEF Proto
    <2> QED BY <1>4, <2>2, <2>3, <2>4, <2>5 DEF Remote
  <1>9. CASE ~Browser
    <2>0. env.runtime # "browser"
      BY <1>9 DEF Browser
    <2>1. RtOpen(s, i, mode, opens) = RtOpenNode(q, i, mode, opens)
      BY <1>9 DEF RtOpen, q
    <2>2. q.files[f.url] = None
      BY <1>1, <1>3, <2>0 DEF Sound, Runs, InNode
    <2>3. CASE f.proto # "node"
      <3>1. RtOpen(s, i, mode, opens) = Answer(q, Fails)
        BY <1>2, <2>1, <2>3 DEF RtOpenNode
      <3> QED BY <1>6, <1>7, <3>1 DEF OpensExactly
    <2>4. CASE f.proto = "node" /\ mode = "probe"
      <3>1. RtOpen(s, i, mode, opens) = Answer(q, Nothing)
        BY <1>2, <2>1, <2>2, <2>4 DEF RtOpenNode
      <3> QED BY <1>6, <1>7, <3>1 DEF OpensExactly
    <2>6. CASE f.proto = "node" /\ mode # "probe" /\ ~opens
      <3>1. RtOpen(s, i, mode, opens) = Answer(q, Fails)
        BY <1>2, <2>1, <2>2, <2>6 DEF RtOpenNode
      <3>2. f.proto \notin Remote
        BY <2>6 DEF Remote
      <3> QED BY <1>6, <1>7, <3>1, <3>2
    <2>5. CASE f.proto = "node" /\ mode # "probe" /\ opens
      <3> DEFINE t == [NewOs(q, f.url, "fd") EXCEPT !.byId[i] = Len(q.os) + 1]
                 r == Answer(t, Ranges)
      <3>1. RtOpen(s, i, mode, opens) = r
        BY <1>2, <2>1, <2>2, <2>5 DEF RtOpenNode
      <3>2. Sound(env, t, hs, x) /\ SameRegistry(q, t) /\ t.cache = q.cache /\ HasHandle(env, t, i)
        BY <1>1, <1>2, <2>0, <2>5, NodeOpens
      <3> HIDE DEF t
      <3>3. /\ Sound(env, r.w, hs, x) /\ SameRegistry(t, r.w) /\ SameRuntime(t, r.w)
            /\ r.w.ok /\ r.opened = Ranges
        BY <3>2, AnswerHolds
      <3> HIDE DEF r
      <3>4. HasHandle(env, r.w, i)
        BY <3>2, <3>3 DEF HasHandle, SameRegistry, SameMaps, SameRuntime
      <3>5. SameRegistry(s, r.w) /\ r.w.cache[i] = Info(s, i)
        BY <1>1, <3>2, <3>3 DEF SameRegistry, SameMaps, SameRuntime
      <3>6. f.proto \notin Remote /\ f = s.file[i]
        BY <2>5 DEF Remote, f
      <3>7. Brings(s, i, mode, r)
        BY <1>6, <3>3, <3>4, <3>5, <3>6 DEF Brings
      <3> QED BY <3>1, <3>3, <3>7
    <2> QED BY <2>3, <2>4, <2>5, <2>6
  <1> QED BY <1>8, <1>9

\* What the runtime has opened goes into the file.
LEMMA TakeOpenedHolds ==
  ASSUME NEW s, NEW hs, NEW i \in Ids, Sound(env, s, hs, i), s.file[i].proto \notin {"buffer", "none"},
         NEW o, OpenedType(o), o.kind \in {"ranges", "buffer"}, s.cache[i] = Info(s, i), NEW mode,
         o.kind = "ranges" => HasHandle(env, s, i) /\ (mode = "write" => s.file[i].proto \notin Remote),
         s.file[i].proto \in Remote /\ mode # "write" /\ Honest => OpensExactly(o, s.remote),
         mode = "write" => o.kind # "buffer"
  PROVE  LET t == TakeOpened(s, i, o, mode)
         IN  Sound(env, t, hs, i) /\ SameMaps(s, t) /\ Fits(env, t, i) /\ t.file[i].proto # "none"
  <1> DEFINE f == s.file[i]
             b == o.kind = "buffer"
             up == b /\ mode \in {"write", "update", "append"} /\ f.proto \in Remote
             g == [f EXCEPT !.size = o.size, !.data = IF b THEN o.data ELSE @,
                            !.proto = IF b THEN "buffer" ELSE @, !.uploads = up \/ @,
                            !.upConfig = IF up THEN s.config ELSE @]
             t == [s EXCEPT !.file[i] = g]
  <1>0. t = TakeOpened(s, i, o, mode)
    BY DEF TakeOpened
  <1>1. /\ s \in States /\ f \in FileRecords /\ FollowsUrl(env, f) /\ s.config \in 0..Configs
        /\ o.size \in Int /\ o.data \in Seq(Nat)
    <2>1. s.config \in 1..Configs /\ Configs \in Nat
      BY WebFilesAssumption DEF Sound, States
    <2> QED BY <2>1 DEF Sound, States, Protocolled, OpenedType
  <1>2. f.url # NoUrl /\ f.url \in Names /\ f.proto = Proto(env, f.url)
    BY <1>1 DEF FollowsUrl, FileRecords, Texts
  <1>3. g \in FileRecords
    <2>1. /\ (IF b THEN o.data ELSE f.data) \in Seq(Nat)
          /\ (IF b THEN "buffer" ELSE f.proto) \in Protocols
          /\ (up \/ f.uploads) \in BOOLEAN
          /\ (IF up THEN s.config ELSE f.upConfig) \in 0..Configs
      BY <1>1 DEF FileRecords, Protocols
    <2> QED BY <1>1, <2>1 DEF FileRecords
  <1>4. /\ g.name = f.name /\ g.url = f.url /\ g.listed = f.listed /\ g.handles = f.handles
        /\ g.altered = f.altered /\ g.size = o.size
        /\ b => g.proto = "buffer" /\ g.data = o.data
        /\ ~b => g.proto = f.proto /\ g.uploads = f.uploads /\ g.upConfig = f.upConfig
        /\ g.uploads => \/ f.uploads /\ g.upConfig = f.upConfig
                        \/ f.proto \in Remote /\ g.upConfig = s.config
    BY <1>1 DEF FileRecords
  <1>5. /\ t.file = [s.file EXCEPT ![i] = g] /\ SameMaps(s, t) /\ SameRuntime(s, t)
        /\ t.remote = s.remote
    BY <1>1 DEF States, SameMaps, SameRuntime
  <1> HIDE DEF g
  <1>6. \A j \in Ids : t.file[j] = IF j = i THEN g ELSE s.file[j]
    BY <1>1, <1>5 DEF States
  <1>7. FollowsUrl(env, g) /\ g.proto # "none"
    <2>1. s.config # None
      BY DEF Sound, States, None
    <2> QED BY <1>1, <1>2, <1>4, <2>1 DEF FollowsUrl
  <1>8. Exact(g, s.remote)
    <2>1. ASSUME Honest, IsRemote(g) PROVE g.size = Len(s.remote) /\ (g.proto = "buffer" => g.data = s.remote)
      <3>1. f.proto \in Remote
        BY <1>2, <1>4, <2>1, WebFilesAssumption DEF IsRemote, Remote, Proto
      <3>2. OpensExactly(o, s.remote)
        BY <2>1, <3>1
      <3> QED BY <1>2, <1>4, <3>2 DEF OpensExactly
    <2> QED BY <2>1 DEF Exact
  <1>9. CacheFits(g, s.cache[i], s.epoch, s.config)
    BY <1>4 DEF CacheFits, Info, ConfigFor
  <1>10. HasHandle(env, t, i)
    <2>1. CASE b
      BY <1>4, <1>6, <2>1 DEF HasHandle, Native
    <2>2. CASE ~b
      BY <1>4, <1>5, <1>6, <2>2 DEF HasHandle, SameMaps, SameRuntime
    <2> QED BY <2>1, <2>2
  <1>11. Counted(t, hs, i)
    BY <1>4, <1>5, <1>6 DEF Sound, Counted, SameMaps
  <1>12. Fits(env, t, i)
    BY <1>5, <1>6, <1>8, <1>9, <1>10 DEF Fits, SameMaps, SameRuntime
  <1>13. Loaded(g, s.remote)
    BY <1>8 DEF Loaded
  <1>14. Sound(env, t, hs, i)
    BY <1>3, <1>4, <1>7, <1>11, <1>12, <1>13, FileChanged
  <1> HIDE DEF t
  <1> QED BY <1>0, <1>5, <1>6, <1>7, <1>12, <1>14

\* What is written to a server goes into an empty buffer first.
LEMMA EmptyTaken ==
  ASSUME NEW s, NEW hs, NEW i \in Ids, Sound(env, s, hs, i), s.file[i].proto \notin {"buffer", "none"},
         s.ok, NEW o, OpenedType(o), o.kind = "buffer"
  PROVE  LET t == Truncate(TakeOpened(s, i, o, "write"), i)
         IN  Sound(env, t, hs, i) /\ SameMaps(s, t) /\ Fits(env, t, i)
  <1> DEFINE f == s.file[i]
             up == f.proto \in Remote
             h == [f EXCEPT !.size = o.size, !.data = o.data, !.proto = "buffer",
                            !.uploads = up \/ @, !.upConfig = IF up THEN s.config ELSE @]
             u == [s EXCEPT !.file[i] = h]
             g == [h EXCEPT !.size = 0, !.data = <<>>, !.altered = TRUE]
             t == [s EXCEPT !.file[i] = g]
  <1>1. /\ s \in States /\ f \in FileRecords /\ FollowsUrl(env, f) /\ s.config \in 0..Configs
        /\ o.size \in Int /\ o.data \in Seq(Nat)
    <2>1. s.config \in 1..Configs /\ Configs \in Nat
      BY WebFilesAssumption DEF Sound, States
    <2> QED BY <2>1 DEF Sound, States, Protocolled, OpenedType
  <1>2. TakeOpened(s, i, o, "write") = u
    BY DEF TakeOpened
  <1>3. h \in FileRecords
    <2>1. /\ "buffer" \in Protocols /\ (up \/ f.uploads) \in BOOLEAN
          /\ (IF up THEN s.config ELSE f.upConfig) \in 0..Configs
      BY <1>1 DEF FileRecords, Protocols
    <2> QED BY <1>1, <2>1 DEF FileRecords
  <1>4. /\ h.name = f.name /\ h.url = f.url /\ h.listed = f.listed /\ h.handles = f.handles
        /\ h.proto = "buffer"
        /\ h.uploads => \/ f.uploads /\ h.upConfig = f.upConfig
                        \/ f.proto \in Remote /\ h.upConfig = s.config
    BY <1>1 DEF FileRecords
  <1> HIDE DEF h
  <1>5. <<>> \in Seq(Nat) /\ 0 \in Int
    OBVIOUS
  <1>6. /\ g \in FileRecords /\ g.name = f.name /\ g.url = f.url /\ g.listed = f.listed
        /\ g.handles = f.handles /\ g.proto = "buffer" /\ g.altered
        /\ g.uploads => \/ f.uploads /\ g.upConfig = f.upConfig
                        \/ f.proto \in Remote /\ g.upConfig = s.config
    BY <1>3, <1>4, <1>5 DEF FileRecords
  <1>7. Truncate(u, i) = t
    <2>1. u.file[i] = h /\ u.ok
      BY <1>1 DEF States
    <2>2. u.file = [s.file EXCEPT ![i] = h]
      BY <1>1 DEF States
    <2>3. Truncate(u, i) = Emptied(u, i)
      BY <1>4, <2>1 DEF Truncate
    <2>4. Emptied(u, i) = [u EXCEPT !.file[i] = g]
      <3>1. u \in States
        BY <1>1, <1>3 DEF States
      <3> HIDE DEF u
      <3> QED BY <1>3, <2>1, <3>1 DEF Emptied, States
    <2>5. [u EXCEPT !.file[i] = g] = t
      BY <1>1 DEF States
    <2> QED BY <2>3, <2>4, <2>5
  <1> HIDE DEF g, u
  <1>8. /\ t.file = [s.file EXCEPT ![i] = g] /\ SameMaps(s, t) /\ SameRuntime(s, t)
        /\ t.remote = s.remote
    BY <1>1 DEF States, SameMaps, SameRuntime
  <1>9. \A j \in Ids : t.file[j] = IF j = i THEN g ELSE s.file[j]
    BY <1>1, <1>8 DEF States
  <1>10. FollowsUrl(env, g) /\ Loaded(g, s.remote)
    <2>1. s.config # None
      BY DEF Sound, States, None
    <2> QED BY <1>1, <1>6, <2>1 DEF FollowsUrl, Loaded, Exact
  <1>11. Counted(t, hs, i)
    BY <1>6, <1>8, <1>9 DEF Sound, Counted, SameMaps
  <1>12. Fits(env, t, i)
    BY <1>6, <1>9 DEF Fits, Exact, CacheFits, HasHandle, Native
  <1>13. Sound(env, t, hs, i)
    BY <1>6, <1>10, <1>11, <1>12, FileChanged
  <1> HIDE DEF t
  <1> QED BY <1>2, <1>7, <1>8, <1>12, <1>13

\* A file that is open is counted and fits; one that could not be opened is not.
OpensWell(s, o, hs) ==
  /\ Sound(env, o.w, hs, o.id) /\ Keeps(s, o.w)
  /\ o.id # None => o.id \in Ids /\ Fits(env, o.w, o.id)

LEMMA AnsweredHolds ==
  ASSUME NEW s, NEW hs, NEW i \in Ids, Sound(env, s, hs, i), s.file[i].proto \notin {"buffer", "none"},
         NEW mode \in AllModes, NEW r, Sound(env, r.w, hs, i), Brings(s, i, mode, r)
  PROVE  OpensWell(s, Answered(r, i, mode), hs)
  <1> DEFINE t == TakeOpened(r.w, i, r.opened, mode)
             v == IF mode = "write" THEN Truncate(t, i) ELSE t
             a == Answered(r, i, mode)
  <1>1. /\ SameRegistry(s, r.w) /\ r.w.ok /\ OpenedType(r.opened)
        /\ r.w.file[i].proto \notin {"buffer", "none"} /\ r.w.cache[i] = Info(r.w, i)
        /\ r.opened.kind = "ranges" => HasHandle(env, r.w, i)
                                         /\ (mode = "write" => r.w.file[i].proto \notin Remote)
        /\ r.w.file[i].proto \in Remote /\ mode # "write" /\ Honest => OpensExactly(r.opened, r.w.remote)
    BY DEF Brings, SameRegistry, SameMaps, Info
  <1>2. Keeps(s, r.w)
    BY <1>1 DEF Keeps, SameRegistry, SameMaps
  <1>3. CASE r.opened.kind = "null" /\ mode = "probe"
    <2>1. a = Handle(Destroy(r.w, i), None)
      BY <1>3 DEF Answered
    <2>2. a.w = Destroy(r.w, i) /\ a.id = None
      BY <2>1 DEF Handle
    <2>3. Sound(env, a.w, hs, None) /\ Keeps(r.w, a.w)
      BY <2>2, DestroyHolds DEF Closes
    <2>4. Keeps(s, a.w)
      BY <1>2, <2>3, KeepsTwice
    <2> QED BY <2>2, <2>3, <2>4 DEF OpensWell
  <1>4. ASSUME NEW u, Sound(env, u, hs, i), Keeps(s, u), a = Handle(AbortOpen(u, i), None)
        PROVE  OpensWell(s, a, hs)
    <2>1. a.w = AbortOpen(u, i) /\ a.id = None
      BY <1>4 DEF Handle
    <2>2. Sound(env, a.w, hs, None) /\ Keeps(u, a.w)
      BY <1>4, <2>1, AbortHolds
    <2>3. Keeps(s, a.w)
      BY <1>4, <2>2, KeepsTwice
    <2> QED BY <2>1, <2>2, <2>3 DEF OpensWell
  <1>5. CASE r.opened.kind = "error" \/ (r.opened.kind = "null" /\ mode # "probe")
    <2>1. a = Handle(AbortOpen(r.w, i), None)
      BY <1>5 DEF Answered
    <2> HIDE DEF a
    <2> QED BY <1>2, <1>4, <2>1 DEF a
  <1>6. CASE r.opened.kind \in {"ranges", "buffer"}
    <2>1. a = Usable(v, i)
      BY <1>6 DEF Answered
    <2>2. Sound(env, v, hs, i) /\ SameMaps(r.w, v) /\ Fits(env, v, i)
      <3>1. CASE mode = "write" /\ r.opened.kind = "buffer"
        BY <1>1, <3>1, EmptyTaken
      <3>2. CASE ~(mode = "write" /\ r.opened.kind = "buffer")
        <4>1. Sound(env, t, hs, i) /\ SameMaps(r.w, t) /\ Fits(env, t, i) /\ t.file[i].proto # "none"
          BY <1>1, <1>6, <3>2, TakeOpenedHolds
        <4> HIDE DEF t
        <4>2. /\ Sound(env, Truncate(t, i), hs, i) /\ SameMaps(t, Truncate(t, i))
              /\ Fits(env, Truncate(t, i), i)
          BY <4>1, TruncateHolds
        <4>3. SameMaps(r.w, Truncate(t, i))
          BY <4>1, <4>2 DEF SameMaps
        <4> QED BY <4>1, <4>2, <4>3
      <3> QED BY <3>1, <3>2
    <2> HIDE DEF v, a
    <2>3. Keeps(s, v)
      BY <1>2, <2>2 DEF Keeps, SameMaps
    <2>4. CASE v.ok
      <3>1. a.w = v /\ a.id = i
        BY <2>1, <2>4 DEF Usable, Handle
      <3> QED BY <2>2, <2>3, <3>1 DEF OpensWell, a
    <2>5. CASE ~v.ok
      <3>1. a = Handle(AbortOpen(v, i), None)
        BY <2>1, <2>5 DEF Usable
      <3> QED BY <1>4, <2>2, <2>3, <3>1 DEF a
    <2> QED BY <2>4, <2>5
  <1> QED BY <1>1, <1>3, <1>5, <1>6 DEF OpenedType

LEMMA OpenListedHolds ==
  ASSUME NEW s, NEW hs, NEW i \in Ids, Sound(env, s, hs, i), s.file[i].proto # "none",
         s.file[i].listed, NEW mode \in AllModes, NEW opens \in BOOLEAN
  PROVE  OpensWell(s, OpenListed(s, i, mode, opens), hs)
  <1>1. CASE s.file[i].proto # "buffer"
    <2> DEFINE r == RtOpen(s, i, mode, opens)
    <2>1. Sound(env, r.w, hs, i) /\ Brings(s, i, mode, r)
      BY <1>1, RtOpenHolds
    <2>2. OpenListed(s, i, mode, opens) = Answered(r, i, mode)
      BY <1>1 DEF OpenListed
    <2> HIDE DEF r
    <2> QED BY <1>1, <2>1, <2>2, AnsweredHolds
  <1>2. CASE s.file[i].proto = "buffer"
    <2> DEFINE t == IF mode = "write" THEN Truncate(s, i) ELSE s
    <2>1. Fits(env, s, i)
      <3>1. Loaded(s.file[i], s.remote)
        BY DEF Sound, Protocolled
      <3> QED BY <1>2, <3>1 DEF Fits, Loaded, CacheFits, HasHandle, Native
    <2>2. Sound(env, t, hs, i) /\ SameMaps(s, t) /\ Fits(env, t, i)
      BY <2>1, TruncateHolds DEF SameMaps
    <2>3. OpenListed(s, i, mode, opens).w = t /\ OpenListed(s, i, mode, opens).id = i
      BY <1>2 DEF OpenListed, Handle
    <2> HIDE DEF t
    <2> QED BY <2>2, <2>3 DEF OpensWell, Keeps, SameMaps
  <1> QED BY <1>1, <1>2

LEMMA OpenFileHolds ==
  ASSUME NEW s, NEW hs, Sound(env, s, hs, None), s.last < MaxFiles, NEW n \in Names, NEW mode \in AllModes,
         NEW opens \in BOOLEAN
  PROVE  OpensWell(s, OpenFile(s, n, mode, opens), hs)
  <1>0. ASSUME NEW v, NEW i \in Ids, Sound(env, v, hs, None), Keeps(s, v),
               v.file[i].proto # "none", v.file[i].listed,
               OpenFile(s, n, mode, opens) = OpenListed(AddHandle(v, i), i, mode, opens)
        PROVE  OpensWell(s, OpenFile(s, n, mode, opens), hs)
    <2> DEFINE a == AddHandle(v, i)
               o == OpenListed(a, i, mode, opens)
    <2>1. /\ Sound(env, a, hs, i) /\ SameMaps(v, a)
          /\ a.file = [v.file EXCEPT ![i] = [v.file[i] EXCEPT !.handles = @ + 1]]
      BY <1>0, OneMore
    <2>2. v.file \in [Ids -> FileRecords]
      BY <1>0 DEF Sound, States
    <2>3. a.file[i].proto # "none" /\ a.file[i].listed
      <3> HIDE DEF a
      <3>1. a.file[i] = [v.file[i] EXCEPT !.handles = @ + 1]
        BY <2>1, <2>2
      <3> QED BY <1>0, <2>2, <3>1 DEF FileRecords
    <2> HIDE DEF a
    <2>4. OpensWell(a, o, hs)
      BY <2>1, <2>3, OpenListedHolds
    <2> HIDE DEF o
    <2>5. Keeps(s, o.w)
      BY <1>0, <2>1, <2>4 DEF OpensWell, Keeps, SameMaps
    <2>6. OpensWell(s, o, hs)
      BY <2>4, <2>5 DEF OpensWell
    <2> QED BY <1>0, <2>6 DEF o, a
  <1>1. CASE s.byName[n] # None
    <2>1. /\ s.byName[n] \in Ids /\ s.file[s.byName[n]].listed
          /\ s.file[s.byName[n]].proto # "none"
      BY <1>1, FoundByName
    <2>2. OpenFile(s, n, mode, opens) = OpenListed(AddHandle(s, s.byName[n]), s.byName[n], mode, opens)
      BY <1>1 DEF OpenFile
    <2>3. Keeps(s, s)
      BY DEF Keeps
    <2> QED BY <1>0, <2>1, <2>2, <2>3
  <1>2. CASE s.byName[n] = None
    <2> DEFINE p == DataProtocol(n)
               g == NewFile(n, n, p)
               v == Register(s, n, g)
    <2>1. p = Proto(env, n)
      BY ProtoAgrees
    <2>2. /\ p \in Protocols /\ p # "none" /\ p # "buffer" /\ n \in Texts /\ n # NoUrl
      BY <2>1, WebFilesAssumption DEF Proto, Protocols, Texts
    <2>3. OpenFile(s, n, mode, opens) = OpenListed(AddHandle(v, s.last + 1), s.last + 1, mode, opens)
      BY <1>2 DEF OpenFile
    <2> HIDE DEF p
    <2>4. /\ g \in FileRecords /\ g.name = n /\ g.url = n /\ g.proto = p
          /\ g.handles = 0 /\ g.listed /\ ~g.uploads
      BY <2>2, NewFileType
    <2> HIDE DEF g
    <2>5. FollowsUrl(env, g) /\ Loaded(g, s.remote) /\ g.proto # "none"
      BY <2>1, <2>2, <2>4 DEF FollowsUrl, Loaded
    <2>6. /\ Sound(env, v, hs, None) /\ s.last + 1 \in Ids
          /\ v.file[s.last + 1] = g
          /\ v.handle = s.handle /\ v.corrupt = s.corrupt /\ SameRuntime(s, v)
      BY <1>2, <2>4, <2>5, RegisterStep
    <2> HIDE DEF v
    <2>7. Keeps(s, v)
      BY <2>6 DEF Keeps, SameRuntime
    <2> QED BY <1>0, <2>3, <2>4, <2>5, <2>6, <2>7
  <1> QED BY <1>1, <1>2

-----------------------------------------------------------------------------
(* The steps                                                                *)

\* Read
LEMMA FetchHolds ==
  ASSUME NEW s, NEW hs, NEW x, Sound(env, s, hs, x), NEW i \in Ids
  PROVE  Sound(env, Fetch(s, i), hs, x) /\ SameMaps(s, Fetch(s, i))
  <1>1. CASE s.file[i].proto = "buffer"
    BY <1>1 DEF Fetch, SameMaps
  <1>2. CASE s.file[i].proto # "buffer"
    <2> DEFINE r == Resolve(s, i)
    <2>1. Sound(env, r, hs, x) /\ SameRegistry(s, r)
      BY ResolveStep
    <2>2. Uses(r, Fetched(r, i))
      BY DEF Fetched, UseHandle, Uses
    <2>3. Fetch(s, i) = Fetched(r, i)
      BY <1>2 DEF Fetch
    <2> HIDE DEF r
    <2>4. Sound(env, Fetched(r, i), hs, x) /\ SameRegistry(r, Fetched(r, i))
      BY <2>1, <2>2, UsesStep
    <2> QED BY <2>1, <2>3, <2>4 DEF SameRegistry, SameMaps
  <1> QED BY <1>1, <1>2

\* What DuckDB has open is what the state says that it has.
LEMMA HandlesSet ==
  ASSUME NEW s, NEW hs, NEW x, Sound(env, s, hs, x)
  PROVE  Sound(env, [s EXCEPT !.handle = hs], hs, x)
  <1> DEFINE t == [s EXCEPT !.handle = hs]
  <1>1. s \in States /\ hs \in HandleMaps
    BY DEF Sound
  <1>2. /\ t \in States /\ t.last = s.last /\ t.file = s.file /\ t.pin = s.pin
        /\ t.byName = s.byName /\ t.byUrl = s.byUrl /\ t.epoch = s.epoch /\ t.config = s.config
        /\ t.corrupt = s.corrupt /\ t.global = s.global /\ t.remote = s.remote /\ SameRuntime(s, t)
    BY <1>1 DEF States, SameRuntime
  <1> HIDE DEF t
  <1>3. Counted(t, hs, x) /\ Registered(t) /\ Protocolled(env, t)
    BY <1>2 DEF Sound, Counted, Registered, Named, Directories, Protocolled, SameRuntime
  <1>4. Timed(t) /\ Runs(env, t) /\ Held(env, t, hs)
    BY <1>2 DEF Sound, Timed, Runs, InBrowser, InNode, PathFits, Held, Fits, HasHandle, SameRuntime
  <1>5. env \in Envs
    BY DEF Sound
  <1> QED BY <1>1, <1>2, <1>3, <1>4, <1>5 DEF Sound, t

\* A handle that is counted is given to DuckDB, and taken from it before it is closed.
LEMMA GivenHolds ==
  ASSUME NEW s, NEW hs, NEW i \in Ids, Sound(env, s, hs, i), Fits(env, s, i),
         NEW h \in 1..MaxHandles, hs[h] = NoHandle, NEW r \in HandleRecords, r.file = i
  PROVE  Sound(env, s, [hs EXCEPT ![h] = r], None)
  <1> DEFINE gs == [hs EXCEPT ![h] = r]
  <1>1. s.pin \in Entries /\ hs \in HandleMaps
    BY DEF Sound, States
  <1>2. gs \in HandleMaps /\ \A j \in Ids : Users(s.pin, gs, j) = Users(s.pin, hs, j) + IF j = i THEN 1 ELSE 0
    BY <1>1, OpenedUsers
  <1>3. Held(env, s, gs)
    <2>1. \A j \in Ids : Opens(gs, j) => j = i \/ Opens(hs, j)
      BY <1>1 DEF Opens, HandleMaps
    <2> HIDE DEF gs
    <2> QED BY <2>1 DEF Sound, Held
  <1> HIDE DEF gs
  <1>4. Counted(s, gs, None)
    <2>1. ASSUME NEW j \in Ids
          PROVE  s.file[j].handles = Users(s.pin, gs, j) + IF j = None THEN 1 ELSE 0
      <3>1. s.file[j].handles = Users(s.pin, hs, j) + IF j = i THEN 1 ELSE 0
        BY DEF Sound, Counted
      <3>2. Users(s.pin, hs, j) \in Nat
        BY <1>1, UsersType
      <3>3. j # None
        BY DEF Ids, None
      <3>4. Users(s.pin, gs, j) = Users(s.pin, hs, j) + IF j = i THEN 1 ELSE 0
        BY <1>2
      <3> QED BY <3>1, <3>2, <3>3, <3>4
    <2> QED BY <2>1 DEF Counted
  <1> QED BY <1>2, <1>3, <1>4 DEF Sound, gs

LEMMA TakenHolds ==
  ASSUME NEW s, NEW hs, Sound(env, s, hs, None), NEW h \in 1..MaxHandles, hs[h] # NoHandle
  PROVE  hs[h].file \in Ids /\ Sound(env, s, [hs EXCEPT ![h] = NoHandle], hs[h].file)
  <1> DEFINE gs == [hs EXCEPT ![h] = NoHandle]
             i == hs[h].file
  <1>1. s.pin \in Entries /\ hs \in HandleMaps
    BY DEF Sound, States
  <1>0. i \in Ids
    BY <1>1 DEF HandleMaps, HandleRecords
  <1>2. gs \in HandleMaps /\ \A j \in Ids : Users(s.pin, hs, j) = Users(s.pin, gs, j) + IF j = i THEN 1 ELSE 0
    BY <1>0, <1>1, ClosedUsers
  <1>3. Held(env, s, gs)
    <2>1. \A j \in Ids : Opens(gs, j) => Opens(hs, j)
      BY <1>1, WebFilesAssumption DEF Opens, HandleMaps, NoHandle, Ids, None
    <2> HIDE DEF gs
    <2> QED BY <2>1 DEF Sound, Held
  <1> HIDE DEF gs
  <1>4. Counted(s, gs, i)
    <2>1. ASSUME NEW j \in Ids
          PROVE  s.file[j].handles = Users(s.pin, gs, j) + IF j = i THEN 1 ELSE 0
      <3>1. s.file[j].handles = Users(s.pin, hs, j) + IF j = None THEN 1 ELSE 0
        BY DEF Sound, Counted
      <3>2. Users(s.pin, hs, j) \in Nat
        BY <1>1, UsersType
      <3>3. j # None
        BY DEF Ids, None
      <3>4. Users(s.pin, hs, j) = Users(s.pin, gs, j) + IF j = i THEN 1 ELSE 0
        BY <1>2
      <3>5. Users(s.pin, gs, j) \in Nat
        BY <1>1, <1>2, UsersType
      <3> QED BY <3>1, <3>2, <3>3, <3>4, <3>5
    <2> QED BY <2>1 DEF Counted
  <1> QED BY <1>0, <1>2, <1>3, <1>4 DEF Sound, gs

\* A step that leads to such a state keeps the invariant.
LEMMA Kept ==
  ASSUME NEW t, Sound(env, t, t.handle, None), Becomes(t)
  PROVE  IInv'
  <1>1. Sound(env, Caught(t), t.handle, None) /\ SameRegistry(t, Caught(t))
    BY CaughtStep
  <1>2. w' = Caught(t) /\ env' = env
    BY DEF Becomes
  <1>3. Sound(env', w', w'.handle, None)
    BY <1>1, <1>2 DEF SameRegistry, SameMaps
  <1> QED BY <1>3 DEF IInv

LEMMA Registers ==
  ASSUME IInv, NEW n \in Names
  PROVE  /\ \A url \in Names : RegisterFileURL(n, url) => IInv'
         /\ RegisterFileBuffer(n) => IInv'
  <1>1. Sound(env, w, w.handle, None)
    BY DEF IInv
  <1>2. ASSUME NEW url \in Names, RegisterFileURL(n, url) PROVE IInv'
    <2> DEFINE t == RegisterUrl(w, n, url, DataProtocol(url))
    <2>1. w.last < MaxFiles /\ Becomes(t)
      BY <1>2 DEF RegisterFileURL, Room
    <2>2. Sound(env, t, w.handle, None) /\ t.handle = w.handle
      BY <1>1, <2>1, RegisterUrlHolds DEF Keeps
    <2> HIDE DEF t
    <2>3. Sound(env, t, t.handle, None)
      BY <2>2
    <2> QED BY <2>1, <2>3, Kept
  <1>3. ASSUME RegisterFileBuffer(n) PROVE IInv'
    <2> DEFINE t == RegisterBuffer(w, n, <<7>>)
    <2>1. w.last < MaxFiles /\ Becomes(t)
      BY <1>3 DEF RegisterFileBuffer, Room
    <2>2. <<7>> \in Seq(Nat)
      OBVIOUS
    <2>3. Sound(env, t, w.handle, None) /\ t.handle = w.handle
      BY <1>1, <2>1, <2>2, RegisterBufferHolds DEF Keeps
    <2> HIDE DEF t
    <2>4. Sound(env, t, t.handle, None)
      BY <2>3
    <2> QED BY <2>1, <2>4, Kept
  <1> QED BY <1>2, <1>3

LEMMA RegistersHandles ==
  ASSUME IInv, NEW n \in Names
  PROVE  /\ RegisterFileHandle(n) => IInv'
         /\ \A empty \in BOOLEAN : PrepareFileHandle(n, empty) => IInv'
  <1>1. Sound(env, w, w.handle, None)
    BY DEF IInv
  <1>2. ASSUME RegisterFileHandle(n) PROVE IInv'
    <2> DEFINE r == RegisterUrl(w, n, n, DataProtocol(n))
               t == HandleAdded(r, n)
    <2>1. w.last < MaxFiles /\ Browser /\ Kind[n] = "path"
      BY <1>2 DEF RegisterFileHandle, Room
    <2>2. DataProtocol(n) = "filereader"
      BY <2>1 DEF DataProtocol
    <2>3. Becomes(t)
      BY <1>2, <2>2 DEF RegisterFileHandle
    <2>4. Sound(env, r, w.handle, None) /\ r.handle = w.handle
      BY <1>1, <2>1, RegisterUrlHolds DEF Keeps
    <2> HIDE DEF r
    <2>5. Sound(env, t, w.handle, None) /\ t.handle = w.handle
      <3> DEFINE b == [NewOs(r, n, "blob") EXCEPT !.files[n] = Len(r.os) + 1]
      <3>1. Sound(env, b, w.handle, None) /\ SameRegistry(r, b)
        BY <2>1, <2>4, BlobAdded
      <3>2. t = r \/ t = b
        BY DEF HandleAdded
      <3> HIDE DEF b, t
      <3> QED BY <2>4, <3>1, <3>2 DEF SameRegistry, SameMaps
    <2> HIDE DEF t
    <2>6. Sound(env, t, t.handle, None)
      BY <2>5
    <2> QED BY <2>3, <2>6, Kept
  <1>3. ASSUME NEW empty \in BOOLEAN, PrepareFileHandle(n, empty) PROVE IInv'
    <2> DEFINE p == [NewOs(w, n, "access") EXCEPT !.prepared[n] = Len(w.os) + 1]
               r == RegisterUrl(p, n, n, DataProtocol(n))
               k == Len(p.os)
               q == HandleTaken(r, n, k)
    <2>1. w.last < MaxFiles /\ Browser /\ Kind[n] = "opfs"
      BY <1>3 DEF PrepareFileHandle, Room
    <2>2. DataProtocol(n) = "fsaccess"
      BY <2>1 DEF DataProtocol
    <2>3. \/ Becomes(w)
          \/ Becomes(Fail(w))
          \/ (w.files[n] = None /\ OpenOn(w, n) = {} /\ (Becomes(p) \/ Becomes(q)))
      <3>1. Becomes(CASE w.files[n] # None -> w
                      [] w.files[n] = None /\ OpenOn(w, n) # {} -> Fail(w)
                      [] OTHER -> IF empty THEN p ELSE q)
        BY <1>3, <2>2 DEF PrepareFileHandle
      <3>2. CASE w.files[n] # None
        BY <3>1, <3>2
      <3>3. CASE w.files[n] = None /\ OpenOn(w, n) # {}
        BY <3>1, <3>3
      <3>4. CASE w.files[n] = None /\ OpenOn(w, n) = {}
        <4> HIDE DEF p, q
        <4> QED BY <3>1, <3>4
      <3> QED BY <3>2, <3>3, <3>4
    <2>4. Sound(env, Fail(w), w.handle, None) /\ Fail(w).handle = w.handle
      BY <1>1, CaughtStep DEF SameRegistry, SameMaps
    <2>5. ASSUME w.files[n] = None, OpenOn(w, n) = {}
          PROVE  /\ Sound(env, p, p.handle, None)
                 /\ Sound(env, q, q.handle, None)
      <3>1. /\ Sound(env, p, w.handle, None) /\ SameRegistry(w, p)
            /\ p.files[n] = None /\ p.prepared[n] = k /\ k \in Nat \ {0}
        BY <1>1, <2>1, <2>5, AccessPrepared
      <3> HIDE DEF p
      <3>2. p.last < MaxFiles /\ p.handle = w.handle
        BY <2>1, <3>1 DEF SameRegistry, SameMaps
      <3>3. Sound(env, r, w.handle, None) /\ Keeps(p, r) /\ Handed(p, r)
        BY <3>1, <3>2, RegisterUrlHolds
      <3> HIDE DEF r, k
      <3>4. \/ (r.files[n] = None /\ r.prepared[n] = k)
            \/ (r.files[n] = k /\ r.prepared[n] = None)
        BY <3>1, <3>3 DEF Handed
      <3> DEFINE u == [r EXCEPT !.files[n] = k, !.prepared[n] = None]
      <3>5. Sound(env, u, w.handle, None) /\ SameRegistry(r, u)
        <4>1. k \in Nat \ {0} /\ Browser /\ Sound(env, r, w.handle, None)
          BY <2>1, <3>1, <3>3
        <4>2. HasPrepared(r, n, k)
          BY <3>4 DEF HasPrepared
        <4> QED BY <4>1, <4>2, PreparedTaken
      <3>6. q = r \/ q = u
        BY DEF HandleTaken
      <3> HIDE DEF q, u
      <3>7. r.handle = w.handle /\ u.handle = w.handle
        BY <3>2, <3>3, <3>5 DEF Keeps, SameRegistry, SameMaps
      <3> QED BY <3>1, <3>2, <3>3, <3>5, <3>6, <3>7
    <2> HIDE DEF p, q
    <2>6. CASE Becomes(w)
      BY <1>1, <2>6, Kept
    <2>7. CASE Becomes(Fail(w))
      <3>1. Sound(env, Fail(w), Fail(w).handle, None)
        BY <2>4
      <3> QED BY <2>7, <3>1, Kept
    <2>8. CASE w.files[n] = None /\ OpenOn(w, n) = {} /\ Becomes(p)
      BY <2>5, <2>8, Kept
    <2>9. CASE w.files[n] = None /\ OpenOn(w, n) = {} /\ Becomes(q)
      BY <2>5, <2>9, Kept
    <2> QED BY <2>3, <2>6, <2>7, <2>8, <2>9
  <1> QED BY <1>2, <1>3

\* A pin is of a file that has a name.
LEMMA PinnedNamesType == IInv => PinnedNames(w) \subseteq Names
  <1> SUFFICES ASSUME IInv PROVE PinnedNames(w) \subseteq Names
    OBVIOUS
  <1>1. Registered(w) /\ w \in States
    BY DEF IInv, Sound
  <1>2. \A m \in Names : w.pin[m] # None => w.file[w.pin[m]].name \in Names
    BY <1>1 DEF Registered, States
  <1> QED BY <1>2 DEF PinnedNames

LEMMA Drops ==
  ASSUME IInv
  PROVE  /\ \A n \in Names : DropFile(n) => IInv'
         /\ DropFiles => IInv'
  <1>1. Sound(env, w, w.handle, None)
    BY DEF IInv
  <1>2. ASSUME NEW n \in Names, DropFile(n) PROVE IInv'
    <2> DEFINE t == Drop(w, n)
    <2>1. Becomes(t)
      BY <1>2 DEF DropFile
    <2>2. Sound(env, t, w.handle, None) /\ t.handle = w.handle
      BY <1>1, DropHolds DEF Dropped, Keeps
    <2> HIDE DEF t
    <2>3. Sound(env, t, t.handle, None)
      BY <2>2
    <2> QED BY <2>1, <2>3, Kept
  <1>3. ASSUME DropFiles PROVE IInv'
    <2>1. PICK done \in SUBSET PinnedNames(w) :
            DropSome(FoldSet(LAMBDA n, acc : Drop(acc, n), w, done), PinnedNames(w) \ done)
      BY <1>3 DEF DropFiles
    <2> DEFINE d == FoldSet(LAMBDA n, acc : Drop(acc, n), w, done)
               rest == PinnedNames(w) \ done
    <2>2. done \in SUBSET Names /\ rest \in SUBSET Names
      BY PinnedNamesType
    <2>3. Sound(env, d, w.handle, None) /\ d.handle = w.handle
      BY <1>1, <2>2, ManyDropped DEF Keeps
    <2>4. DropSome(d, rest)
      BY <2>1
    <2> HIDE DEF d, rest
    <2>5. CASE Becomes(DropDangling(d))
      <3> DEFINE t == DropDangling(d)
      <3>1. Sound(env, t, w.handle, None) /\ t.handle = w.handle
        BY <2>3, DropDanglingHolds DEF Keeps
      <3> HIDE DEF t
      <3>2. Sound(env, t, t.handle, None) /\ Becomes(t)
        BY <2>5, <3>1 DEF t
      <3> QED BY <3>2, Kept
    <2>6. ASSUME NEW n \in rest, Becomes(Drop(d, n)) PROVE IInv'
      <3> DEFINE t == Drop(d, n)
      <3>1. Sound(env, t, w.handle, None) /\ t.handle = w.handle
        BY <2>2, <2>3, DropHolds DEF Dropped, Keeps
      <3> HIDE DEF t
      <3>2. Sound(env, t, t.handle, None) /\ Becomes(t)
        BY <2>6, <3>1 DEF t
      <3> QED BY <3>2, Kept
    <2> QED BY <2>4, <2>5, <2>6 DEF DropSome
  <1> QED BY <1>2, <1>3

LEMMA Configures ==
  ASSUME IInv
  PROVE  /\ SetConfig => IInv'
         /\ \A n \in Names : FileExists(n) => IInv'
  <1>1. Sound(env, w, w.handle, None) /\ w \in States
    BY DEF IInv, Sound
  <1>2. ASSUME SetConfig PROVE IInv'
    <2> DEFINE c == w.config + 1
               t == [w EXCEPT !.config = c, !.epoch = @ + 1]
    <2>1. c \in 1..Configs /\ Becomes([w EXCEPT !.config = @ + 1, !.epoch = @ + 1])
      BY <1>1, <1>2, WebFilesAssumption DEF SetConfig, States
    <2>2. Becomes(t) /\ t.handle = w.handle
      BY <1>1, <2>1 DEF States
    <2> HIDE DEF c
    <2>3. Sound(env, t, w.handle, None)
      BY <1>1, <2>1, EpochRaised
    <2> HIDE DEF t
    <2>4. Sound(env, t, t.handle, None)
      BY <2>2, <2>3
    <2> QED BY <2>2, <2>4, Kept
  <1>3. ASSUME NEW n \in Names, FileExists(n) PROVE IInv'
    <2> DEFINE info == [NoInfo EXCEPT !.epoch = w.epoch, !.config = w.config]
               t == [w EXCEPT !.global = info]
    <2>1. Becomes(w) \/ Becomes(t)
      BY <1>3 DEF FileExists, ResolveGlobal
    <2>2. info \in InfoRecords /\ info.epoch = w.epoch /\ info.config = w.config
      <3>1. w.config \in 0..Configs /\ w.epoch \in Nat
        BY <1>1, WebFilesAssumption DEF States
      <3> QED BY <3>1, NoInfoType DEF InfoRecords
    <2> HIDE DEF info
    <2>3. /\ t \in States /\ t.last = w.last /\ t.file = w.file /\ t.pin = w.pin
          /\ t.byName = w.byName /\ t.byUrl = w.byUrl /\ t.epoch = w.epoch /\ t.config = w.config
          /\ t.corrupt = w.corrupt /\ t.global = info /\ t.remote = w.remote /\ SameRuntime(w, t)
          /\ t.handle = w.handle
      BY <1>1, <2>2 DEF States, SameRuntime
    <2> HIDE DEF t
    <2>4. Counted(t, w.handle, None) /\ Registered(t) /\ Protocolled(env, t)
      BY <1>1, <2>3 DEF Sound, Counted, Registered, Named, Directories, Protocolled, SameRuntime
    <2>5. Runs(env, t) /\ Held(env, t, w.handle)
      <3>1. Runs(env, w) /\ Held(env, w, w.handle)
        BY <1>1 DEF Sound
      <3>2. Runs(env, t)
        BY <2>3, <3>1 DEF Runs, InBrowser, InNode, PathFits, SameRuntime
      <3>3. \A i \in Ids : Fits(env, w, i) => Fits(env, t, i)
        BY <2>3 DEF Fits, HasHandle, SameRuntime
      <3> QED BY <3>1, <3>2, <3>3 DEF Held
    <2>6. Timed(t)
      <3>1. w.epoch \in Nat
        BY <1>1 DEF States
      <3> QED BY <1>1, <2>2, <2>3, <3>1 DEF Sound, Timed, SameRuntime
    <2>7. Sound(env, t, t.handle, None)
      BY <1>1, <2>3, <2>4, <2>5, <2>6 DEF Sound
    <2> QED BY <1>1, <2>1, <2>7, Kept
  <1> QED BY <1>2, <1>3

LEMMA Copies ==
  ASSUME IInv, NEW n \in Names, CopyFileToBuffer(n)
  PROVE  IInv'
  <1>0. PICK opens \in BOOLEAN : Becomes(Copied(OpenFile(w, n, "read", opens)))
    BY DEF CopyFileToBuffer, SystemOpens
  <1> DEFINE o == OpenFile(w, n, "read", opens)
             t == Copied(o)
  <1>1. Sound(env, w, w.handle, None)
    BY DEF IInv
  <1>2. w.last < MaxFiles /\ Becomes(t)
    BY <1>0 DEF CopyFileToBuffer, Room
  <1>3. "read" \in AllModes
    BY DEF AllModes
  <1>4. OpensWell(w, o, w.handle)
    BY <1>1, <1>2, <1>3, OpenFileHolds
  <1> HIDE DEF o
  <1>5. Sound(env, t, w.handle, None) /\ t.handle = w.handle
    <2>1. CASE o.id = None
      BY <1>4, <2>1 DEF OpensWell, Copied, Keeps
    <2>2. CASE o.id # None
      <3>1. Sound(env, o.w, w.handle, o.id) /\ o.id \in Ids /\ o.w.handle = w.handle
        BY <1>4, <2>2 DEF OpensWell, Keeps
      <3>2. t = Destroy(o.w, o.id) \/ t = Destroy(Fetch(o.w, o.id), o.id)
        BY <2>2 DEF Copied
      <3>3. ASSUME NEW u, Sound(env, u, w.handle, o.id), u.handle = w.handle, t = Destroy(u, o.id)
            PROVE  Sound(env, t, w.handle, None) /\ t.handle = w.handle
        BY <3>1, <3>3, DestroyHolds DEF Closes, Keeps
      <3>4. Sound(env, Fetch(o.w, o.id), w.handle, o.id) /\ Fetch(o.w, o.id).handle = w.handle
        BY <3>1, FetchHolds DEF SameMaps
      <3> HIDE DEF t
      <3> QED BY <3>1, <3>2, <3>3, <3>4
    <2> QED BY <2>1, <2>2
  <1> HIDE DEF t
  <1>6. Sound(env, t, t.handle, None)
    BY <1>5
  <1> QED BY <1>2, <1>6, Kept

LEMMA OpenKept ==
  ASSUME IInv, NEW h \in 1..MaxHandles, NEW n \in Names, NEW mode \in Modes, Open(h, n, mode)
  PROVE  IInv'
  <1>0. PICK opens \in BOOLEAN : Becomes(Given(OpenFile(w, n, mode, opens), h, mode))
    BY DEF Open, SystemOpens
  <1> DEFINE o == OpenFile(w, n, mode, opens)
             r == [file |-> o.id, mode |-> mode, paged |-> mode \in PagedModes]
             hs == [w.handle EXCEPT ![h] = r]
  <1>1. Sound(env, w, w.handle, None) /\ w.handle \in HandleMaps
    BY DEF IInv, Sound
  <1>2. w.last < MaxFiles /\ w.handle[h] = NoHandle /\ Becomes(Given(o, h, mode))
    BY <1>0 DEF Open, Room
  <1>3. mode \in AllModes
    BY WebFilesAssumption DEF AllModes
  <1>4. OpensWell(w, o, w.handle)
    BY <1>1, <1>2, <1>3, OpenFileHolds
  <1> HIDE DEF o
  <1>5. CASE o.id = None
    <2> DEFINE t == o.w
    <2>1. Sound(env, t, t.handle, None) /\ Becomes(t)
      BY <1>2, <1>4, <1>5 DEF OpensWell, Keeps, Given
    <2> HIDE DEF t
    <2> QED BY <2>1, Kept
  <1>6. CASE o.id # None
    <2> DEFINE t == [o.w EXCEPT !.handle = hs]
    <2>1. /\ Sound(env, o.w, w.handle, o.id) /\ o.id \in Ids /\ Fits(env, o.w, o.id)
          /\ o.w.handle = w.handle /\ o.w \in States
      BY <1>4, <1>6 DEF OpensWell, Keeps, Sound
    <2>2. r \in HandleRecords /\ r.file = o.id
      BY <2>1 DEF HandleRecords
    <2>3. Given(o, h, mode) = t
      BY <1>6, <2>1 DEF Given, States
    <2> HIDE DEF r
    <2>4. Sound(env, o.w, hs, None)
      BY <1>2, <2>1, <2>2, GivenHolds
    <2> HIDE DEF hs
    <2>5. Sound(env, t, hs, None) /\ t.handle = hs
      BY <2>1, <2>4, HandlesSet DEF States
    <2>6. Becomes(t)
      BY <1>2, <2>3
    <2> HIDE DEF t
    <2>7. Sound(env, t, t.handle, None)
      BY <2>5
    <2> QED BY <2>6, <2>7, Kept
  <1> QED BY <1>5, <1>6

LEMMA CloseKept ==
  ASSUME IInv, NEW h \in 1..MaxHandles, CloseHandle(h)
  PROVE  IInv'
  <1> DEFINE i == w.handle[h].file
             hs == [w.handle EXCEPT ![h] = NoHandle]
             c == Close(w, i)
             t == [c EXCEPT !.handle = hs]
  <1>1. Sound(env, w, w.handle, None)
    BY DEF IInv
  <1>2. w.handle[h] # NoHandle /\ Becomes([c EXCEPT !.handle[h] = NoHandle])
    BY DEF CloseHandle
  <1>3. i \in Ids /\ Sound(env, w, hs, i)
    BY <1>1, <1>2, TakenHolds
  <1> HIDE DEF i
  <1>4. Sound(env, c, hs, None) /\ c.handle = w.handle
    BY <1>3, CloseHolds DEF Closes, Keeps
  <1> HIDE DEF c
  <1>5. c \in States
    BY <1>4 DEF Sound
  <1>6. [c EXCEPT !.handle[h] = NoHandle] = t
    BY <1>4, <1>5 DEF States
  <1> HIDE DEF hs
  <1>7. Sound(env, t, hs, None) /\ t.handle = hs
    BY <1>4, <1>5, HandlesSet DEF States
  <1>8. Becomes(t)
    BY <1>2, <1>6
  <1> HIDE DEF t
  <1>9. Sound(env, t, t.handle, None)
    BY <1>7
  <1> QED BY <1>8, <1>9, Kept

LEMMA ReadsWrites ==
  ASSUME IInv, NEW h \in 1..MaxHandles
  PROVE  (Read(h) => IInv') /\ (Write(h) => IInv')
  <1> DEFINE i == w.handle[h].file
  <1>1. Sound(env, w, w.handle, None) /\ w \in States
    BY DEF IInv, Sound
  <1>2. w.handle[h] # NoHandle => i \in Ids /\ Opens(w.handle, i)
    BY <1>1 DEF States, HandleMaps, HandleRecords, Opens
  <1>3. ASSUME Read(h) PROVE IInv'
    <2> DEFINE t == Fetch(w, i)
    <2>1. Becomes(t) /\ i \in Ids
      BY <1>2, <1>3 DEF Read
    <2> HIDE DEF i
    <2>2. Sound(env, t, w.handle, None) /\ t.handle = w.handle
      BY <1>1, <2>1, FetchHolds DEF SameMaps
    <2> HIDE DEF t
    <2>3. Sound(env, t, t.handle, None)
      BY <2>2
    <2> QED BY <2>1, <2>3, Kept
  <1>4. ASSUME Write(h) PROVE IInv'
    <2> DEFINE f == w.file[i]
               g == [f EXCEPT !.data = <<9>>, !.size = 1, !.altered = TRUE]
               b == [w EXCEPT !.file[i].data = <<9>>, !.file[i].size = 1, !.file[i].altered = TRUE]
               u == WriteTo(Resolve(w, i), i)
    <2>1. i \in Ids /\ Becomes(IF f.proto = "buffer" THEN b ELSE u)
      BY <1>2, <1>4 DEF Write
    <2> HIDE DEF i
    <2>2. CASE f.proto = "buffer"
      <3> DEFINE t == [w EXCEPT !.file[i] = g]
      <3>1. f \in FileRecords
        BY <1>1, <2>1 DEF States
      <3>2. b = t
        BY <1>1, <2>1 DEF States
      <3>3. <<9>> \in Seq(Nat) /\ 1 \in Int
        OBVIOUS
      <3>4. /\ g \in FileRecords /\ g.proto = f.proto /\ g.altered /\ g.name = f.name /\ g.url = f.url
            /\ g.handles = f.handles /\ g.listed = f.listed /\ g.uploads = f.uploads
            /\ g.upConfig = f.upConfig
        BY <3>1, <3>3 DEF FileRecords
      <3> HIDE DEF g
      <3>5. Sound(env, t, w.handle, None) /\ SameMaps(w, t)
        BY <1>1, <2>1, <2>2, <3>4, Buffered
      <3>6. Becomes(t)
        BY <2>1, <2>2, <3>2
      <3> HIDE DEF t
      <3>7. Sound(env, t, t.handle, None)
        BY <3>5 DEF SameMaps
      <3> QED BY <3>6, <3>7, Kept
    <2>3. CASE f.proto # "buffer"
      <3> DEFINE r == Resolve(w, i)
      <3>1. Sound(env, r, w.handle, None) /\ SameRegistry(w, r)
        <4>1. i \in Ids /\ Sound(env, w, w.handle, None)
          BY <1>1, <2>1
        <4> HIDE DEF f
        <4> QED BY <4>1, ResolveSound
      <3>2. Becomes(u)
        BY <2>1, <2>3
      <3>3. Uses(r, u) \/ u = Fail(w)
        BY DEF WriteTo, WriteInBrowser, WriteInNode, UseHandle, Uses
      <3> HIDE DEF r, u
      <3>4. Sound(env, u, w.handle, None) /\ u.handle = w.handle
        <4>1. CASE Uses(r, u)
          BY <3>1, <4>1, UsesStep DEF SameRegistry, SameMaps
        <4>2. CASE u = Fail(w)
          BY <1>1, <4>2, CaughtStep DEF SameRegistry, SameMaps
        <4> QED BY <3>3, <4>1, <4>2
      <3>5. Sound(env, u, u.handle, None)
        BY <3>4
      <3> QED BY <3>2, <3>5, Kept
    <2> QED BY <2>2, <2>3
  <1> QED BY <1>3, <1>4

\* moveFile of the registry changes names and URLs of files, and nothing else of them.
SameFile(f, g) ==
  /\ g.proto = f.proto /\ g.handles = f.handles /\ g.listed = f.listed /\ g.data = f.data
  /\ g.size = f.size /\ g.uploads = f.uploads /\ g.upConfig = f.upConfig /\ g.altered = f.altered

LEMMA UrlSet ==
  ASSUME NEW file \in [Ids -> FileRecords], NEW k \in Ids, NEW v \in Names
  PROVE  LET g == [file EXCEPT ![k].url = v]
         IN  /\ g \in [Ids -> FileRecords]
             /\ \A m \in Ids : /\ SameFile(file[m], g[m]) /\ g[m].name = file[m].name
                               /\ g[m].url = IF m = k THEN v ELSE file[m].url
  <1> DEFINE r == [file[k] EXCEPT !.url = v]
  <1>1. v \in Texts /\ file[k] \in FileRecords
    BY DEF Texts
  <1>2. r \in FileRecords
    BY <1>1 DEF FileRecords
  <1>3. SameFile(file[k], r) /\ r.name = file[k].name /\ r.url = v
    BY <1>1 DEF SameFile, FileRecords
  <1>4. [file EXCEPT ![k].url = v] = [file EXCEPT ![k] = r]
    OBVIOUS
  <1> HIDE DEF r
  <1>5. \A m \in Ids : SameFile(file[m], file[m])
    BY DEF SameFile
  <1> QED BY <1>2, <1>3, <1>4, <1>5

LEMMA NameSet ==
  ASSUME NEW file \in [Ids -> FileRecords], NEW k \in Ids, NEW v \in Names
  PROVE  LET g == [file EXCEPT ![k].name = v]
         IN  /\ g \in [Ids -> FileRecords]
             /\ \A m \in Ids : /\ SameFile(file[m], g[m]) /\ g[m].url = file[m].url
                               /\ g[m].name = IF m = k THEN v ELSE file[m].name
  <1> DEFINE r == [file[k] EXCEPT !.name = v]
  <1>1. v \in Texts /\ file[k] \in FileRecords
    BY DEF Texts
  <1>2. r \in FileRecords
    BY <1>1 DEF FileRecords
  <1>3. SameFile(file[k], r) /\ r.url = file[k].url /\ r.name = v
    BY <1>1 DEF SameFile, FileRecords
  <1>4. [file EXCEPT ![k].name = v] = [file EXCEPT ![k] = r]
    OBVIOUS
  <1> HIDE DEF r
  <1>5. \A m \in Ids : SameFile(file[m], file[m])
    BY DEF SameFile
  <1> QED BY <1>2, <1>3, <1>4, <1>5

\* The entry of one name goes to another, if that is free.
MovedTo(map, from, to, m) ==
  IF m = from THEN None ELSE IF m = to /\ map[to] = None THEN map[from] ELSE map[m]

LEMMA EntryMoved ==
  ASSUME NEW map \in Entries, NEW from \in Names, NEW to \in Names, from # to
  PROVE  /\ Relisted(map, from, to) \in Entries
         /\ \A m \in Names : Relisted(map, from, to)[m] = MovedTo(map, from, to, m)
         /\ map[from] = None => \A m \in Names : map[m] = MovedTo(map, from, to, m)
  <1>1. None \in 0..MaxFiles
    BY WebFilesAssumption DEF None
  <1>2. Relisted(map, from, to) \in Entries
    BY <1>1 DEF Entries, Relisted
  <1>3. \A m \in Names : Relisted(map, from, to)[m] = MovedTo(map, from, to, m)
    BY DEF Entries, Relisted, MovedTo
  <1>4. map[from] = None => \A m \in Names : map[m] = MovedTo(map, from, to, m)
    BY DEF MovedTo
  <1> QED BY <1>2, <1>3, <1>4

\* The rest of both sides.
Besides(s, t) ==
  /\ t.last = s.last /\ t.pin = s.pin /\ t.epoch = s.epoch /\ t.config = s.config
  /\ t.handle = s.handle /\ t.corrupt = s.corrupt /\ t.global = s.global
  /\ t.remote = s.remote /\ t.ok = s.ok /\ t.files = s.files /\ t.prepared = s.prepared
  /\ t.byId = s.byId /\ t.os = s.os /\ t.cache = s.cache /\ t.moved = s.moved

LEMMA UrlMoved ==
  ASSUME NEW s \in States, NEW from \in Names, NEW to \in Names, from # to
  PROVE  LET u == UrlTo(s, from, to)
         IN  /\ u \in States /\ Besides(s, u) /\ u.byName = s.byName /\ u.clashed = s.clashed
             /\ \A k \in Ids : /\ SameFile(s.file[k], u.file[k]) /\ u.file[k].name = s.file[k].name
                               /\ u.file[k].url = IF k = s.byUrl[from] THEN to ELSE s.file[k].url
             /\ \A m \in Names : u.byUrl[m] = MovedTo(s.byUrl, from, to, m)
  <1> DEFINE j == s.byUrl[from]
             u == UrlTo(s, from, to)
             f == [s.file EXCEPT ![j].url = to]
             g == Relisted(s.byUrl, from, to)
             v == [s EXCEPT !.file = f, !.byUrl = g]
  <1>1. /\ s.file \in [Ids -> FileRecords] /\ s.byUrl \in Entries /\ j \in 0..MaxFiles
        /\ \A k \in Ids : k # None
    BY DEF States, Entries, Ids, None
  <1>2. CASE j = None
    <2>1. \A k \in Ids : SameFile(s.file[k], s.file[k])
      BY DEF SameFile
    <2>2. Besides(s, s) /\ u = s
      BY <1>2 DEF Besides, UrlTo
    <2>3. \A m \in Names : s.byUrl[m] = MovedTo(s.byUrl, from, to, m)
      BY <1>1, <1>2, EntryMoved
    <2> HIDE DEF u
    <2> QED BY <1>1, <1>2, <2>1, <2>2, <2>3 DEF u
  <1>3. CASE j # None
    <2>1. j \in Ids
      BY <1>1, <1>3, WebFilesAssumption DEF Ids, None
    <2>2. u = v
      BY <1>3 DEF States, UrlTo
    <2>3. /\ f \in [Ids -> FileRecords]
          /\ \A k \in Ids : /\ SameFile(s.file[k], f[k]) /\ f[k].name = s.file[k].name
                            /\ f[k].url = IF k = j THEN to ELSE s.file[k].url
      BY <1>1, <2>1, UrlSet
    <2>4. g \in Entries /\ \A m \in Names : g[m] = MovedTo(s.byUrl, from, to, m)
      BY <1>1, EntryMoved
    <2> HIDE DEF f, g, u
    <2>5. /\ v \in States /\ v.file = f /\ v.byUrl = g /\ v.byName = s.byName
          /\ v.clashed = s.clashed /\ Besides(s, v)
      BY <2>3, <2>4 DEF States, Besides
    <2> HIDE DEF v
    <2> QED BY <2>2, <2>3, <2>4, <2>5 DEF u
  <1> QED BY <1>2, <1>3

\* The new name of a file is listed unless it is taken.
Clashed(s, from, to) == s.byName[from] # None /\ s.byName[to] # None

NamedOver(s, u, from, to) ==
  /\ u \in States /\ Besides(s, u) /\ u.byUrl = s.byUrl
  /\ u.clashed = IF Clashed(s, from, to) THEN s.clashed \cup {to} ELSE s.clashed
  /\ \A k \in Ids : /\ SameFile(s.file[k], u.file[k]) /\ u.file[k].url = s.file[k].url
                    /\ u.file[k].name = IF k = s.byName[from] THEN to ELSE s.file[k].name
  /\ \A m \in Names : u.byName[m] = MovedTo(s.byName, from, to, m)
LEMMA NameMoved ==
  ASSUME NEW s \in States, NEW from \in Names, NEW to \in Names, from # to
  PROVE  NamedOver(s, NameTo(s, from, to), from, to)
  <1> DEFINE i == s.byName[from]
             u == NameTo(s, from, to)
             f == [s.file EXCEPT ![i].name = to]
             g == Relisted(s.byName, from, to)
             c == IF s.byName[to] = None THEN s.clashed ELSE s.clashed \cup {to}
             v == [s EXCEPT !.file = f, !.byName = g, !.clashed = c]
  <1>1. /\ s.file \in [Ids -> FileRecords] /\ s.byName \in Entries /\ i \in 0..MaxFiles
        /\ \A k \in Ids : k # None
    BY DEF States, Entries, Ids, None
  <1>2. CASE i = None
    <2>1. \A k \in Ids : SameFile(s.file[k], s.file[k])
      BY DEF SameFile
    <2>2. Besides(s, s) /\ u = s /\ ~Clashed(s, from, to)
      BY <1>2 DEF Besides, NameTo, Clashed
    <2>3. \A m \in Names : s.byName[m] = MovedTo(s.byName, from, to, m)
      BY <1>1, <1>2, EntryMoved
    <2> HIDE DEF u
    <2> QED BY <1>1, <1>2, <2>1, <2>2, <2>3 DEF u, NamedOver
  <1>3. CASE i # None
    <2>1. i \in Ids
      BY <1>1, <1>3, WebFilesAssumption DEF Ids, None
    <2>2. u = v
      BY <1>3 DEF States, NameTo
    <2>3. /\ f \in [Ids -> FileRecords]
          /\ \A k \in Ids : /\ SameFile(s.file[k], f[k]) /\ f[k].url = s.file[k].url
                            /\ f[k].name = IF k = i THEN to ELSE s.file[k].name
      BY <1>1, <2>1, NameSet
    <2>4. g \in Entries /\ \A m \in Names : g[m] = MovedTo(s.byName, from, to, m)
      BY <1>1, EntryMoved
    <2>5. /\ c \in SUBSET Names
          /\ c = IF Clashed(s, from, to) THEN s.clashed \cup {to} ELSE s.clashed
      BY <1>3 DEF Clashed, States
    <2> HIDE DEF f, g, c, u
    <2>6. /\ v \in States /\ v.file = f /\ v.byName = g /\ v.byUrl = s.byUrl
          /\ v.clashed = c /\ Besides(s, v)
      BY <2>3, <2>4, <2>5 DEF States, Besides
    <2> HIDE DEF v
    <2> QED BY <2>2, <2>3, <2>4, <2>5, <2>6 DEF u, NamedOver
  <1> QED BY <1>2, <1>3

\* moveFile of the runtime: the new name gets the handle of the old one.
LEMMA RuntimeMoves ==
  ASSUME NEW s \in States, NEW from \in Names, NEW to \in Names
  PROVE  LET t == [RtMove(s, from, to) EXCEPT !.moved = @ \cup {from, to}]
         IN  /\ t \in States
             /\ t.file = s.file /\ t.byName = s.byName /\ t.byUrl = s.byUrl /\ t.last = s.last
             /\ t.pin = s.pin /\ t.epoch = s.epoch /\ t.config = s.config /\ t.handle = s.handle
             /\ t.corrupt = s.corrupt /\ t.global = s.global /\ t.remote = s.remote
             /\ t.os = s.os /\ t.byId = s.byId /\ t.prepared = s.prepared
             /\ t.moved = s.moved \cup {from, to} /\ t.clashed = s.clashed
             /\ \A k \in Ids : t.cache[k] \in {s.cache[k], NoInfo}
             /\ \A m \in Names : t.files[m] = IF m = to /\ s.files[from] # None THEN s.files[from]
                                              ELSE s.files[m]
  <1> DEFINE u == HandleMoved(s, from, to)
             v == InfoForgotten(u, from)
             t == [v EXCEPT !.moved = @ \cup {from, to}]
  <1>1. /\ u \in States
        /\ u.file = s.file /\ u.byName = s.byName /\ u.byUrl = s.byUrl /\ u.last = s.last
        /\ u.pin = s.pin /\ u.epoch = s.epoch /\ u.config = s.config /\ u.handle = s.handle
        /\ u.corrupt = s.corrupt /\ u.global = s.global /\ u.remote = s.remote
        /\ u.os = s.os /\ u.byId = s.byId /\ u.prepared = s.prepared /\ u.moved = s.moved
        /\ u.cache = s.cache /\ u.clashed = s.clashed
        /\ \A m \in Names : u.files[m] = IF m = to /\ s.files[from] # None THEN s.files[from]
                                         ELSE s.files[m]
    BY DEF HandleMoved, States
  <1> HIDE DEF u
  <1>2. \/ v = u
        \/ \E c \in Ids : v = [u EXCEPT !.cache[c] = NoInfo]
    <2> DEFINE infos == {c \in Ids : u.cache[c].url = from}
    <2>1. infos # {} => (CHOOSE c \in infos : TRUE) \in infos
      OBVIOUS
    <2>2. infos \subseteq Ids
      OBVIOUS
    <2>3. v = IF infos = {} THEN u ELSE [u EXCEPT !.cache[CHOOSE c \in infos : TRUE] = NoInfo]
      BY DEF InfoForgotten
    <2> HIDE DEF infos, v
    <2> QED BY <2>1, <2>2, <2>3
  <1> HIDE DEF v
  <1>3. /\ v \in States
        /\ v.file = u.file /\ v.byName = u.byName /\ v.byUrl = u.byUrl /\ v.last = u.last
        /\ v.pin = u.pin /\ v.epoch = u.epoch /\ v.config = u.config /\ v.handle = u.handle
        /\ v.corrupt = u.corrupt /\ v.global = u.global /\ v.remote = u.remote
        /\ v.os = u.os /\ v.byId = u.byId /\ v.prepared = u.prepared /\ v.moved = u.moved
        /\ v.files = u.files /\ v.clashed = u.clashed
        /\ \A k \in Ids : v.cache[k] \in {u.cache[k], NoInfo}
    <2>1. CASE v = u
      BY <1>1, <2>1
    <2>2. ASSUME NEW c \in Ids, v = [u EXCEPT !.cache[c] = NoInfo]
          PROVE  <1>3
      BY <1>1, <2>2, NoInfoType DEF States
    <2> QED BY <1>2, <2>1, <2>2
  <1>4. /\ t \in States
        /\ t.file = v.file /\ t.byName = v.byName /\ t.byUrl = v.byUrl /\ t.last = v.last
        /\ t.pin = v.pin /\ t.epoch = v.epoch /\ t.config = v.config /\ t.handle = v.handle
        /\ t.corrupt = v.corrupt /\ t.global = v.global /\ t.remote = v.remote
        /\ t.os = v.os /\ t.byId = v.byId /\ t.prepared = v.prepared
        /\ t.moved = v.moved \cup {from, to}
        /\ t.files = v.files /\ t.cache = v.cache /\ t.clashed = v.clashed
    BY <1>3 DEF States
  <1>5. [RtMove(s, from, to) EXCEPT !.moved = @ \cup {from, to}] = t
    BY DEF RtMove, u, v
  <1> HIDE DEF t
  <1>6. /\ t \in States
        /\ t.file = s.file /\ t.byName = s.byName /\ t.byUrl = s.byUrl /\ t.last = s.last
        /\ t.pin = s.pin /\ t.epoch = s.epoch /\ t.config = s.config /\ t.handle = s.handle
        /\ t.corrupt = s.corrupt /\ t.global = s.global /\ t.remote = s.remote
        /\ t.os = s.os /\ t.byId = s.byId /\ t.prepared = s.prepared
        /\ t.moved = s.moved \cup {from, to} /\ t.clashed = s.clashed
    BY <1>1, <1>3, <1>4
  <1>7. \A k \in Ids : t.cache[k] \in {s.cache[k], NoInfo}
    BY <1>1, <1>3, <1>4
  <1>8. \A m \in Names : t.files[m] = IF m = to /\ s.files[from] # None THEN s.files[from]
                                       ELSE s.files[m]
    BY <1>1, <1>3, <1>4
  <1> QED BY <1>5, <1>6, <1>7, <1>8

\* What moveFile does, on both sides.
Renamed(s, t, from, to) ==
  /\ t.last = s.last /\ t.pin = s.pin /\ t.epoch = s.epoch /\ t.config = s.config
  /\ t.handle = s.handle /\ t.corrupt = s.corrupt /\ t.global = s.global /\ t.remote = s.remote
  /\ t.os = s.os /\ t.byId = s.byId /\ t.prepared = s.prepared
  /\ t.moved = s.moved \cup {from, to}
  /\ t.clashed = IF Clashed(s, from, to) THEN s.clashed \cup {to} ELSE s.clashed
  /\ \A k \in Ids : /\ SameFile(s.file[k], t.file[k])
                    /\ t.file[k].name = IF k = s.byName[from] THEN to ELSE s.file[k].name
                    /\ t.file[k].url = IF k = s.byUrl[from] THEN to ELSE s.file[k].url
                    /\ t.cache[k] \in {s.cache[k], NoInfo}
  /\ \A m \in Names :
       /\ t.byName[m] = MovedTo(s.byName, from, to, m)
       /\ t.byUrl[m] = MovedTo(s.byUrl, from, to, m)
       /\ t.files[m] = IF m = to /\ s.files[from] # None THEN s.files[from] ELSE s.files[m]

LEMMA Renames ==
  ASSUME IInv, NEW from \in Names, NEW to \in Names, MoveFile(from, to)
  PROVE  \E t \in States : Becomes(t) /\ Renamed(w, t, from, to)
  <1> DEFINE u == UrlTo(w, from, to)
             n == NameTo(u, from, to)
             t == [RtMove(n, from, to) EXCEPT !.moved = @ \cup {from, to}]
  <1>1. from # to /\ Becomes(t) /\ w \in States
    BY DEF MoveFile, IInv, Sound
  <1>2. /\ u \in States /\ Besides(w, u) /\ u.byName = w.byName /\ u.clashed = w.clashed
        /\ \A k \in Ids : /\ SameFile(w.file[k], u.file[k]) /\ u.file[k].name = w.file[k].name
                          /\ u.file[k].url = IF k = w.byUrl[from] THEN to ELSE w.file[k].url
        /\ \A m \in Names : u.byUrl[m] = MovedTo(w.byUrl, from, to, m)
    BY <1>1, UrlMoved
  <1> HIDE DEF u
  <1>3. NamedOver(u, n, from, to)
    BY <1>1, <1>2, NameMoved
  <1> HIDE DEF n
  <1>4. /\ t \in States
        /\ t.file = n.file /\ t.byName = n.byName /\ t.byUrl = n.byUrl /\ t.last = n.last
        /\ t.pin = n.pin /\ t.epoch = n.epoch /\ t.config = n.config /\ t.handle = n.handle
        /\ t.corrupt = n.corrupt /\ t.global = n.global /\ t.remote = n.remote
        /\ t.os = n.os /\ t.byId = n.byId /\ t.prepared = n.prepared
        /\ t.moved = n.moved \cup {from, to} /\ t.clashed = n.clashed
        /\ \A k \in Ids : t.cache[k] \in {n.cache[k], NoInfo}
        /\ \A m \in Names : t.files[m] = IF m = to /\ n.files[from] # None THEN n.files[from]
                                         ELSE n.files[m]
    BY <1>3, RuntimeMoves DEF NamedOver
  <1> HIDE DEF t
  <1>5. /\ t.last = w.last /\ t.pin = w.pin /\ t.epoch = w.epoch /\ t.config = w.config
        /\ t.handle = w.handle /\ t.corrupt = w.corrupt /\ t.global = w.global
        /\ t.remote = w.remote /\ t.os = w.os /\ t.byId = w.byId /\ t.prepared = w.prepared
        /\ t.moved = w.moved \cup {from, to}
        /\ n.cache = w.cache /\ n.files = w.files
    BY <1>2, <1>3, <1>4 DEF Besides, NamedOver
  <1>6. t.clashed = IF Clashed(w, from, to) THEN w.clashed \cup {to} ELSE w.clashed
    BY <1>2, <1>3, <1>4 DEF Clashed, NamedOver
  <1>7. ASSUME NEW k \in Ids
        PROVE  /\ SameFile(w.file[k], t.file[k])
               /\ t.file[k].name = IF k = w.byName[from] THEN to ELSE w.file[k].name
               /\ t.file[k].url = IF k = w.byUrl[from] THEN to ELSE w.file[k].url
               /\ t.cache[k] \in {w.cache[k], NoInfo}
    <2>1. SameFile(w.file[k], u.file[k]) /\ SameFile(u.file[k], n.file[k])
      BY <1>2, <1>3 DEF NamedOver
    <2>2. SameFile(w.file[k], t.file[k])
      BY <1>4, <2>1 DEF SameFile
    <2> QED BY <1>2, <1>3, <1>4, <1>5, <2>2 DEF NamedOver
  <1>8. ASSUME NEW m \in Names
        PROVE  /\ t.byName[m] = MovedTo(w.byName, from, to, m)
               /\ t.byUrl[m] = MovedTo(w.byUrl, from, to, m)
               /\ t.files[m] = IF m = to /\ w.files[from] # None THEN w.files[from] ELSE w.files[m]
    BY <1>2, <1>3, <1>4, <1>5 DEF NamedOver
  <1>9. Renamed(w, t, from, to)
    BY <1>5, <1>6, <1>7, <1>8 DEF Renamed
  <1>10. Becomes(t) /\ t \in States
    BY <1>1, <1>4 DEF t
  <1> QED BY <1>9, <1>10

LEMMA RenamedRegistered ==
  ASSUME NEW s \in States, NEW t \in States, Registered(s), ~s.corrupt,
         NEW from \in Names, NEW to \in Names, from # to, Renamed(s, t, from, to)
  PROVE  Registered(t)
  <1> DEFINE i == s.byName[from]
             j == s.byUrl[from]
  <1>0. /\ s.byName \in Entries /\ s.byUrl \in Entries /\ s.pin \in Entries
        /\ s.last \in Nat /\ NoUrl \notin Names
        /\ \A k \in Ids : s.file[k].name \in Names \cup {NoUrl}
    BY WebFilesAssumption DEF States, FileRecords, Texts
  <1>1. /\ \A m \in Names : s.byName[m] # None => s.byName[m] \in Ids
        /\ \A m \in Names : s.byUrl[m] # None => s.byUrl[m] \in Ids
        /\ \A m \in Names : s.pin[m] # None => s.pin[m] \in Ids
        /\ \A k \in Ids : k # None
    <2>1. \A k \in 0..MaxFiles : k # None => k \in Ids
      BY WebFilesAssumption DEF Ids, None
    <2>2. \A k \in Ids : k # None
      BY WebFilesAssumption DEF Ids, None
    <2> QED BY <1>0, <2>1, <2>2 DEF Entries
  <1>2. i # None => i \in Ids /\ s.file[i].listed /\ s.file[i].name = from
    BY <1>1 DEF Registered, Named
  <1>3. j # None => j \in Ids /\ s.file[j].url = from
    BY <1>1 DEF Registered
  <1>4. /\ \A k \in Ids : /\ t.file[k].listed = s.file[k].listed /\ t.file[k].proto = s.file[k].proto
                          /\ t.file[k].name = IF k = i THEN to ELSE s.file[k].name
                          /\ t.file[k].url = IF k = j THEN to ELSE s.file[k].url
        /\ \A m \in Names :
             /\ t.byName[m] = IF m = from THEN None
                              ELSE IF m = to /\ s.byName[to] = None THEN i ELSE s.byName[m]
             /\ t.byUrl[m] = IF m = from THEN None
                             ELSE IF m = to /\ s.byUrl[to] = None THEN j ELSE s.byUrl[m]
        /\ t.last = s.last /\ t.pin = s.pin /\ t.corrupt = s.corrupt
        /\ t.moved = s.moved \cup {from, to}
    BY DEF Renamed, SameFile, MovedTo
  <1>5. /\ i <= s.last /\ \A m \in Names : s.byName[m] <= s.last
        /\ \A k \in Ids : s.file[k].listed => s.file[k].name # NoUrl
        /\ \A k \in Ids : k > s.last => s.file[k].proto = "none"
        /\ \A m \in Names : s.byUrl[m] # None => s.file[s.byUrl[m]].url = m
        /\ \A m \in Names : s.pin[m] # None =>
             s.file[s.pin[m]].name = m \/ s.file[s.pin[m]].name \in s.moved
        /\ \A m \in Names : s.byName[m] # None =>
             s.file[s.byName[m]].listed /\ s.file[s.byName[m]].name = m
        /\ \A k \in Ids : s.file[k].listed /\ s.file[k].name \notin s.clashed =>
             s.byName[s.file[k].name] = k
    BY DEF Registered, Named, Directories
  <1>6. /\ t.clashed \subseteq t.moved /\ s.clashed \subseteq t.clashed
        /\ i # None /\ s.byName[to] # None => to \in t.clashed
    <2>1. /\ t.clashed = IF Clashed(s, from, to) THEN s.clashed \cup {to} ELSE s.clashed
          /\ t.moved = s.moved \cup {from, to} /\ s.clashed \subseteq s.moved
      BY DEF Renamed, Registered
    <2> QED BY <2>1 DEF Clashed
  <1> HIDE DEF i, j
  <1>7. \A k \in Ids : t.file[k].listed => t.file[k].name # NoUrl
    BY <1>0, <1>4, <1>5
  <1>8. \A k \in Ids : k > t.last => t.file[k].proto = "none"
    BY <1>4, <1>5
  <1>9. \A m \in Names : t.byName[m] <= t.last
    BY <1>0, <1>4, <1>5 DEF None
  <1>10. ASSUME NEW m \in Names, t.byUrl[m] # None
         PROVE  t.file[t.byUrl[m]].url = m
    <2>1. CASE m = to /\ s.byUrl[to] = None
      BY <1>3, <1>4, <1>10, <2>1
    <2>2. CASE ~(m = to /\ s.byUrl[to] = None)
      <3>1. m # from /\ t.byUrl[m] = s.byUrl[m]
        BY <1>4, <1>10, <2>2
      <3>2. s.byUrl[m] \in Ids /\ s.file[s.byUrl[m]].url = m
        BY <1>1, <1>5, <1>10, <3>1
      <3>3. s.byUrl[m] # j
        BY <1>1, <1>3, <3>1, <3>2
      <3> QED BY <1>4, <3>1, <3>2, <3>3
    <2> QED BY <2>1, <2>2
  <1>11. ASSUME NEW m \in Names, t.pin[m] # None
         PROVE  t.file[t.pin[m]].name = m \/ t.file[t.pin[m]].name \in t.moved
    BY <1>1, <1>4, <1>5, <1>11
  <1>12. ASSUME NEW m \in Names, t.byName[m] # None
         PROVE  t.file[t.byName[m]].listed /\ t.file[t.byName[m]].name = m
    <2>1. CASE m = to /\ s.byName[to] = None
      BY <1>2, <1>4, <1>12, <2>1
    <2>2. CASE ~(m = to /\ s.byName[to] = None)
      <3>1. m # from /\ t.byName[m] = s.byName[m]
        BY <1>4, <1>12, <2>2
      <3>2. s.byName[m] \in Ids /\ s.file[s.byName[m]].listed /\ s.file[s.byName[m]].name = m
        BY <1>1, <1>5, <1>12, <3>1
      <3>3. s.byName[m] # i
        BY <1>1, <1>2, <3>1, <3>2
      <3> QED BY <1>4, <3>1, <3>2, <3>3
    <2> QED BY <2>1, <2>2
  <1>13. ASSUME NEW k \in Ids, t.file[k].listed, t.file[k].name \notin t.clashed
         PROVE  t.byName[t.file[k].name] = k
    <2>1. CASE k = i
      <3>1. t.file[k].name = to /\ s.byName[to] = None
        BY <1>1, <1>4, <1>6, <1>13, <2>1
      <3> QED BY <1>4, <2>1, <3>1
    <2>2. CASE k # i
      <3>1. t.file[k].name = s.file[k].name /\ s.file[k].listed /\ s.file[k].name \notin s.clashed
        BY <1>4, <1>6, <1>13, <2>2
      <3>2. s.file[k].name \in Names /\ s.byName[s.file[k].name] = k
        BY <1>0, <1>5, <3>1
      <3>3. s.file[k].name # from
        BY <2>2, <3>2 DEF i
      <3>4. s.byName[s.file[k].name] # None
        BY <1>1, <3>2
      <3>5. t.byName[s.file[k].name] = s.byName[s.file[k].name]
        BY <1>4, <3>2, <3>3, <3>4
      <3> QED BY <3>1, <3>2, <3>5
    <2> QED BY <2>1, <2>2
  <1> QED BY <1>6, <1>7, <1>8, <1>9, <1>10, <1>11, <1>12, <1>13 DEF Registered, Named, Directories

LEMMA RenamedProtocolled ==
  ASSUME NEW e, NEW s \in States, NEW t \in States, Registered(s), Protocolled(e, s),
         NEW from \in Names, NEW to \in Names, Kind[from] = Kind[to], Renamed(s, t, from, to)
  PROVE  Protocolled(e, t)
  <1>1. SUFFICES ASSUME NEW k \in Ids
                 PROVE  FollowsUrl(e, t.file[k]) /\ Loaded(t.file[k], t.remote)
    BY DEF Protocolled
  <1> DEFINE f == s.file[k]
             g == t.file[k]
  <1>2. FollowsUrl(e, f) /\ Loaded(f, s.remote) /\ t.remote = s.remote
    BY DEF Protocolled, Renamed
  <1>3. SameFile(f, g)
    BY DEF Renamed
  <1>4. NoUrl \notin Names /\ k # None
    BY WebFilesAssumption DEF Ids, None
  <1>5. g.url = f.url \/ (f.url = from /\ g.url = to)
    BY <1>4 DEF Renamed, Registered
  <1>6. g.name = f.name \/ f.listed
    BY <1>4 DEF Renamed, Registered, Named
  <1>7. Proto(e, from) = Proto(e, to)
    BY DEF Proto
  <1>8. /\ IsRemote(g) = IsRemote(f) /\ (f.url # NoUrl <=> g.url # NoUrl)
        /\ f.url # NoUrl => Proto(e, g.url) = Proto(e, f.url)
    BY <1>4, <1>5, <1>7 DEF IsRemote
  <1>9. f.proto = "none" => g.name = f.name /\ g.url = f.url
    BY <1>2, <1>4, <1>5, <1>6 DEF FollowsUrl, Idle
  <1> HIDE DEF f, g
  <1>10. FollowsUrl(e, g)
    BY <1>2, <1>3, <1>8, <1>9 DEF FollowsUrl, Idle, SameFile
  <1>11. Loaded(g, t.remote)
    BY <1>2, <1>3, <1>8 DEF Loaded, Exact, SameFile
  <1> QED BY <1>10, <1>11 DEF g

LEMMA RenamedRuns ==
  ASSUME NEW e, NEW s \in States, NEW t \in States, Runs(e, s),
         NEW from \in Names, NEW to \in Names, Renamed(s, t, from, to)
  PROVE  Runs(e, t)
  <1>1. /\ t.os = s.os /\ t.byId = s.byId /\ t.prepared = s.prepared
        /\ t.moved = s.moved \cup {from, to}
        /\ \A m \in Names : t.files[m] = IF m = to /\ s.files[from] # None THEN s.files[from]
                                         ELSE s.files[m]
    BY DEF Renamed
  <1>2. ASSUME e.runtime = "browser" PROVE InBrowser(t)
    <2>1. InBrowser(s)
      BY <1>2 DEF Runs
    <2>2. \A k \in Ids : t.byId[k] = None
      BY <1>1, <2>1 DEF InBrowser
    <2>3. ASSUME NEW m \in Names, t.files[m] # None
          PROVE  /\ t.files[m] \in DOMAIN t.os /\ PathFits(t, m, t.os[t.files[m]].path)
                 /\ m \in t.moved \/ t.os[t.files[m]].open
      <3>1. CASE m = to /\ s.files[from] # None
        BY <1>1, <2>1, <3>1 DEF InBrowser, PathFits
      <3>2. CASE ~(m = to /\ s.files[from] # None)
        BY <1>1, <2>1, <2>3, <3>2 DEF InBrowser, PathFits
      <3> QED BY <3>1, <3>2
    <2>4. ASSUME NEW m \in Names, t.prepared[m] # None
          PROVE  /\ t.prepared[m] \in DOMAIN t.os
                 /\ t.os[t.prepared[m]].open /\ t.os[t.prepared[m]].path = m
                 /\ t.os[t.prepared[m]].kind = "access"
                 /\ \A a \in Names : t.files[a] # t.prepared[m]
      BY <1>1, <2>1, <2>4 DEF InBrowser
    <2>5. ASSUME NEW k \in DOMAIN t.os, t.os[k].open, t.os[k].kind = "access"
          PROVE  /\ t.os[k].path \in Names /\ Kind[t.os[k].path] = "opfs"
                 /\ t.os[k].path \in t.moved \/ t.files[t.os[k].path] = k \/ t.prepared[t.os[k].path] = k
      BY <1>1, <2>1, <2>5 DEF InBrowser
    <2> QED BY <2>2, <2>3, <2>4, <2>5 DEF InBrowser
  <1>3. ASSUME e.runtime # "browser" PROVE InNode(t)
    BY <1>1, <1>3 DEF Runs, InNode
  <1> QED BY <1>2, <1>3 DEF Runs

LEMMA MoveKept ==
  ASSUME IInv, NEW from \in Names, NEW to \in Names, MoveFile(from, to)
  PROVE  IInv'
  <1>1. PICK t \in States : Becomes(t) /\ Renamed(w, t, from, to)
    BY Renames
  <1>2. /\ ~w.corrupt /\ from # to /\ Kind[from] = Kind[to]
        /\ \A h \in 1..MaxHandles : w.handle[h] = NoHandle \/
             w.handle[h].file \notin {w.byName[from], w.byUrl[from]}
    BY DEF MoveFile
  <1>3. Sound(env, w, w.handle, None) /\ w \in States
    BY DEF IInv, Sound
  <1>4. t.handle = w.handle /\ t.handle \in HandleMaps
    BY <1>1 DEF Renamed, States
  <1>5. Counted(t, t.handle, None)
    BY <1>1, <1>3, <1>4 DEF Sound, Counted, Renamed, SameFile
  <1>6. Registered(t)
    BY <1>1, <1>2, <1>3, RenamedRegistered DEF Sound
  <1>7. Protocolled(env, t)
    BY <1>1, <1>2, <1>3, RenamedProtocolled DEF Sound
  <1>8. Timed(t)
    <2>1. NoInfo.epoch = 0 /\ w.epoch \in Nat
      BY <1>3 DEF NoInfo, States
    <2>2. \A k \in Ids : t.cache[k].epoch <= w.epoch
      <3>1. \A k \in Ids : w.cache[k].epoch <= w.epoch
        BY <1>3 DEF Sound, Timed
      <3>2. \A k \in Ids : t.cache[k] = w.cache[k] \/ t.cache[k] = NoInfo
        BY <1>1 DEF Renamed
      <3> QED BY <2>1, <3>1, <3>2
    <2> QED BY <1>1, <1>3, <2>2 DEF Sound, Timed, Renamed
  <1>9. Runs(env, t)
    BY <1>1, <1>2, <1>3, RenamedRuns DEF Sound
  <1>10. Held(env, t, t.handle)
    <2> SUFFICES ASSUME NEW i \in Ids, Opens(w.handle, i) PROVE Fits(env, t, i)
      BY <1>4 DEF Held
    <2>1. i # w.byName[from] /\ i # w.byUrl[from]
      BY <1>2 DEF Opens, NoHandle, Ids, None
    <2>2. Fits(env, w, i) /\ w.file[i] \in FileRecords /\ t.file[i] \in FileRecords
      BY <1>3 DEF Sound, Held, States
    <2>3. t.file[i] = w.file[i]
      <3>1. /\ SameFile(w.file[i], t.file[i]) /\ t.file[i].name = w.file[i].name
            /\ t.file[i].url = w.file[i].url
        BY <1>1, <2>1 DEF Renamed
      <3> DEFINE f == w.file[i]
                 g == t.file[i]
      <3>2. f \in FileRecords /\ g \in FileRecords /\ SameFile(f, g) /\ g.name = f.name /\ g.url = f.url
        BY <2>2, <3>1
      <3> HIDE DEF f, g
      <3>3. f = [name |-> f.name, url |-> f.url, proto |-> f.proto, handles |-> f.handles,
                 listed |-> f.listed, data |-> f.data, size |-> f.size, uploads |-> f.uploads,
                 upConfig |-> f.upConfig, altered |-> f.altered]
        BY <3>2 DEF FileRecords
      <3>4. g = [name |-> g.name, url |-> g.url, proto |-> g.proto, handles |-> g.handles,
                 listed |-> g.listed, data |-> g.data, size |-> g.size, uploads |-> g.uploads,
                 upConfig |-> g.upConfig, altered |-> g.altered]
        BY <3>2 DEF FileRecords
      <3>5. g = f
        BY <3>2, <3>3, <3>4, Zenon DEF SameFile
      <3> QED BY <3>5 DEF f, g
    <2>4. /\ t.cache[i] \in {w.cache[i], NoInfo} /\ t.remote = w.remote /\ t.epoch = w.epoch
          /\ t.config = w.config /\ t.byId = w.byId /\ t.os = w.os /\ t.corrupt = w.corrupt
          /\ w.clashed \subseteq t.clashed
      BY <1>1 DEF Renamed
    <2>5. \A m \in Names : w.files[m] # None => t.files[m] # None
      BY <1>1 DEF Renamed
    <2>6. w.file[i].listed => w.file[i].name \in Names
      BY <1>3 DEF Sound, Registered, States, FileRecords, Texts
    <2>7. HasHandle(env, t, i)
      BY <2>2, <2>3, <2>4, <2>5, <2>6 DEF Fits, HasHandle
    <2> QED BY <2>2, <2>3, <2>4, <2>7 DEF Fits, CacheFits
  <1>11. Sound(env, t, t.handle, None)
    BY <1>3, <1>4, <1>5, <1>6, <1>7, <1>8, <1>9, <1>10 DEF Sound
  <1> QED BY <1>1, <1>11, Kept

LEMMA InitHolds == Init => IInv
  <1> SUFFICES ASSUME Init PROVE IInv
    OBVIOUS
  <1>1. /\ env \in Envs /\ NoInfo \in InfoRecords /\ NoFile \in FileRecords
        /\ NoUrl \notin Names /\ RemoteBytes \in Seq(Nat) /\ 1 \in 1..Configs /\ 0 \in 0..MaxFiles
    <2>1. env \in Envs
      BY WebFilesAssumption DEF Init, Envs
    <2>2. <<>> \in Seq(Nat) /\ 0 \in 0..Configs /\ 1 \in 1..Configs /\ 0 \in 0..MaxFiles
      BY WebFilesAssumption
    <2>3. NoFile \in FileRecords
      BY <2>2 DEF NoFile, FileRecords, Texts, Protocols, None
    <2> QED BY <2>1, <2>2, <2>3, NoInfoType, WebFilesAssumption
  <1>2. /\ w.file = [i \in Ids |-> NoFile] /\ w.last = 0
        /\ w.byName = [n \in Names |-> None] /\ w.byUrl = [n \in Names |-> None]
        /\ w.pin = [n \in Names |-> None] /\ w.files = [n \in Names |-> None]
        /\ w.prepared = [n \in Names |-> None] /\ w.byId = [i \in Ids |-> None]
        /\ w.handle = [h \in 1..MaxHandles |-> NoHandle]
        /\ w.cache = [i \in Ids |-> NoInfo] /\ w.global = NoInfo /\ w.os = <<>>
        /\ w.epoch = 1 /\ w.config = 1 /\ w.remote = RemoteBytes /\ w.clashed = {}
    BY DEF Init
  <1>3. w \in States
    <2>1. <<>> \in Seq(OsRecords)
      OBVIOUS
    <2>2. w.handle \in HandleMaps /\ w.byName \in Entries /\ w.byUrl \in Entries /\ w.pin \in Entries
      BY <1>1, <1>2 DEF HandleMaps, Entries, None
    <2>3. /\ w.file \in [Ids -> FileRecords] /\ w.cache \in [Ids -> InfoRecords]
          /\ w.files \in [Names -> Nat] /\ w.prepared \in [Names -> Nat] /\ w.byId \in [Ids -> Nat]
      BY <1>1, <1>2 DEF None
    <2>4. /\ w.last \in 0..MaxFiles /\ w.epoch \in Nat \ {0} /\ w.config \in 1..Configs
          /\ w.global \in InfoRecords /\ w.remote \in Seq(Nat) /\ w.os \in Seq(OsRecords)
      BY <1>1, <1>2, <2>1
    <2>5. /\ w = [file |-> w.file, last |-> w.last, byName |-> w.byName, byUrl |-> w.byUrl,
                  epoch |-> w.epoch, config |-> w.config, pin |-> w.pin, handle |-> w.handle,
                  cache |-> w.cache, global |-> w.global, files |-> w.files,
                  prepared |-> w.prepared, byId |-> w.byId, os |-> w.os, remote |-> w.remote,
                  ok |-> w.ok, corrupt |-> w.corrupt, moved |-> w.moved, clashed |-> w.clashed]
          /\ w.ok = TRUE /\ w.corrupt = FALSE /\ w.moved = {} /\ w.clashed = {}
      BY DEF Init
    <2> QED BY <2>2, <2>3, <2>4, <2>5 DEF States
  <1>4. Counted(w, w.handle, None)
    <2>1. ASSUME NEW i \in Ids PROVE Users(w.pin, w.handle, i) = 0
      <3>1. i # None
        BY DEF Ids, None
      <3>2. /\ {h \in 1..MaxHandles : w.handle[h].file = i} = {}
            /\ {n \in Names : w.pin[n] = i} = {}
        BY <1>2, <3>1 DEF NoHandle
      <3>3. IsFiniteSet({}) /\ Cardinality({}) = 0
        BY FS_EmptySet
      <3>4. Users(w.pin, w.handle, i) = 0 + 0
        BY <3>2, <3>3 DEF Users
      <3> QED BY <3>4
    <2>2. \A i \in Ids : w.file[i].handles = 0 /\ i # None
      BY <1>2 DEF NoFile, Ids, None
    <2>3. \A i \in Ids : Users(w.pin, w.handle, i) + (IF i = None THEN 1 ELSE 0) = 0
      BY <2>1, <2>2
    <2> QED BY <2>2, <2>3 DEF Counted
  <1>5. Registered(w)
    BY <1>2 DEF Registered, Named, Directories, NoFile, None
  <1>6. Protocolled(env, w)
    BY <1>2 DEF Protocolled, FollowsUrl, Loaded, Idle, NoFile
  <1>7. Timed(w)
    BY <1>2 DEF Timed, NoInfo
  <1>8. Runs(env, w)
    BY <1>2 DEF Runs, InBrowser, InNode
  <1>9. Held(env, w, w.handle)
    BY <1>2 DEF Held, Opens, NoHandle, Ids, None
  <1>10. w.handle \in HandleMaps
    BY <1>3 DEF States
  <1> QED BY <1>1, <1>3, <1>4, <1>5, <1>6, <1>7, <1>8, <1>9, <1>10 DEF IInv, Sound

LEMMA NextHolds == IInv /\ [Next]_vars => IInv'
  <1> SUFFICES ASSUME IInv, [Next]_vars PROVE IInv'
    OBVIOUS
  <1>1. Used \subseteq Names /\ \A a \in Aliases : a[1] \in Names /\ a[2] \in Names
    BY WebFilesAssumption DEF IInv, Sound, States, Used
  <1>2. CASE \E alias \in Aliases : RegisterFileURL(alias[1], alias[2])
    BY <1>1, <1>2, Registers
  <1>3. CASE \E n \in Used : RegisterFileBuffer(n)
    BY <1>1, <1>3, Registers
  <1>4. CASE \/ \E n \in Used : RegisterFileHandle(n)
             \/ \E n \in Used, empty \in BOOLEAN : PrepareFileHandle(n, empty)
    BY <1>1, <1>4, RegistersHandles
  <1>5. CASE (\E n \in Used : DropFile(n)) \/ DropFiles
    BY <1>1, <1>5, Drops
  <1>6. CASE SetConfig \/ \E n \in Used : FileExists(n)
    BY <1>1, <1>6, Configures
  <1>7. CASE \E n \in Used : CopyFileToBuffer(n)
    BY <1>1, <1>7, Copies
  <1>8. CASE \E n, m \in Names : MoveFile(n, m)
    BY <1>8, MoveKept
  <1>9. CASE \E h \in 1..MaxHandles, n \in Used, mode \in Modes : Open(h, n, mode)
    BY <1>1, <1>9, OpenKept
  <1>10. CASE \E h \in 1..MaxHandles : CloseHandle(h)
    BY <1>10, CloseKept
  <1>11. CASE \E h \in 1..MaxHandles : Read(h) \/ Write(h)
    BY <1>11, ReadsWrites
  <1>12. CASE UNCHANGED vars
    <2>1. w' = w /\ env' = env
      BY <1>12 DEF vars
    <2> QED BY <2>1 DEF IInv
  <1> QED BY <1>2, <1>3, <1>4, <1>5, <1>6, <1>7, <1>8, <1>9, <1>10, <1>11, <1>12 DEF Next

\* The two sides of the filesystem agree with each other in every state (WebFileSystem,
\* BROWSER_RUNTIME and NODE_RUNTIME).
THEOREM FilesAgree == Spec => []IInv
  BY InitHolds, NextHolds, PTL DEF Spec

-----------------------------------------------------------------------------
(* What follows                                                             *)

\* The maps of the registry and of the runtime lead to files and handles that exist, and the
\* handle counts are those of the pins and of DuckDB (web_filesystem.h, WebFileHandle;
\* webdb.cc, pinned_web_files_).
THEOREM FilesTyped == Spec => []TypeOK
  <1>1. IInv => TypeOK
    <2> SUFFICES ASSUME IInv PROVE TypeOK
      OBVIOUS
    <2>1. /\ w \in States /\ Counted(w, w.handle, None) /\ Registered(w) /\ Protocolled(env, w)
          /\ Runs(env, w) /\ NoUrl \notin Names
      BY WebFilesAssumption DEF IInv, Sound
    <2>2. w.epoch \in Nat /\ w.config \in 1..Configs /\ w.last \in 0..MaxFiles
      BY <2>1 DEF States
    <2>3. ASSUME NEW i \in Ids
          PROVE  /\ w.file[i].handles \in Nat
                 /\ w.file[i].listed => w.file[i].name \in Names
                 /\ w.byId[i] \in {None} \cup DOMAIN w.os
      <3>1. w.file[i] \in FileRecords
        BY <2>1 DEF States
      <3>2. w.byId[i] \in {None} \cup DOMAIN w.os
        BY <2>1 DEF Runs, InBrowser, InNode
      <3> QED BY <2>1, <3>1, <3>2 DEF FileRecords, Texts, Registered
    <2>4. ASSUME NEW n \in Names
          PROVE  /\ w.files[n] \in {None} \cup DOMAIN w.os
                 /\ w.prepared[n] \in {None} \cup DOMAIN w.os
                 /\ w.byName[n] \in 0..w.last /\ w.pin[n] \in 0..w.last
      <3>1. w.files[n] \in {None} \cup DOMAIN w.os /\ w.prepared[n] \in {None} \cup DOMAIN w.os
        BY <2>1 DEF Runs, InBrowser, InNode
      <3>2. w.byName[n] \in 0..MaxFiles /\ w.pin[n] \in 0..MaxFiles /\ w.last \in 0..MaxFiles
        BY <2>1 DEF States, Entries
      <3>3. w.byName[n] <= w.last
        BY <2>1 DEF Registered
      <3>4. w.pin[n] <= w.last
        <4>1. CASE w.pin[n] = None
          BY <3>2, <4>1 DEF None
        <4>2. CASE w.pin[n] # None
          <5>1. w.pin[n] \in Ids
            BY <3>2, <4>2 DEF Ids, None
          <5>2. w.file[w.pin[n]].name # NoUrl
            BY <2>1, <4>2 DEF Registered, States
          <5>3. w.file[w.pin[n]].proto # "none"
            BY <2>1, <5>1, <5>2 DEF Protocolled, FollowsUrl, Idle
          <5>4. ~(w.pin[n] > w.last)
            BY <2>1, <5>1, <5>3 DEF Registered
          <5> QED BY <3>2, <5>4
        <4> QED BY <4>1, <4>2
      <3> QED BY <3>1, <3>2, <3>3, <3>4
    <2>5. ASSUME NEW i \in 1..w.last
          PROVE  w.file[i].handles = Cardinality({h \in 1..MaxHandles : w.handle[h].file = i})
                                       + Cardinality({n \in Names : w.pin[n] = i})
      <3>1. i \in Ids /\ i # None
        BY <2>2, WebFilesAssumption DEF Ids, None
      <3>2. Users(w.pin, w.handle, i) \in Nat
        BY <2>1, UsersType DEF States
      <3>3. w.file[i].handles = Users(w.pin, w.handle, i)
        BY <2>1, <3>1, <3>2 DEF Counted
      <3> QED BY <3>3 DEF Users
    <2> QED BY <2>2, <2>3, <2>4, <2>5 DEF TypeOK
  <1> QED BY <1>1, FilesAgree, PTL

\* The five functions that erase a file from the directories and the four that insert one
\* leave the directories by name and by id with the same files (web_filesystem.cc).
THEOREM DirectoriesStayTogether == Spec => []DirectoriesAgree
  <1>1. IInv => DirectoriesAgree
    BY DEF IInv, Sound, Registered, Named, Directories, DirectoriesAgree
  <1> QED BY <1>1, FilesAgree, PTL

\* What is true of the file of a handle that DuckDB has.
LEMMA OpenFileFits ==
  ASSUME IInv, NEW h \in 1..MaxHandles, w.handle[h] # NoHandle
  PROVE  w.handle[h].file \in Ids /\ Fits(env, w, w.handle[h].file)
  <1>1. w.handle[h] \in HandleRecords
    BY DEF IInv, Sound, HandleMaps
  <1> QED BY <1>1 DEF IInv, Sound, Held, Opens, HandleRecords

\* A range of a file that is there, as readFile returns it.
LEMMA RangeIsExact ==
  ASSUME NEW server, server.get \in {"partial", "full", "denied"},
         NEW file \in Seq(Nat), NEW at \in Nat, NEW n \in Nat \ {0}, at + n <= Len(file)
  PROVE  ReadRange(server, file, at, n) \in {SubSeq(file, at + 1, at + n), Threw}
  <1> DEFINE get == Get(server, file, at, at + n - 1)
             b == SubSeq(file, at + 1, at + n)
  <1>1. Len(file) \in Nat /\ Len(file) # 0 /\ file # Absent /\ Len(file) >= n
    BY DEF Absent
  <1>2. Upto(file, at + n - 1) = at + n /\ Upto(file, n - 1) = n
    BY <1>1 DEF Upto
  <1>3. Len(b) = n /\ b # <<>> /\ b \in Seq(Nat) /\ SubSeq(b, 1, n) = b
    <2>1. b \in Seq(Nat) /\ Len(b) = n
      BY <1>1, SubSeqProperties
    <2> HIDE DEF b
    <2> QED BY <2>1, SubSeqProperties
  <1>0. ReadRange(server, file, at, n) =
          CASE get.status = 206 \/ (get.status = 200 /\ n = Len(get.body) /\ at = 0) ->
                 SubSeq(get.body, 1, Upto(get.body, n - 1))
            [] get.status = 200 /\ at <= Len(get.body) ->
                 SubSeq(get.body, at + 1, Upto(get.body, at + n - 1))
            [] OTHER -> Threw
    BY DEF ReadRange
  <1>4. CASE server.get = "partial"
    <2>1. get = Response("partial", server, file, b)
      BY <1>2, <1>4 DEF Get
    <2> HIDE DEF b, get
    <2>2. get.body = b /\ get.status = 206
      BY <1>1, <1>3, <2>1 DEF Response
    <2>3. Upto(get.body, n - 1) = n
      BY <1>3, <2>2 DEF Upto
    <2>4. ReadRange(server, file, at, n) = SubSeq(get.body, 1, n)
      BY <1>0, <2>2, <2>3
    <2>5. ReadRange(server, file, at, n) = b
      BY <1>3, <2>2, <2>4
    <2> QED BY <2>5 DEF b
  <1>5. CASE server.get = "full"
    <2>1. get = Response("full", server, file, file)
      BY <1>5 DEF Get
    <2> HIDE DEF get
    <2>2. get.body = file /\ get.status = 200
      BY <1>1, <2>1 DEF Response
    <2>3. at <= Len(file)
      BY <1>1
    <2>4. SubSeq(get.body, at + 1, Upto(get.body, at + n - 1)) = b
      BY <1>2, <2>2
    <2>5. CASE at = 0 /\ n = Len(file)
      <3>1. SubSeq(get.body, 1, Upto(get.body, n - 1)) = b
        BY <1>2, <2>2, <2>5
      <3> HIDE DEF b
      <3>2. ReadRange(server, file, at, n) = b
        BY <1>0, <2>2, <2>3, <2>4, <2>5, <3>1
      <3> QED BY <3>2 DEF b
    <2>6. CASE ~(at = 0 /\ n = Len(file))
      <3> HIDE DEF b
      <3>1. ReadRange(server, file, at, n) = b
        BY <1>0, <2>2, <2>3, <2>4, <2>6
      <3> QED BY <3>1 DEF b
    <2> QED BY <2>5, <2>6
  <1>6. CASE server.get = "denied"
    <2>1. get = Response("denied", server, file, file)
      BY <1>6 DEF Get
    <2> HIDE DEF get
    <2>2. get.status = 403
      BY <1>1, <2>1 DEF Response
    <2>3. ReadRange(server, file, at, n) = Threw
      BY <1>0, <2>2
    <2> QED BY <2>3
  <1> QED BY <1>4, <1>5, <1>6

\* For every server whose refusals have no length: the size of a file that DuckDB has open is
\* the real one, and a read returns the bytes that were asked for or fails, whether the file
\* was taken over whole or is read in ranges (runtime_browser.ts, openFile and readFile).
THEOREM ServersAreReadExactly ==
  ASSUME Honest
  PROVE  Spec => []ReadsAreExact
  <1>1. IInv => ReadsAreExact
    <2> SUFFICES ASSUME IInv, NEW h \in 1..MaxHandles, FromServer(h)
                 PROVE  LET i == w.handle[h].file
                        IN  /\ w.file[i].size = Len(w.remote)
                            /\ \A at \in 0..Len(w.remote) - 1, n \in 1..Len(w.remote) :
                                 at + n <= Len(w.remote) =>
                                   BytesOf(w, i, at, n) \in {SubSeq(w.remote, at + 1, at + n), Threw}
      BY DEF ReadsAreExact
    <2> DEFINE i == w.handle[h].file
               f == w.file[i]
               file == w.remote
    <2>1. i \in Ids /\ Exact(f, file) /\ IsRemote(f) /\ ~f.altered
      BY OpenFileFits DEF FromServer, Fits, IsRemote
    <2>2. f.size = Len(file) /\ (f.proto = "buffer" => f.data = file)
      BY <2>1 DEF Exact
    <2>3. file \in Seq(Nat)
      BY DEF IInv, Sound, States
    <2>4. ASSUME NEW at \in 0..Len(file) - 1, NEW n \in 1..Len(file), at + n <= Len(file)
          PROVE  BytesOf(w, i, at, n) \in {SubSeq(file, at + 1, at + n), Threw}
      <3>1. CASE f.proto = "buffer"
        BY <2>2, <3>1 DEF BytesOf
      <3>2. CASE f.proto # "buffer"
        <4>1. BytesOf(w, i, at, n) = ReadRange(env.server, file, at, n)
          BY <3>2 DEF BytesOf
        <4>2. env.server.get \in {"partial", "full", "denied"}
          BY WebFilesAssumption DEF IInv, Sound, Envs
        <4>3. at \in Nat /\ n \in Nat \ {0}
          BY <2>3, <2>4
        <4> HIDE DEF i, file
        <4> QED BY <2>3, <2>4, <4>1, <4>2, <4>3, RangeIsExact
      <3> QED BY <3>1, <3>2
    <2> QED BY <2>2, <2>4
  <1> QED BY <1>1, FilesAgree, PTL

\* The runtime has a handle for every native file that DuckDB has open, it is open, and it is
\* one of that file, whatever was registered, dropped, opened again or prepared in between
\* (runtime_browser.ts, _files and _preparedHandles; runtime_node.ts, _filesById).
THEOREM HandlesStayLive == Spec => []HandlesAreLive
  <1>1. IInv => HandlesAreLive
    <2> SUFFICES ASSUME IInv, NEW h \in 1..MaxHandles, w.handle[h] # NoHandle,
                        w.file[w.handle[h].file].proto \in Native,
                        w.file[w.handle[h].file].name \notin w.moved
                 PROVE  LET i == w.handle[h].file
                            f == w.file[i]
                            k == HandleFor(Resolve(w, i), i)
                        IN  /\ f.listed /\ ~f.altered /\ ~w.corrupt => k # None
                            /\ k # None =>
                                 w.os[k].open /\ w.os[k].path = IF f.proto = "node" THEN f.url ELSE f.name
      BY DEF HandlesAreLive
    <2> DEFINE i == w.handle[h].file
               f == w.file[i]
               r == Resolve(w, i)
               c == r.cache[i]
               k == HandleFor(r, i)
    <2>1. Sound(env, w, w.handle, None) /\ i \in Ids /\ Fits(env, w, i) /\ w \in States
      BY OpenFileFits DEF IInv, Sound
    <2> HIDE DEF i
    <2>2. /\ Sound(env, r, w.handle, None) /\ SameRegistry(w, r) /\ r.os = w.os
          /\ r.cache = [w.cache EXCEPT ![i] = IF w.cache[i].epoch = w.epoch \/ ~f.listed
                                                THEN @ ELSE Info(w, i)]
      <3> HIDE DEF c, k
      <3> QED BY SMTT(30), <2>1, ResolveStep
    <2>3. Fits(env, r, i)
      BY <2>1, ResolveFits
    <2> HIDE DEF r
    <2>4. r.file = w.file /\ r.moved = w.moved /\ r.corrupt = w.corrupt
      BY <2>2 DEF SameRegistry, SameMaps
    <2>5. f.proto \in Native /\ f.proto # "buffer" /\ f.proto # "none" /\ f.name \notin w.moved
      BY DEF Native, i
    <2>6. c = NoInfo \/ (c.name = f.name /\ c.url = f.url /\ c.proto = f.proto)
      BY <2>3, <2>4, <2>5 DEF Fits, CacheFits
    <2>7. f.listed => c # NoInfo
      <3>1. w.epoch # 0 /\ NoInfo.epoch = 0 /\ Info(w, i).epoch = w.epoch
        BY <2>1 DEF States, NoInfo, Info
      <3>2. w.cache[i].epoch = w.epoch \/ ~f.listed \/ c = Info(w, i)
        BY <2>1, <2>2 DEF States
      <3>3. c = w.cache[i] \/ c = Info(w, i)
        BY <2>1, <2>2 DEF States
      <3> QED BY <3>1, <3>2, <3>3
    <2>15. f.name \notin r.clashed
      BY <2>1, <2>2, <2>5 DEF Sound, Registered, SameRegistry, SameMaps
    <2>8. /\ env.runtime # "browser" => f.proto = "node"
          /\ f.listed /\ ~f.altered /\ ~w.corrupt =>
               IF f.proto = "node" THEN r.byId[i] # None ELSE r.files[f.name] # None
          /\ f.proto = "node" /\ r.byId[i] # None => r.os[r.byId[i]].path = f.url
      BY <2>3, <2>4, <2>5, <2>15 DEF Fits, HasHandle
    <2>9. env.runtime = "browser" => f.proto # "node"
      BY <2>1, <2>5, WebFilesAssumption DEF Sound, Protocolled, FollowsUrl, Proto
    <2>10. f.name \in Names \cup {NoUrl} /\ (f.listed => f.name # NoUrl)
      BY <2>1 DEF Sound, Registered, States, FileRecords, Texts
    <2>11. NoInfo.proto # "node" /\ NoInfo.name = NoUrl
      BY DEF NoInfo
    <2>12. k = IF c.proto = "node" THEN r.byId[i]
               ELSE IF c.name = NoUrl THEN None ELSE r.files[c.name]
      BY DEF HandleFor
    <2> HIDE DEF f, c, k
    <2>13. CASE f.proto = "node"
      <3>1. InNode(r)
        BY <2>2, <2>9, <2>13 DEF Sound, Runs
      <3>2. k # None => c.proto = "node" /\ k = r.byId[i]
        BY <2>6, <2>11, <2>12, <2>13
      <3>3. f.listed => k = r.byId[i]
        BY <2>6, <2>7, <2>12, <2>13
      <3>4. k # None => r.os[k].open
        BY <2>1, <3>1, <3>2 DEF InNode
      <3> QED BY <2>2, <2>8, <2>13, <3>2, <3>3, <3>4 DEF i, f, k, r
    <2>14. CASE f.proto # "node"
      <3>1. InBrowser(r)
        BY <2>2, <2>8, <2>14 DEF Sound, Runs
      <3>2. k # None => f.name \in Names /\ k = r.files[f.name]
        BY <2>6, <2>10, <2>11, <2>12, <2>14
      <3>3. f.listed => f.name \in Names /\ k = r.files[f.name]
        BY <2>6, <2>7, <2>10, <2>12, <2>14
      <3>4. k # None => r.os[k].open /\ r.os[k].path = f.name
        BY <2>4, <2>5, <3>1, <3>2 DEF InBrowser, PathFits
      <3> QED BY <2>2, <2>8, <2>14, <3>3, <3>4 DEF i, f, k, r
    <2> QED BY <2>13, <2>14
  <1> QED BY <1>1, FilesAgree, PTL

\* A drop that succeeds leaves no access handle that would lock an OPFS file, unless one is
\* prepared (webdb.cc, DropFile; runtime_browser.ts, dropFile).
LEMMA NotLocked ==
  ASSUME IInv', NEW n \in Names, n \notin w'.moved, w'.byName[n] # None \/ w'.files[n] = None
  PROVE  ~Locked(n)'
  <1> SUFFICES ASSUME Locked(n)' PROVE FALSE
    OBVIOUS
  <1>1. w'.prepared[n] = None /\ w'.files[n] = None
    BY DEF Locked
  <1>2. PICK k \in DOMAIN w'.os : w'.os[k].path = n /\ w'.os[k].open /\ w'.os[k].kind = "access"
    BY DEF Locked, OpenOn
  <1>3. w'.os \in Seq(OsRecords) /\ k # None
    BY DEF IInv, Sound, States, None
  <1>4. Runs(env', w')
    BY DEF IInv, Sound
  <1>5. CASE InBrowser(w')
    BY <1>1, <1>2, <1>3, <1>5 DEF InBrowser
  <1>6. CASE InNode(w')
    BY <1>2, <1>6 DEF InNode
  <1> QED BY <1>4, <1>5, <1>6 DEF Runs

THEOREM DropsRelease == Spec => DroppedIsReleased
  <1>1. ASSUME IInv, IInv', NEW n \in Names \ w.moved, Locked(n)'
        PROVE  ~DropFile(n) /\ (w.byName[n] = None \/ ~DropFiles)
    <2>1. Sound(env, w, w.handle, None)
      BY <1>1 DEF IInv
    <2>2. ASSUME NEW t, Keeps(w, t), t.byName[n] # None \/ t.files[n] = None, Becomes(t)
          PROVE  FALSE
      <3>1. w' = Caught(t)
        BY <2>2 DEF Becomes
      <3>2. w'.moved = w.moved /\ (w'.byName[n] # None \/ w'.files[n] = None)
        <4>1. w' \in States
          BY <1>1 DEF IInv, Sound
        <4>2. w'.moved = t.moved /\ w'.byName = t.byName /\ w'.files = t.files
          BY <3>1, <4>1 DEF Caught, States
        <4> QED BY <2>2, <4>2 DEF Keeps
      <3> QED BY <1>1, <3>2, NotLocked
    <2>3. ASSUME DropFile(n) PROVE FALSE
      <3> DEFINE t == Drop(w, n)
      <3>1. Becomes(t)
        BY <2>3 DEF DropFile
      <3>2. Dropped(w, t, n)
        BY <2>1, DropHolds
      <3> HIDE DEF t
      <3> QED BY <2>2, <3>1, <3>2 DEF Dropped
    <2>4. ASSUME DropFiles, w.byName[n] # None PROVE FALSE
      <3>1. PICK done \in SUBSET PinnedNames(w) :
              DropSome(FoldSet(LAMBDA m, acc : Drop(acc, m), w, done), PinnedNames(w) \ done)
        BY <2>4 DEF DropFiles
      <3> DEFINE d == FoldSet(LAMBDA m, acc : Drop(acc, m), w, done)
                 rest == PinnedNames(w) \ done
      <3>2. done \in SUBSET Names /\ rest \in SUBSET Names
        BY <1>1, PinnedNamesType
      <3>3. Sound(env, d, w.handle, None) /\ Keeps(w, d) /\ Released(w, d)
        BY <2>1, <3>2, ManyDropped
      <3>4. DropSome(d, rest)
        BY <3>1
      <3> HIDE DEF d, rest
      <3>5. ASSUME NEW t, Keeps(d, t), Released(d, t), Becomes(t) PROVE FALSE
        <4>1. Keeps(w, t)
          BY <3>3, <3>5 DEF Keeps
        <4>2. t.byName[n] = None => t.files[n] = None
          BY <2>4, <3>3, <3>5 DEF Keeps, Released
        <4> QED BY <2>2, <3>5, <4>1, <4>2
      <3>6. CASE Becomes(DropDangling(d))
        <4> DEFINE t == DropDangling(d)
        <4>1. Keeps(d, t) /\ Released(d, t)
          BY <3>3, DropDanglingHolds
        <4> HIDE DEF t
        <4>2. Becomes(t)
          BY <3>6 DEF t
        <4> QED BY <3>5, <4>1, <4>2
      <3>7. ASSUME NEW m \in rest, Becomes(Drop(d, m)) PROVE FALSE
        <4> DEFINE t == Drop(d, m)
        <4>1. Dropped(d, t, m)
          BY <3>2, <3>3, DropHolds
        <4> HIDE DEF t
        <4>2. Becomes(t)
          BY <3>7 DEF t
        <4>3. Keeps(d, t) /\ Released(d, t)
          BY <4>1 DEF Dropped, Keeps, Released, Apart
        <4> QED BY <3>5, <4>2, <4>3
      <3> QED BY <3>4, <3>6, <3>7 DEF DropSome
    <2> QED BY <2>3, <2>4
  <1>2. IInv /\ IInv' /\ [Next]_vars =>
          [\A n \in Names \ w.moved :
             Locked(n)' => ~DropFile(n) /\ (w.byName[n] = None \/ ~DropFiles)]_vars
    BY <1>1
  <1> QED BY <1>2, FilesAgree, PTL DEF Spec, DroppedIsReleased

-----------------------------------------------------------------------------
(* Signing                                                                  *)

\* A request that names the method and the payload it is signed for is signed as it is sent.
LEMMA RequestSigned ==
  ASSUME NoBareSlash, NEW c \in 1..Configs, NEW n, NEW method, NEW payload
  PROVE  IsSigned(S3Request(ConfigOf[c], Url[n], method, method, payload), ConfigOf[c], n)
  <1> DEFINE config == ConfigOf[c]
             r == S3Request(config, Url[n], method, method, payload)
  <1>1. HTTPUrl(config, Url[n]) = SignedUrl(config, Url[n])
    BY DEF NoBareSlash, HTTPUrl, SignedUrl
  <1>2. /\ r.url = HTTPUrl(config, Url[n]) /\ r.method = method /\ r.payload = payload
        /\ r.headers = S3Headers(config, Url[n], method, payload)
    BY DEF S3Request
  <1>3. S3Headers(config, Url[n], method, payload).secret = config.secret
    BY DEF S3Headers
  <1>4. config.secret # "" =>
          S3Headers(config, Url[n], method, payload) =
            [url |-> HTTPUrl(config, Url[n]), method |-> method, payload |-> payload,
             secret |-> config.secret]
    BY <1>1 DEF S3Headers
  <1> HIDE DEF r, config
  <1>5. IsSigned(r, config, n)
    BY <1>2, <1>3, <1>4 DEF IsSigned
  <1> QED BY <1>5 DEF r, config

\* Requests to S3 are signed as they are sent, with the configuration in force or, for an
\* upload, the one in force when the file was opened (runtime_browser.ts, getFileInfo;
\* web_filesystem.cc, WriteInfo), for configurations without such an endpoint.
THEOREM RequestsGetSigned ==
  ASSUME NoBareSlash
  PROVE  Spec => []RequestsAreSigned
  <1>1. IInv => RequestsAreSigned
    <2> SUFFICES ASSUME IInv PROVE RequestsAreSigned
      OBVIOUS
    <2>0. Sound(env, w, w.handle, None) /\ w \in States /\ w.config \in 1..Configs /\ w.epoch \in Nat \ {0}
      BY DEF IInv, Sound, States
    <2>1. ASSUME NEW h \in 1..MaxHandles, w.handle[h] # NoHandle, w.file[w.handle[h].file].listed
          PROVE  LET i == w.handle[h].file
                     f == w.file[i]
                 IN  /\ f.proto = "s3" =>
                          IsSigned(FileRequest(Resolve(w, i), i, "GET", ""),
                                   ConfigOf[IF f.uploads THEN f.upConfig ELSE w.config], f.url)
                     /\ f.proto = "buffer" /\ f.uploads =>
                          IsSigned(FileRequest(Resolve(WritesBack(w, i), i), i, "PUT", "data"),
                                   ConfigOf[f.upConfig], f.url)
      <3> DEFINE i == w.handle[h].file
                 f == w.file[i]
      <3>1. i \in Ids /\ Fits(env, w, i) /\ f.listed
        BY <2>1, OpenFileFits
      <3> HIDE DEF i
      <3>2. f \in FileRecords /\ FollowsUrl(env, f) /\ w.cache \in [Ids -> InfoRecords] /\ w.file \in [Ids -> FileRecords]
        BY <2>0, <3>1 DEF Sound, Protocolled, States
      <3>3. f.uploads => f.upConfig \in 1..Configs
        BY <3>2, WebFilesAssumption DEF FollowsUrl, FileRecords, None
      <3>4. ConfigFor(f, w.config) \in 1..Configs
        BY <2>0, <3>3 DEF ConfigFor
      <3>5. CASE f.proto = "s3"
        <4> DEFINE r == Resolve(w, i)
        <4>1. r.cache[i].config = ConfigFor(f, w.config) /\ r.cache[i].url = f.url
          <5>1. CASE w.cache[i].epoch = w.epoch
            <6>1. w.cache[i] # NoInfo
              BY <2>0, <5>1 DEF NoInfo
            <6>2. CacheFits(f, w.cache[i], w.epoch, w.config)
              BY <3>1 DEF Fits
            <6>3. w.cache[i].url = f.url /\ w.cache[i].config = ConfigFor(f, w.config)
              BY <3>5, <5>1, <6>1, <6>2 DEF CacheFits
            <6>4. r = w
              BY <5>1 DEF Resolve
            <6> QED BY <6>3, <6>4
          <5>2. CASE w.cache[i].epoch # w.epoch
            <6>1. r.cache = [w.cache EXCEPT ![i] = Info(w, i)]
              <7>1. Resolve(w, i).cache = [w.cache EXCEPT ![i] = IF w.cache[i].epoch = w.epoch \/ ~f.listed
                                                                    THEN @ ELSE Info(w, i)]
                BY <2>0, <3>1, ResolveStep
              <7> QED BY <3>1, <5>2, <7>1
            <6>2. r.cache[i] = Info(w, i)
              BY <3>1, <3>2, <6>1
            <6>3. Info(w, i).config = ConfigFor(f, w.config) /\ Info(w, i).url = f.url
              BY DEF Info, ConfigFor
            <6> QED BY <6>2, <6>3
          <5> QED BY <5>1, <5>2
        <4> HIDE DEF r
        <4>2. FileRequest(r, i, "GET", "") =
                S3Request(ConfigOf[ConfigFor(f, w.config)], Url[f.url], "GET", "GET", "")
          BY <4>1 DEF FileRequest
        <4> HIDE DEF f
        <4>3. IsSigned(FileRequest(r, i, "GET", ""), ConfigOf[ConfigFor(f, w.config)], f.url)
          BY <3>4, <4>2, RequestSigned
        <4> QED BY <3>5, <4>3 DEF ConfigFor, r, f, i
      <3>6. CASE f.proto = "buffer" /\ f.uploads
        <4> DEFINE u == WritesBack(w, i)
                   r == Resolve(u, i)
        <4>1. /\ u.epoch = w.epoch + 1 /\ u.cache = w.cache /\ u.file[i].listed
              /\ u.file[i].uploads /\ u.file[i].upConfig = f.upConfig /\ u.file[i].url = f.url
          <5>1. u.epoch = w.epoch + 1 /\ u.cache = w.cache
            BY <2>0 DEF WritesBack, States
          <5>2. u.file[i] = [f EXCEPT !.proto = DataProtocol(f.url)]
            BY <2>0, <3>1, <3>2 DEF WritesBack, States
          <5> QED BY <3>1, <3>2, <3>6, <5>1, <5>2 DEF FileRecords
        <4> HIDE DEF u
        <4>2. u.cache[i].epoch # u.epoch
          <5>1. w.cache[i].epoch \in Nat /\ w.cache[i].epoch <= w.epoch
            BY <2>0, <3>1, <3>2 DEF Sound, Timed, InfoRecords
          <5> QED BY <2>0, <4>1, <5>1
        <4>3. r.cache[i] = Info(u, i)
          <5>1. r.cache[i] = [w.cache EXCEPT ![i] = Info(u, i)][i]
            BY <4>1, <4>2 DEF Resolve
          <5> QED BY <3>1, <3>2, <5>1
        <4>4. Info(u, i).config = f.upConfig /\ Info(u, i).url = f.url
          BY <4>1 DEF Info
        <4> HIDE DEF r
        <4>5. FileRequest(r, i, "PUT", "data") =
                S3Request(ConfigOf[f.upConfig], Url[f.url], "PUT", "PUT", "data")
          BY <4>3, <4>4 DEF FileRequest
        <4>6. f.upConfig \in 1..Configs
          BY <3>3, <3>6
        <4> HIDE DEF f
        <4>7. IsSigned(FileRequest(r, i, "PUT", "data"), ConfigOf[f.upConfig], f.url)
          BY <4>5, <4>6, RequestSigned
        <4> QED BY <3>6, <4>7 DEF r, u, f, i
      <3>7. CASE f.proto # "s3" /\ ~(f.proto = "buffer" /\ f.uploads)
        BY <3>7 DEF i
      <3> QED BY <3>5, <3>6, <3>7
    <2>2. ASSUME NEW n \in Names
          PROVE  IsSigned(GlobRequest(ResolveGlobal(w), n, "HEAD"), ConfigOf[w.config], n)
      <3> DEFINE r == ResolveGlobal(w)
      <3>1. r.global.config = w.config
        <4>1. CASE w.global.epoch = w.epoch
          BY <2>0, <4>1 DEF ResolveGlobal, Sound, Timed
        <4>2. CASE w.global.epoch # w.epoch
          BY <2>0, <4>2 DEF ResolveGlobal, States, NoInfo
        <4> QED BY <4>1, <4>2
      <3> HIDE DEF r
      <3>2. GlobRequest(r, n, "HEAD") = S3Request(ConfigOf[w.config], Url[n], "HEAD", "HEAD", "")
        BY <3>1 DEF GlobRequest
      <3>3. IsSigned(GlobRequest(r, n, "HEAD"), ConfigOf[w.config], n)
        BY <2>0, <3>2, RequestSigned
      <3> QED BY <3>3 DEF r
    <2> HIDE DEF IInv
    <2> QED BY <2>1, <2>2 DEF RequestsAreSigned
  <1> QED BY <1>1, FilesAgree, PTL
=============================================================================
