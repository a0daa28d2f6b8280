---------------------------- MODULE FilePageBuffer ----------------------------
(***************************************************************************)
(* The buffer manager of lib/src/io/file_page_buffer.cc as its threads see *)
(* it: frames and their states, the directory latch, the file and frame    *)
(* latches, the FIFO and LRU queues, eviction, flushing, exclusive         *)
(* appends, and I/O errors.  What the bytes of a file are after a          *)
(* truncation or at an offset is module PagedFile's subject.               *)
(*                                                                         *)
(* A thread steps from one synchronisation point to the next: a critical   *)
(* section of the directory latch (a spin lock that no one blocks under)   *)
(* is one action, except where FixPage allocates a frame, which keeps the  *)
(* latch over several actions.  File and frame latches are shared mutexes: *)
(* a writer first enters, which turns new readers away, and owns the latch *)
(* once the readers have drained.  A call may fail with an I/O error when  *)
(* a page is read (Unreadable) or written (WriteMayFail).                  *)
(***************************************************************************)
EXTENDS Integers, Sequences, FiniteSets

CONSTANTS Threads, Pages, Values, InitVal, Calls,
          Files,         \* the open files; each is open for append
          FileOf,        \* the file of each page
          Capacity,      \* page_capacity
          Budgets,       \* bound: how many calls each thread may make in a behaviour
          Unreadable,    \* the pages for which the filesystem's Read may throw
          WriteMayFail,  \* may the filesystem's Write throw?
          None           \* no thread, no page

Kinds == {"read", "write", "append", "flush", "stream"}

Content == [head : Values, tail : Values]

Call == [kind : Kinds, page : Pages, val : Values]

ASSUME PageAssumption ==
    /\ FileOf \in [Pages -> Files]
    /\ InitVal \in Values
    /\ Calls \subseteq Call
    /\ None \notin Threads \cup Pages

ASSUME SizeAssumption ==
    /\ IsFiniteSet(Threads)
    /\ Capacity \in Nat
    /\ Budgets \subseteq [Threads -> Nat]
    /\ Unreadable \subseteq Pages /\ WriteMayFail \in BOOLEAN

Blank == [head |-> InitVal, tail |-> InitVal]

NoCall == [kind |-> "none", page |-> CHOOSE p \in Pages : TRUE, val |-> InitVal]

NoReply == [status |-> "none", content |-> Blank]

States == {"absent", "loading", "loaded", "evicting", "reloaded"}

\* The points in the code where a thread stands between two actions.
Points == {"idle",
           "lockFile", "fix", "alloc", "evict", "load", "loaded", "lockFrame", "drainFrame",
           "hold", "mark", "release", "unlockFile",
           "lockFileX", "drainFile", "append", "appendFrame", "unlockFileX",
           "flushStart", "flushNext",
           "flushLatch", "flushWrite", "flushClear", "flushEnd"}

VARIABLES
    disk,         \* disk[p]: the page in the file
    frame,        \* frame[p]: the state of p's frame, "absent" if there is none
    data,         \* data[p]: the bytes in p's frame
    users,        \* users[p]: num_users of p's frame
    dirty,        \* dirty[p]: is_dirty of p's frame
    fifo, lru,    \* the eviction queues
    dir,          \* who holds the directory latch between two actions
    fileReaders,  \* fileReaders[f]: the shared guards on f's latch, <<thread, what for>>
    fileWriter,   \* fileWriter[f]: the thread that has entered f's latch as writer
    frameReaders, \* frameReaders[p]: the threads that share p's frame latch
    frameWriter,  \* frameWriter[p]: the thread that has entered it as writer
    pc, call, reply,
    victim,       \* victim[t]: the page whose frame t flushes
    todo,         \* todo[t]: the pages the Flush of t has still to visit
    unflushed,    \* unflushed[t]: the pages the Flush of t owes: newer than the file when it was called
    left          \* left[t]: the calls t may still make

disks   == <<disk, data>>
frames  == <<frame, users, dirty>>
queues  == <<fifo, lru>>
fileLatches  == <<fileReaders, fileWriter>>
frameLatches == <<frameReaders, frameWriter>>
locals  == <<victim, todo, unflushed, left>>

vars == <<disk, frame, data, users, dirty, fifo, lru, dir, fileReaders, fileWriter,
          frameReaders, frameWriter, pc, call, reply, victim, todo, unflushed, left>>

TypeOK ==
    /\ disk \in [Pages -> Content]
    /\ frame \in [Pages -> States]
    /\ data \in [Pages -> Content]
    /\ users \in [Pages -> Nat]
    /\ dirty \in [Pages -> BOOLEAN]
    /\ fifo \in Seq(Pages) /\ lru \in Seq(Pages)
    /\ dir \in Threads \cup {None}
    /\ fileReaders \in [Files -> SUBSET (Threads \X {"own", "victim"})]
    /\ fileWriter \in [Files -> Threads \cup {None}]
    /\ frameReaders \in [Pages -> SUBSET Threads]
    /\ frameWriter \in [Pages -> Threads \cup {None}]
    /\ pc \in [Threads -> Points]
    /\ call \in [Threads -> Call \cup {NoCall}]
    /\ reply \in [Threads -> [status : {"none", "ok", "failed"}, content : Content]]
    /\ victim \in [Threads -> Pages \cup {None}]
    /\ todo \in [Threads -> SUBSET Pages]
    /\ unflushed \in [Threads -> SUBSET Pages]
    /\ left \in [Threads -> Nat]

Init ==
    /\ disk = [p \in Pages |-> Blank]
    /\ frame = [p \in Pages |-> "absent"]
    /\ data = [p \in Pages |-> Blank]
    /\ users = [p \in Pages |-> 0]
    /\ dirty = [p \in Pages |-> FALSE]
    /\ fifo = <<>> /\ lru = <<>>
    /\ dir = None
    /\ fileReaders = [f \in Files |-> {}]
    /\ fileWriter = [f \in Files |-> None]
    /\ frameReaders = [p \in Pages |-> {}]
    /\ frameWriter = [p \in Pages |-> None]
    /\ pc = [t \in Threads |-> "idle"]
    /\ call = [t \in Threads |-> NoCall]
    /\ reply = [t \in Threads |-> NoReply]
    /\ victim = [t \in Threads |-> None]
    /\ todo = [t \in Threads |-> {}]
    /\ unflushed = [t \in Threads |-> {}]
    /\ left \in Budgets

-------------------------------------------------------------------------------
(* Helpers *)

At(t, point) == pc[t] = point

GoTo(t, point) == pc' = [pc EXCEPT ![t] = point]

Page(t) == call[t].page

FileOfCall(t) == FileOf[call[t].page]

Resident == {p \in Pages : frame[p] # "absent"}

\* The directory latch is free, or t still has it.
Directory(t) == dir \in {None, t}

Answer(t, status, content) ==
    reply' = [reply EXCEPT ![t] = [status |-> status, content |-> content]]

UseUncounted(p) == UNCHANGED users

\* ++num_users and --num_users
Use(p) == users' = [users EXCEPT ![p] = @ + 1]

Unuse(p) == users' = [users EXCEPT ![p] = @ - 1]

\* Does t want its page exclusively?
Exclusive(t) == call[t].kind = "write"

WithoutNot(s, p) == s

\* s without the element p, if it has one.
Without(s, p) ==
    IF \E i \in 1..Len(s) : s[i] = p
    THEN LET i == CHOOSE i \in 1..Len(s) : s[i] = p
         IN  SubSeq(s, 1, i - 1) \o SubSeq(s, i + 1, Len(s))
    ELSE s

EvictableInUse(p) == frame[p] = "loaded" /\ fileWriter[FileOf[p]] = None

\* Nobody uses the frame, it is loaded, and its file latch can be shared at once.
Evictable(p) == /\ users[p] = 0
                /\ frame[p] = "loaded"
                /\ fileWriter[FileOf[p]] = None

NeedsFlushIfLoaded(p) == dirty[p] /\ frame[p] = "loaded"

\* FlushFrame's first test.
NeedsFlush(p) == dirty[p]

\* v is the page EvictAnyBufferFrame settles on: FIFO order first, then LRU order.
Evicts(v) == LET order == fifo \o lru
             IN  \E i \in 1..Len(order) :
                    /\ order[i] = v
                    /\ Evictable(v)
                    /\ \A j \in 1..(i - 1) : ~Evictable(order[j])

\* The frame of p leaves the directory: ~BufferFrame takes it out of the list that
\* Flush walks.
Erase(p) ==
    /\ frame' = [frame EXCEPT ![p] = "absent"]
    /\ data' = [data EXCEPT ![p] = Blank]
    /\ IF \E i \in 1..Len(lru) : lru[i] = p
       THEN lru' = Without(lru, p) /\ UNCHANGED fifo
       ELSE fifo' = Without(fifo, p) /\ UNCHANGED lru
    /\ todo' = [t \in Threads |-> todo[t] \ {p}]

-------------------------------------------------------------------------------
(* A call begins *)

\* Read, Write, FixPage and Flush share the file, Append wants it for itself.
Invoke(t) ==
    /\ At(t, "idle") /\ left[t] > 0
    /\ left' = [left EXCEPT ![t] = @ - 1]
    /\ \E c \in Calls :
        /\ call' = [call EXCEPT ![t] = c]
        /\ GoTo(t, IF c.kind = "append" THEN "lockFileX" ELSE "lockFile")
        /\ unflushed' = [unflushed EXCEPT ![t] =
               IF c.kind = "flush"
               THEN {p \in Resident : /\ FileOf[p] = FileOf[c.page]
                                      /\ dirty[p] /\ data[p] # disk[p]}
               ELSE {}]
    /\ UNCHANGED <<disks, frames, queues, dir, fileLatches, frameLatches, reply, victim, todo>>

LockFile(t) ==
    /\ At(t, "lockFile")
    /\ fileWriter[FileOfCall(t)] = None
    /\ fileReaders' = [fileReaders EXCEPT ![FileOfCall(t)] = @ \cup {<<t, "own">>}]
    /\ GoTo(t, IF call[t].kind = "flush" THEN "flushStart" ELSE "fix")
    /\ UNCHANGED <<disks, frames, queues, dir, fileWriter, frameLatches, call, reply, locals>>

-------------------------------------------------------------------------------
(* FixPage *)

\* The page has a frame: use it, claim it back from an eviction, move it to the end of
\* the LRU queue, then wait for the frame latch.
FixHit(t) ==
    /\ At(t, "fix") /\ Directory(t)
    /\ frame[Page(t)] # "absent"
    /\ Use(Page(t))
    /\ frame' = [frame EXCEPT ![Page(t)] = IF @ = "evicting" THEN "reloaded" ELSE @]
    /\ fifo' = IF \E i \in 1..Len(lru) : lru[i] = Page(t) THEN fifo
               ELSE Without(fifo, Page(t))
    /\ lru' = Append(Without(lru, Page(t)), Page(t))
    /\ dir' = None
    /\ GoTo(t, "lockFrame")
    /\ UNCHANGED <<disks, dirty, fileLatches, frameLatches, call, reply, locals>>

FixMiss(t) ==
    /\ At(t, "fix") /\ Directory(t)
    /\ frame[Page(t)] = "absent"
    /\ dir' = t
    /\ GoTo(t, "alloc")
    /\ UNCHANGED <<disks, frames, queues, fileLatches, frameLatches, call, reply, locals>>

Allocating(t) == pc[t] \in {"alloc", "evict"}

\* AllocateFrameBuffer evicts while the buffer is full; EvictAnyBufferFrame, once begun, goes
\* on until a frame is gone or none can go, even if others have made room meanwhile.
WantsRoom(t) == At(t, "evict") \/ Cardinality(Resident) >= Capacity

EvictUnflushed(t) ==
    /\ Allocating(t) /\ WantsRoom(t)
    /\ \E v \in Pages : Evicts(v) /\ Erase(v)
    /\ GoTo(t, "alloc")
    /\ UNCHANGED <<disk, users, dirty, dir, fileLatches, frameLatches, call, reply,
                   victim, unflushed, left>>

\* The first evictable frame goes at once if it is clean.
EvictClean(t) ==
    /\ Allocating(t) /\ WantsRoom(t)
    /\ \E v \in Pages : Evicts(v) /\ ~dirty[v] /\ Erase(v)
    /\ GoTo(t, "alloc")
    /\ UNCHANGED <<disk, users, dirty, dir, fileLatches, frameLatches, call, reply,
                   victim, unflushed, left>>

\* A dirty one is flushed first, in use and without the directory latch.
EvictDirty(t) ==
    /\ Allocating(t) /\ WantsRoom(t)
    /\ \E v \in Pages :
        /\ Evicts(v) /\ dirty[v]
        /\ frame' = [frame EXCEPT ![v] = "evicting"]
        /\ Use(v)
        /\ fileReaders' = [fileReaders EXCEPT ![FileOf[v]] = @ \cup {<<t, "victim">>}]
        /\ victim' = [victim EXCEPT ![t] = v]
    /\ dir' = None
    /\ GoTo(t, "flushLatch")
    /\ UNCHANGED <<disks, dirty, queues, fileWriter, frameLatches, call, reply,
                   todo, unflushed, left>>

\* There is room, or nothing can be evicted and the buffer grows over its capacity.
Allocated(t) == ~WantsRoom(t) \/ \A v \in Pages : ~Evicts(v)

\* Someone else brought the page in while the directory latch was open for a flush.
AllocateRetry(t) ==
    /\ Allocating(t) /\ Allocated(t)
    /\ frame[Page(t)] # "absent"
    /\ GoTo(t, "fix")
    /\ UNCHANGED <<disks, frames, queues, dir, fileLatches, frameLatches, call, reply, locals>>

\* A new frame, in use, latched exclusively, at the end of the FIFO queue.
InsertFrame(t) ==
    /\ Allocating(t) /\ Allocated(t)
    /\ frame[Page(t)] = "absent"
    /\ frame' = [frame EXCEPT ![Page(t)] = "loading"]
    /\ users' = [users EXCEPT ![Page(t)] = 1]
    /\ dirty' = [dirty EXCEPT ![Page(t)] = FALSE]
    /\ frameWriter' = [frameWriter EXCEPT ![Page(t)] = t]
    /\ frameReaders' = [frameReaders EXCEPT ![Page(t)] = {}]
    /\ fifo' = Append(fifo, Page(t))
    /\ dir' = None
    /\ GoTo(t, "load")
    /\ UNCHANGED <<disks, lru, fileLatches, call, reply, locals>>

\* The disk is read without the directory latch.
LoadRead(t) ==
    /\ At(t, "load")
    /\ data' = [data EXCEPT ![Page(t)] = disk[Page(t)]]
    /\ GoTo(t, "loaded")
    /\ UNCHANGED <<disk, frames, queues, dir, fileLatches, frameLatches, call, reply, locals>>

\* Read threw: the guards unwind, the frame keeps its state and its user.
LoadFail(t) ==
    /\ At(t, "load") /\ Page(t) \in Unreadable
    /\ frameWriter' = [frameWriter EXCEPT ![Page(t)] = None]
    /\ Answer(t, "failed", Blank)
    /\ GoTo(t, "unlockFile")
    /\ UNCHANGED <<disks, frames, queues, dir, fileLatches, frameReaders, call, locals>>

LoadRegisterKeepsLatch(t) ==
    /\ At(t, "loaded") /\ dir = None
    /\ frame' = [frame EXCEPT ![Page(t)] = "loaded"]
    /\ dirty' = [dirty EXCEPT ![Page(t)] = FALSE]
    /\ GoTo(t, IF Exclusive(t) THEN "hold" ELSE "lockFrame")
    /\ UNCHANGED <<disks, users, queues, dir, fileLatches, frameLatches, call, reply, locals>>

\* The frame is loaded; a reader trades its exclusive frame latch for a shared one.
LoadRegister(t) ==
    /\ At(t, "loaded") /\ dir = None
    /\ frame' = [frame EXCEPT ![Page(t)] = "loaded"]
    /\ dirty' = [dirty EXCEPT ![Page(t)] = FALSE]
    /\ IF Exclusive(t)
       THEN GoTo(t, "hold") /\ UNCHANGED frameWriter
       ELSE GoTo(t, "lockFrame") /\ frameWriter' = [frameWriter EXCEPT ![Page(t)] = None]
    /\ UNCHANGED <<disks, users, queues, dir, fileLatches, frameReaders, call, reply, locals>>

LockFrameUnchecked(t) ==
    /\ At(t, "lockFrame") /\ ~Exclusive(t)
    /\ frameReaders' = [frameReaders EXCEPT ![Page(t)] = @ \cup {t}]
    /\ GoTo(t, "hold")
    /\ UNCHANGED <<disks, frames, queues, dir, fileLatches, frameWriter, call, reply, locals>>

LockFrameShared(t) ==
    /\ At(t, "lockFrame") /\ ~Exclusive(t)
    /\ frameWriter[Page(t)] = None
    /\ frameReaders' = [frameReaders EXCEPT ![Page(t)] = @ \cup {t}]
    /\ GoTo(t, "hold")
    /\ UNCHANGED <<disks, frames, queues, dir, fileLatches, frameWriter, call, reply, locals>>

EnterFrame(t) ==
    /\ At(t, "lockFrame") /\ Exclusive(t)
    /\ frameWriter[Page(t)] = None
    /\ frameWriter' = [frameWriter EXCEPT ![Page(t)] = t]
    /\ GoTo(t, "drainFrame")
    /\ UNCHANGED <<disks, frames, queues, dir, fileLatches, frameReaders, call, reply, locals>>

LockFrameExclusive(t) ==
    /\ At(t, "drainFrame")
    /\ frameReaders[Page(t)] = {}
    /\ GoTo(t, "hold")
    /\ UNCHANGED <<disks, frames, queues, dir, fileLatches, frameLatches, call, reply, locals>>

-------------------------------------------------------------------------------
(* The page is in hand: Read and Write copy bytes, then the BufferRef goes *)

ReadPage(t) ==
    /\ At(t, "hold") /\ ~Exclusive(t)
    /\ Answer(t, "ok", data[Page(t)])
    /\ GoTo(t, "release")
    /\ UNCHANGED <<disks, frames, queues, dir, fileLatches, frameLatches, call, locals>>

WritePage(t) ==
    /\ At(t, "hold") /\ Exclusive(t)
    /\ data' = [data EXCEPT ![Page(t)].head = call[t].val]
    /\ Answer(t, "ok", Blank)
    /\ GoTo(t, "mark")
    /\ UNCHANGED <<disk, frames, queues, dir, fileLatches, frameLatches, call, locals>>

MarkAsDirty(t) ==
    /\ At(t, "mark")
    /\ dirty' = [dirty EXCEPT ![Page(t)] = TRUE]
    /\ GoTo(t, "release")
    /\ UNCHANGED <<disks, frame, users, queues, dir, fileLatches, frameLatches, call, reply,
                   locals>>

\* BufferRef::Release gives up the user and the frame latch, not the file latch: a stream
\* still has it when it fixes its next page.
Release(t) ==
    /\ At(t, "release") /\ dir = None
    /\ Unuse(Page(t))
    /\ IF Exclusive(t)
       THEN frameWriter' = [frameWriter EXCEPT ![Page(t)] = None] /\ UNCHANGED frameReaders
       ELSE frameReaders' = [frameReaders EXCEPT ![Page(t)] = @ \ {t}] /\ UNCHANGED frameWriter
    /\ \/ /\ GoTo(t, "unlockFile")
          /\ UNCHANGED <<call, reply>>
       \/ /\ call[t].kind = "stream"
          /\ \E p \in Pages \ {Page(t)} :
                /\ FileOf[p] = FileOfCall(t)
                /\ call' = [call EXCEPT ![t].kind = "read", ![t].page = p]
          /\ reply' = [reply EXCEPT ![t] = NoReply]
          /\ GoTo(t, "lockFile")
    /\ UNCHANGED <<disks, frame, dirty, queues, dir, fileLatches, locals>>

Return(t) ==
    /\ call' = [call EXCEPT ![t] = NoCall]
    /\ reply' = [reply EXCEPT ![t] = NoReply]
    /\ GoTo(t, "idle")

UnlockFile(t) ==
    /\ At(t, "unlockFile")
    /\ fileReaders' = [fileReaders EXCEPT ![FileOfCall(t)] = @ \ {<<t, "own">>}]
    /\ Return(t)
    /\ unflushed' = [unflushed EXCEPT ![t] = {}]
    /\ UNCHANGED <<disks, frames, queues, dir, fileWriter, frameLatches, victim, todo, left>>

-------------------------------------------------------------------------------
(* Append: the file latch exclusively, no frame latch *)

EnterFile(t) ==
    /\ At(t, "lockFileX")
    /\ fileWriter[FileOfCall(t)] = None
    /\ fileWriter' = [fileWriter EXCEPT ![FileOfCall(t)] = t]
    /\ GoTo(t, "drainFile")
    /\ UNCHANGED <<disks, frames, queues, dir, fileReaders, frameLatches, call, reply, locals>>

LockFileUndrained(t) ==
    /\ At(t, "drainFile")
    /\ GoTo(t, "append")
    /\ UNCHANGED <<disks, frames, queues, dir, fileLatches, frameLatches, call, reply, locals>>

LockFileExclusive(t) ==
    /\ At(t, "drainFile")
    /\ fileReaders[FileOfCall(t)] = {}
    /\ GoTo(t, "append")
    /\ UNCHANGED <<disks, frames, queues, dir, fileLatches, frameLatches, call, reply, locals>>

\* The new bytes go to the disk at once ...
AppendDisk(t) ==
    /\ At(t, "append")
    /\ disk' = [disk EXCEPT ![Page(t)].tail = call[t].val]
    /\ Answer(t, "ok", Blank)
    /\ GoTo(t, "appendFrame")
    /\ UNCHANGED <<data, frames, queues, dir, fileLatches, frameLatches, call, locals>>

\* ... the filesystem throws before the file has grown ...
AppendFail(t) ==
    /\ At(t, "append") /\ WriteMayFail
    /\ Answer(t, "failed", Blank)
    /\ GoTo(t, "unlockFileX")
    /\ UNCHANGED <<disks, frames, queues, dir, fileLatches, frameLatches, call, locals>>

AppendFrameForgotten(t) ==
    /\ At(t, "appendFrame") /\ dir = None
    /\ GoTo(t, "unlockFileX")
    /\ UNCHANGED <<disks, frames, queues, dir, fileLatches, frameLatches, call, reply, locals>>

\* ... and to the last page's frame, if it has one, which is as dirty as it was.
AppendFrame(t) ==
    /\ At(t, "appendFrame") /\ dir = None
    /\ data' = IF frame[Page(t)] = "absent" THEN data
               ELSE [data EXCEPT ![Page(t)].tail = call[t].val]
    /\ GoTo(t, "unlockFileX")
    /\ UNCHANGED <<disk, frames, queues, dir, fileLatches, frameLatches, call, reply, locals>>

UnlockFileExclusive(t) ==
    /\ At(t, "unlockFileX")
    /\ fileWriter' = [fileWriter EXCEPT ![FileOfCall(t)] = None]
    /\ Return(t)
    /\ UNCHANGED <<disks, frames, queues, dir, fileReaders, frameLatches, locals>>

-------------------------------------------------------------------------------
(* Flush walks the frames of the file; FlushFrame writes one, for Flush or for the *)
(* eviction of EvictAnyBufferFrame *)

Evicting(t) == call[t].kind # "flush"

FlushStart(t) ==
    /\ At(t, "flushStart") /\ dir = None
    /\ todo' = [todo EXCEPT ![t] = {p \in Resident : FileOf[p] = FileOfCall(t)}]
    /\ dir' = t
    /\ GoTo(t, "flushNext")
    /\ UNCHANGED <<disks, frames, queues, fileLatches, frameLatches, call, reply, victim,
                   unflushed, left>>

\* A clean frame is passed over, a dirty one is used and flushed.
FlushNext(t) ==
    /\ At(t, "flushNext")
    /\ \E p \in todo[t] :
        /\ todo' = [todo EXCEPT ![t] = @ \ {p}]
        /\ IF NeedsFlush(p)
           THEN /\ Use(p)
                /\ victim' = [victim EXCEPT ![t] = p]
                /\ dir' = None
                /\ GoTo(t, "flushLatch")
           ELSE UNCHANGED <<users, victim, dir, pc>>
    /\ UNCHANGED <<disks, frame, dirty, queues, fileLatches, frameLatches, call, reply,
                   unflushed, left>>

FlushFinish(t) ==
    /\ At(t, "flushNext") /\ todo[t] = {}
    /\ dir' = None
    /\ Answer(t, "ok", Blank)
    /\ GoTo(t, "unlockFile")
    /\ UNCHANGED <<disks, frames, queues, fileLatches, frameLatches, call, locals>>

FlushLatch(t) ==
    /\ At(t, "flushLatch")
    /\ frameWriter[victim[t]] = None
    /\ frameReaders' = [frameReaders EXCEPT ![victim[t]] = @ \cup {t}]
    /\ GoTo(t, "flushWrite")
    /\ UNCHANGED <<disks, frames, queues, dir, fileLatches, frameWriter, call, reply, locals>>

\* Someone else may have written the frame since: then it is not written again.
FlushWrite(t) ==
    /\ At(t, "flushWrite")
    /\ IF dirty[victim[t]]
       THEN /\ disk' = [disk EXCEPT ![victim[t]] = data[victim[t]]]
            /\ unflushed' = [u \in Threads |-> unflushed[u] \ {victim[t]}]
       ELSE UNCHANGED <<disk, unflushed>>
    /\ GoTo(t, "flushClear")
    /\ UNCHANGED <<data, frames, queues, dir, fileLatches, frameLatches, call, reply,
                   victim, todo, left>>

\* Write threw: the guards unwind and the call is over; the frame keeps its state, its
\* user and its dirty bytes.
FlushFail(t) ==
    /\ At(t, "flushWrite") /\ WriteMayFail /\ dirty[victim[t]]
    /\ frameReaders' = [frameReaders EXCEPT ![victim[t]] = @ \ {t}]
    /\ fileReaders' = [fileReaders EXCEPT ![FileOf[victim[t]]] = @ \ {<<t, "victim">>}]
    /\ victim' = [victim EXCEPT ![t] = None]
    /\ todo' = [todo EXCEPT ![t] = {}]
    /\ Answer(t, "failed", Blank)
    /\ GoTo(t, "unlockFile")
    /\ UNCHANGED <<disks, frames, queues, dir, fileWriter, frameWriter, call, unflushed, left>>

FlushClear(t) ==
    /\ At(t, "flushClear")
    /\ dirty' = [dirty EXCEPT ![victim[t]] = FALSE]
    /\ frameReaders' = [frameReaders EXCEPT ![victim[t]] = @ \ {t}]
    /\ GoTo(t, "flushEnd")
    /\ UNCHANGED <<disks, frame, users, queues, dir, fileLatches, frameWriter, call, reply,
                   locals>>

\* FlushFrame returns to Flush with the directory latch.
FlushResume(t) ==
    /\ At(t, "flushEnd") /\ dir = None /\ ~Evicting(t)
    /\ Unuse(victim[t])
    /\ victim' = [victim EXCEPT ![t] = None]
    /\ dir' = t
    /\ GoTo(t, "flushNext")
    /\ UNCHANGED <<disks, frame, dirty, queues, fileLatches, frameLatches, call, reply,
                   todo, unflushed, left>>

\* FlushFrame returns to EvictAnyBufferFrame: nobody came for the page, and it goes.
EvictResume(t) ==
    /\ At(t, "flushEnd") /\ dir = None /\ Evicting(t)
    /\ Unuse(victim[t])
    /\ fileReaders' = [fileReaders EXCEPT ![FileOf[victim[t]]] = @ \ {<<t, "victim">>}]
    /\ victim' = [victim EXCEPT ![t] = None]
    /\ dir' = t
    /\ \/ \* someone uses the page: look for another one, and leave this one as it is
          /\ users[victim[t]] > 1
          /\ GoTo(t, "evict")
          /\ UNCHANGED <<frame, data, fifo, lru, todo>>
       \/ \* someone has come and gone
          /\ users[victim[t]] = 1 /\ frame[victim[t]] = "reloaded"
          /\ frame' = [frame EXCEPT ![victim[t]] = "loaded"]
          /\ GoTo(t, "evict")
          /\ UNCHANGED <<data, fifo, lru, todo>>
       \/ /\ users[victim[t]] = 1 /\ frame[victim[t]] = "evicting"
          /\ GoTo(t, "alloc")
          /\ Erase(victim[t])
    /\ UNCHANGED <<disk, dirty, fileWriter, frameLatches, call, reply, unflushed, left>>

-------------------------------------------------------------------------------
Step(t) ==
    \/ Invoke(t) \/ LockFile(t)
    \/ FixHit(t) \/ FixMiss(t) \/ EvictClean(t) \/ EvictDirty(t) \/ AllocateRetry(t)
    \/ InsertFrame(t) \/ LoadRead(t) \/ LoadFail(t) \/ LoadRegister(t)
    \/ LockFrameShared(t) \/ EnterFrame(t) \/ LockFrameExclusive(t)
    \/ ReadPage(t) \/ WritePage(t) \/ MarkAsDirty(t) \/ Release(t) \/ UnlockFile(t)
    \/ EnterFile(t) \/ LockFileExclusive(t) \/ AppendDisk(t) \/ AppendFail(t)
    \/ AppendFrame(t) \/ UnlockFileExclusive(t)
    \/ FlushStart(t) \/ FlushNext(t) \/ FlushFinish(t) \/ FlushLatch(t) \/ FlushWrite(t)
    \/ FlushFail(t) \/ FlushClear(t) \/ FlushResume(t) \/ EvictResume(t)

\* All calls have been made and have returned.
Finished == /\ \A t \in Threads : At(t, "idle") /\ left[t] = 0
            /\ UNCHANGED vars

Next == (\E t \in Threads : Step(t)) \/ Finished

Spec == Init /\ [][Next]_vars

\* Every thread keeps running; who gets a contended latch is left to chance.
FairSpec == Spec /\ \A t \in Threads : WF_vars(Step(t))

-------------------------------------------------------------------------------
(* What must hold *)

\* The points at which a thread counts as a user of the page it was called for ...
FixPoints == {"load", "loaded", "lockFrame", "drainFrame", "hold", "mark", "release"}

\* ... and of the page whose frame it flushes.
FlushPoints == {"flushLatch", "flushWrite", "flushClear", "flushEnd"}

Pins(t, p) == \/ pc[t] \in FixPoints /\ Page(t) = p
              \/ pc[t] \in FlushPoints /\ victim[t] = p

Pinners(p) == {t \in Threads : Pins(t, p)}

\* num_users never falls below the number of threads that are using a frame, and is that
\* number unless an I/O error has left a user behind: what the assertions in Release,
\* FileRef::Release and ~BufferFrame rely on.
UsersCountPinners ==
    \A p \in Pages :
        /\ users[p] >= Cardinality(Pinners(p))
        /\ Unreadable = {} /\ ~WriteMayFail => users[p] = Cardinality(Pinners(p))

\* A frame that a thread uses is never evicted under it: the raw BufferFrame pointers that
\* FixPage, FlushFrame and BufferRef keep across the open directory latch stay valid.
PinnedStaysResident ==
    \A t \in Threads, p \in Pages : Pins(t, p) => frame[p] # "absent"

\* Threads that are about to change the bytes of p's frame, and threads that read them.
ChangesData(t, p) ==
    /\ Page(t) = p /\ frame[p] # "absent"
    /\ \/ pc[t] \in {"load", "loaded", "append", "appendFrame"}
       \/ pc[t] \in {"hold", "mark"} /\ Exclusive(t)

ReadsData(t, p) ==
    \/ At(t, "hold") /\ ~Exclusive(t) /\ Page(t) = p
    \/ pc[t] \in {"flushWrite", "flushClear"} /\ victim[t] = p

\* No thread touches the bytes of a frame while another one changes them: a load, a write,
\* an append (which takes no frame latch) and a flush in the background exclude each other.
NoDataRace ==
    \A t, u \in Threads, p \in Pages :
        t # u /\ ChangesData(t, p) => ~ChangesData(u, p) /\ ~ReadsData(u, p)

\* The frame's bytes are the page's.
Cached(p) == frame[p] \in {"loaded", "evicting", "reloaded"}

\* A loaded frame that is not dirty holds what the file holds, unless its writer has still
\* to mark it or an append is half done: evicting it loses nothing.
CleanFrameMatchesDisk ==
    \A p \in Pages :
        /\ Cached(p) /\ ~dirty[p]
        /\ \A t \in Threads : Page(t) = p => pc[t] \notin {"mark", "appendFrame"}
        => data[p] = disk[p]

\* A frame is in exactly one of the two queues, once, and a frame that has gone is in none.
QueuesHoldFrames ==
    \A p \in Pages :
        Cardinality({i \in 1..Len(fifo \o lru) : (fifo \o lru)[i] = p})
            = IF frame[p] = "absent" THEN 0 ELSE 1

\* When Flush returns without an error, every page of the file that was newer than the
\* file when it was called has been written, by this flush or by someone else's.
FlushCoversEarlierWrites ==
    \A t \in Threads :
        At(t, "unlockFile") /\ reply[t].status = "ok" => unflushed[t] = {}

\* FixPage hands out a page only once it is loaded, whatever else evicts, waits or fails
\* meanwhile, if the page can be read. (A page whose read failed is handed out unread at
\* the next call: the retry of the comment at 419-421 is only taken for state NEW.)
ReadablePageIsLoaded ==
    \A t \in Threads :
        At(t, "hold") /\ Page(t) \notin Unreadable => frame[Page(t)] \in {"loaded", "reloaded"}

\* "Is someone currently evicting the page?" (453): a frame in one of the states of an
\* eviction has a thread that is evicting it.
EvictionIsInProgress ==
    \A p \in Pages :
        frame[p] \in {"evicting", "reloaded"} =>
            \E t \in Threads : pc[t] \in FlushPoints /\ Evicting(t) /\ victim[t] = p

\* A thread never waits for a latch on a file that it keeps shared itself and a writer has
\* entered: the two would wait for each other for ever.
NoSelfBlockedReader ==
    \A t \in Threads :
        ~ /\ At(t, "lockFile")
          /\ <<t, "own">> \in fileReaders[FileOfCall(t)]
          /\ fileWriter[FileOfCall(t)] # None

\* What the callers see: a page is in its frame once that is loaded, and in the file
\* otherwise; the bytes of an append are first in the file.
HalfAppended(p) == \E t \in Threads : At(t, "appendFrame") /\ Page(t) = p

Store == [p \in Pages |->
            [head |-> IF Cached(p) THEN data[p].head ELSE disk[p].head,
             tail |-> IF Cached(p) /\ ~HalfAppended(p) THEN data[p].tail ELSE disk[p].tail]]

Abstract == INSTANCE PageStore WITH store <- Store

\* The buffer is a linearizable page store: caching, eviction, flushing in the background
\* and failing writes never show in what a call answers.
ImplementsPageStore == Abstract!Spec

\* Every call returns, whatever the threads run into: nobody waits for a latch for ever.
AllCallsReturn == <>(\A t \in Threads : At(t, "idle") /\ left[t] = 0)
===============================================================================
