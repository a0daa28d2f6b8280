------------------------- MODULE FilePageBufferProofs -------------------------
(***************************************************************************)
(* Proofs about FilePageBuffer for any number of threads, files and pages, *)
(* any capacity and any calls: its invariants, and that it implements      *)
(* PageStore.                                                              *)
(*                                                                         *)
(* None of the invariants is inductive by itself.  A frame can be evicted  *)
(* when num_users is 0, so the safety of a pointer to it rests on counting *)
(* (Counted); that the bytes are not torn rests on who holds which latch   *)
(* at which point of the code (Latched); and that a clean frame equals the *)
(* file rests on both, with what a thread knows about a page half way      *)
(* through a load, a flush, a write or an append (Synced).  IInv joins     *)
(* them.                                                                   *)
(***************************************************************************)
EXTENDS FilePageBuffer, FiniteSetTheorems, TLAPS

AppendPoints == {"append", "appendFrame", "unlockFileX"}

\* Points at which a thread shares the latch of its file.
SharePoints == {"fix", "alloc", "evict", "unlockFile", "flushStart", "flushNext"}
                   \cup FixPoints \cup FlushPoints

\* What kind of call stands where, and who has the directory latch.
Placed(t) ==
    /\ pc[t] = "idle" => call[t] = NoCall
    /\ pc[t] # "idle" => call[t] \in Call
    /\ pc[t] \in {"lockFileX", "drainFile"} \cup AppendPoints => call[t].kind = "append"
    /\ pc[t] \in {"flushStart", "flushNext"} => call[t].kind = "flush"
    /\ pc[t] \in {"fix", "alloc", "evict"} \cup FixPoints => call[t].kind \in {"read", "write", "stream"}
    /\ pc[t] \in {"lockFile", "unlockFile"} \cup FlushPoints => call[t].kind # "append"
    /\ pc[t] \in {"drainFrame", "mark"} => call[t].kind = "write"
    /\ pc[t] \in {"alloc", "evict", "flushNext"} => dir = t
    /\ pc[t] \in FlushPoints => victim[t] \in Pages
    /\ todo[t] # {} => call[t].kind = "flush" /\ pc[t] \in {"flushNext"} \cup FlushPoints
    /\ pc[t] \in {"mark", "release", "unlockFile", "appendFrame", "unlockFileX"}
         <=> reply[t].status # "none"
    /\ reply[t].status = "none" => reply[t] = NoReply

\* Which latches a thread has where.
Latched(t) ==
    /\ pc[t] \in SharePoints => <<t, "own">> \in fileReaders[FileOfCall(t)]
    /\ pc[t] \in FlushPoints /\ Evicting(t) =>
           <<t, "victim">> \in fileReaders[FileOf[victim[t]]]
    /\ pc[t] \in FlushPoints /\ ~Evicting(t) => FileOf[victim[t]] = FileOfCall(t)
    /\ \A p \in todo[t] : FileOf[p] = FileOfCall(t)
    /\ pc[t] \in {"drainFile"} \cup AppendPoints => fileWriter[FileOfCall(t)] = t
    /\ pc[t] \in AppendPoints => fileReaders[FileOfCall(t)] = {}
    /\ pc[t] \in {"load", "loaded"} => frameWriter[Page(t)] = t /\ frameReaders[Page(t)] = {}
    /\ pc[t] = "drainFrame" => frameWriter[Page(t)] = t
    /\ pc[t] \in {"hold", "mark", "release"} /\ Exclusive(t) =>
           frameWriter[Page(t)] = t /\ frameReaders[Page(t)] = {}
    /\ pc[t] \in {"hold", "release"} /\ ~Exclusive(t) => t \in frameReaders[Page(t)]
    /\ pc[t] \in {"flushWrite", "flushClear"} => t \in frameReaders[victim[t]]

\* The state of the frame that a thread uses.
Framed(t) ==
    /\ pc[t] \in {"load", "loaded"} => frame[Page(t)] = "loading"
    /\ pc[t] \in FixPoints => frame[Page(t)] \in {"loading", "loaded", "reloaded"}
    /\ pc[t] \in FlushPoints /\ Evicting(t) => frame[victim[t]] \in {"evicting", "reloaded"}
    /\ pc[t] \in FlushPoints => frame[victim[t]] # "absent"
    /\ \A p \in todo[t] : frame[p] # "absent"

\* num_users counts the threads that use a frame.
Counted(p) ==
    /\ users[p] >= Cardinality(Pinners(p))
    /\ Unreadable = {} /\ ~WriteMayFail => users[p] = Cardinality(Pinners(p))
    /\ frame[p] = "absent" => users[p] = 0

\* What a thread knows about the bytes of a page.
Synced(t) ==
    /\ pc[t] = "loaded" => data[Page(t)] = disk[Page(t)]
    /\ pc[t] = "flushClear" /\ Cached(victim[t]) => data[victim[t]] = disk[victim[t]]
    /\ pc[t] = "flushEnd" /\ Evicting(t) /\ frame[victim[t]] = "evicting" => ~dirty[victim[t]]
    /\ pc[t] = "appendFrame" =>
         /\ disk[Page(t)].tail = call[t].val
         /\ Cached(Page(t)) /\ ~dirty[Page(t)] => data[Page(t)].head = disk[Page(t)].head

\* A frame that is being loaded has a thread that loads it, unless a load has failed.
Loading(p) == frame[p] = "loading" =>
                 \E t \in Threads : pc[t] \in {"load", "loaded"} /\ Page(t) = p

Loaded(t) == pc[t] \in {"hold", "mark", "release"} => frame[Page(t)] # "loading"

LoadsSucceed == /\ \A p \in Pages \ Unreadable : Loading(p)
                /\ \A t \in Threads : Page(t) \notin Unreadable => Loaded(t)

IInv == /\ TypeOK
        /\ \A t \in Threads : Placed(t) /\ Latched(t) /\ Framed(t) /\ Synced(t)
        /\ \A p \in Pages : Counted(p)
        /\ CleanFrameMatchesDisk
        /\ LoadsSucceed

-------------------------------------------------------------------------------
(* Constants, sequences and counting *)

LEMMA BlankIsContent == Blank \in Content
BY PageAssumption DEF Blank, Content

\* Taking a page out of a queue leaves a queue.
LEMMA WithoutType ==
    ASSUME NEW s \in Seq(Pages), NEW p \in Pages
    PROVE  Without(s, p) \in Seq(Pages)
<1>1. CASE \E i \in 1..Len(s) : s[i] = p
  <2>1. PICK i \in 1..Len(s) : i = CHOOSE j \in 1..Len(s) : s[j] = p
    BY <1>1
  <2>2. Without(s, p) = SubSeq(s, 1, i - 1) \o SubSeq(s, i + 1, Len(s))
    BY <1>1, <2>1 DEF Without
  <2>3. SubSeq(s, 1, i - 1) \in Seq(Pages) /\ SubSeq(s, i + 1, Len(s)) \in Seq(Pages)
    OBVIOUS
  <2>. QED  BY <2>2, <2>3
<1>2. CASE ~ \E i \in 1..Len(s) : s[i] = p
  BY <1>2 DEF Without
<1>. QED  BY <1>1, <1>2

\* The users of a page are finitely many.
LEMMA PinnersFinite ==
    ASSUME NEW p \in Pages
    PROVE  IsFiniteSet(Pinners(p)) /\ Cardinality(Pinners(p)) \in Nat
BY SizeAssumption, FS_Subset, FS_CardinalityType DEF Pinners

\* A thread that uses a page is counted ...
LEMMA PinnerCounted ==
    ASSUME IInv, NEW p \in Pages, NEW t \in Threads, Pins(t, p)
    PROVE  users[p] >= 1
<1>1. t \in Pinners(p)
  BY DEF Pinners
<1>2. Cardinality(Pinners(p)) # 0
  BY <1>1, PinnersFinite, FS_EmptySet
<1>. QED  BY <1>2, PinnersFinite DEF IInv, Counted, TypeOK

\* ... and two of them count for two.
LEMMA PinnersCounted ==
    ASSUME IInv, NEW p \in Pages, NEW t \in Threads, NEW u \in Threads, t # u,
           Pins(t, p), Pins(u, p)
    PROVE  users[p] >= 2
<1>1. t \in Pinners(p) /\ u \in Pinners(p) \ {t}
  BY DEF Pinners
<1>2. /\ IsFiniteSet(Pinners(p) \ {t})
      /\ Cardinality(Pinners(p) \ {t}) = Cardinality(Pinners(p)) - 1
  BY <1>1, PinnersFinite, FS_RemoveElement
<1>3. Cardinality(Pinners(p) \ {t}) # 0
  BY <1>1, <1>2, FS_EmptySet
<1>. QED  BY <1>2, <1>3, PinnersFinite, FS_CardinalityType DEF IInv, Counted, TypeOK

-------------------------------------------------------------------------------
USE DEF Allocating, disks, frames, queues, fileLatches, frameLatches, locals,
        At, GoTo, Page, FileOfCall, Directory, Answer

\* Writing a part of a page gives a page.
LEMMA ContentParts ==
    ASSUME NEW c \in Content, NEW v \in Values
    PROVE  [c EXCEPT !.head = v] \in Content /\ [c EXCEPT !.tail = v] \in Content
BY DEF Content

\* What the call of a thread that is in one looks like.
LEMMA CallTyped ==
    ASSUME IInv, NEW t \in Threads, pc[t] # "idle"
    PROVE  /\ call[t] \in Call
           /\ Page(t) \in Pages /\ FileOfCall(t) \in Files
           /\ call[t].val \in Values /\ call[t].kind \in Kinds
BY PageAssumption DEF IInv, Placed, Call

LEMMA EraseQueues ==
    ASSUME TypeOK, NEW p \in Pages, Erase(p)
    PROVE  fifo' \in Seq(Pages) /\ lru' \in Seq(Pages)
<1>1. Without(fifo, p) \in Seq(Pages) /\ Without(lru, p) \in Seq(Pages)
  BY WithoutType DEF TypeOK
<1>. QED  BY <1>1 DEF Erase, TypeOK

LEMMA TypeStep ==
    ASSUME IInv, NEW t \in Threads, Step(t)
    PROVE  TypeOK'
<1>1. TypeOK /\ Placed(t)
  BY DEF IInv
<1>2. FileOf \in [Pages -> Files] /\ None \notin Threads /\ Calls \subseteq Call
  BY PageAssumption
<1>3. \A s \in Seq(Pages), p \in Pages : Without(s, p) \in Seq(Pages)
  BY WithoutType
<1>4. pc[t] # "idle" => /\ Page(t) \in Pages /\ FileOfCall(t) \in Files /\ call[t] \in Call
                        /\ call[t].val \in Values
  BY CallTyped
<1>5. /\ pc[t] = "release" => users[Page(t)] - 1 \in Nat
      /\ pc[t] = "flushEnd" => victim[t] \in Pages /\ users[victim[t]] - 1 \in Nat
  BY <1>1, <1>4, PinnerCounted DEF TypeOK, Placed, Pins, FixPoints, FlushPoints
<1>6. Blank \in Content /\ NoReply \in [status : {"none", "ok", "failed"}, content : Content]
  BY BlankIsContent DEF NoReply
<1>. USE <1>1, <1>2, <1>4, <1>5, <1>6 DEF TypeOK, Points
<1>7. CASE Invoke(t)
  <2>1. PICK c \in Calls : call' = [call EXCEPT ![t] = c]
    BY <1>7 DEF Invoke
  <2>2. call' \in [Threads -> Call \cup {NoCall}]
    BY <2>1
  <2>3. left' \in [Threads -> Nat] /\ unflushed' \in [Threads -> SUBSET Pages]
    BY <1>7 DEF Invoke, Resident
  <2>4. pc' \in [Threads -> Points]
    BY <1>7 DEF Invoke
  <2>. QED  BY <1>7, <2>2, <2>3, <2>4 DEF Invoke
<1>8. CASE LockFile(t)
  BY <1>8 DEF LockFile
<1>9. CASE FixHit(t)
  <2>1. fifo' \in Seq(Pages) /\ lru' \in Seq(Pages)
    BY <1>3, <1>9 DEF FixHit
  <2>2. frame' \in [Pages -> States]
    BY <1>9 DEF FixHit, States
  <2>3. users' \in [Pages -> Nat]
    BY <1>9 DEF FixHit, Use
  <2>. QED  BY <1>9, <2>1, <2>2, <2>3 DEF FixHit
<1>10. CASE FixMiss(t)
  BY <1>10 DEF FixMiss
<1>11. CASE EvictClean(t)
  <2>1. PICK v \in Pages : Erase(v)
    BY <1>11 DEF EvictClean
  <2>2. fifo' \in Seq(Pages) /\ lru' \in Seq(Pages)
    BY <2>1, EraseQueues
  <2>3. /\ frame' \in [Pages -> States] /\ data' \in [Pages -> Content]
        /\ todo' \in [Threads -> SUBSET Pages]
    BY <2>1 DEF Erase, States
  <2>. QED  BY <1>11, <2>2, <2>3 DEF EvictClean
<1>12. CASE EvictDirty(t)
  <2>1. PICK v \in Pages :
              /\ frame' = [frame EXCEPT ![v] = "evicting"]
              /\ users' = [users EXCEPT ![v] = @ + 1]
              /\ fileReaders' = [fileReaders EXCEPT ![FileOf[v]] = @ \cup {<<t, "victim">>}]
              /\ victim' = [victim EXCEPT ![t] = v]
    BY <1>12 DEF EvictDirty, Use
  <2>2. frame' \in [Pages -> States] /\ users' \in [Pages -> Nat]
    BY <2>1 DEF States
  <2>3. /\ fileReaders' \in [Files -> SUBSET (Threads \X {"own", "victim"})]
        /\ victim' \in [Threads -> Pages \cup {None}]
    BY <2>1
  <2>. QED  BY <1>12, <2>2, <2>3 DEF EvictDirty
<1>13. CASE AllocateRetry(t)
  BY <1>13 DEF AllocateRetry
<1>14. CASE InsertFrame(t)
  <2>1. frame' \in [Pages -> States] /\ users' \in [Pages -> Nat]
    BY <1>14 DEF InsertFrame, States
  <2>2. fifo' \in Seq(Pages)
    BY <1>14 DEF InsertFrame
  <2>. QED  BY <1>14, <2>1, <2>2 DEF InsertFrame
<1>15. CASE LoadRead(t)
  BY <1>15 DEF LoadRead
<1>16. CASE LoadFail(t)
  BY <1>16 DEF LoadFail
<1>17. CASE LoadRegister(t)
  <2>1. frame' \in [Pages -> States]
    BY <1>17 DEF LoadRegister, States
  <2>2. /\ frameWriter' \in [Pages -> Threads \cup {None}]
        /\ pc' \in [Threads -> Points]
    BY <1>17 DEF LoadRegister
  <2>. QED  BY <1>17, <2>1, <2>2 DEF LoadRegister
<1>18. CASE LockFrameShared(t)
  BY <1>18 DEF LockFrameShared
<1>19. CASE EnterFrame(t)
  BY <1>19 DEF EnterFrame
<1>20. CASE LockFrameExclusive(t)
  BY <1>20 DEF LockFrameExclusive
<1>21. CASE ReadPage(t)
  BY <1>21 DEF ReadPage
<1>22. CASE WritePage(t)
  <2>1. [data[Page(t)] EXCEPT !.head = call[t].val] \in Content
    BY <1>22, ContentParts DEF WritePage
  <2>2. data' \in [Pages -> Content]
    BY <1>22, <2>1 DEF WritePage
  <2>. QED  BY <1>22, <2>2 DEF WritePage
<1>23. CASE MarkAsDirty(t)
  BY <1>23 DEF MarkAsDirty
<1>24. CASE Release(t)
  <2>1. users' \in [Pages -> Nat]
    BY <1>24 DEF Release, Unuse
  <2>2. /\ frameWriter' \in [Pages -> Threads \cup {None}]
        /\ frameReaders' \in [Pages -> SUBSET Threads]
    <3>1. CASE Exclusive(t)
      BY <1>24, <3>1 DEF Release
    <3>2. CASE ~Exclusive(t)
      <4>1. /\ frameReaders' = [frameReaders EXCEPT ![Page(t)] = @ \ {t}]
            /\ UNCHANGED frameWriter /\ Page(t) \in Pages
        BY <1>24, <3>2 DEF Release
      <4>. QED  BY <4>1
    <3>. QED  BY <3>1, <3>2
  <2>3. pc' \in [Threads -> Points]
    BY <1>24 DEF Release
  <2>4. call' \in [Threads -> Call \cup {NoCall}]
    <3>1. CASE UNCHANGED call
      BY <3>1
    <3>2. CASE \E p \in Pages : call' = [call EXCEPT ![t].kind = "read", ![t].page = p]
      <4>1. PICK p \in Pages : call' = [call EXCEPT ![t].kind = "read", ![t].page = p]
        BY <3>2
      <4>2. call' = [call EXCEPT ![t] = [[@ EXCEPT !.kind = "read"] EXCEPT !.page = p]]
        BY <4>1
      <4>3. [[call[t] EXCEPT !.kind = "read"] EXCEPT !.page = p] \in Call
        BY <1>24 DEF Release, Call, Kinds
      <4>. QED  BY <4>2, <4>3
    <3>. QED  BY <1>24, <3>1, <3>2 DEF Release
  <2>5. reply' \in [Threads -> [status : {"none", "ok", "failed"}, content : Content]]
    BY <1>24 DEF Release
  <2>. QED  BY <1>24, <2>1, <2>2, <2>3, <2>4, <2>5 DEF Release
<1>25. CASE UnlockFile(t)
  BY <1>25 DEF UnlockFile, Return
<1>26. CASE EnterFile(t)
  BY <1>26 DEF EnterFile
<1>27. CASE LockFileExclusive(t)
  BY <1>27 DEF LockFileExclusive
<1>28. CASE AppendDisk(t)
  <2>1. [disk[Page(t)] EXCEPT !.tail = call[t].val] \in Content
    BY <1>28, ContentParts DEF AppendDisk
  <2>2. disk' \in [Pages -> Content]
    BY <1>28, <2>1 DEF AppendDisk
  <2>. QED  BY <1>28, <2>2 DEF AppendDisk
<1>29. CASE AppendFail(t)
  BY <1>29 DEF AppendFail
<1>30. CASE AppendFrame(t)
  <2>1. [data[Page(t)] EXCEPT !.tail = call[t].val] \in Content
    BY <1>30, ContentParts DEF AppendFrame
  <2>2. data' \in [Pages -> Content]
    BY <1>30, <2>1 DEF AppendFrame
  <2>. QED  BY <1>30, <2>2 DEF AppendFrame
<1>31. CASE UnlockFileExclusive(t)
  BY <1>31 DEF UnlockFileExclusive, Return
<1>32. CASE FlushStart(t)
  BY <1>32 DEF FlushStart, Resident
<1>33. CASE FlushNext(t)
  <2>1. PICK p \in todo[t] :
              /\ todo' = [todo EXCEPT ![t] = @ \ {p}]
              /\ \/ /\ Use(p)
                    /\ victim' = [victim EXCEPT ![t] = p]
                    /\ dir' = None
                    /\ GoTo(t, "flushLatch")
                 \/ UNCHANGED <<users, victim, dir, pc>>
    BY <1>33 DEF FlushNext
  <2>2. p \in Pages
    OBVIOUS
  <2>3. todo' \in [Threads -> SUBSET Pages]
    BY <2>1
  <2>4. CASE Use(p) /\ victim' = [victim EXCEPT ![t] = p] /\ dir' = None /\ GoTo(t, "flushLatch")
    BY <1>33, <2>2, <2>3, <2>4 DEF FlushNext, Use
  <2>5. CASE UNCHANGED <<users, victim, dir, pc>>
    BY <1>33, <2>3, <2>5 DEF FlushNext
  <2>. QED  BY <2>1, <2>4, <2>5
<1>34. CASE FlushFinish(t)
  BY <1>34 DEF FlushFinish
<1>35. CASE FlushLatch(t)
  BY <1>35 DEF FlushLatch
<1>36. CASE FlushWrite(t)
  <2>1. victim[t] \in Pages
    BY <1>36 DEF FlushWrite, Placed, FlushPoints
  <2>2. disk' \in [Pages -> Content]
    <3>1. CASE dirty[victim[t]]
      <4>1. disk' = [disk EXCEPT ![victim[t]] = data[victim[t]]]
        BY <1>36, <3>1 DEF FlushWrite
      <4>. QED  BY <4>1, <2>1
    <3>2. CASE ~dirty[victim[t]]
      BY <1>36, <3>2 DEF FlushWrite
    <3>. QED  BY <3>1, <3>2
  <2>3. unflushed' \in [Threads -> SUBSET Pages]
    <3>1. CASE dirty[victim[t]]
      BY <1>36, <3>1 DEF FlushWrite
    <3>2. CASE ~dirty[victim[t]]
      BY <1>36, <3>2 DEF FlushWrite
    <3>. QED  BY <3>1, <3>2
  <2>. QED  BY <1>36, <2>2, <2>3 DEF FlushWrite
<1>37. CASE FlushFail(t)
  BY <1>37 DEF FlushFail
<1>38. CASE FlushClear(t)
  BY <1>38 DEF FlushClear
<1>39. CASE FlushResume(t)
  BY <1>39 DEF FlushResume, Unuse
<1>40. CASE EvictResume(t)
  <2>1. victim[t] \in Pages /\ users' \in [Pages -> Nat]
    BY <1>40 DEF EvictResume, Unuse
  <2>2. fifo' \in Seq(Pages) /\ lru' \in Seq(Pages)
    BY <1>3, <1>40, <2>1 DEF EvictResume, Erase
  <2>3. \/ frame' = frame
        \/ frame' = [frame EXCEPT ![victim[t]] = "loaded"]
        \/ frame' = [frame EXCEPT ![victim[t]] = "absent"]
    BY <1>40 DEF EvictResume, Erase
  <2>6. frame' \in [Pages -> States]
    BY <2>1, <2>3 DEF States
  <2>7. pc' \in [Threads -> Points]
    BY <1>40 DEF EvictResume, Points
  <2>4. data' \in [Pages -> Content] /\ todo' \in [Threads -> SUBSET Pages]
    BY <1>40, <2>1 DEF EvictResume, Erase
  <2>5. /\ fileReaders' \in [Files -> SUBSET (Threads \X {"own", "victim"})]
        /\ victim' \in [Threads -> Pages \cup {None}]
    BY <1>40, <2>1 DEF EvictResume
  <2>. QED  BY <1>40, <2>1, <2>2, <2>4, <2>5, <2>6, <2>7 DEF EvictResume
<1>. QED
  BY <1>7, <1>8, <1>9, <1>10, <1>11, <1>12, <1>13, <1>14, <1>15, <1>16, <1>17, <1>18, <1>19, <1>20, <1>21, <1>22, <1>23, <1>24, <1>25, <1>26, <1>27, <1>28, <1>29, <1>30, <1>31, <1>32, <1>33, <1>34, <1>35, <1>36, <1>37, <1>38, <1>39, <1>40 DEF Step

-------------------------------------------------------------------------------
(* What a step of one thread leaves alone of the others *)

\* Where the others stand, what they do, and the directory latch if one has it.
LocalsKept(t) ==
    \A u \in Threads \ {t} :
        /\ pc'[u] = pc[u] /\ call'[u] = call[u]
        /\ reply'[u] = reply[u] /\ victim'[u] = victim[u]
        /\ todo'[u] \subseteq todo[u]
        /\ dir = u => dir' = u

\* The file latches that the others have, and no one joins a writer.
FileLatchesKept(t) ==
    \A u \in Threads \ {t}, f \in Files :
        /\ \A r \in {"own", "victim"} :
               <<u, r>> \in fileReaders[f] => <<u, r>> \in fileReaders'[f]
        /\ fileWriter[f] = u => /\ fileWriter'[f] = u
                               /\ fileReaders'[f] \subseteq fileReaders[f]

\* The same of the frame latches.
FrameLatchesKept(t) ==
    \A u \in Threads \ {t}, p \in Pages :
        frame[p] # "absent" =>
            /\ u \in frameReaders[p] => u \in frameReaders'[p]
            /\ frameWriter[p] = u => /\ frameWriter'[p] = u
                                    /\ frameReaders'[p] \subseteq frameReaders[p]

LEMMA LocalsStep ==
    ASSUME IInv, NEW t \in Threads, Step(t)
    PROVE  LocalsKept(t)
<1>0. TypeOK /\ Placed(t) /\ None \notin Threads
  BY PageAssumption DEF IInv
<1>. USE <1>0 DEF LocalsKept, TypeOK, Placed
<1>1. CASE Invoke(t)
  BY <1>1 DEF Invoke
<1>2. CASE LockFile(t)
  BY <1>2 DEF LockFile
<1>3. CASE FixHit(t)
  BY <1>3 DEF FixHit, Use
<1>4. CASE FixMiss(t)
  BY <1>4 DEF FixMiss
<1>5. CASE EvictClean(t)
  BY <1>5 DEF EvictClean, Erase
<1>6. CASE EvictDirty(t)
  BY <1>6 DEF EvictDirty, Use
<1>7. CASE AllocateRetry(t)
  BY <1>7 DEF AllocateRetry
<1>8. CASE InsertFrame(t)
  BY <1>8 DEF InsertFrame
<1>9. CASE LoadRead(t)
  BY <1>9 DEF LoadRead
<1>10. CASE LoadFail(t)
  BY <1>10 DEF LoadFail
<1>11. CASE LoadRegister(t)
  BY <1>11 DEF LoadRegister
<1>12. CASE LockFrameShared(t)
  BY <1>12 DEF LockFrameShared
<1>13. CASE EnterFrame(t)
  BY <1>13 DEF EnterFrame
<1>14. CASE LockFrameExclusive(t)
  BY <1>14 DEF LockFrameExclusive
<1>15. CASE ReadPage(t)
  BY <1>15 DEF ReadPage
<1>16. CASE WritePage(t)
  BY <1>16 DEF WritePage
<1>17. CASE MarkAsDirty(t)
  BY <1>17 DEF MarkAsDirty
<1>18. CASE Release(t)
  BY <1>18 DEF Release, Unuse
<1>19. CASE UnlockFile(t)
  BY <1>19 DEF UnlockFile, Return
<1>20. CASE EnterFile(t)
  BY <1>20 DEF EnterFile
<1>21. CASE LockFileExclusive(t)
  BY <1>21 DEF LockFileExclusive
<1>22. CASE AppendDisk(t)
  BY <1>22 DEF AppendDisk
<1>23. CASE AppendFail(t)
  BY <1>23 DEF AppendFail
<1>24. CASE AppendFrame(t)
  BY <1>24 DEF AppendFrame
<1>25. CASE UnlockFileExclusive(t)
  BY <1>25 DEF UnlockFileExclusive, Return
<1>26. CASE FlushStart(t)
  BY <1>26 DEF FlushStart
<1>27. CASE FlushNext(t)
  BY <1>27 DEF FlushNext, Use, NeedsFlush
<1>28. CASE FlushFinish(t)
  BY <1>28 DEF FlushFinish
<1>29. CASE FlushLatch(t)
  BY <1>29 DEF FlushLatch
<1>30. CASE FlushWrite(t)
  BY <1>30 DEF FlushWrite
<1>31. CASE FlushFail(t)
  BY <1>31 DEF FlushFail
<1>32. CASE FlushClear(t)
  BY <1>32 DEF FlushClear
<1>33. CASE FlushResume(t)
  BY <1>33 DEF FlushResume, Unuse
<1>34. CASE EvictResume(t)
  BY <1>34 DEF EvictResume, Unuse, Erase
<1>. QED
  BY <1>1, <1>2, <1>3, <1>4, <1>5, <1>6, <1>7, <1>8, <1>9, <1>10, <1>11, <1>12, <1>13, <1>14, <1>15, <1>16, <1>17, <1>18, <1>19, <1>20, <1>21, <1>22, <1>23, <1>24, <1>25, <1>26, <1>27, <1>28, <1>29, <1>30, <1>31, <1>32, <1>33, <1>34 DEF Step

LEMMA FileLatchesStep ==
    ASSUME IInv, NEW t \in Threads, Step(t)
    PROVE  FileLatchesKept(t)
<1>0. /\ TypeOK /\ Latched(t) /\ None \notin Threads
      /\ pc[t] # "idle" => Page(t) \in Pages /\ FileOfCall(t) \in Files
      /\ \A p \in Pages : FileOf[p] \in Files
  BY PageAssumption, CallTyped DEF IInv
<1>. USE <1>0 DEF FileLatchesKept, TypeOK
<1>1. CASE Invoke(t)
  BY <1>1 DEF Invoke
<1>2. CASE LockFile(t)
  BY <1>2 DEF LockFile
<1>3. CASE FixHit(t)
  BY <1>3 DEF FixHit, Use
<1>4. CASE FixMiss(t)
  BY <1>4 DEF FixMiss
<1>5. CASE EvictClean(t)
  BY <1>5 DEF EvictClean, Erase
<1>6. CASE EvictDirty(t)
  BY <1>6 DEF EvictDirty, Use, Evicts, Evictable
<1>7. CASE AllocateRetry(t)
  BY <1>7 DEF AllocateRetry
<1>8. CASE InsertFrame(t)
  BY <1>8 DEF InsertFrame
<1>9. CASE LoadRead(t)
  BY <1>9 DEF LoadRead
<1>10. CASE LoadFail(t)
  BY <1>10 DEF LoadFail
<1>11. CASE LoadRegister(t)
  BY <1>11 DEF LoadRegister
<1>12. CASE LockFrameShared(t)
  BY <1>12 DEF LockFrameShared
<1>13. CASE EnterFrame(t)
  BY <1>13 DEF EnterFrame
<1>14. CASE LockFrameExclusive(t)
  BY <1>14 DEF LockFrameExclusive
<1>15. CASE ReadPage(t)
  BY <1>15 DEF ReadPage
<1>16. CASE WritePage(t)
  BY <1>16 DEF WritePage
<1>17. CASE MarkAsDirty(t)
  BY <1>17 DEF MarkAsDirty
<1>18. CASE Release(t)
  BY <1>18 DEF Release, Unuse
<1>19. CASE UnlockFile(t)
  BY <1>19 DEF UnlockFile, Return
<1>20. CASE EnterFile(t)
  BY <1>20 DEF EnterFile
<1>21. CASE LockFileExclusive(t)
  BY <1>21 DEF LockFileExclusive
<1>22. CASE AppendDisk(t)
  BY <1>22 DEF AppendDisk
<1>23. CASE AppendFail(t)
  BY <1>23 DEF AppendFail
<1>24. CASE AppendFrame(t)
  BY <1>24 DEF AppendFrame
<1>25. CASE UnlockFileExclusive(t)
  BY <1>25 DEF UnlockFileExclusive, Return, Latched, AppendPoints
<1>26. CASE FlushStart(t)
  BY <1>26 DEF FlushStart
<1>27. CASE FlushNext(t)
  BY <1>27 DEF FlushNext, Use, NeedsFlush
<1>28. CASE FlushFinish(t)
  BY <1>28 DEF FlushFinish
<1>29. CASE FlushLatch(t)
  BY <1>29 DEF FlushLatch
<1>30. CASE FlushWrite(t)
  BY <1>30 DEF FlushWrite
<1>31. CASE FlushFail(t)
  BY <1>31 DEF FlushFail
<1>32. CASE FlushClear(t)
  BY <1>32 DEF FlushClear
<1>33. CASE FlushResume(t)
  BY <1>33 DEF FlushResume, Unuse
<1>34. CASE EvictResume(t)
  BY <1>34 DEF EvictResume, Unuse, Erase
<1>. QED
  BY <1>1, <1>2, <1>3, <1>4, <1>5, <1>6, <1>7, <1>8, <1>9, <1>10, <1>11, <1>12, <1>13, <1>14, <1>15, <1>16, <1>17, <1>18, <1>19, <1>20, <1>21, <1>22, <1>23, <1>24, <1>25, <1>26, <1>27, <1>28, <1>29, <1>30, <1>31, <1>32, <1>33, <1>34 DEF Step

LEMMA FrameLatchesStep ==
    ASSUME IInv, NEW t \in Threads, Step(t)
    PROVE  FrameLatchesKept(t)
<1>0. /\ TypeOK /\ Latched(t) /\ None \notin Threads
      /\ pc[t] # "idle" => Page(t) \in Pages
      /\ pc[t] \in FlushPoints => victim[t] \in Pages
  BY PageAssumption, CallTyped DEF IInv, Placed
<1>. USE <1>0 DEF FrameLatchesKept, TypeOK
<1>1. CASE Invoke(t)
  BY <1>1 DEF Invoke
<1>2. CASE LockFile(t)
  BY <1>2 DEF LockFile
<1>3. CASE FixHit(t)
  BY <1>3 DEF FixHit, Use
<1>4. CASE FixMiss(t)
  BY <1>4 DEF FixMiss
<1>5. CASE EvictClean(t)
  BY <1>5 DEF EvictClean, Erase
<1>6. CASE EvictDirty(t)
  BY <1>6 DEF EvictDirty, Use
<1>7. CASE AllocateRetry(t)
  BY <1>7 DEF AllocateRetry
<1>8. CASE InsertFrame(t)
  BY <1>8 DEF InsertFrame
<1>9. CASE LoadRead(t)
  BY <1>9 DEF LoadRead
<1>10. CASE LoadFail(t)
  BY <1>10 DEF LoadFail, Latched
<1>11. CASE LoadRegister(t)
  BY <1>11 DEF LoadRegister, Latched
<1>12. CASE LockFrameShared(t)
  BY <1>12 DEF LockFrameShared
<1>13. CASE EnterFrame(t)
  BY <1>13 DEF EnterFrame
<1>14. CASE LockFrameExclusive(t)
  BY <1>14 DEF LockFrameExclusive
<1>15. CASE ReadPage(t)
  BY <1>15 DEF ReadPage
<1>16. CASE WritePage(t)
  BY <1>16 DEF WritePage
<1>17. CASE MarkAsDirty(t)
  BY <1>17 DEF MarkAsDirty
<1>18. CASE Release(t)
  BY <1>18 DEF Release, Unuse, Latched
<1>19. CASE UnlockFile(t)
  BY <1>19 DEF UnlockFile, Return
<1>20. CASE EnterFile(t)
  BY <1>20 DEF EnterFile
<1>21. CASE LockFileExclusive(t)
  BY <1>21 DEF LockFileExclusive
<1>22. CASE AppendDisk(t)
  BY <1>22 DEF AppendDisk
<1>23. CASE AppendFail(t)
  BY <1>23 DEF AppendFail
<1>24. CASE AppendFrame(t)
  BY <1>24 DEF AppendFrame
<1>25. CASE UnlockFileExclusive(t)
  BY <1>25 DEF UnlockFileExclusive, Return
<1>26. CASE FlushStart(t)
  BY <1>26 DEF FlushStart
<1>27. CASE FlushNext(t)
  BY <1>27 DEF FlushNext, Use, NeedsFlush
<1>28. CASE FlushFinish(t)
  BY <1>28 DEF FlushFinish
<1>29. CASE FlushLatch(t)
  BY <1>29 DEF FlushLatch, FlushPoints
<1>30. CASE FlushWrite(t)
  BY <1>30 DEF FlushWrite
<1>31. CASE FlushFail(t)
  BY <1>31 DEF FlushFail, FlushPoints
<1>32. CASE FlushClear(t)
  BY <1>32 DEF FlushClear, FlushPoints
<1>33. CASE FlushResume(t)
  BY <1>33 DEF FlushResume, Unuse
<1>34. CASE EvictResume(t)
  BY <1>34 DEF EvictResume, Unuse, Erase
<1>. QED
  BY <1>1, <1>2, <1>3, <1>4, <1>5, <1>6, <1>7, <1>8, <1>9, <1>10, <1>11, <1>12, <1>13, <1>14, <1>15, <1>16, <1>17, <1>18, <1>19, <1>20, <1>21, <1>22, <1>23, <1>24, <1>25, <1>26, <1>27, <1>28, <1>29, <1>30, <1>31, <1>32, <1>33, <1>34 DEF Step

\* Which actions change a frame's state, and which ones load it.
LEMMA StepAt ==
    ASSUME NEW t \in Threads, Step(t)
    PROVE  /\ frame' # frame => FixHit(t) \/ EvictClean(t) \/ EvictDirty(t) \/ InsertFrame(t)
                                \/ LoadRegister(t) \/ EvictResume(t)
           /\ pc[t] \in {"load", "loaded"} => LoadRead(t) \/ LoadFail(t) \/ LoadRegister(t)
<1>1. frame' # frame => FixHit(t) \/ EvictClean(t) \/ EvictDirty(t) \/ InsertFrame(t)
                           \/ LoadRegister(t) \/ EvictResume(t)
  BY DEF Step, Invoke, LockFile, FixMiss, AllocateRetry, LoadRead, LoadFail, LockFrameShared,
         EnterFrame, LockFrameExclusive, ReadPage, WritePage, MarkAsDirty, Release,
         UnlockFile, EnterFile, LockFileExclusive, AppendDisk, AppendFail, AppendFrame,
         UnlockFileExclusive, FlushStart, FlushNext, FlushFinish, FlushLatch, FlushWrite,
         FlushFail, FlushClear, FlushResume
<1>2. pc[t] \in {"load", "loaded"} => LoadRead(t) \/ LoadFail(t) \/ LoadRegister(t)
  BY DEF Step, Invoke, LockFile, FixHit, FixMiss, EvictClean, EvictDirty, AllocateRetry,
         InsertFrame, LockFrameShared, EnterFrame,
         LockFrameExclusive, ReadPage, WritePage, MarkAsDirty, Release, UnlockFile, EnterFile,
         LockFileExclusive, AppendDisk, AppendFail, AppendFrame, UnlockFileExclusive,
         FlushStart, FlushNext, FlushFinish, FlushLatch, FlushWrite, FlushFail, FlushClear,
         FlushResume, EvictResume
<1>. QED  BY <1>1, <1>2

\* A frame that another thread uses stays: its load ends, or someone comes for it while it
\* is being evicted; and the frames that its flush has still to visit stay.
FramesKept(t) ==
    \A u \in Threads \ {t}, p \in Pages :
        /\ Pins(u, p) => \/ frame'[p] = frame[p]
                         \/ frame[p] = "loading" /\ frame'[p] = "loaded" /\ frameWriter[p] = t
                                                 /\ frameReaders[p] = {}
                         \/ frame[p] = "evicting" /\ frame'[p] = "reloaded"
        /\ p \in todo'[u] => frame'[p] # "absent"

LEMMA FramesStep ==
    ASSUME IInv, NEW t \in Threads, Step(t)
    PROVE  FramesKept(t)
<1>0. /\ TypeOK /\ Placed(t) /\ Latched(t) /\ Framed(t)
      /\ pc[t] # "idle" => Page(t) \in Pages
      /\ LocalsKept(t)
  BY CallTyped, LocalsStep DEF IInv
<1>1. \A u \in Threads, p \in Pages : Pins(u, p) => frame[p] # "absent" /\ users[p] >= 1
  BY PinnerCounted DEF IInv, Framed, Pins
<1>2. \A u \in Threads \ {t}, p \in Pages : Pins(t, p) /\ Pins(u, p) => users[p] >= 2
  BY PinnersCounted
<1>3. \A u \in Threads \ {t} : \A p \in todo'[u] : p \in todo[u] /\ frame[p] # "absent"
  BY <1>0 DEF LocalsKept, IInv, Framed
<1>4. /\ pc[t] \in FlushPoints => victim[t] \in Pages /\ Pins(t, victim[t])
      /\ \A p \in Pages : users[p] \in Nat
  BY <1>0 DEF Placed, Pins, TypeOK
<1>. USE <1>3 DEF FramesKept
<1>5. CASE frame' = frame
  BY <1>1, <1>5
<1>6. CASE FixHit(t)
  BY <1>0, <1>1, <1>6 DEF FixHit, Use, TypeOK
<1>7. CASE EvictClean(t)
  <2>1. PICK v \in Pages : users[v] = 0 /\ Erase(v)
    BY <1>7 DEF EvictClean, Evicts, Evictable
  <2>. QED  BY <2>1, <1>0, <1>1 DEF Erase, TypeOK
<1>8. CASE EvictDirty(t)
  <2>1. PICK v \in Pages : users[v] = 0 /\ frame' = [frame EXCEPT ![v] = "evicting"]
    BY <1>8 DEF EvictDirty, Evicts, Evictable
  <2>. QED  BY <2>1, <1>0, <1>1 DEF TypeOK
<1>9. CASE InsertFrame(t)
  BY <1>0, <1>1, <1>9 DEF InsertFrame, TypeOK
<1>10. CASE LoadRegister(t)
  BY <1>0, <1>1, <1>10 DEF LoadRegister, Framed, Latched, TypeOK
<1>11. CASE EvictResume(t) /\ frame' # frame
  <2>1. users[victim[t]] = 1 /\ victim[t] \in Pages /\ pc[t] = "flushEnd"
    BY <1>4, <1>11 DEF EvictResume, FlushPoints
  <2>2. \A u \in Threads \ {t} : ~Pins(u, victim[t])
    BY <1>2, <1>4, <2>1 DEF FlushPoints
  <2>3. \/ frame' = [frame EXCEPT ![victim[t]] = "loaded"]
        \/ /\ frame' = [frame EXCEPT ![victim[t]] = "absent"]
           /\ \A u \in Threads : victim[t] \notin todo'[u]
    BY <1>0, <1>11 DEF EvictResume, Erase, TypeOK
  <2>. QED  BY <1>0, <1>1, <2>1, <2>2, <2>3 DEF TypeOK
<1>. QED  BY <1>5, <1>6, <1>7, <1>8, <1>9, <1>10, <1>11, StepAt

-------------------------------------------------------------------------------
(* A step keeps what is known of the other threads *)

LEMMA OthersPlaced ==
    ASSUME IInv, NEW t \in Threads, Step(t), NEW u \in Threads \ {t}
    PROVE  Placed(u)'
<1>1. Placed(u) /\ LocalsKept(t) /\ TypeOK
  BY LocalsStep DEF IInv
<1>. QED  BY <1>1 DEF Placed, LocalsKept

LEMMA OthersFramed ==
    ASSUME IInv, NEW t \in Threads, Step(t), NEW u \in Threads \ {t}
    PROVE  Framed(u)'
<1>1. Framed(u) /\ Latched(u) /\ LocalsKept(t) /\ FramesKept(t) /\ Placed(u)
  BY LocalsStep, FramesStep DEF IInv
<1>2. pc[u] \in FixPoints => Page(u) \in Pages /\ Pins(u, Page(u))
  BY CallTyped DEF FixPoints, Pins
<1>3. pc[u] \in FlushPoints => victim[u] \in Pages /\ Pins(u, victim[u])
  BY <1>1 DEF Placed, Pins
<1>4. todo'[u] \subseteq Pages
  BY TypeStep DEF TypeOK
<1>5. pc[u] \in {"load", "loaded"} => pc[u] \in FixPoints /\ frameWriter[Page(u)] # t
  BY <1>1 DEF FixPoints, Latched
<1>. QED  BY <1>1, <1>2, <1>3, <1>4, <1>5 DEF Framed, LocalsKept, FramesKept, Evicting

LEMMA OthersLatched ==
    ASSUME IInv, NEW t \in Threads, Step(t), NEW u \in Threads \ {t}
    PROVE  Latched(u)'
<1>1. /\ Framed(u) /\ Latched(u) /\ Placed(u)
      /\ LocalsKept(t) /\ FileLatchesKept(t) /\ FrameLatchesKept(t)
  BY LocalsStep, FileLatchesStep, FrameLatchesStep DEF IInv
<1>2. pc[u] # "idle" => Page(u) \in Pages /\ FileOfCall(u) \in Files
  BY CallTyped
<1>3. pc[u] \in FlushPoints => victim[u] \in Pages /\ FileOf[victim[u]] \in Files
  BY <1>1, PageAssumption DEF Placed
<1>4. /\ pc[u] \in FixPoints => frame[Page(u)] # "absent"
      /\ pc[u] \in FlushPoints => frame[victim[u]] # "absent"
  BY <1>1 DEF Framed
<1>5. /\ pc'[u] = pc[u] /\ call'[u] = call[u] /\ victim'[u] = victim[u]
      /\ \A p \in todo'[u] : p \in todo[u]
  BY <1>1 DEF LocalsKept
<1>6. /\ pc[u] \in SharePoints => <<u, "own">> \in fileReaders'[FileOfCall(u)]
      /\ pc[u] \in FlushPoints /\ Evicting(u) =>
             <<u, "victim">> \in fileReaders'[FileOf[victim[u]]]
      /\ pc[u] \in {"drainFile"} \cup AppendPoints => fileWriter'[FileOfCall(u)] = u
      /\ pc[u] \in AppendPoints => fileReaders'[FileOfCall(u)] = {}
  BY <1>1, <1>2, <1>3 DEF Latched, FileLatchesKept, SharePoints, FixPoints, FlushPoints,
                          AppendPoints
<1>7. /\ pc[u] \in {"load", "loaded"} => frameWriter'[Page(u)] = u /\ frameReaders'[Page(u)] = {}
      /\ pc[u] = "drainFrame" => frameWriter'[Page(u)] = u
      /\ pc[u] \in {"hold", "mark", "release"} /\ Exclusive(u) =>
             frameWriter'[Page(u)] = u /\ frameReaders'[Page(u)] = {}
      /\ pc[u] \in {"hold", "release"} /\ ~Exclusive(u) => u \in frameReaders'[Page(u)]
      /\ pc[u] \in {"flushWrite", "flushClear"} => u \in frameReaders'[victim[u]]
  BY <1>1, <1>2, <1>3, <1>4 DEF Latched, FrameLatchesKept, FixPoints, FlushPoints
<1>8. /\ Exclusive(u)' = Exclusive(u) /\ Evicting(u)' = Evicting(u)
      /\ FileOfCall(u)' = FileOfCall(u) /\ Page(u)' = Page(u)
  BY <1>5 DEF Exclusive, Evicting
<1>9. /\ pc[u] \in FlushPoints /\ ~Evicting(u) => FileOf[victim[u]] = FileOfCall(u)
      /\ \A p \in todo'[u] : FileOf[p] = FileOfCall(u)
  BY <1>1, <1>5 DEF Latched
<1>. HIDE DEF Page, FileOfCall
<1>. QED  BY <1>5, <1>6, <1>7, <1>8, <1>9 DEF Latched

-------------------------------------------------------------------------------
(* A step establishes what is to be known of its own thread *)

LEMMA OwnPlaced ==
    ASSUME IInv, NEW t \in Threads, Step(t)
    PROVE  Placed(t)'
<1>0. /\ TypeOK /\ Placed(t) /\ Calls \subseteq Call
      /\ \A c \in Call : c # NoCall /\ c.kind \in Kinds
  BY PageAssumption DEF IInv, Call, NoCall, Kinds
<1>. USE <1>0 DEF Placed, TypeOK, FixPoints, FlushPoints, AppendPoints
<1>1. CASE Invoke(t)
  BY <1>1 DEF Invoke, Kinds
<1>2. CASE LockFile(t)
  BY <1>2 DEF LockFile, Kinds
<1>3. CASE FixHit(t)
  BY <1>3 DEF FixHit, Use
<1>4. CASE FixMiss(t)
  BY <1>4 DEF FixMiss
<1>5. CASE EvictClean(t)
  BY <1>5 DEF EvictClean, Erase
<1>6. CASE EvictDirty(t)
  BY <1>6 DEF EvictDirty, Use
<1>7. CASE AllocateRetry(t)
  BY <1>7 DEF AllocateRetry
<1>8. CASE InsertFrame(t)
  BY <1>8 DEF InsertFrame
<1>9. CASE LoadRead(t)
  BY <1>9 DEF LoadRead
<1>10. CASE LoadFail(t)
  BY <1>10 DEF LoadFail
<1>11. CASE LoadRegister(t)
  BY <1>11 DEF LoadRegister, Exclusive, Kinds
<1>12. CASE LockFrameShared(t)
  BY <1>12 DEF LockFrameShared
<1>13. CASE EnterFrame(t)
  BY <1>13 DEF EnterFrame, Exclusive
<1>14. CASE LockFrameExclusive(t)
  BY <1>14 DEF LockFrameExclusive
<1>15. CASE ReadPage(t)
  BY <1>15 DEF ReadPage
<1>16. CASE WritePage(t)
  BY <1>16 DEF WritePage, Exclusive
<1>17. CASE MarkAsDirty(t)
  BY <1>17 DEF MarkAsDirty
<1>18. CASE Release(t)
  BY <1>18 DEF Release, Unuse, Exclusive, Call, Kinds, NoReply
<1>19. CASE UnlockFile(t)
  BY <1>19 DEF UnlockFile, Return, NoReply
<1>20. CASE EnterFile(t)
  BY <1>20 DEF EnterFile
<1>21. CASE LockFileExclusive(t)
  BY <1>21 DEF LockFileExclusive
<1>22. CASE AppendDisk(t)
  BY <1>22 DEF AppendDisk
<1>23. CASE AppendFail(t)
  BY <1>23 DEF AppendFail
<1>24. CASE AppendFrame(t)
  BY <1>24 DEF AppendFrame
<1>25. CASE UnlockFileExclusive(t)
  BY <1>25 DEF UnlockFileExclusive, Return, NoReply
<1>26. CASE FlushStart(t)
  BY <1>26 DEF FlushStart
<1>27. CASE FlushNext(t)
  BY <1>27 DEF FlushNext, Use, NeedsFlush
<1>28. CASE FlushFinish(t)
  BY <1>28 DEF FlushFinish
<1>29. CASE FlushLatch(t)
  BY <1>29 DEF FlushLatch
<1>30. CASE FlushWrite(t)
  BY <1>30 DEF FlushWrite
<1>31. CASE FlushFail(t)
  BY <1>31 DEF FlushFail
<1>32. CASE FlushClear(t)
  BY <1>32 DEF FlushClear
<1>33. CASE FlushResume(t)
  BY <1>33 DEF FlushResume, Unuse, Evicting
<1>34. CASE EvictResume(t)
  BY <1>34 DEF EvictResume, Unuse, Erase, Evicting, Kinds
<1>. QED
  BY <1>1, <1>2, <1>3, <1>4, <1>5, <1>6, <1>7, <1>8, <1>9, <1>10, <1>11, <1>12, <1>13, <1>14, <1>15, <1>16, <1>17, <1>18, <1>19, <1>20, <1>21, <1>22, <1>23, <1>24, <1>25, <1>26, <1>27, <1>28, <1>29, <1>30, <1>31, <1>32, <1>33, <1>34 DEF Step

LEMMA OwnFramed ==
    ASSUME IInv, NEW t \in Threads, Step(t)
    PROVE  Framed(t)'
<1>0. /\ TypeOK /\ Placed(t) /\ Framed(t)
      /\ pc[t] # "idle" => Page(t) \in Pages
  BY CallTyped DEF IInv
<1>. USE <1>0 DEF Framed, TypeOK, FixPoints, FlushPoints, Evicting
<1>1. CASE Invoke(t)
  BY <1>1 DEF Invoke, Placed
<1>2. CASE LockFile(t)
  BY <1>2 DEF LockFile, Placed
<1>3. CASE FixHit(t)
  BY <1>3 DEF FixHit, Use, States, Placed
<1>4. CASE FixMiss(t)
  BY <1>4 DEF FixMiss, Placed
<1>5. CASE EvictClean(t)
  BY <1>5 DEF EvictClean, Erase, Placed
<1>6. CASE EvictDirty(t)
  BY <1>6 DEF EvictDirty, Use, Placed
<1>7. CASE AllocateRetry(t)
  BY <1>7 DEF AllocateRetry, Placed
<1>8. CASE InsertFrame(t)
  BY <1>8 DEF InsertFrame, Placed
<1>9. CASE LoadRead(t)
  BY <1>9 DEF LoadRead, Placed
<1>10. CASE LoadFail(t)
  BY <1>10 DEF LoadFail, Placed
<1>11. CASE LoadRegister(t)
  BY <1>11 DEF LoadRegister, Placed
<1>12. CASE LockFrameShared(t)
  BY <1>12 DEF LockFrameShared, Placed
<1>13. CASE EnterFrame(t)
  BY <1>13 DEF EnterFrame, Placed
<1>14. CASE LockFrameExclusive(t)
  BY <1>14 DEF LockFrameExclusive, Placed
<1>15. CASE ReadPage(t)
  BY <1>15 DEF ReadPage, Placed
<1>16. CASE WritePage(t)
  BY <1>16 DEF WritePage, Placed
<1>17. CASE MarkAsDirty(t)
  BY <1>17 DEF MarkAsDirty, Placed
<1>18. CASE Release(t)
  BY <1>18 DEF Release, Unuse, Placed
<1>19. CASE UnlockFile(t)
  BY <1>19 DEF UnlockFile, Return, Placed
<1>20. CASE EnterFile(t)
  BY <1>20 DEF EnterFile, Placed
<1>21. CASE LockFileExclusive(t)
  BY <1>21 DEF LockFileExclusive, Placed
<1>22. CASE AppendDisk(t)
  BY <1>22 DEF AppendDisk, Placed
<1>23. CASE AppendFail(t)
  BY <1>23 DEF AppendFail, Placed
<1>24. CASE AppendFrame(t)
  BY <1>24 DEF AppendFrame, Placed
<1>25. CASE UnlockFileExclusive(t)
  BY <1>25 DEF UnlockFileExclusive, Return, Placed
<1>26. CASE FlushStart(t)
  BY <1>26 DEF FlushStart, Resident, Placed
<1>27. CASE FlushNext(t)
  BY <1>27 DEF FlushNext, Use, NeedsFlush, Placed
<1>28. CASE FlushFinish(t)
  BY <1>28 DEF FlushFinish, Placed
<1>29. CASE FlushLatch(t)
  BY <1>29 DEF FlushLatch, Placed
<1>30. CASE FlushWrite(t)
  BY <1>30 DEF FlushWrite, Placed
<1>31. CASE FlushFail(t)
  BY <1>31 DEF FlushFail, Placed
<1>32. CASE FlushClear(t)
  BY <1>32 DEF FlushClear, Placed
<1>33. CASE FlushResume(t)
  BY <1>33 DEF FlushResume, Unuse, Placed
<1>34. CASE EvictResume(t)
  BY <1>34 DEF EvictResume, Unuse, Erase, Placed
<1>. QED
  BY <1>1, <1>2, <1>3, <1>4, <1>5, <1>6, <1>7, <1>8, <1>9, <1>10, <1>11, <1>12, <1>13, <1>14, <1>15, <1>16, <1>17, <1>18, <1>19, <1>20, <1>21, <1>22, <1>23, <1>24, <1>25, <1>26, <1>27, <1>28, <1>29, <1>30, <1>31, <1>32, <1>33, <1>34 DEF Step

LEMMA OwnLatched ==
    ASSUME IInv, NEW t \in Threads, Step(t)
    PROVE  Latched(t)'
<1>0. /\ TypeOK /\ Placed(t) /\ Latched(t)
      /\ pc[t] # "idle" => Page(t) \in Pages /\ FileOfCall(t) \in Files
      /\ \A p \in Pages : FileOf[p] \in Files
  BY CallTyped, PageAssumption DEF IInv
<1>. USE <1>0 DEF Latched, TypeOK, FixPoints, FlushPoints, SharePoints, AppendPoints, Evicting,
                  Exclusive
<1>1. CASE Invoke(t)
  BY <1>1 DEF Invoke, Placed
<1>2. CASE LockFile(t)
  BY <1>2 DEF LockFile, Placed
<1>3. CASE FixHit(t)
  BY <1>3 DEF FixHit, Use, Placed
<1>4. CASE FixMiss(t)
  BY <1>4 DEF FixMiss, Placed
<1>5. CASE EvictClean(t)
  BY <1>5 DEF EvictClean, Erase, Placed
<1>6. CASE EvictDirty(t)
  BY <1>6 DEF EvictDirty, Use, Placed
<1>7. CASE AllocateRetry(t)
  BY <1>7 DEF AllocateRetry, Placed
<1>8. CASE InsertFrame(t)
  BY <1>8 DEF InsertFrame, Placed
<1>9. CASE LoadRead(t)
  BY <1>9 DEF LoadRead, Placed
<1>10. CASE LoadFail(t)
  BY <1>10 DEF LoadFail, Placed
<1>11. CASE LoadRegister(t)
  BY <1>11 DEF LoadRegister, Placed
<1>12. CASE LockFrameShared(t)
  BY <1>12 DEF LockFrameShared, Placed
<1>13. CASE EnterFrame(t)
  BY <1>13 DEF EnterFrame, Placed
<1>14. CASE LockFrameExclusive(t)
  BY <1>14 DEF LockFrameExclusive, Placed
<1>15. CASE ReadPage(t)
  BY <1>15 DEF ReadPage, Placed
<1>16. CASE WritePage(t)
  BY <1>16 DEF WritePage, Placed
<1>17. CASE MarkAsDirty(t)
  BY <1>17 DEF MarkAsDirty, Placed
<1>18. CASE Release(t)
  BY <1>18 DEF Release, Unuse, Placed
<1>19. CASE UnlockFile(t)
  BY <1>19 DEF UnlockFile, Return, Placed
<1>20. CASE EnterFile(t)
  BY <1>20 DEF EnterFile, Placed
<1>21. CASE LockFileExclusive(t)
  BY <1>21 DEF LockFileExclusive, Placed
<1>22. CASE AppendDisk(t)
  BY <1>22 DEF AppendDisk, Placed
<1>23. CASE AppendFail(t)
  BY <1>23 DEF AppendFail, Placed
<1>24. CASE AppendFrame(t)
  BY <1>24 DEF AppendFrame, Placed
<1>25. CASE UnlockFileExclusive(t)
  BY <1>25 DEF UnlockFileExclusive, Return, Placed
<1>26. CASE FlushStart(t)
  BY <1>26 DEF FlushStart, Resident, Placed
<1>27. CASE FlushNext(t)
  BY <1>27 DEF FlushNext, Use, NeedsFlush, Placed
<1>28. CASE FlushFinish(t)
  BY <1>28 DEF FlushFinish, Placed
<1>29. CASE FlushLatch(t)
  BY <1>29 DEF FlushLatch, Placed
<1>30. CASE FlushWrite(t)
  BY <1>30 DEF FlushWrite, Placed
<1>31. CASE FlushFail(t)
  BY <1>31 DEF FlushFail, Placed
<1>32. CASE FlushClear(t)
  BY <1>32 DEF FlushClear, Placed
<1>33. CASE FlushResume(t)
  BY <1>33 DEF FlushResume, Unuse, Placed
<1>34. CASE EvictResume(t)
  BY <1>34 DEF EvictResume, Unuse, Erase, Placed
<1>. HIDE DEF Latched
<1>. QED
  BY <1>1, <1>2, <1>3, <1>4, <1>5, <1>6, <1>7, <1>8, <1>9, <1>10, <1>11, <1>12, <1>13, <1>14, <1>15, <1>16, <1>17, <1>18, <1>19, <1>20, <1>21, <1>22, <1>23, <1>24, <1>25, <1>26, <1>27, <1>28, <1>29, <1>30, <1>31, <1>32, <1>33, <1>34 DEF Step

-------------------------------------------------------------------------------
(* Counting *)

\* The users of a page change by the thread that steps.
LEMMA PinnersStep ==
    ASSUME IInv, NEW t \in Threads, Step(t), NEW p \in Pages
    PROVE  /\ Pins(t, p)' = Pins(t, p) => Cardinality(Pinners(p))' = Cardinality(Pinners(p))
           /\ ~Pins(t, p) /\ Pins(t, p)' => Cardinality(Pinners(p))' = Cardinality(Pinners(p)) + 1
           /\ Pins(t, p) /\ ~Pins(t, p)' => Cardinality(Pinners(p))' = Cardinality(Pinners(p)) - 1
<1>1. \A u \in Threads \ {t} : Pins(u, p)' <=> Pins(u, p)
  BY LocalsStep DEF LocalsKept, Pins
<1>2. CASE Pins(t, p)' <=> Pins(t, p)
  <2>1. Pinners(p)' = Pinners(p)
    BY <1>1, <1>2 DEF Pinners
  <2>. QED  BY <1>2, <2>1
<1>3. CASE ~Pins(t, p) /\ Pins(t, p)'
  <2>1. Pinners(p)' = Pinners(p) \cup {t} /\ t \notin Pinners(p)
    BY <1>1, <1>3 DEF Pinners
  <2>. QED  BY <1>3, <2>1, PinnersFinite, FS_AddElement
<1>4. CASE Pins(t, p) /\ ~Pins(t, p)'
  <2>1. Pinners(p)' = Pinners(p) \ {t} /\ t \in Pinners(p)
    BY <1>1, <1>4 DEF Pinners
  <2>. QED  BY <1>4, <2>1, PinnersFinite, FS_RemoveElement
<1>. QED  BY <1>2, <1>3, <1>4

LEMMA CountedStep ==
    ASSUME IInv, NEW t \in Threads, Step(t), NEW p \in Pages
    PROVE  Counted(p)'
<1>0. /\ TypeOK /\ Placed(t) /\ Framed(t) /\ Counted(p)
      /\ pc[t] # "idle" => Page(t) \in Pages
      /\ Cardinality(Pinners(p)) \in Nat
      /\ Pins(t, p) => users[p] >= 1
  BY CallTyped, PinnersFinite, PinnerCounted DEF IInv
<1>a. /\ Pins(t, p)' = Pins(t, p) => Cardinality(Pinners(p))' = Cardinality(Pinners(p))
      /\ ~Pins(t, p) /\ Pins(t, p)' => Cardinality(Pinners(p))' = Cardinality(Pinners(p)) + 1
      /\ Pins(t, p) /\ ~Pins(t, p)' => Cardinality(Pinners(p))' = Cardinality(Pinners(p)) - 1
  BY PinnersStep
<1>. USE <1>0, <1>a DEF Counted, Pins, TypeOK, FixPoints, FlushPoints
<1>1. CASE Invoke(t)
  BY <1>1 DEF Invoke, Placed, Framed
<1>2. CASE LockFile(t)
  BY <1>2 DEF LockFile, Placed, Framed
<1>3. CASE FixHit(t)
  BY <1>3 DEF FixHit, Use, States, Placed, Framed
<1>4. CASE FixMiss(t)
  BY <1>4 DEF FixMiss, Placed, Framed
<1>5. CASE EvictClean(t)
  BY <1>5 DEF EvictClean, Erase, Evicts, Evictable, Placed, Framed
<1>6. CASE EvictDirty(t)
  BY <1>6 DEF EvictDirty, Use, Evicts, Evictable, Placed, Framed
<1>7. CASE AllocateRetry(t)
  BY <1>7 DEF AllocateRetry, Placed, Framed
<1>8. CASE InsertFrame(t)
  BY <1>8 DEF InsertFrame, Placed, Framed
<1>9. CASE LoadRead(t)
  BY <1>9 DEF LoadRead, Placed, Framed
<1>10. CASE LoadFail(t)
  BY <1>10 DEF LoadFail, Placed, Framed
<1>11. CASE LoadRegister(t)
  BY <1>11 DEF LoadRegister, Placed, Framed
<1>12. CASE LockFrameShared(t)
  BY <1>12 DEF LockFrameShared, Placed, Framed
<1>13. CASE EnterFrame(t)
  BY <1>13 DEF EnterFrame, Placed, Framed
<1>14. CASE LockFrameExclusive(t)
  BY <1>14 DEF LockFrameExclusive, Placed, Framed
<1>15. CASE ReadPage(t)
  BY <1>15 DEF ReadPage, Placed, Framed
<1>16. CASE WritePage(t)
  BY <1>16 DEF WritePage, Placed, Framed
<1>17. CASE MarkAsDirty(t)
  BY <1>17 DEF MarkAsDirty, Placed, Framed
<1>18. CASE Release(t)
  BY <1>18 DEF Release, Unuse, Placed, Framed
<1>19. CASE UnlockFile(t)
  BY <1>19 DEF UnlockFile, Return, Placed, Framed
<1>20. CASE EnterFile(t)
  BY <1>20 DEF EnterFile, Placed, Framed
<1>21. CASE LockFileExclusive(t)
  BY <1>21 DEF LockFileExclusive, Placed, Framed
<1>22. CASE AppendDisk(t)
  BY <1>22 DEF AppendDisk, Placed, Framed
<1>23. CASE AppendFail(t)
  BY <1>23 DEF AppendFail, Placed, Framed
<1>24. CASE AppendFrame(t)
  BY <1>24 DEF AppendFrame, Placed, Framed
<1>25. CASE UnlockFileExclusive(t)
  BY <1>25 DEF UnlockFileExclusive, Return, Placed, Framed
<1>26. CASE FlushStart(t)
  BY <1>26 DEF FlushStart, Placed, Framed
<1>27. CASE FlushNext(t)
  BY <1>27 DEF FlushNext, Use, NeedsFlush, Placed, Framed
<1>28. CASE FlushFinish(t)
  BY <1>28 DEF FlushFinish, Placed, Framed
<1>29. CASE FlushLatch(t)
  BY <1>29 DEF FlushLatch, Placed, Framed
<1>30. CASE FlushWrite(t)
  BY <1>30 DEF FlushWrite, Placed, Framed
<1>31. CASE FlushFail(t)
  BY <1>31 DEF FlushFail, Placed, Framed
<1>32. CASE FlushClear(t)
  BY <1>32 DEF FlushClear, Placed, Framed
<1>33. CASE FlushResume(t)
  BY <1>33 DEF FlushResume, Unuse, Placed, Framed
<1>34. CASE EvictResume(t)
  BY <1>34 DEF EvictResume, Unuse, Erase, Placed, Framed
<1>. QED
  BY <1>1, <1>2, <1>3, <1>4, <1>5, <1>6, <1>7, <1>8, <1>9, <1>10, <1>11, <1>12, <1>13, <1>14, <1>15, <1>16, <1>17, <1>18, <1>19, <1>20, <1>21, <1>22, <1>23, <1>24, <1>25, <1>26, <1>27, <1>28, <1>29, <1>30, <1>31, <1>32, <1>33, <1>34 DEF Step

-------------------------------------------------------------------------------
(* Loads *)

\* Without read errors a frame that is loading keeps its loader until it is loaded, and
\* no one gets past the frame latch before that.
LEMMA LoadsStep ==
    ASSUME IInv, NEW t \in Threads, Step(t)
    PROVE  LoadsSucceed'
<1>0. /\ TypeOK /\ Placed(t) /\ Framed(t) /\ Latched(t) /\ LoadsSucceed /\ None \notin Threads
      /\ LocalsKept(t)
      /\ pc[t] # "idle" => Page(t) \in Pages
  BY CallTyped, LocalsStep, PageAssumption DEF IInv
<1>. SUFFICES /\ \A p \in Pages \ Unreadable : Loading(p)'
              /\ \A u \in Threads : Page(u)' \notin Unreadable => Loaded(u)'
  BY DEF LoadsSucceed
<1>1. ASSUME NEW p \in Pages \ Unreadable
      PROVE  Loading(p)'
  <2>1. Loading(p)
    BY <1>0 DEF LoadsSucceed
  <2>2. ASSUME NEW u \in Threads \ {t}, pc[u] \in {"load", "loaded"} /\ Page(u) = p
        PROVE  Loading(p)'
    BY <1>0, <2>2 DEF Loading, LocalsKept
  <2>3. CASE frame[p] # "loading"
    <3>1. frame'[p] = "loading" => InsertFrame(t) /\ Page(t) = p
      <4>. USE <1>0, <2>3 DEF TypeOK
      <4>1. CASE FixHit(t)
        BY <4>1 DEF FixHit
      <4>2. CASE EvictClean(t)
        BY <4>2 DEF EvictClean, Erase
      <4>3. CASE EvictDirty(t)
        BY <4>3 DEF EvictDirty
      <4>4. CASE InsertFrame(t)
        BY <4>4 DEF InsertFrame
      <4>5. CASE LoadRegister(t)
        BY <4>5 DEF LoadRegister
      <4>6. CASE EvictResume(t)
        BY <4>6 DEF EvictResume, Erase, Placed, FlushPoints
      <4>. QED  BY <4>1, <4>2, <4>3, <4>4, <4>5, <4>6, StepAt
    <3>. QED  BY <1>0, <3>1 DEF InsertFrame, Loading, TypeOK
  <2>4. CASE pc[t] \in {"load", "loaded"} /\ Page(t) = p
    <3>1. LoadRead(t) \/ LoadRegister(t)
      BY <2>4, StepAt DEF LoadFail
    <3>. QED  BY <1>0, <2>4, <3>1 DEF LoadRead, LoadRegister, Loading, TypeOK
  <2>. QED  BY <2>1, <2>2, <2>3, <2>4 DEF Loading
<1>2. ASSUME NEW u \in Threads \ {t}, Page(u)' \notin Unreadable
      PROVE  Loaded(u)'
  <2>1. Loaded(u) /\ FramesKept(t)
    BY <1>0, <1>2, FramesStep DEF LoadsSucceed, LocalsKept
  <2>2. pc[u] \in {"hold", "mark", "release"} => Page(u) \in Pages /\ Pins(u, Page(u))
    BY CallTyped DEF Pins, FixPoints
  <2>. QED  BY <1>0, <2>1, <2>2 DEF Loaded, LocalsKept, FramesKept
<1>3. pc[t] \in {"lockFrame", "drainFrame"} /\ frame[Page(t)] = "loading"
          /\ Page(t) \notin Unreadable => frameWriter[Page(t)] \in Threads \ {t}
  <2>. SUFFICES ASSUME pc[t] \in {"lockFrame", "drainFrame"}, frame[Page(t)] = "loading",
                       Page(t) \notin Unreadable
                PROVE  frameWriter[Page(t)] \in Threads \ {t}
    OBVIOUS
  <2>1. PICK u \in Threads : pc[u] \in {"load", "loaded"} /\ Page(u) = Page(t)
    BY <1>0 DEF LoadsSucceed, Loading
  <2>2. Latched(u)
    BY DEF IInv
  <2>. QED  BY <2>1, <2>2 DEF Latched
<1>4. ASSUME Page(t)' \notin Unreadable
      PROVE  Loaded(t)'
  <2>0. Page(t) \notin Unreadable => Loaded(t)
    BY <1>0 DEF LoadsSucceed
  <2>. USE <1>0, <1>3, <1>4, <2>0 DEF Loaded, TypeOK
  <2>1. CASE Invoke(t)
    BY <2>1 DEF Invoke
  <2>2. CASE LockFile(t)
    BY <2>2 DEF LockFile
  <2>3. CASE FixHit(t)
    BY <2>3 DEF FixHit, Use
  <2>4. CASE FixMiss(t)
    BY <2>4 DEF FixMiss
  <2>5. CASE EvictClean(t)
    BY <2>5 DEF EvictClean, Erase
  <2>6. CASE EvictDirty(t)
    BY <2>6 DEF EvictDirty, Use
  <2>7. CASE AllocateRetry(t)
    BY <2>7 DEF AllocateRetry
  <2>8. CASE InsertFrame(t)
    BY <2>8 DEF InsertFrame
  <2>9. CASE LoadRead(t)
    BY <2>9 DEF LoadRead
  <2>10. CASE LoadFail(t)
    BY <2>10 DEF LoadFail
  <2>11. CASE LoadRegister(t)
    BY <2>11 DEF LoadRegister
  <2>12. CASE LockFrameShared(t)
    BY <2>12 DEF LockFrameShared
  <2>13. CASE EnterFrame(t)
    BY <2>13 DEF EnterFrame
  <2>14. CASE LockFrameExclusive(t)
    BY <2>14 DEF LockFrameExclusive, Latched
  <2>15. CASE ReadPage(t)
    BY <2>15 DEF ReadPage
  <2>16. CASE WritePage(t)
    BY <2>16 DEF WritePage
  <2>17. CASE MarkAsDirty(t)
    BY <2>17 DEF MarkAsDirty
  <2>18. CASE Release(t)
    BY <2>18 DEF Release, Unuse
  <2>19. CASE UnlockFile(t)
    BY <2>19 DEF UnlockFile, Return
  <2>20. CASE EnterFile(t)
    BY <2>20 DEF EnterFile
  <2>21. CASE LockFileExclusive(t)
    BY <2>21 DEF LockFileExclusive
  <2>22. CASE AppendDisk(t)
    BY <2>22 DEF AppendDisk
  <2>23. CASE AppendFail(t)
    BY <2>23 DEF AppendFail
  <2>24. CASE AppendFrame(t)
    BY <2>24 DEF AppendFrame
  <2>25. CASE UnlockFileExclusive(t)
    BY <2>25 DEF UnlockFileExclusive, Return
  <2>26. CASE FlushStart(t)
    BY <2>26 DEF FlushStart
  <2>27. CASE FlushNext(t)
    BY <2>27 DEF FlushNext, Use, NeedsFlush, Placed
  <2>28. CASE FlushFinish(t)
    BY <2>28 DEF FlushFinish
  <2>29. CASE FlushLatch(t)
    BY <2>29 DEF FlushLatch
  <2>30. CASE FlushWrite(t)
    BY <2>30 DEF FlushWrite
  <2>31. CASE FlushFail(t)
    BY <2>31 DEF FlushFail
  <2>32. CASE FlushClear(t)
    BY <2>32 DEF FlushClear
  <2>33. CASE FlushResume(t)
    BY <2>33 DEF FlushResume, Unuse
  <2>34. CASE EvictResume(t)
    BY <2>34 DEF EvictResume, Unuse, Erase
  <2>. QED
    BY <2>1, <2>2, <2>3, <2>4, <2>5, <2>6, <2>7, <2>8, <2>9, <2>10, <2>11, <2>12, <2>13, <2>14, <2>15, <2>16, <2>17, <2>18, <2>19, <2>20, <2>21, <2>22, <2>23, <2>24, <2>25, <2>26, <2>27, <2>28, <2>29, <2>30, <2>31, <2>32, <2>33, <2>34 DEF Step
<1>. QED  BY <1>1, <1>2, <1>4

-------------------------------------------------------------------------------
(* The bytes *)

\* Threads that have p's frame latch exclusively, and threads that share it.
Owns(t, p) == /\ Page(t) = p
              /\ \/ pc[t] \in {"load", "loaded"}
                 \/ pc[t] \in {"hold", "mark", "release"} /\ Exclusive(t)

Shares(t, p) == \/ pc[t] \in {"hold", "release"} /\ ~Exclusive(t) /\ Page(t) = p
                \/ pc[t] \in {"flushWrite", "flushClear"} /\ victim[t] = p

\* The latches exclude each other: the owner of a frame latch is alone, and so is the
\* thread that appends to a file.
LEMMA LatchesExclude ==
    ASSUME IInv, NEW t \in Threads, NEW u \in Threads, t # u, NEW p \in Pages
    PROVE  /\ Owns(t, p) => ~Owns(u, p) /\ ~Shares(u, p)
           /\ pc[t] \in AppendPoints /\ Page(t) = p =>
                  ~Pins(u, p) /\ (pc[u] \in AppendPoints => Page(u) # p)
<1>1. /\ TypeOK /\ Latched(t) /\ Latched(u)
      /\ Placed(t) /\ Placed(u)
  BY DEF IInv
<1>2. /\ Owns(t, p) => frameWriter[p] = t /\ frameReaders[p] = {}
      /\ Owns(u, p) => frameWriter[p] = u
      /\ Shares(u, p) => u \in frameReaders[p]
  BY <1>1 DEF Latched, Owns, Shares, Placed, Exclusive
<1>3. Pins(u, p) => fileReaders[FileOf[p]] # {}
  BY <1>1 DEF Pins, Latched, SharePoints, FixPoints, FlushPoints
<1>4. /\ pc[t] \in AppendPoints => fileReaders[FileOfCall(t)] = {} /\ fileWriter[FileOfCall(t)] = t
      /\ pc[u] \in AppendPoints => fileWriter[FileOfCall(u)] = u
  BY <1>1 DEF Latched
<1>. QED  BY <1>2, <1>3, <1>4

\* Who changes the bytes of a page, in its frame and in its file, and its dirty flag.
LEMMA BytesStep ==
    ASSUME IInv, NEW t \in Threads, Step(t), NEW p \in Pages
    PROVE  /\ data'[p] # data[p] => \/ frame'[p] = "absent"
                                    \/ LoadRead(t) /\ Page(t) = p
                                    \/ WritePage(t) /\ Page(t) = p
                                    \/ AppendFrame(t) /\ Page(t) = p
           /\ disk'[p] # disk[p] => \/ AppendDisk(t) /\ Page(t) = p
                                    \/ FlushWrite(t) /\ victim[t] = p
           /\ dirty'[p] # dirty[p] => \/ InsertFrame(t) /\ Page(t) = p
                                      \/ LoadRegister(t) /\ Page(t) = p
                                      \/ MarkAsDirty(t) /\ Page(t) = p
                                      \/ FlushClear(t) /\ victim[t] = p
<1>1. /\ TypeOK
      /\ pc[t] # "idle" => Page(t) \in Pages
      /\ pc[t] \in FlushPoints => victim[t] \in Pages
  BY CallTyped DEF IInv, Placed
<1>. USE <1>1 DEF TypeOK
<1>2. ASSUME data' # data
      PROVE  LoadRead(t) \/ WritePage(t) \/ AppendFrame(t) \/ EvictClean(t) \/ EvictResume(t)
  BY <1>2 DEF Step, Invoke, LockFile, FixHit, FixMiss, EvictDirty, AllocateRetry,
         InsertFrame, LoadFail, LoadRegister, LockFrameShared, EnterFrame,
         LockFrameExclusive, ReadPage, MarkAsDirty, Release, UnlockFile, EnterFile,
         LockFileExclusive, AppendDisk, AppendFail, UnlockFileExclusive,
         FlushStart, FlushNext, FlushFinish, FlushLatch, FlushWrite, FlushFail, FlushClear,
         FlushResume
<1>3. ASSUME disk' # disk
      PROVE  AppendDisk(t) \/ FlushWrite(t)
  BY <1>3 DEF Step, Invoke, LockFile, FixHit, FixMiss, EvictClean, EvictDirty, AllocateRetry,
         InsertFrame, LoadRead, LoadFail, LoadRegister, LockFrameShared, EnterFrame,
         LockFrameExclusive, ReadPage, WritePage, MarkAsDirty, Release, UnlockFile, EnterFile,
         LockFileExclusive, AppendFail, AppendFrame, UnlockFileExclusive,
         FlushStart, FlushNext, FlushFinish, FlushLatch, FlushFail, FlushClear,
         FlushResume, EvictResume
<1>4. ASSUME dirty' # dirty
      PROVE  InsertFrame(t) \/ LoadRegister(t) \/ MarkAsDirty(t) \/ FlushClear(t)
  BY <1>4 DEF Step, Invoke, LockFile, FixHit, FixMiss, EvictClean, EvictDirty, AllocateRetry,
         LoadRead, LoadFail, LockFrameShared, EnterFrame,
         LockFrameExclusive, ReadPage, WritePage, Release, UnlockFile, EnterFile,
         LockFileExclusive, AppendDisk, AppendFail, AppendFrame, UnlockFileExclusive,
         FlushStart, FlushNext, FlushFinish, FlushLatch, FlushWrite, FlushFail,
         FlushResume, EvictResume
<1>5. data'[p] # data[p] => \/ frame'[p] = "absent"
                            \/ LoadRead(t) /\ Page(t) = p
                            \/ WritePage(t) /\ Page(t) = p
                            \/ AppendFrame(t) /\ Page(t) = p
  <2>1. CASE LoadRead(t)
    BY <2>1 DEF LoadRead
  <2>2. CASE WritePage(t)
    BY <2>2 DEF WritePage
  <2>3. CASE AppendFrame(t)
    BY <2>3 DEF AppendFrame
  <2>4. CASE EvictClean(t)
    BY <2>4 DEF EvictClean, Erase
  <2>5. CASE EvictResume(t)
    BY <2>5 DEF EvictResume, Erase, FlushPoints
  <2>. QED  BY <1>2, <2>1, <2>2, <2>3, <2>4, <2>5
<1>6. disk'[p] # disk[p] => \/ AppendDisk(t) /\ Page(t) = p
                            \/ FlushWrite(t) /\ victim[t] = p
  <2>1. CASE AppendDisk(t)
    BY <2>1 DEF AppendDisk
  <2>2. CASE FlushWrite(t)
    BY <2>2 DEF FlushWrite
  <2>. QED  BY <1>3, <2>1, <2>2
<1>7. dirty'[p] # dirty[p] => \/ InsertFrame(t) /\ Page(t) = p
                              \/ LoadRegister(t) /\ Page(t) = p
                              \/ MarkAsDirty(t) /\ Page(t) = p
                              \/ FlushClear(t) /\ victim[t] = p
  <2>1. CASE InsertFrame(t)
    BY <2>1 DEF InsertFrame
  <2>2. CASE LoadRegister(t)
    BY <2>2 DEF LoadRegister
  <2>3. CASE MarkAsDirty(t)
    BY <2>3 DEF MarkAsDirty
  <2>4. CASE FlushClear(t)
    BY <2>4 DEF FlushClear
  <2>. QED  BY <1>4, <2>1, <2>2, <2>3, <2>4
<1>. QED  BY <1>5, <1>6, <1>7

LEMMA OthersSynced ==
    ASSUME IInv, NEW t \in Threads, Step(t), NEW u \in Threads \ {t}
    PROVE  Synced(u)'
<1>0. /\ TypeOK /\ Placed(u) /\ Synced(u) /\ Latched(u) /\ Framed(u) /\ Framed(t)
      /\ LocalsKept(t) /\ FramesKept(t)
      /\ Framed(u)'
      /\ pc[u] # "idle" => Page(u) \in Pages
      /\ pc[u] \in FlushPoints => victim[u] \in Pages
      /\ pc[t] \in FlushPoints => victim[t] \in Pages
  BY CallTyped, LocalsStep, FramesStep, OthersFramed DEF IInv, Placed
<1>1. /\ pc'[u] = pc[u] /\ call'[u] = call[u] /\ victim'[u] = victim[u]
      /\ Page(u)' = Page(u) /\ Evicting(u)' = Evicting(u)
  BY <1>0 DEF LocalsKept, Evicting
<1>w. /\ LoadRead(t) => pc[t] = "load"
      /\ WritePage(t) => pc[t] = "hold" /\ Exclusive(t)
      /\ AppendFrame(t) => pc[t] = "appendFrame"
      /\ AppendDisk(t) => pc[t] = "append"
      /\ FlushWrite(t) => pc[t] = "flushWrite"
      /\ InsertFrame(t) => frame[Page(t)] = "absent"
      /\ LoadRegister(t) => pc[t] = "loaded"
      /\ MarkAsDirty(t) => pc[t] = "mark"
      /\ FlushClear(t) => pc[t] = "flushClear" /\ dirty' = [dirty EXCEPT ![victim[t]] = FALSE]
  BY DEF LoadRead, WritePage, AppendFrame, AppendDisk, FlushWrite, InsertFrame, LoadRegister,
         MarkAsDirty, FlushClear
<1>2. ASSUME pc[u] = "loaded"
      PROVE  data'[Page(u)] = disk'[Page(u)]
  <2>1. Page(u) \in Pages /\ Owns(u, Page(u)) /\ Pins(u, Page(u)) /\ data[Page(u)] = disk[Page(u)]
    BY <1>0, <1>2 DEF Owns, Pins, FixPoints, Synced
  <2>2. frame'[Page(u)] # "absent"
    BY <1>0, <1>1, <1>2 DEF Framed
  <2>3. data'[Page(u)] = data[Page(u)]
    BY <1>w, <2>1, <2>2, BytesStep, LatchesExclude DEF Owns, AppendPoints
  <2>4. disk'[Page(u)] = disk[Page(u)]
    BY <1>w, <2>1, <2>2, BytesStep, LatchesExclude DEF Shares, AppendPoints
  <2>. QED  BY <2>1, <2>3, <2>4
<1>3. ASSUME pc[u] = "flushClear", Cached(victim[u])'
      PROVE  data'[victim[u]] = disk'[victim[u]]
  <2>1. victim[u] \in Pages /\ Shares(u, victim[u]) /\ Pins(u, victim[u])
    BY <1>0, <1>3 DEF Shares, Pins, FlushPoints
  <2>2. Cached(victim[u]) /\ frame'[victim[u]] # "absent"
    BY <1>0, <1>1, <1>3, <2>1 DEF FramesKept, Cached, Latched
  <2>3. data[victim[u]] = disk[victim[u]]
    BY <1>0, <1>3, <2>2 DEF Synced
  <2>4. data'[victim[u]] = data[victim[u]]
    BY <1>w, <2>1, <2>2, BytesStep, LatchesExclude DEF Owns, AppendPoints
  <2>5. CASE FlushWrite(t) /\ victim[t] = victim[u]
    BY <1>0, <2>1, <2>3, <2>4, <2>5 DEF FlushWrite, TypeOK
  <2>6. CASE ~(FlushWrite(t) /\ victim[t] = victim[u])
    BY <2>1, <2>3, <2>4, <2>6, BytesStep, LatchesExclude DEF AppendPoints, AppendDisk
  <2>. QED  BY <2>5, <2>6
<1>4. ASSUME pc[u] = "flushEnd", Evicting(u), frame'[victim[u]] = "evicting"
      PROVE  ~dirty'[victim[u]]
  <2>1. victim[u] \in Pages /\ Pins(u, victim[u])
    BY <1>0, <1>4 DEF Pins, FlushPoints
  <2>2. frame[victim[u]] = "evicting" /\ ~dirty[victim[u]]
    BY <1>0, <1>4, <2>1 DEF FramesKept, Synced
  <2>3. pc[t] \in {"mark", "loaded"} => frame[Page(t)] # "evicting"
    BY <1>0 DEF Framed, FixPoints
  <2>. QED  BY <1>0, <1>w, <2>1, <2>2, <2>3, BytesStep DEF TypeOK
<1>5. ASSUME pc[u] = "appendFrame"
      PROVE  /\ disk'[Page(u)].tail = call[u].val
             /\ Cached(Page(u))' /\ ~dirty'[Page(u)] => data'[Page(u)].head = disk'[Page(u)].head
  <2>1. /\ Page(u) \in Pages /\ ~Pins(t, Page(u))
        /\ pc[t] \in AppendPoints => Page(t) # Page(u)
    BY <1>0, <1>5, LatchesExclude DEF AppendPoints
  <2>2. disk'[Page(u)] = disk[Page(u)]
    BY <2>1, BytesStep DEF AppendPoints, AppendDisk, FlushWrite, Pins, FlushPoints
  <2>3. Cached(Page(u))' => data'[Page(u)] = data[Page(u)]
    BY <1>1, <1>w, <2>1, BytesStep DEF AppendPoints, Pins, FixPoints, Cached
  <2>4. ~dirty'[Page(u)] /\ Cached(Page(u))' => ~dirty[Page(u)]
    BY <1>0, <2>1, BytesStep DEF InsertFrame, LoadRegister, MarkAsDirty, FlushClear, Pins, FixPoints,
                           FlushPoints, Cached, TypeOK
  <2>5. Cached(Page(u))' => Cached(Page(u))
    <3>1. CASE frame' = frame
      BY <1>1, <3>1 DEF Cached
    <3>2. CASE FixHit(t)
      BY <1>0, <2>1, <3>2 DEF FixHit, Cached, TypeOK
    <3>3. CASE EvictClean(t)
      BY <1>0, <2>1, <3>3 DEF EvictClean, Erase, Cached, TypeOK
    <3>4. CASE EvictDirty(t)
      BY <1>0, <2>1, <3>4 DEF EvictDirty, Evicts, Evictable, Cached, TypeOK
    <3>5. CASE InsertFrame(t)
      BY <1>0, <2>1, <3>5 DEF InsertFrame, Cached, TypeOK
    <3>6. CASE LoadRegister(t)
      BY <1>0, <2>1, <3>6 DEF LoadRegister, Cached, TypeOK, Pins, FixPoints
    <3>7. CASE EvictResume(t)
      BY <1>0, <2>1, <3>7 DEF EvictResume, Erase, Cached, TypeOK, Pins, FlushPoints
    <3>. QED  BY <3>1, <3>2, <3>3, <3>4, <3>5, <3>6, <3>7, StepAt
  <2>. QED  BY <1>0, <1>5, <2>2, <2>3, <2>4, <2>5 DEF Synced
<1>. HIDE DEF Page
<1>. QED  BY <1>1, <1>2, <1>3, <1>4, <1>5 DEF Synced, Cached

LEMMA OwnSynced ==
    ASSUME IInv, NEW t \in Threads, Step(t)
    PROVE  Synced(t)'
<1>0. /\ TypeOK /\ Placed(t) /\ Synced(t) /\ Framed(t) /\ CleanFrameMatchesDisk
      /\ pc[t] # "idle" => Page(t) \in Pages
  BY CallTyped DEF IInv
<1>a. pc[t] = "flushWrite" /\ Cached(victim[t]) /\ ~dirty[victim[t]] =>
          data[victim[t]] = disk[victim[t]]
  <2>. SUFFICES ASSUME pc[t] = "flushWrite", Cached(victim[t]), ~dirty[victim[t]]
                PROVE  data[victim[t]] = disk[victim[t]]
    OBVIOUS
  <2>1. victim[t] \in Pages /\ Shares(t, victim[t]) /\ Pins(t, victim[t])
    BY <1>0 DEF Placed, Shares, Pins, FlushPoints
  <2>2. \A u \in Threads : Page(u) = victim[t] => pc[u] \notin {"mark", "appendFrame"}
    <3>1. ASSUME NEW u \in Threads, Page(u) = victim[t], pc[u] = "mark"
          PROVE  FALSE
      <4>1. Exclusive(u)
        BY <3>1 DEF IInv, Placed, Exclusive
      <4>. QED  BY <2>1, <3>1, <4>1, LatchesExclude DEF Owns
    <3>2. ASSUME NEW u \in Threads, Page(u) = victim[t], pc[u] = "appendFrame"
          PROVE  FALSE
      BY <2>1, <3>2, LatchesExclude DEF AppendPoints
    <3>. QED  BY <3>1, <3>2
  <2>. QED  BY <1>0, <2>1, <2>2 DEF CleanFrameMatchesDisk
<1>b. pc[t] = "append" /\ Cached(Page(t)) /\ ~dirty[Page(t)] => data[Page(t)] = disk[Page(t)]
  <2>. SUFFICES ASSUME pc[t] = "append", Cached(Page(t)), ~dirty[Page(t)]
                PROVE  data[Page(t)] = disk[Page(t)]
    OBVIOUS
  <2>1. \A u \in Threads : Page(u) = Page(t) => pc[u] \notin {"mark", "appendFrame"}
    BY <1>0, LatchesExclude DEF AppendPoints, Pins, FixPoints
  <2>. QED  BY <1>0, <2>1 DEF CleanFrameMatchesDisk
<1>. USE <1>0, <1>a, <1>b DEF Synced, TypeOK, Cached, FlushPoints, Evicting
<1>1. CASE Invoke(t)
  BY <1>1 DEF Invoke, Placed
<1>2. CASE LockFile(t)
  BY <1>2 DEF LockFile, Placed
<1>3. CASE FixHit(t)
  BY <1>3 DEF FixHit, Use, Placed
<1>4. CASE FixMiss(t)
  BY <1>4 DEF FixMiss, Placed
<1>5. CASE EvictClean(t)
  BY <1>5 DEF EvictClean, Erase, Placed
<1>6. CASE EvictDirty(t)
  BY <1>6 DEF EvictDirty, Use, Placed
<1>7. CASE AllocateRetry(t)
  BY <1>7 DEF AllocateRetry, Placed
<1>8. CASE InsertFrame(t)
  BY <1>8 DEF InsertFrame, Placed
<1>9. CASE LoadRead(t)
  BY <1>9 DEF LoadRead, Placed
<1>10. CASE LoadFail(t)
  BY <1>10 DEF LoadFail, Placed
<1>11. CASE LoadRegister(t)
  BY <1>11 DEF LoadRegister, Placed
<1>12. CASE LockFrameShared(t)
  BY <1>12 DEF LockFrameShared, Placed
<1>13. CASE EnterFrame(t)
  BY <1>13 DEF EnterFrame, Placed
<1>14. CASE LockFrameExclusive(t)
  BY <1>14 DEF LockFrameExclusive, Placed
<1>15. CASE ReadPage(t)
  BY <1>15 DEF ReadPage, Placed
<1>16. CASE WritePage(t)
  BY <1>16 DEF WritePage, Placed
<1>17. CASE MarkAsDirty(t)
  BY <1>17 DEF MarkAsDirty, Placed
<1>18. CASE Release(t)
  BY <1>18 DEF Release, Unuse, Placed
<1>19. CASE UnlockFile(t)
  BY <1>19 DEF UnlockFile, Return, Placed
<1>20. CASE EnterFile(t)
  BY <1>20 DEF EnterFile, Placed
<1>21. CASE LockFileExclusive(t)
  BY <1>21 DEF LockFileExclusive, Placed
<1>22. CASE AppendDisk(t)
  BY <1>22 DEF AppendDisk, Content, Placed
<1>23. CASE AppendFail(t)
  BY <1>23 DEF AppendFail, Placed
<1>24. CASE AppendFrame(t)
  BY <1>24 DEF AppendFrame, Placed
<1>25. CASE UnlockFileExclusive(t)
  BY <1>25 DEF UnlockFileExclusive, Return, Placed
<1>26. CASE FlushStart(t)
  BY <1>26 DEF FlushStart, Placed
<1>27. CASE FlushNext(t)
  BY <1>27 DEF FlushNext, Use, NeedsFlush, Placed
<1>28. CASE FlushFinish(t)
  BY <1>28 DEF FlushFinish, Placed
<1>29. CASE FlushLatch(t)
  BY <1>29 DEF FlushLatch, Placed
<1>30. CASE FlushWrite(t)
  BY <1>30 DEF FlushWrite, Placed
<1>31. CASE FlushFail(t)
  BY <1>31 DEF FlushFail, Placed
<1>32. CASE FlushClear(t)
  BY <1>32 DEF FlushClear, Placed
<1>33. CASE FlushResume(t)
  BY <1>33 DEF FlushResume, Unuse, Placed
<1>34. CASE EvictResume(t)
  BY <1>34 DEF EvictResume, Unuse, Erase, Placed
<1>. QED
  BY <1>1, <1>2, <1>3, <1>4, <1>5, <1>6, <1>7, <1>8, <1>9, <1>10, <1>11, <1>12, <1>13, <1>14, <1>15, <1>16, <1>17, <1>18, <1>19, <1>20, <1>21, <1>22, <1>23, <1>24, <1>25, <1>26, <1>27, <1>28, <1>29, <1>30, <1>31, <1>32, <1>33, <1>34 DEF Step

\* A step keeps clean frames equal to the file.
LEMMA CleanStep ==
    ASSUME IInv, NEW t \in Threads, Step(t)
    PROVE  CleanFrameMatchesDisk'
<1>0. /\ TypeOK /\ Placed(t) /\ Synced(t) /\ Framed(t) /\ CleanFrameMatchesDisk
      /\ LocalsKept(t)
      /\ pc[t] # "idle" => Page(t) \in Pages
  BY CallTyped, LocalsStep DEF IInv
<1>. SUFFICES ASSUME NEW p \in Pages, Cached(p)', ~dirty'[p],
                     \A u \in Threads : Page(u)' = p => pc'[u] \notin {"mark", "appendFrame"}
              PROVE  data'[p] = disk'[p]
  BY DEF CleanFrameMatchesDisk
<1>a. ASSUME ~dirty[p], Cached(p), Page(t) = p => pc[t] \notin {"mark", "appendFrame"}
      PROVE  data[p] = disk[p]
  BY <1>0, <1>a DEF LocalsKept, CleanFrameMatchesDisk
<1>. USE <1>0, <1>a DEF Synced, TypeOK, Cached
<1>1. CASE Invoke(t)
  BY <1>1 DEF Invoke, Placed, Framed, FixPoints, FlushPoints
<1>2. CASE LockFile(t)
  BY <1>2 DEF LockFile, Placed, Framed, FixPoints, FlushPoints
<1>3. CASE FixHit(t)
  BY <1>3 DEF FixHit, Use, Placed, Framed, FixPoints, FlushPoints
<1>4. CASE FixMiss(t)
  BY <1>4 DEF FixMiss, Placed, Framed, FixPoints, FlushPoints
<1>5. CASE EvictClean(t)
  BY <1>5 DEF EvictClean, Erase, Placed, Framed, FixPoints, FlushPoints
<1>6. CASE EvictDirty(t)
  BY <1>6 DEF EvictDirty, Use, Evicts, Evictable, Placed, Framed, FixPoints, FlushPoints
<1>7. CASE AllocateRetry(t)
  BY <1>7 DEF AllocateRetry, Placed, Framed, FixPoints, FlushPoints
<1>8. CASE InsertFrame(t)
  BY <1>8 DEF InsertFrame, Placed, Framed, FixPoints, FlushPoints
<1>9. CASE LoadRead(t)
  BY <1>9 DEF LoadRead, Placed, Framed, FixPoints, FlushPoints
<1>10. CASE LoadFail(t)
  BY <1>10 DEF LoadFail, Placed, Framed, FixPoints, FlushPoints
<1>11. CASE LoadRegister(t)
  BY <1>11 DEF LoadRegister, Placed, Framed, FixPoints, FlushPoints
<1>12. CASE LockFrameShared(t)
  BY <1>12 DEF LockFrameShared, Placed, Framed, FixPoints, FlushPoints
<1>13. CASE EnterFrame(t)
  BY <1>13 DEF EnterFrame, Placed, Framed, FixPoints, FlushPoints
<1>14. CASE LockFrameExclusive(t)
  BY <1>14 DEF LockFrameExclusive, Placed, Framed, FixPoints, FlushPoints
<1>15. CASE ReadPage(t)
  BY <1>15 DEF ReadPage, Placed, Framed, FixPoints, FlushPoints
<1>16. CASE WritePage(t)
  BY <1>16 DEF WritePage, Placed, Framed, FixPoints, FlushPoints
<1>17. CASE MarkAsDirty(t)
  BY <1>17 DEF MarkAsDirty, Placed, Framed, FixPoints, FlushPoints
<1>18. CASE Release(t)
  BY <1>18 DEF Release, Unuse, Placed, Framed, FixPoints, FlushPoints
<1>19. CASE UnlockFile(t)
  BY <1>19 DEF UnlockFile, Return, Placed, Framed, FixPoints, FlushPoints
<1>20. CASE EnterFile(t)
  BY <1>20 DEF EnterFile, Placed, Framed, FixPoints, FlushPoints
<1>21. CASE LockFileExclusive(t)
  BY <1>21 DEF LockFileExclusive, Placed, Framed, FixPoints, FlushPoints
<1>22. CASE AppendDisk(t)
  BY <1>22 DEF AppendDisk, Placed, Framed, FixPoints, FlushPoints
<1>23. CASE AppendFail(t)
  BY <1>23 DEF AppendFail, Placed, Framed, FixPoints, FlushPoints
<1>24. CASE AppendFrame(t)
  BY <1>24 DEF AppendFrame, Content, Placed, Framed, FixPoints, FlushPoints
<1>25. CASE UnlockFileExclusive(t)
  BY <1>25 DEF UnlockFileExclusive, Return, Placed, Framed, FixPoints, FlushPoints
<1>26. CASE FlushStart(t)
  BY <1>26 DEF FlushStart, Placed, Framed, FixPoints, FlushPoints
<1>27. CASE FlushNext(t)
  BY <1>27 DEF FlushNext, Use, NeedsFlush, Placed, Framed, FixPoints, FlushPoints
<1>28. CASE FlushFinish(t)
  BY <1>28 DEF FlushFinish, Placed, Framed, FixPoints, FlushPoints
<1>29. CASE FlushLatch(t)
  BY <1>29 DEF FlushLatch, Placed, Framed, FixPoints, FlushPoints
<1>30. CASE FlushWrite(t)
  BY <1>30 DEF FlushWrite, Placed, Framed, FixPoints, FlushPoints
<1>31. CASE FlushFail(t)
  BY <1>31 DEF FlushFail, Placed, Framed, FixPoints, FlushPoints
<1>32. CASE FlushClear(t)
  BY <1>32 DEF FlushClear, Placed, Framed, FixPoints, FlushPoints
<1>33. CASE FlushResume(t)
  BY <1>33 DEF FlushResume, Unuse, Placed, Framed, FixPoints, FlushPoints
<1>34. CASE EvictResume(t)
  BY <1>34 DEF EvictResume, Unuse, Erase, Placed, Framed, FixPoints, FlushPoints
<1>. QED
  BY <1>1, <1>2, <1>3, <1>4, <1>5, <1>6, <1>7, <1>8, <1>9, <1>10, <1>11, <1>12, <1>13, <1>14, <1>15, <1>16, <1>17, <1>18, <1>19, <1>20, <1>21, <1>22, <1>23, <1>24, <1>25, <1>26, <1>27, <1>28, <1>29, <1>30, <1>31, <1>32, <1>33, <1>34 DEF Step

-------------------------------------------------------------------------------
(* The invariant *)

LEMMA IInvInit ==
    ASSUME Init
    PROVE  IInv
<1>1. /\ TypeOK
      /\ \A p \in Pages : Pinners(p) = {}
  BY BlankIsContent, PageAssumption, SizeAssumption
     DEF Init, TypeOK, Points, States, NoReply, Pinners, Pins, FixPoints, FlushPoints
<1>2. \A t \in Threads : Placed(t) /\ Framed(t) /\ Synced(t) /\ Loaded(t)
  BY DEF Init, Placed, Framed, Synced, Loaded, FixPoints, FlushPoints, AppendPoints, NoReply
<1>3. \A t \in Threads : Latched(t)
  BY DEF Init, Latched, SharePoints, FixPoints, FlushPoints, AppendPoints
<1>4. \A p \in Pages : Counted(p)
  <2>1. \A p \in Pages : users[p] = 0
    BY DEF Init
  <2>. QED  BY <1>1, <2>1, FS_EmptySet DEF Counted
<1>5. \A p \in Pages : Loading(p)
  BY DEF Init, Loading
<1>6. CleanFrameMatchesDisk
  BY DEF Init, CleanFrameMatchesDisk, Cached
<1>. QED  BY <1>1, <1>2, <1>3, <1>4, <1>5, <1>6 DEF IInv, LoadsSucceed

LEMMA IInvStep ==
    ASSUME IInv, [Next]_vars
    PROVE  IInv'
<1>1. ASSUME NEW t \in Threads, Step(t)
      PROVE  IInv'
  <2>1. \A u \in Threads : (Placed(u) /\ Latched(u) /\ Framed(u) /\ Synced(u))'
    <3>1. ASSUME NEW u \in Threads \ {t}
          PROVE  Placed(u)' /\ Latched(u)' /\ Framed(u)' /\ Synced(u)'
      BY <1>1, OthersPlaced, OthersLatched, OthersFramed, OthersSynced
    <3>2. Placed(t)' /\ Latched(t)' /\ Framed(t)' /\ Synced(t)'
      BY <1>1, OwnPlaced, OwnLatched, OwnFramed, OwnSynced
    <3>. QED  BY <3>1, <3>2
  <2>2. \A p \in Pages : Counted(p)'
    BY <1>1, CountedStep
  <2>3. TypeOK' /\ CleanFrameMatchesDisk' /\ LoadsSucceed'
    BY <1>1, TypeStep, CleanStep, LoadsStep
  <2>. QED  BY <2>1, <2>2, <2>3 DEF IInv
<1>2. CASE UNCHANGED vars
  <2>1. \A p \in Pages : Pinners(p)' = Pinners(p)
    BY <1>2 DEF vars, Pinners, Pins
  <2>2. TypeOK' /\ CleanFrameMatchesDisk'
    BY <1>2 DEF vars, IInv, TypeOK, CleanFrameMatchesDisk, Cached
  <2>3. \A p \in Pages : Counted(p)'
    BY <1>2, <2>1 DEF vars, IInv, Counted
  <2>4. \A u \in Threads : Placed(u)' /\ Framed(u)' /\ Synced(u)'
    BY <1>2 DEF vars, IInv, Placed, Framed, Synced, Cached, Evicting
  <2>5. \A u \in Threads : Latched(u)'
    <3>. SUFFICES ASSUME NEW u \in Threads
                  PROVE  Latched(u)'
      OBVIOUS
    <3>1. Latched(u)
      BY DEF IInv
    <3>. QED  BY <1>2, <3>1 DEF vars, Latched, Evicting, Exclusive
  <2>6. LoadsSucceed'
    BY <1>2 DEF vars, IInv, LoadsSucceed, Loading, Loaded
  <2>. QED  BY <2>2, <2>3, <2>4, <2>5, <2>6 DEF IInv
<1>. QED  BY <1>1, <1>2 DEF Next, Finished

\* The inductive invariant holds: it is what every theorem below rests on.
THEOREM Invariance == Spec => []IInv
BY IInvInit, IInvStep, PTL DEF Spec

\* Every variable keeps its type in every behaviour of the buffer manager.
THEOREM TypeCorrect == Spec => []TypeOK
<1>1. IInv => TypeOK
  BY DEF IInv
<1>. QED  BY <1>1, Invariance, PTL

\* num_users counts the threads that use a frame, and never falls below them.
THEOREM UsersAreCounted == Spec => []UsersCountPinners
<1>1. IInv => UsersCountPinners
  BY DEF IInv, Counted, UsersCountPinners
<1>. QED  BY <1>1, Invariance, PTL

\* No frame is evicted while a thread uses it.
THEOREM PinnedFramesStay == Spec => []PinnedStaysResident
<1>1. IInv => PinnedStaysResident
  BY DEF IInv, Framed, Pins, PinnedStaysResident
<1>. QED  BY <1>1, Invariance, PTL

\* Loads, writes, appends and flushes of one frame exclude each other.
THEOREM BytesAreNotRaced == Spec => []NoDataRace
<1>1. IInv => NoDataRace
  <2>. SUFFICES ASSUME IInv, NEW t \in Threads, NEW u \in Threads, NEW p \in Pages,
                       t # u, ChangesData(t, p)
                PROVE  ~ChangesData(u, p) /\ ~ReadsData(u, p)
    BY DEF NoDataRace
  <2>1. pc[t] = "mark" => Exclusive(t)
    BY DEF IInv, Placed, Exclusive
  <2>2. Owns(t, p) \/ (pc[t] \in AppendPoints /\ Page(t) = p)
    BY DEF ChangesData, Owns, AppendPoints
  <2>3. ChangesData(u, p) => Owns(u, p) \/ (pc[u] \in AppendPoints /\ Page(u) = p)
    BY DEF ChangesData, Owns, AppendPoints
  <2>4. Owns(t, p) => Pins(t, p)
    BY DEF Owns, Pins, FixPoints
  <2>5. Owns(u, p) => Pins(u, p)
    BY DEF Owns, Pins, FixPoints
  <2>6. ReadsData(u, p) => Shares(u, p) /\ Pins(u, p)
    BY DEF ReadsData, Shares, Pins, FixPoints, FlushPoints
  <2>. HIDE DEF Page
  <2>. QED  BY <2>2, <2>3, <2>4, <2>5, <2>6, LatchesExclude
<1>. QED  BY <1>1, Invariance, PTL

\* Evicting a loaded frame that is not dirty loses nothing.
THEOREM CleanFramesMatchDisk == Spec => []CleanFrameMatchesDisk
<1>1. IInv => CleanFrameMatchesDisk
  BY DEF IInv
<1>. QED  BY <1>1, Invariance, PTL

\* FixPage hands out loaded pages only, but for those that cannot be read.
THEOREM FixedPagesAreLoaded == Spec => []ReadablePageIsLoaded
<1>1. IInv => ReadablePageIsLoaded
  BY DEF IInv, LoadsSucceed, Loaded, Framed, FixPoints, ReadablePageIsLoaded
<1>. QED  BY <1>1, Invariance, PTL
===============================================================================
