----------------------- MODULE FilePageBufferRefinement -----------------------
(***************************************************************************)
(* FilePageBuffer implements PageStore, for any number of threads, files   *)
(* and pages, any capacity and any calls, where the filesystem's Read does *)
(* not throw (its Write may): the refinement mapping is Store, every step  *)
(* of a thread is one of its steps in PageStore or changes nothing there.  *)
(***************************************************************************)
EXTENDS FilePageBufferProofs

USE DEF Allocating, disks, frames, queues, fileLatches, frameLatches, locals,
        At, GoTo, Page, FileOfCall, Directory, Answer

\* The two parts of a cell of Store.
HeadOf(p) == IF Cached(p) THEN data[p].head ELSE disk[p].head

TailOf(p) == IF Cached(p) /\ ~HalfAppended(p) THEN data[p].tail ELSE disk[p].tail

\* Does a thread other than t have p half appended?
OthersAppend(t, p) == \E u \in Threads \ {t} : At(u, "appendFrame") /\ Page(u) = p

LEMMA HalfAppendedStep ==
    ASSUME IInv, NEW t \in Threads, Step(t), NEW p \in Pages
    PROVE  /\ HalfAppended(p) <=> OthersAppend(t, p) \/ (pc[t] = "appendFrame" /\ Page(t) = p)
           /\ HalfAppended(p)' <=> OthersAppend(t, p) \/ (AppendDisk(t) /\ Page(t) = p)
<1>1. ASSUME HalfAppended(p)
      PROVE  OthersAppend(t, p) \/ (pc[t] = "appendFrame" /\ Page(t) = p)
  <2>1. PICK u \in Threads : pc[u] = "appendFrame" /\ Page(u) = p
    BY <1>1 DEF HalfAppended
  <2>2. CASE u \in Threads \ {t}
    BY <2>1, <2>2 DEF OthersAppend
  <2>3. CASE u = t
    BY <2>1, <2>3
  <2>. QED  BY <2>2, <2>3
<1>2. OthersAppend(t, p) \/ (pc[t] = "appendFrame" /\ Page(t) = p) => HalfAppended(p)
  BY DEF HalfAppended, OthersAppend
<1>3. \A u \in Threads \ {t} : pc'[u] = pc[u] /\ call'[u] = call[u]
  BY LocalsStep DEF LocalsKept
<1>4. /\ pc'[t] = "appendFrame" => AppendDisk(t)
      /\ AppendDisk(t) => pc'[t] = "appendFrame" /\ call'[t] = call[t]
  BY DEF IInv, TypeOK, Step, Invoke, LockFile, FixHit, FixMiss, EvictClean, EvictDirty,
         AllocateRetry, InsertFrame, LoadRead, LoadFail, LoadRegister, LockFrameShared,
         EnterFrame, LockFrameExclusive, ReadPage, WritePage, MarkAsDirty, Release, UnlockFile,
         EnterFile, LockFileExclusive, AppendDisk, AppendFail, AppendFrame,
         UnlockFileExclusive, FlushStart, FlushNext, FlushFinish, FlushLatch, FlushWrite,
         FlushFail, FlushClear, FlushResume, EvictResume, Return
<1>5. ASSUME HalfAppended(p)'
      PROVE  OthersAppend(t, p) \/ (AppendDisk(t) /\ Page(t) = p)
  <2>1. PICK u \in Threads : pc'[u] = "appendFrame" /\ call'[u].page = p
    BY <1>5 DEF HalfAppended
  <2>2. CASE u \in Threads \ {t}
    <3>1. pc[u] = "appendFrame" /\ Page(u) = p
      BY <1>3, <2>1, <2>2
    <3>. QED  BY <2>2, <3>1 DEF OthersAppend
  <2>3. CASE u = t
    BY <1>4, <2>1, <2>3
  <2>. QED  BY <2>2, <2>3
<1>6. ASSUME OthersAppend(t, p) \/ (AppendDisk(t) /\ Page(t) = p)
      PROVE  HalfAppended(p)'
  <2>1. PICK u \in Threads : pc'[u] = "appendFrame" /\ call'[u].page = p
    BY <1>3, <1>4, <1>6 DEF OthersAppend
  <2>. QED  BY <2>1 DEF HalfAppended
<1>. QED  BY <1>1, <1>2, <1>5, <1>6

\* What a thread that is about to move bytes relies on.
LEMMA BytesKnown ==
    ASSUME Unreadable = {}, IInv, NEW t \in Threads, NEW p \in Pages
    PROVE  /\ Pins(t, p) \/ (pc[t] \in AppendPoints /\ Page(t) = p) => ~OthersAppend(t, p)
           /\ pc[t] = "hold" /\ Page(t) = p => Cached(p)
           /\ pc[t] = "flushWrite" /\ victim[t] = p => Cached(p)
           /\ Evictable(p) /\ ~dirty[p] => data[p] = disk[p]
           /\ pc[t] = "flushEnd" /\ Evicting(t) /\ victim[t] = p /\ users[p] = 1
                  /\ frame[p] = "evicting" => data[p] = disk[p]
<1>0. /\ TypeOK /\ LoadsSucceed /\ CleanFrameMatchesDisk
      /\ Placed(t) /\ Framed(t) /\ Synced(t)
  BY DEF IInv
<1>1. Pins(t, p) \/ (pc[t] \in AppendPoints /\ Page(t) = p) => ~OthersAppend(t, p)
  BY LatchesExclude DEF OthersAppend, AppendPoints
<1>2. pc[t] = "hold" /\ Page(t) = p => Cached(p)
  BY <1>0 DEF LoadsSucceed, Loaded, Framed, FixPoints, Cached
<1>3. pc[t] = "flushWrite" /\ victim[t] = p => Cached(p)
  <2>. SUFFICES ASSUME pc[t] = "flushWrite", victim[t] = p
                PROVE  Cached(p)
    OBVIOUS
  <2>1. Shares(t, p)
    BY DEF Shares
  <2>2. frame[p] # "loading"
    <3>. SUFFICES ASSUME frame[p] = "loading"
                  PROVE  FALSE
      OBVIOUS
    <3>1. PICK u \in Threads : pc[u] \in {"load", "loaded"} /\ Page(u) = p
      BY <1>0 DEF LoadsSucceed, Loading
    <3>. QED  BY <2>1, <3>1, LatchesExclude DEF Owns
  <2>3. frame[p] # "absent"
    BY <1>0 DEF Framed, FlushPoints
  <2>. QED  BY <1>0, <2>2, <2>3 DEF TypeOK, States, Cached
<1>4. \A u \in Threads : pc[u] = "mark" => Pins(u, Page(u))
  BY DEF Pins, FixPoints
<1>5. ASSUME Evictable(p), ~dirty[p]
      PROVE  data[p] = disk[p]
  <2>1. \A u \in Threads : Page(u) = p => pc[u] # "mark"
    BY <1>4, <1>5, PinnerCounted DEF Evictable
  <2>2. \A u \in Threads : Page(u) = p => pc[u] # "appendFrame"
    <3>1. \A u \in Threads : pc[u] = "appendFrame" => fileWriter[FileOfCall(u)] = u
      BY DEF IInv, Latched, AppendPoints
    <3>. QED  BY <1>5, <3>1, PageAssumption DEF Evictable
  <2>. QED  BY <1>0, <1>5, <2>1, <2>2 DEF CleanFrameMatchesDisk, Evictable, Cached
<1>6. ASSUME pc[t] = "flushEnd", Evicting(t), victim[t] = p, users[p] = 1, frame[p] = "evicting"
      PROVE  data[p] = disk[p]
  <2>1. Pins(t, p) /\ ~dirty[p]
    BY <1>0, <1>6 DEF Pins, FlushPoints, Synced
  <2>2. \A u \in Threads : Page(u) = p => pc[u] # "mark"
    BY <1>4, <1>6, <2>1, PinnersCounted
  <2>3. \A u \in Threads : Page(u) = p => pc[u] # "appendFrame"
    BY <1>6, <2>1, LatchesExclude DEF AppendPoints
  <2>. QED  BY <1>0, <1>6, <2>1, <2>2, <2>3 DEF CleanFrameMatchesDisk, Cached
<1>. QED  BY <1>1, <1>2, <1>3, <1>5, <1>6

\* Only a write and the first half of an append change a cell.
LEMMA CellStep ==
    ASSUME Unreadable = {}, IInv, NEW t \in Threads, Step(t), NEW p \in Pages
    PROVE  /\ HeadOf(p)' = IF WritePage(t) /\ Page(t) = p THEN call[t].val ELSE HeadOf(p)
           /\ TailOf(p)' = IF AppendDisk(t) /\ Page(t) = p THEN call[t].val ELSE TailOf(p)
<1>0. /\ TypeOK /\ Placed(t) /\ Framed(t) /\ Synced(t)
      /\ pc[t] # "idle" => Page(t) \in Pages
      /\ pc[t] \in FlushPoints => victim[t] \in Pages
  BY CallTyped DEF IInv, Placed
<1>a. /\ HalfAppended(p) <=> OthersAppend(t, p) \/ (pc[t] = "appendFrame" /\ Page(t) = p)
      /\ HalfAppended(p)' <=> OthersAppend(t, p) \/ (AppendDisk(t) /\ Page(t) = p)
  BY HalfAppendedStep
<1>b. /\ Pins(t, p) \/ (pc[t] \in AppendPoints /\ Page(t) = p) => ~OthersAppend(t, p)
      /\ pc[t] = "hold" /\ Page(t) = p => Cached(p)
      /\ pc[t] = "flushWrite" /\ victim[t] = p => Cached(p)
      /\ Evictable(p) /\ ~dirty[p] => data[p] = disk[p]
      /\ pc[t] = "flushEnd" /\ Evicting(t) /\ victim[t] = p /\ users[p] = 1
             /\ frame[p] = "evicting" => data[p] = disk[p]
  BY BytesKnown
<1>w. /\ WritePage(t) => pc[t] = "hold" /\ Exclusive(t)
      /\ AppendDisk(t) => pc[t] = "append" /\ pc'[t] = "appendFrame"
  BY <1>0 DEF WritePage, AppendDisk, TypeOK
<1>. USE <1>0, <1>a, <1>b, <1>w DEF TypeOK, HeadOf, TailOf, Pins, AppendPoints, FixPoints, FlushPoints,
                              Content
<1>1. CASE Invoke(t)
  BY <1>1 DEF Invoke, Cached
<1>2. CASE LockFile(t)
  BY <1>2 DEF LockFile, Cached
<1>3. CASE FixHit(t)
  BY <1>3 DEF FixHit, Use, Cached
<1>4. CASE FixMiss(t)
  BY <1>4 DEF FixMiss, Cached
<1>5. CASE EvictClean(t)
  BY <1>5 DEF EvictClean, Erase, Evicts, Cached
<1>6. CASE EvictDirty(t)
  BY <1>6 DEF EvictDirty, Use, Evicts, Evictable, Cached
<1>7. CASE AllocateRetry(t)
  BY <1>7 DEF AllocateRetry, Cached
<1>8. CASE InsertFrame(t)
  BY <1>8 DEF InsertFrame, Cached
<1>9. CASE LoadRead(t)
  BY <1>9 DEF LoadRead, Framed, Cached
<1>10. CASE LoadFail(t)
  BY <1>10 DEF LoadFail, Cached
<1>11. CASE LoadRegister(t)
  BY <1>11 DEF LoadRegister, Synced, Framed, Cached
<1>12. CASE LockFrameShared(t)
  BY <1>12 DEF LockFrameShared, Cached
<1>13. CASE EnterFrame(t)
  BY <1>13 DEF EnterFrame, Cached
<1>14. CASE LockFrameExclusive(t)
  BY <1>14 DEF LockFrameExclusive, Cached
<1>15. CASE ReadPage(t)
  BY <1>15 DEF ReadPage, Cached
<1>16. CASE WritePage(t)
  BY <1>16 DEF WritePage, Cached
<1>17. CASE MarkAsDirty(t)
  BY <1>17 DEF MarkAsDirty, Cached
<1>18. CASE Release(t)
  BY <1>18 DEF Release, Unuse, Cached
<1>19. CASE UnlockFile(t)
  BY <1>19 DEF UnlockFile, Return, Cached
<1>20. CASE EnterFile(t)
  BY <1>20 DEF EnterFile, Cached
<1>21. CASE LockFileExclusive(t)
  BY <1>21 DEF LockFileExclusive, Cached
<1>22. CASE AppendDisk(t)
  BY <1>22 DEF AppendDisk, Cached
<1>23. CASE AppendFail(t)
  BY <1>23 DEF AppendFail, Cached
<1>24. CASE AppendFrame(t)
  BY <1>24 DEF AppendFrame, Synced, Cached
<1>25. CASE UnlockFileExclusive(t)
  BY <1>25 DEF UnlockFileExclusive, Return, Cached
<1>26. CASE FlushStart(t)
  BY <1>26 DEF FlushStart, Cached
<1>27. CASE FlushNext(t)
  BY <1>27 DEF FlushNext, Use, NeedsFlush, Cached
<1>28. CASE FlushFinish(t)
  BY <1>28 DEF FlushFinish, Cached
<1>29. CASE FlushLatch(t)
  BY <1>29 DEF FlushLatch, Cached
<1>30. CASE FlushWrite(t)
  BY <1>30 DEF FlushWrite, Cached
<1>31. CASE FlushFail(t)
  BY <1>31 DEF FlushFail, Cached
<1>32. CASE FlushClear(t)
  BY <1>32 DEF FlushClear, Cached
<1>33. CASE FlushResume(t)
  BY <1>33 DEF FlushResume, Unuse, Cached
<1>34. CASE EvictResume(t)
  BY <1>34 DEF EvictResume, Unuse, Erase, Evicting, Cached
<1>. QED
  BY <1>1, <1>2, <1>3, <1>4, <1>5, <1>6, <1>7, <1>8, <1>9, <1>10, <1>11, <1>12, <1>13, <1>14, <1>15, <1>16, <1>17, <1>18, <1>19, <1>20, <1>21, <1>22, <1>23, <1>24, <1>25, <1>26, <1>27, <1>28, <1>29, <1>30, <1>31, <1>32, <1>33, <1>34 DEF Step

\* The initial states correspond.
LEMMA RefinementInit ==
    ASSUME Init
    PROVE  Abstract!Init
<1>1. Store = [p \in Pages |-> Blank]
  BY DEF Init, Store, Cached, Blank
<1>2. Abstract!Blank = Blank /\ Abstract!NoCall = NoCall /\ Abstract!NoReply = NoReply
  BY DEF Abstract!Blank, Abstract!NoCall, Abstract!NoReply, Blank, NoCall, NoReply
<1>. QED  BY <1>1, <1>2 DEF Init, Abstract!Init

\* What a step does to Store.
LEMMA StoreStep ==
    ASSUME Unreadable = {}, IInv, NEW t \in Threads, Step(t)
    PROVE  /\ WritePage(t) => Store' = [Store EXCEPT ![Page(t)].head = call[t].val]
           /\ AppendDisk(t) => Store' = [Store EXCEPT ![Page(t)].tail = call[t].val]
           /\ ~WritePage(t) /\ ~AppendDisk(t) => UNCHANGED Store
<1>1. /\ Store = [p \in Pages |-> [head |-> HeadOf(p), tail |-> TailOf(p)]]
      /\ Store' = [p \in Pages |-> [head |-> HeadOf(p)', tail |-> TailOf(p)']]
  BY DEF Store, HeadOf, TailOf
<1>2. \A p \in Pages :
          /\ HeadOf(p)' = IF WritePage(t) /\ Page(t) = p THEN call[t].val ELSE HeadOf(p)
          /\ TailOf(p)' = IF AppendDisk(t) /\ Page(t) = p THEN call[t].val ELSE TailOf(p)
  BY CellStep
<1>3. ~(WritePage(t) /\ AppendDisk(t))
  BY DEF WritePage, AppendDisk
<1>4. WritePage(t) \/ AppendDisk(t) => Page(t) \in Pages
  BY CallTyped DEF WritePage, AppendDisk
<1>5. CASE WritePage(t)
  <2>1. Store' = [p \in Pages |-> [head |-> IF Page(t) = p THEN call[t].val ELSE HeadOf(p),
                                   tail |-> TailOf(p)]]
    BY <1>1, <1>2, <1>3, <1>5
  <2>. QED  BY <1>1, <1>3, <1>4, <1>5, <2>1
<1>6. CASE AppendDisk(t)
  <2>1. Store' = [p \in Pages |-> [head |-> HeadOf(p),
                                   tail |-> IF Page(t) = p THEN call[t].val ELSE TailOf(p)]]
    BY <1>1, <1>2, <1>3, <1>6
  <2>. QED  BY <1>1, <1>3, <1>4, <1>6, <2>1
<1>7. CASE ~WritePage(t) /\ ~AppendDisk(t)
  BY <1>1, <1>2, <1>7
<1>. QED  BY <1>5, <1>6, <1>7

LEMMA RefinementStep ==
    ASSUME Unreadable = {}, IInv, NEW t \in Threads, Step(t)
    PROVE  [Abstract!Next]_Abstract!vars
<1>0. /\ TypeOK /\ Placed(t)
      /\ pc[t] # "idle" => Page(t) \in Pages /\ call[t] \in Call
      /\ \A c \in Call : c # NoCall /\ c.kind \in Kinds
      /\ NoReply.status = "none"
  BY CallTyped DEF IInv, Call, NoCall, NoReply, Kinds
<1>1. /\ WritePage(t) => Store' = [Store EXCEPT ![Page(t)].head = call[t].val]
      /\ AppendDisk(t) => Store' = [Store EXCEPT ![Page(t)].tail = call[t].val]
      /\ ~WritePage(t) /\ ~AppendDisk(t) => UNCHANGED Store
  BY StoreStep
<1>w. /\ WritePage(t) => pc[t] = "hold" /\ Exclusive(t)
      /\ AppendDisk(t) => pc[t] = "append" /\ pc'[t] = "appendFrame"
  BY <1>0 DEF WritePage, AppendDisk, TypeOK
<1>2. Abstract!Blank = Blank /\ Abstract!NoCall = NoCall /\ Abstract!NoReply = NoReply
  BY DEF Abstract!Blank, Abstract!NoCall, Abstract!NoReply, Blank, NoCall, NoReply
<1>3. /\ pc[t] \in {"mark", "release", "unlockFile", "appendFrame", "unlockFileX"}
           <=> reply[t].status # "none"
      /\ reply[t].status = "none" => reply[t] = NoReply
  BY <1>0 DEF Placed
<1>4. CASE Invoke(t)
  <2>1. Abstract!Invoke(t)
    BY <1>0, <1>1, <1>w, <1>2, <1>4 DEF Invoke, Abstract!Invoke, Placed
  <2>. QED  BY <2>1 DEF Abstract!Next
<1>5. CASE ReadPage(t)
  <2>1. /\ call[t].kind \in {"read", "stream"}
        /\ Page(t) \in Pages
    BY <1>0, <1>5 DEF ReadPage, Placed, FixPoints, Exclusive
  <2>2. Store[Page(t)] = data[Page(t)]
    <3>1. Cached(Page(t)) /\ ~HalfAppended(Page(t))
      BY <1>5, <2>1, BytesKnown, HalfAppendedStep DEF ReadPage, Pins, FixPoints
    <3>2. data[Page(t)] \in Content
      BY <1>0, <2>1 DEF TypeOK
    <3>. QED  BY <2>1, <3>1, <3>2 DEF Store, Content
  <2>3. Abstract!Read(t)
    BY <1>0, <1>1, <1>w, <1>2, <1>3, <1>5, <2>1, <2>2
       DEF ReadPage, Abstract!Read, Abstract!Pending, Abstract!Answer
  <2>. QED  BY <2>3 DEF Abstract!Next
<1>6. CASE WritePage(t)
  <2>1. Abstract!Write(t)
    BY <1>0, <1>1, <1>w, <1>2, <1>3, <1>6
       DEF WritePage, Exclusive, Abstract!Write, Abstract!Pending, Abstract!Answer
  <2>. QED  BY <2>1 DEF Abstract!Next
<1>7. CASE AppendDisk(t)
  <2>1. Abstract!Append(t)
    BY <1>0, <1>1, <1>w, <1>2, <1>3, <1>7
       DEF AppendDisk, Placed, AppendPoints, Abstract!Append, Abstract!Pending, Abstract!Answer
  <2>. QED  BY <2>1 DEF Abstract!Next
<1>8. CASE FlushFinish(t)
  <2>1. Abstract!Flush(t)
    BY <1>0, <1>1, <1>w, <1>2, <1>3, <1>8
       DEF FlushFinish, Placed, Abstract!Flush, Abstract!Pending, Abstract!Answer
  <2>. QED  BY <2>1 DEF Abstract!Next
<1>9. CASE AppendFail(t) \/ FlushFail(t)
  <2>1. /\ call[t] \in Call /\ reply[t] = NoReply
        /\ UNCHANGED call
        /\ reply' = [reply EXCEPT ![t] = [status |-> "failed", content |-> Blank]]
    BY <1>0, <1>3, <1>9 DEF AppendFail, FlushFail
  <2>2. UNCHANGED Store
    BY <1>0, <1>1, <1>w, <1>9 DEF AppendFail, FlushFail, TypeOK
  <2>3. Abstract!Fail(t)
    BY <1>0, <1>2, <2>1, <2>2
       DEF Abstract!Fail, Abstract!Pending, Abstract!Answer, Abstract!Kinds, Kinds
  <2>. QED  BY <2>3 DEF Abstract!Next
<1>10. CASE Release(t)
  <2>1. CASE UNCHANGED <<call, reply>>
    BY <1>1, <1>w, <1>10, <2>1 DEF Release, Abstract!vars
  <2>2. CASE ~UNCHANGED <<call, reply>>
    <3>1. Abstract!NextPage(t)
      BY <1>0, <1>1, <1>w, <1>2, <1>3, <1>10, <2>2 DEF Release, Abstract!NextPage
    <3>. QED  BY <3>1 DEF Abstract!Next
  <2>. QED  BY <2>1, <2>2
<1>11. CASE UnlockFile(t) \/ UnlockFileExclusive(t)
  <2>1. Abstract!Return(t)
    BY <1>0, <1>1, <1>w, <1>2, <1>3, <1>11
       DEF UnlockFile, UnlockFileExclusive, Return, Abstract!Return
  <2>. QED  BY <2>1 DEF Abstract!Next
<1>12. CASE UNCHANGED <<call, reply>>
  <2>1. ~WritePage(t) /\ ~AppendDisk(t)
    BY <1>0, <1>3, <1>12 DEF WritePage, AppendDisk, TypeOK
  <2>. QED  BY <1>1, <1>12, <2>1 DEF Abstract!vars
<1>13. \/ Invoke(t) \/ ReadPage(t) \/ WritePage(t) \/ AppendDisk(t) \/ FlushFinish(t)
       \/ AppendFail(t) \/ FlushFail(t) \/ Release(t) \/ UnlockFile(t)
       \/ UnlockFileExclusive(t)
       \/ UNCHANGED <<call, reply>>
  BY DEF Step, LockFile, FixHit, FixMiss, EvictClean, EvictDirty, AllocateRetry, InsertFrame,
         LoadRead, LoadFail, LoadRegister, LockFrameShared, EnterFrame, LockFrameExclusive,
         MarkAsDirty, EnterFile, LockFileExclusive, AppendFrame, FlushStart, FlushNext,
         FlushLatch, FlushWrite, FlushClear, FlushResume, EvictResume
<1>. QED
  BY <1>4, <1>5, <1>6, <1>7, <1>8, <1>9, <1>10, <1>11, <1>12, <1>13

\* Caching, eviction, flushing and failing writes never show in what a call answers, unless
\* a read fails.
THEOREM Refinement ==
    ASSUME Unreadable = {}
    PROVE  Spec => ImplementsPageStore
<1>1. Init => Abstract!Init
  BY RefinementInit
<1>2. IInv /\ [Next]_vars => [Abstract!Next]_Abstract!vars
  <2>. SUFFICES ASSUME IInv, [Next]_vars
                PROVE  [Abstract!Next]_Abstract!vars
    OBVIOUS
  <2>1. ASSUME NEW t \in Threads, Step(t)
        PROVE  [Abstract!Next]_Abstract!vars
    BY <2>1, RefinementStep
  <2>2. CASE UNCHANGED vars
    BY <2>2 DEF vars, Abstract!vars, Store, Cached, HalfAppended
  <2>. QED  BY <2>1, <2>2 DEF Next, Finished
<1>. QED  BY <1>1, <1>2, Invariance, PTL DEF Spec, ImplementsPageStore, Abstract!Spec
===============================================================================
