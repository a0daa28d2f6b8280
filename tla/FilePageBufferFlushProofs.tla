----------------------- MODULE FilePageBufferFlushProofs -----------------------
(***************************************************************************)
(* Two more invariants of FilePageBuffer, on top of IInv: the eviction     *)
(* queues hold each frame of the directory once (QueuesHoldFrames), and a  *)
(* flush leaves nothing unwritten that was newer than the file when it was *)
(* called (FlushCoversEarlierWrites).                                      *)
(***************************************************************************)
EXTENDS FilePageBufferProofs

USE DEF Allocating, disks, frames, queues, fileLatches, frameLatches, locals,
        At, GoTo, Page, FileOfCall, Directory, Answer

In(s, p) == \E i \in 1..Len(s) : s[i] = p

Distinct(s) == \A i, j \in 1..Len(s) : s[i] = s[j] => i = j

\* Both queues are without repetition and share no page, and together they hold the pages
\* that have a frame.
Queued ==
    /\ Distinct(fifo) /\ Distinct(lru)
    /\ \A p \in Pages : ~(In(fifo, p) /\ In(lru, p))
    /\ \A p \in Pages : frame[p] # "absent" <=> In(fifo, p) \/ In(lru, p)

-------------------------------------------------------------------------------
(* Queues *)

\* Without takes one page out of a queue and leaves the others, each once.
LEMMA WithoutElements ==
    ASSUME NEW s \in Seq(Pages), NEW p \in Pages, Distinct(s)
    PROVE  /\ Distinct(Without(s, p))
           /\ \A q \in Pages : In(Without(s, p), q) <=> In(s, q) /\ q # p
<1>1. CASE \E i \in 1..Len(s) : s[i] = p
  <2>1. PICK k \in 1..Len(s) : k = CHOOSE i \in 1..Len(s) : s[i] = p
    BY <1>1
  <2>2. s[k] = p
    BY <1>1, <2>1
  <2>. DEFINE before == SubSeq(s, 1, k - 1)
              after  == SubSeq(s, k + 1, Len(s))
              rest   == before \o after
  <2>3. Without(s, p) = rest
    BY <1>1, <2>1 DEF Without
  <2>4. /\ before \in Seq(Pages) /\ Len(before) = k - 1
        /\ \A i \in 1..(k - 1) : before[i] = s[i]
    OBVIOUS
  <2>5. /\ after \in Seq(Pages) /\ Len(after) = Len(s) - k
        /\ \A i \in 1..(Len(s) - k) : after[i] = s[k + i]
    OBVIOUS
  <2>. HIDE DEF before, after
  <2>6. /\ rest \in Seq(Pages) /\ Len(rest) = Len(s) - 1
        /\ \A i \in 1..Len(rest) : rest[i] = IF i < k THEN s[i] ELSE s[i + 1]
    <3>1. /\ rest \in Seq(Pages) /\ Len(rest) = Len(s) - 1
          /\ \A i \in 1..Len(rest) :
                rest[i] = IF i <= k - 1 THEN before[i] ELSE after[i - (k - 1)]
      BY <2>4, <2>5
    <3>2. ASSUME NEW i \in 1..Len(rest)
          PROVE  rest[i] = IF i < k THEN s[i] ELSE s[i + 1]
      <4>1. CASE i < k
        BY <2>4, <3>1, <4>1
      <4>2. CASE ~(i < k)
        <5>1. i - (k - 1) \in 1..(Len(s) - k) /\ k + (i - (k - 1)) = i + 1
          BY <3>1, <4>2
        <5>. QED  BY <2>5, <3>1, <4>2, <5>1
      <4>. QED  BY <4>1, <4>2
    <3>. QED  BY <3>1, <3>2
  <2>. HIDE DEF rest
  <2>7. Distinct(rest)
    BY <2>6 DEF Distinct
  <2>8. ASSUME NEW q \in Pages, In(rest, q)
        PROVE  In(s, q) /\ q # p
    BY <2>2, <2>6, <2>8 DEF In, Distinct
  <2>9. ASSUME NEW q \in Pages, In(s, q), q # p
        PROVE  In(rest, q)
    <3>1. PICK i \in 1..Len(s) : s[i] = q
      BY <2>9 DEF In
    <3>2. CASE i < k
      BY <2>6, <3>1, <3>2 DEF In
    <3>3. CASE i > k
      <4>1. i - 1 \in 1..Len(rest) /\ rest[i - 1] = q
        BY <2>6, <3>1, <3>3
      <4>. QED  BY <4>1 DEF In
    <3>. QED  BY <2>2, <2>9, <3>1, <3>2, <3>3
  <2>. QED  BY <2>3, <2>7, <2>8, <2>9
<1>2. CASE ~ \E i \in 1..Len(s) : s[i] = p
  BY <1>2 DEF Without, In
<1>. QED  BY <1>1, <1>2

\* Appending a page that a queue does not hold adds it, once.
LEMMA AppendElements ==
    ASSUME NEW s \in Seq(Pages), NEW p \in Pages, Distinct(s), ~In(s, p)
    PROVE  /\ Distinct(Append(s, p))
           /\ \A q \in Pages : In(Append(s, p), q) <=> In(s, q) \/ q = p
<1>1. /\ Len(Append(s, p)) = Len(s) + 1
      /\ \A i \in 1..Len(s) : Append(s, p)[i] = s[i]
      /\ Append(s, p)[Len(s) + 1] = p
  OBVIOUS
<1>2. \A i \in 1..Len(s) : s[i] # p
  BY DEF In
<1>3. Distinct(Append(s, p))
  BY <1>1, <1>2 DEF Distinct
<1>4. ASSUME NEW q \in Pages
      PROVE  In(Append(s, p), q) <=> In(s, q) \/ q = p
  <2>1. Len(s) + 1 \in 1..Len(Append(s, p))
    BY <1>1
  <2>2. In(s, q) => In(Append(s, p), q)
    BY <1>1 DEF In
  <2>3. q = p => In(Append(s, p), q)
    BY <1>1, <2>1 DEF In
  <2>4. In(Append(s, p), q) => In(s, q) \/ q = p
    BY <1>1 DEF In
  <2>. QED  BY <2>2, <2>3, <2>4
<1>. QED  BY <1>3, <1>4

\* A frame that leaves the directory leaves the queue it is in.
LEMMA EraseQueued ==
    ASSUME IInv, Queued, NEW p \in Pages, frame[p] # "absent", Erase(p)
    PROVE  Queued'
<1>1. fifo \in Seq(Pages) /\ lru \in Seq(Pages) /\ frame \in [Pages -> States]
  BY DEF IInv, TypeOK
<1>2. /\ Distinct(Without(fifo, p)) /\ Distinct(Without(lru, p))
      /\ \A q \in Pages : In(Without(fifo, p), q) <=> In(fifo, q) /\ q # p
      /\ \A q \in Pages : In(Without(lru, p), q) <=> In(lru, q) /\ q # p
  BY <1>1, WithoutElements DEF Queued
<1>3. \A q \in Pages : frame'[q] # "absent" <=> frame[q] # "absent" /\ q # p
  BY <1>1 DEF Erase
<1>4. CASE In(lru, p)
  <2>1. lru' = Without(lru, p) /\ fifo' = fifo
    BY <1>4 DEF Erase, In
  <2>. QED  BY <1>2, <1>3, <1>4, <2>1 DEF Queued
<1>5. CASE ~In(lru, p)
  <2>1. fifo' = Without(fifo, p) /\ lru' = lru
    BY <1>5 DEF Erase, In
  <2>. QED  BY <1>2, <1>3, <1>5, <2>1 DEF Queued
<1>. QED  BY <1>4, <1>5

\* A step that leaves the queues alone neither adds a frame nor takes one away.
LEMMA OtherSteps ==
    ASSUME NEW t \in Threads, Step(t)
    PROVE  \/ FixHit(t) \/ EvictClean(t) \/ InsertFrame(t) \/ EvictResume(t)
           \/ UNCHANGED <<frame, fifo, lru>>
           \/ UNCHANGED <<fifo, lru>> /\ (EvictDirty(t) \/ LoadRegister(t))
BY DEF Step, Invoke, LockFile, FixMiss, EvictDirty, AllocateRetry, LoadRead, LoadFail,
       LoadRegister, LockFrameShared, EnterFrame, LockFrameExclusive, ReadPage, WritePage,
       MarkAsDirty, Release, UnlockFile, EnterFile, LockFileExclusive, AppendDisk, AppendFail,
       AppendFrame, UnlockFileExclusive, FlushStart, FlushNext, FlushFinish, FlushLatch,
       FlushWrite, FlushFail, FlushClear, FlushResume

LEMMA QueuedStep ==
    ASSUME IInv, Queued, NEW t \in Threads, Step(t)
    PROVE  Queued'
<1>1. /\ fifo \in Seq(Pages) /\ lru \in Seq(Pages) /\ frame \in [Pages -> States]
      /\ Placed(t) /\ Framed(t)
      /\ pc[t] # "idle" => Page(t) \in Pages
  BY CallTyped DEF IInv, TypeOK
<1>2. CASE FixHit(t)
  <2>1. /\ Page(t) \in Pages /\ frame[Page(t)] # "absent"
        /\ lru' = Append(Without(lru, Page(t)), Page(t))
        /\ fifo' = IF In(lru, Page(t)) THEN fifo ELSE Without(fifo, Page(t))
        /\ \A q \in Pages : frame'[q] # "absent" <=> frame[q] # "absent"
    BY <1>1, <1>2 DEF FixHit, In
  <2>. DEFINE p == Page(t)
              others == Without(lru, p)
  <2>2. /\ Distinct(Without(fifo, p)) /\ Distinct(others)
        /\ \A q \in Pages : In(Without(fifo, p), q) <=> In(fifo, q) /\ q # p
        /\ \A q \in Pages : In(others, q) <=> In(lru, q) /\ q # p
        /\ others \in Seq(Pages)
    BY <1>1, <2>1, WithoutElements, WithoutType DEF Queued
  <2>. HIDE DEF p, others
  <2>3. p \in Pages /\ ~In(others, p)
    BY <2>1, <2>2 DEF p
  <2>4. /\ Distinct(Append(others, p))
        /\ \A q \in Pages : In(Append(others, p), q) <=> In(others, q) \/ q = p
    BY <2>2, <2>3, AppendElements
  <2>5. /\ lru' = Append(others, p) /\ frame[p] # "absent"
        /\ fifo' = IF In(lru, p) THEN fifo ELSE Without(fifo, p)
    BY <2>1 DEF p, others
  <2>. QED  BY <2>1, <2>2, <2>3, <2>4, <2>5 DEF Queued
<1>3. CASE EvictClean(t)
  <2>1. PICK v \in Pages : frame[v] = "loaded" /\ Erase(v)
    BY <1>3 DEF EvictClean, Evicts, Evictable
  <2>. QED  BY <2>1, EraseQueued
<1>4. CASE InsertFrame(t)
  <2>. DEFINE p == Page(t)
  <2>1. /\ p \in Pages /\ frame[p] = "absent" /\ fifo' = Append(fifo, p) /\ lru' = lru
        /\ frame' = [frame EXCEPT ![p] = "loading"]
    BY <1>1, <1>4 DEF InsertFrame
  <2>. HIDE DEF p
  <2>2. ~In(fifo, p) /\ ~In(lru, p)
    BY <2>1 DEF Queued
  <2>3. /\ Distinct(Append(fifo, p))
        /\ \A q \in Pages : In(Append(fifo, p), q) <=> In(fifo, q) \/ q = p
    BY <1>1, <2>1, <2>2, AppendElements DEF Queued
  <2>4. \A q \in Pages : frame'[q] # "absent" <=> frame[q] # "absent" \/ q = p
    BY <1>1, <2>1
  <2>. QED  BY <2>1, <2>2, <2>3, <2>4 DEF Queued
<1>5. CASE EvictResume(t)
  <2>1. victim[t] \in Pages /\ frame[victim[t]] # "absent"
    BY <1>1, <1>5 DEF EvictResume, Placed, Framed, FlushPoints
  <2>2. CASE Erase(victim[t])
    BY <2>1, <2>2, EraseQueued
  <2>3. CASE UNCHANGED <<fifo, lru>> /\ (frame' = frame \/ frame' = [frame EXCEPT ![victim[t]] = "loaded"])
    <3>1. \A q \in Pages : frame'[q] # "absent" <=> frame[q] # "absent"
      BY <1>1, <2>1, <2>3
    <3>. QED  BY <2>3, <3>1 DEF Queued, In, Distinct
  <2>. QED  BY <1>5, <2>2, <2>3 DEF EvictResume
<1>6. CASE UNCHANGED <<frame, fifo, lru>>
  BY <1>6 DEF Queued, In, Distinct
<1>7. CASE UNCHANGED <<fifo, lru>> /\ (EvictDirty(t) \/ LoadRegister(t))
  <2>1. \A q \in Pages : frame'[q] # "absent" <=> frame[q] # "absent"
    <3>1. CASE EvictDirty(t)
      <4>1. PICK v \in Pages : frame[v] = "loaded" /\ frame' = [frame EXCEPT ![v] = "evicting"]
        BY <3>1 DEF EvictDirty, Evicts, Evictable
      <4>. QED  BY <1>1, <4>1
    <3>2. CASE LoadRegister(t)
      BY <1>1, <3>2 DEF LoadRegister, Framed
    <3>. QED  BY <1>7, <3>1, <3>2
  <2>. QED  BY <1>7, <2>1 DEF Queued, In, Distinct
<1>. QED  BY <1>2, <1>3, <1>4, <1>5, <1>6, <1>7, OtherSteps

LEMMA QueuedInvariant == Spec => []Queued
<1>1. Init => Queued
  BY DEF Init, Queued, In, Distinct
<1>2. IInv /\ Queued /\ [Next]_vars => Queued'
  <2>1. CASE UNCHANGED vars
    BY <2>1 DEF vars, Queued, In, Distinct
  <2>. QED  BY <2>1, QueuedStep DEF Next, Finished
<1>. QED  BY <1>1, <1>2, Invariance, PTL DEF Spec

\* Every frame of the directory is in one of the eviction queues, once, and nothing else is:
\* EvictAnyBufferFrame meets each frame, and never one that has gone.
THEOREM QueuesAgreeWithDirectory == Spec => []QueuesHoldFrames
<1>1. IInv /\ Queued => QueuesHoldFrames
  <2>. SUFFICES ASSUME IInv, Queued, NEW p \in Pages
                PROVE  Cardinality({i \in 1..Len(fifo \o lru) : (fifo \o lru)[i] = p})
                           = IF frame[p] = "absent" THEN 0 ELSE 1
    BY DEF QueuesHoldFrames
  <2>. DEFINE places == {i \in 1..Len(fifo \o lru) : (fifo \o lru)[i] = p}
  <2>1. fifo \in Seq(Pages) /\ lru \in Seq(Pages)
    BY DEF IInv, TypeOK
  <2>2. /\ Len(fifo \o lru) = Len(fifo) + Len(lru)
        /\ \A i \in 1..Len(fifo) : (fifo \o lru)[i] = fifo[i]
        /\ \A i \in 1..Len(lru) : (fifo \o lru)[Len(fifo) + i] = lru[i]
    BY <2>1
  <2>3. \A i \in 1..(Len(fifo) + Len(lru)) :
            i \in 1..Len(fifo) \/ (i - Len(fifo) \in 1..Len(lru) /\ i = Len(fifo) + (i - Len(fifo)))
    BY <2>1
  <2>4. ASSUME NEW i \in places, NEW j \in places
        PROVE  i = j
    <3>1. /\ i \in 1..(Len(fifo) + Len(lru)) /\ (fifo \o lru)[i] = p
          /\ j \in 1..(Len(fifo) + Len(lru)) /\ (fifo \o lru)[j] = p
      BY <2>2
    <3>2. CASE i \in 1..Len(fifo) /\ j \in 1..Len(fifo)
      BY <2>2, <3>1, <3>2 DEF Queued, Distinct
    <3>3. CASE i \notin 1..Len(fifo) /\ j \notin 1..Len(fifo)
      <4>1. /\ i - Len(fifo) \in 1..Len(lru) /\ lru[i - Len(fifo)] = p
            /\ j - Len(fifo) \in 1..Len(lru) /\ lru[j - Len(fifo)] = p
        BY <2>1, <2>2, <2>3, <3>1, <3>3
      <4>2. i - Len(fifo) = j - Len(fifo)
        BY <4>1 DEF Queued, Distinct
      <4>. QED  BY <2>1, <3>1, <4>2
    <3>4. \A k \in {i, j} : k \in 1..Len(fifo) => In(fifo, p)
      BY <2>2, <3>1 DEF In
    <3>5. \A k \in {i, j} : k \notin 1..Len(fifo) => In(lru, p)
      <4>1. \A k \in {i, j} : k \notin 1..Len(fifo) =>
                k - Len(fifo) \in 1..Len(lru) /\ lru[k - Len(fifo)] = p
        BY <2>1, <2>2, <2>3, <3>1
      <4>. QED  BY <4>1 DEF In
    <3>. QED  BY <3>2, <3>3, <3>4, <3>5 DEF Queued
  <2>5. In(fifo, p) \/ In(lru, p) <=> places # {}
    <3>1. ASSUME NEW i \in places
          PROVE  In(fifo, p) \/ In(lru, p)
      <4>1. i \in 1..(Len(fifo) + Len(lru)) /\ (fifo \o lru)[i] = p
        BY <2>2
      <4>2. CASE i \in 1..Len(fifo)
        BY <2>2, <4>1, <4>2 DEF In
      <4>3. CASE i \notin 1..Len(fifo)
        <5>1. i - Len(fifo) \in 1..Len(lru) /\ lru[i - Len(fifo)] = p
          BY <2>1, <2>2, <2>3, <4>1, <4>3
        <5>. QED  BY <5>1 DEF In
      <4>. QED  BY <4>2, <4>3
    <3>2. ASSUME In(fifo, p)
          PROVE  places # {}
      <4>1. PICK i \in 1..Len(fifo) : fifo[i] = p
        BY <3>2 DEF In
      <4>2. i \in places
        BY <2>1, <2>2, <4>1
      <4>. QED  BY <4>2
    <3>3. ASSUME In(lru, p)
          PROVE  places # {}
      <4>1. PICK i \in 1..Len(lru) : lru[i] = p
        BY <3>3 DEF In
      <4>2. Len(fifo) + i \in places
        BY <2>1, <2>2, <4>1
      <4>. QED  BY <4>2
    <3>. QED  BY <3>1, <3>2, <3>3
  <2>. HIDE DEF places
  <2>6. CASE frame[p] = "absent"
    <3>1. places = {}
      BY <2>5, <2>6 DEF Queued
    <3>. QED  BY <2>6, <3>1, FS_EmptySet DEF places
  <2>7. CASE frame[p] # "absent"
    <3>1. PICK i : i \in places
      BY <2>5, <2>7 DEF Queued
    <3>2. places = {i}
      BY <2>4, <3>1
    <3>. QED  BY <2>7, <3>2, FS_Singleton DEF places
  <2>. QED  BY <2>6, <2>7
<1>. QED  BY <1>1, Invariance, QueuedInvariant, PTL
-------------------------------------------------------------------------------
(* What a flush owes *)

\* A page that is being loaded is not dirty.
LoadsClean(t) == pc[t] \in {"load", "loaded"} => ~dirty[Page(t)]

\* A frame that is about to be marked clean is in the file, or has been marked before.
Written(t) == pc[t] = "flushClear" => ~dirty[victim[t]] \/ data[victim[t]] = disk[victim[t]]

\* What a flush owes is in a dirty frame of its file, of which nobody has written the bytes
\* and not yet cleared the flag; and it is still on the way of the flush.
Owes(t) ==
    /\ call[t].kind # "flush" => unflushed[t] = {}
    /\ \A p \in unflushed[t] :
           /\ frame[p] # "absent" /\ dirty[p] /\ FileOf[p] = FileOfCall(t)
           /\ \A u \in Threads : pc[u] = "flushClear" => victim[u] # p
    /\ pc[t] \in {"flushNext", "flushClear", "flushEnd"} => unflushed[t] \subseteq todo[t]
    /\ pc[t] \in {"flushLatch", "flushWrite"} => unflushed[t] \subseteq todo[t] \cup {victim[t]}
    /\ pc[t] = "unlockFile" /\ reply[t].status = "ok" => unflushed[t] = {}

FlushInv == \A t \in Threads : LoadsClean(t) /\ Written(t) /\ Owes(t)

\* The facts of IInv that the steps below start from.
LEMMA FlushFacts ==
    ASSUME IInv, NEW t \in Threads
    PROVE  /\ TypeOK /\ Placed(t) /\ Latched(t) /\ Framed(t) /\ Synced(t)
           /\ pc[t] # "idle" => Page(t) \in Pages
           /\ pc[t] \in FlushPoints => victim[t] \in Pages /\ Pins(t, victim[t])
           /\ pc[t] \in FixPoints => Pins(t, Page(t))
           /\ pc[t] = "mark" => Owns(t, Page(t))
<1>1. TypeOK /\ Placed(t) /\ Latched(t) /\ Framed(t) /\ Synced(t)
  BY DEF IInv
<1>. QED  BY <1>1, CallTyped DEF Placed, Pins, Owns, Exclusive

\* Where a thread stands when it changes a dirty flag or the bytes of a page.
LEMMA WhoStandsWhere ==
    ASSUME NEW t \in Threads
    PROVE  /\ LoadRead(t) => pc[t] = "load"
           /\ WritePage(t) => pc[t] = "hold" /\ Exclusive(t)
           /\ AppendFrame(t) => pc[t] = "appendFrame"
           /\ AppendDisk(t) => pc[t] = "append"
           /\ FlushWrite(t) => pc[t] = "flushWrite"
           /\ InsertFrame(t) => frame[Page(t)] = "absent"
           /\ LoadRegister(t) => pc[t] = "loaded"
           /\ MarkAsDirty(t) => pc[t] = "mark" /\ dirty' = [dirty EXCEPT ![Page(t)] = TRUE]
           /\ FlushClear(t) => pc[t] = "flushClear" /\ dirty' = [dirty EXCEPT ![victim[t]] = FALSE]
BY DEF LoadRead, WritePage, AppendFrame, AppendDisk, FlushWrite, InsertFrame, LoadRegister,
       MarkAsDirty, FlushClear

\* Who comes to load a page, and who to clear a flag.
LEMMA WhoArrives ==
    ASSUME TypeOK, NEW t \in Threads, Step(t)
    PROVE  /\ pc'[t] \in {"load", "loaded"} => InsertFrame(t) \/ LoadRead(t)
           /\ pc'[t] = "flushClear" => FlushWrite(t)
<1>1. pc'[t] \in {"load", "loaded"} => InsertFrame(t) \/ LoadRead(t)
  BY DEF TypeOK, Step, Invoke, LockFile, FixHit, FixMiss, EvictClean, EvictDirty, AllocateRetry,
         LoadFail, LoadRegister, LockFrameShared, EnterFrame, LockFrameExclusive, ReadPage,
         WritePage, MarkAsDirty, Release, UnlockFile, EnterFile, LockFileExclusive, AppendDisk,
         AppendFail, AppendFrame, UnlockFileExclusive, FlushStart, FlushNext, FlushFinish,
         FlushLatch, FlushWrite, FlushFail, FlushClear, FlushResume, EvictResume, Return
<1>2. pc'[t] = "flushClear" => FlushWrite(t)
  BY DEF TypeOK, Step, Invoke, LockFile, FixHit, FixMiss, EvictClean, EvictDirty, AllocateRetry,
         InsertFrame, LoadRead, LoadFail, LoadRegister, LockFrameShared, EnterFrame,
         LockFrameExclusive, ReadPage, WritePage, MarkAsDirty, Release, UnlockFile, EnterFile,
         LockFileExclusive, AppendDisk, AppendFail, AppendFrame, UnlockFileExclusive,
         FlushStart, FlushNext, FlushFinish, FlushLatch, FlushFail, FlushClear, FlushResume,
         EvictResume, Return
<1>. QED  BY <1>1, <1>2

\* The loader of a page has its frame latch alone, so nobody marks it meanwhile.
LEMMA LoadsCleanStep ==
    ASSUME IInv, FlushInv, NEW t \in Threads, Step(t), NEW u \in Threads
    PROVE  LoadsClean(u)'
<1>1. CASE u = t
  <2>1. InsertFrame(t) => Page(t) \in Pages /\ ~dirty'[Page(t)] /\ call' = call
    BY FlushFacts DEF InsertFrame, TypeOK
  <2>2. LoadRead(t) => pc[t] = "load" /\ dirty' = dirty /\ call' = call
    BY DEF LoadRead
  <2>3. LoadsClean(t)
    BY DEF FlushInv
  <2>. QED  BY <1>1, <2>1, <2>2, <2>3, WhoArrives DEF IInv, LoadsClean
<1>2. CASE u # t
  <2>1. SUFFICES ASSUME pc[u] \in {"load", "loaded"}
                 PROVE  ~dirty'[Page(u)]
    BY <1>2, LocalsStep DEF LocalsKept, LoadsClean
  <2>2. /\ Page(u) \in Pages /\ frame[Page(u)] = "loading" /\ Owns(u, Page(u))
        /\ ~dirty[Page(u)]
    BY <2>1, FlushFacts DEF Framed, Owns, FlushInv, LoadsClean
  <2>3. Page(t) = Page(u) => pc[t] \notin {"loaded", "mark"}
    BY <1>2, <2>2, LatchesExclude, FlushFacts DEF Owns
  <2>4. pc[t] = "flushClear" => victim[t] \in Pages
    BY FlushFacts DEF FlushPoints
  <2>. QED  BY <2>2, <2>3, <2>4, BytesStep, WhoStandsWhere DEF IInv, TypeOK
<1>. QED  BY <1>1, <1>2

\* A thread that has written a frame shares its latch until it clears the flag.
LEMMA WrittenStep ==
    ASSUME IInv, FlushInv, NEW t \in Threads, Step(t), NEW u \in Threads
    PROVE  Written(u)'
<1>1. CASE u = t
  <2>1. SUFFICES ASSUME FlushWrite(t)
                 PROVE  ~dirty'[victim'[t]] \/ data'[victim'[t]] = disk'[victim'[t]]
    BY <1>1, WhoArrives DEF IInv, Written
  <2>2. victim[t] \in Pages
    BY <2>1, FlushFacts DEF FlushWrite, FlushPoints
  <2>. QED  BY <2>1, <2>2 DEF FlushWrite, IInv, TypeOK
<1>2. CASE u # t
  <2>1. SUFFICES ASSUME pc[u] = "flushClear"
                 PROVE  ~dirty'[victim[u]] \/ data'[victim[u]] = disk'[victim[u]]
    BY <1>2, LocalsStep DEF LocalsKept, Written
  <2>. DEFINE p == victim[u]
  <2>2. p \in Pages /\ Pins(u, p) /\ Shares(u, p) /\ frame[p] # "absent"
    BY <2>1, FlushFacts DEF FlushPoints, Shares, Framed
  <2>3. ~dirty[p] \/ data[p] = disk[p]
    BY <2>1 DEF FlushInv, Written
  <2>4. frame'[p] # "absent"
    BY <1>2, <2>2, FramesStep DEF FramesKept
  <2>5. ~Owns(t, p) /\ ~(pc[t] \in AppendPoints /\ Page(t) = p)
    BY <1>2, <2>2, LatchesExclude
  <2>6. pc[t] = "flushWrite" => victim[t] \in Pages
    BY FlushFacts DEF FlushPoints
  <2>7. pc[t] = "mark" => Owns(t, Page(t))
    BY FlushFacts
  <2>. HIDE DEF p
  <2>8. data'[p] = data[p]
    BY <2>2, <2>4, <2>5, BytesStep, WhoStandsWhere DEF Owns, AppendPoints
  <2>9. disk'[p] = disk[p] \/ disk'[p] = data[p]
    <3>1. CASE FlushWrite(t) /\ victim[t] = p
      BY <2>2, <3>1 DEF FlushWrite, IInv, TypeOK
    <3>2. CASE ~(FlushWrite(t) /\ victim[t] = p)
      BY <2>2, <2>5, <3>2, BytesStep, WhoStandsWhere DEF AppendPoints
    <3>. QED  BY <3>1, <3>2
  <2>10. ~dirty[p] => ~dirty'[p]
    <3>1. pc[t] = "flushClear" => victim[t] \in Pages
      BY FlushFacts DEF FlushPoints
    <3>2. LoadRegister(t) /\ Page(t) = p => FALSE
      BY <2>5, WhoStandsWhere DEF Owns
    <3>. QED  BY <2>2, <2>5, <2>7, <3>1, <3>2, BytesStep, WhoStandsWhere DEF IInv, TypeOK
  <2>. QED  BY <2>3, <2>8, <2>9, <2>10 DEF p
<1>. QED  BY <1>1, <1>2

\* What a flush still owes of the pages it owed stays as it was: a dirty frame is not
\* erased, and its flag is only cleared by one who has written the bytes.
LEMMA OwedStays ==
    ASSUME IInv, FlushInv, NEW t \in Threads, Step(t), NEW u \in Threads, NEW p \in Pages,
           p \in unflushed[u], p \in unflushed'[u]
    PROVE  /\ frame'[p] # "absent" /\ dirty'[p]
           /\ \A w \in Threads : pc'[w] = "flushClear" => victim'[w] # p
<1>1. /\ frame[p] # "absent" /\ dirty[p]
      /\ \A w \in Threads : pc[w] = "flushClear" => victim[w] # p
  BY DEF FlushInv, Owes
<1>2. /\ TypeOK /\ Synced(t) /\ LoadsClean(t)
      /\ pc[t] # "idle" => Page(t) \in Pages
      /\ pc[t] \in FlushPoints => victim[t] \in Pages
  BY FlushFacts DEF FlushInv
<1>3. dirty'[p]
  <2>1. CASE LoadRegister(t) /\ Page(t) = p
    BY <1>1, <1>2, <2>1, WhoStandsWhere DEF LoadsClean
  <2>2. CASE MarkAsDirty(t) /\ Page(t) = p
    BY <2>2, WhoStandsWhere, <1>2 DEF TypeOK
  <2>. QED  BY <1>1, <2>1, <2>2, BytesStep, WhoStandsWhere
<1>4. frame'[p] # "absent"
  <2>1. CASE frame' = frame
    BY <1>1, <2>1
  <2>2. CASE EvictClean(t)
    <3>1. PICK v \in Pages : ~dirty[v] /\ Erase(v)
      BY <2>2 DEF EvictClean
    <3>. QED  BY <1>1, <1>2, <3>1 DEF Erase, TypeOK
  <2>3. CASE EvictResume(t)
    <3>1. pc[t] = "flushEnd" /\ Evicting(t) /\ victim[t] \in Pages
      BY <1>2, <2>3 DEF EvictResume, FlushPoints
    <3>2. CASE frame[victim[t]] = "evicting" /\ Erase(victim[t])
      BY <1>1, <1>2, <3>1, <3>2 DEF Synced, Erase, TypeOK
    <3>3. CASE frame' = frame \/ frame' = [frame EXCEPT ![victim[t]] = "loaded"]
      BY <1>1, <1>2, <3>3 DEF TypeOK
    <3>. QED  BY <2>3, <3>2, <3>3 DEF EvictResume
  <2>4. CASE FixHit(t) \/ EvictDirty(t) \/ InsertFrame(t) \/ LoadRegister(t)
    BY <1>1, <1>2, <2>4 DEF FixHit, EvictDirty, InsertFrame, LoadRegister, TypeOK
  <2>. QED  BY <2>1, <2>2, <2>3, <2>4, StepAt
<1>5. ASSUME NEW w \in Threads, pc'[w] = "flushClear", victim'[w] = p
      PROVE  FALSE
  <2>1. CASE w # t
    BY <1>1, <1>5, <2>1, LocalsStep DEF LocalsKept
  <2>2. CASE w = t
    <3>1. FlushWrite(t)
      BY <1>2, <1>5, <2>2, WhoArrives
    <3>2. victim[t] = p
      BY <1>5, <2>2, <3>1 DEF FlushWrite
    <3>. QED  BY <1>1, <3>1, <3>2 DEF FlushWrite
  <2>. QED  BY <2>1, <2>2
<1>. QED  BY <1>3, <1>4, <1>5

\* Only a new call owes more, and only a frame that goes is struck off another's list.
LEMMA OwesLess ==
    ASSUME TypeOK, NEW t \in Threads, Step(t), NEW u \in Threads
    PROVE  /\ u # t \/ ~Invoke(t) => unflushed'[u] \subseteq unflushed[u]
           /\ u # t => \A p \in todo[u] : p \in todo'[u] \/ frame'[p] = "absent"
<1>1. CASE Invoke(t)
  BY <1>1 DEF Invoke, TypeOK
<1>2. CASE EvictClean(t)
  BY <1>2 DEF EvictClean, Erase, TypeOK
<1>3. CASE EvictResume(t)
  BY <1>3 DEF EvictResume, Erase, TypeOK
<1>4. CASE UnlockFile(t) \/ FlushStart(t) \/ FlushNext(t) \/ FlushWrite(t) \/ FlushFail(t)
  BY <1>4 DEF UnlockFile, FlushStart, FlushNext, FlushWrite, FlushFail, TypeOK
<1>5. CASE UNCHANGED <<unflushed, todo>>
  BY <1>5
<1>6. \/ Invoke(t) \/ EvictClean(t) \/ EvictResume(t)
      \/ UnlockFile(t) \/ FlushStart(t) \/ FlushNext(t) \/ FlushWrite(t) \/ FlushFail(t)
      \/ UNCHANGED <<unflushed, todo>>
  BY DEF Step, LockFile, FixHit, FixMiss, EvictDirty, AllocateRetry, InsertFrame, LoadRead,
         LoadFail, LoadRegister, LockFrameShared, EnterFrame, LockFrameExclusive, ReadPage,
         WritePage, MarkAsDirty, Release, EnterFile, LockFileExclusive, AppendDisk, AppendFail,
         AppendFrame, UnlockFileExclusive, FlushFinish, FlushLatch, FlushClear, FlushResume
<1>. QED  BY <1>1, <1>2, <1>3, <1>4, <1>5, <1>6

LEMMA OthersOwe ==
    ASSUME IInv, FlushInv, NEW t \in Threads, Step(t), NEW u \in Threads \ {t}
    PROVE  Owes(u)'
<1>1. /\ Owes(u)
      /\ pc'[u] = pc[u] /\ call'[u] = call[u] /\ reply'[u] = reply[u] /\ victim'[u] = victim[u]
      /\ unflushed'[u] \subseteq unflushed[u] /\ unflushed[u] \subseteq Pages
      /\ \A p \in todo[u] : p \in todo'[u] \/ frame'[p] = "absent"
  BY LocalsStep, OwesLess DEF FlushInv, IInv, TypeOK, LocalsKept
<1>2. \A p \in unflushed'[u] :
          /\ frame'[p] # "absent" /\ dirty'[p] /\ FileOf[p] = FileOfCall(u)
          /\ \A w \in Threads : pc'[w] = "flushClear" => victim'[w] # p
  BY <1>1, OwedStays DEF Owes
<1>3. \A p \in unflushed'[u] : p \in todo[u] => p \in todo'[u]
  BY <1>1, <1>2
<1>. QED  BY <1>1, <1>2, <1>3 DEF Owes

LEMMA OwnOwes ==
    ASSUME IInv, FlushInv, NEW t \in Threads, Step(t)
    PROVE  Owes(t)'
<1>1. /\ TypeOK /\ Placed(t) /\ Owes(t)
      /\ pc[t] \in FlushPoints => victim[t] \in Pages
  BY FlushFacts DEF FlushInv
<1>2. CASE Invoke(t)
  <2>1. PICK c \in Calls :
            /\ call'[t] = c /\ pc'[t] \in {"lockFile", "lockFileX"}
            /\ unflushed'[t] = IF c.kind = "flush"
                               THEN {p \in Resident : /\ FileOf[p] = FileOf[c.page]
                                                      /\ dirty[p] /\ data[p] # disk[p]}
                               ELSE {}
            /\ UNCHANGED <<frame, dirty, victim>>
    BY <1>1, <1>2 DEF Invoke, TypeOK
  <2>2. ASSUME NEW p \in unflushed'[t]
        PROVE  /\ frame'[p] # "absent" /\ dirty'[p] /\ FileOf[p] = FileOfCall(t)'
               /\ \A w \in Threads : pc'[w] = "flushClear" => victim'[w] # p
    <3>1. /\ frame[p] # "absent" /\ dirty[p] /\ data[p] # disk[p]
          /\ FileOf[p] = FileOf[c.page]
      BY <2>1 DEF Resident
    <3>2. \A w \in Threads : pc[w] = "flushClear" => victim[w] # p
      BY <3>1 DEF FlushInv, Written
    <3>3. \A w \in Threads : pc'[w] = "flushClear" => pc[w] = "flushClear"
      BY <2>1, LocalsStep DEF LocalsKept
    <3>. QED  BY <2>1, <3>1, <3>2, <3>3
  <2>. QED  BY <2>1, <2>2 DEF Owes
<1>3. CASE ~Invoke(t)
  <2>1. /\ unflushed'[t] \subseteq unflushed[t]
        /\ \A p \in unflushed'[t] :
               /\ p \in Pages /\ p \in unflushed[t]
               /\ frame'[p] # "absent" /\ dirty'[p]
               /\ \A w \in Threads : pc'[w] = "flushClear" => victim'[w] # p
    BY <1>1, <1>3, OwesLess, OwedStays DEF TypeOK
  <2>2. CASE unflushed[t] = {}
    BY <2>1, <2>2 DEF Owes
  <2>3. CASE unflushed[t] # {}
    <3>1. call[t].kind = "flush" /\ ~(pc[t] = "unlockFile" /\ reply[t].status = "ok")
      BY <1>1, <2>3 DEF Owes
    <3>2. CASE LockFile(t)
      BY <1>1, <2>1, <3>1, <3>2 DEF LockFile, Owes, TypeOK
    <3>3. CASE UnlockFile(t)
      BY <1>1, <3>3 DEF UnlockFile, Owes, TypeOK
    <3>4. CASE FlushStart(t)
      <4>1. /\ todo'[t] = {p \in Resident : FileOf[p] = FileOfCall(t)}
            /\ UNCHANGED <<call, unflushed>> /\ pc'[t] = "flushNext"
        BY <1>1, <3>4 DEF FlushStart, TypeOK
      <4>2. unflushed'[t] \subseteq todo'[t]
        BY <1>1, <2>1, <4>1 DEF Owes, Resident
      <4>. QED  BY <1>1, <2>1, <3>1, <4>1, <4>2 DEF Owes
    <3>5. CASE FlushNext(t)
      <4>1. PICK p \in todo[t] :
                /\ todo'[t] = todo[t] \ {p}
                /\ IF dirty[p] THEN victim'[t] = p /\ pc'[t] = "flushLatch" ELSE pc'[t] = "flushNext"
        BY <1>1, <3>5 DEF FlushNext, NeedsFlush, TypeOK
      <4>2. pc[t] = "flushNext" /\ UNCHANGED <<call, unflushed>>
        BY <3>5 DEF FlushNext
      <4>3. ~dirty[p] => p \notin unflushed[t]
        BY <1>1 DEF Owes
      <4>. QED  BY <1>1, <2>1, <3>1, <4>1, <4>2, <4>3 DEF Owes
    <3>6. CASE FlushFinish(t)
      BY <1>1, <2>3, <3>6 DEF FlushFinish, Owes
    <3>7. CASE FlushLatch(t)
      BY <1>1, <2>1, <3>1, <3>7 DEF FlushLatch, Owes, TypeOK
    <3>8. CASE FlushWrite(t)
      <4>1. victim[t] \notin unflushed'[t]
        BY <1>1, <3>8 DEF FlushWrite, Owes, TypeOK
      <4>. QED  BY <1>1, <2>1, <3>1, <3>8, <4>1 DEF FlushWrite, Owes, TypeOK
    <3>9. CASE FlushFail(t)
      BY <1>1, <2>1, <3>1, <3>9 DEF FlushFail, Owes, TypeOK
    <3>10. CASE FlushClear(t)
      BY <1>1, <2>1, <3>1, <3>10 DEF FlushClear, Owes, TypeOK
    <3>11. CASE FlushResume(t)
      BY <1>1, <2>1, <3>1, <3>11 DEF FlushResume, Owes, TypeOK
    <3>12. ~(\/ FixHit(t) \/ FixMiss(t) \/ EvictClean(t) \/ EvictDirty(t) \/ AllocateRetry(t)
             \/ InsertFrame(t) \/ LoadRead(t) \/ LoadFail(t) \/ LoadRegister(t)
             \/ LockFrameShared(t) \/ EnterFrame(t) \/ LockFrameExclusive(t)
             \/ ReadPage(t) \/ WritePage(t) \/ MarkAsDirty(t) \/ Release(t)
             \/ EnterFile(t) \/ LockFileExclusive(t) \/ AppendDisk(t) \/ AppendFail(t)
             \/ AppendFrame(t) \/ UnlockFileExclusive(t) \/ EvictResume(t))
      BY <1>1, <3>1 DEF Placed, FixPoints, AppendPoints, FixHit, FixMiss, EvictClean, EvictDirty,
         AllocateRetry, InsertFrame, LoadRead, LoadFail, LoadRegister, LockFrameShared,
         EnterFrame, LockFrameExclusive, ReadPage, WritePage, MarkAsDirty, Release, EnterFile,
         LockFileExclusive, AppendDisk, AppendFail, AppendFrame, UnlockFileExclusive,
         EvictResume, Evicting
    <3>. QED
      BY <1>3, <3>2, <3>3, <3>4, <3>5, <3>6, <3>7, <3>8, <3>9, <3>10, <3>11, <3>12 DEF Step
  <2>. QED  BY <2>2, <2>3
<1>. QED  BY <1>2, <1>3

LEMMA FlushInvariant == Spec => []FlushInv
<1>1. Init => FlushInv
  BY DEF Init, FlushInv, LoadsClean, Written, Owes
<1>2. IInv /\ FlushInv /\ [Next]_vars => FlushInv'
  <2>1. ASSUME IInv, FlushInv, NEW t \in Threads, Step(t)
        PROVE  FlushInv'
    <3>1. \A u \in Threads : LoadsClean(u)' /\ Written(u)'
      BY <2>1, LoadsCleanStep, WrittenStep
    <3>2. \A u \in Threads : Owes(u)'
      BY <2>1, OthersOwe, OwnOwes
    <3>. QED  BY <3>1, <3>2 DEF FlushInv
  <2>2. ASSUME FlushInv, UNCHANGED vars
        PROVE  FlushInv'
    BY <2>2 DEF vars, FlushInv, LoadsClean, Written, Owes
  <2>. QED  BY <2>1, <2>2 DEF Next, Finished
<1>. QED  BY <1>1, <1>2, Invariance, PTL DEF Spec

\* A Flush that answers without an error has left no page of its file unwritten that was
\* newer than the file when it was called: what it found clean, someone else had written.
THEOREM FlushesAreComplete == Spec => []FlushCoversEarlierWrites
<1>1. FlushInv => FlushCoversEarlierWrites
  BY DEF FlushInv, Owes, FlushCoversEarlierWrites
<1>. QED  BY <1>1, FlushInvariant, PTL
===============================================================================
