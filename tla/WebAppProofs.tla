---------------------------- MODULE WebAppProofs ----------------------------
(***************************************************************************)
(* For every browser, every number of connections, every capacity of the   *)
(* history and all inputs: one page has one database, and the inputs come  *)
(* back.                                                                   *)
(*                                                                         *)
(* The first rests on where the provider stands: the worker's last word is *)
(* the last message that is under way, and it is taken by the step that    *)
(* settles the setup or leaves only open to be awaited.                    *)
(*                                                                         *)
(* The second is a matter of arithmetic.  The key of an input is a counter *)
(* modulo the capacity.  Leaving a page takes the counter back to what is  *)
(* committed, and never takes `typed' back: for an input i with counter n, *)
(* no later counter m of an input j is below n or further from n than j is *)
(* from i.  Hence a transaction that overwrites i was typed Capacity       *)
(* inputs later.                                                           *)
(***************************************************************************)
EXTENDS WebApp, FiniteSetTheorems, SequenceTheorems, TLAPS

USE DEF vars, webVars, setupVars, workerVars, dialVars, shellVars, renderVars, historyVars,
        storeVars, pageVars

(***************************************************************************)
(* One database                                                            *)
(***************************************************************************)
Resolvables ==
  [status : {"NONE", "RUNNING", "COMPLETED", "FAILED"}, value : {Null, "db"},
   error : {Null, "error", "invalid bundle", "no worker"}, progress : {Null, "progress"}]

\* Where the provider stands, and what has settled the setup.
SetupPlaced ==
  /\ setup \in Resolvables
  /\ stage \in {"none", "bundle", "instantiate", "open", "done"}
  /\ stage # "done" => setup.value = Null /\ setup.error = Null
  /\ stage = "done" => /\ setup.value = Null \/ setup.error = Null
                       /\ setup.status # "RUNNING"

\* Whatever is not progress is the worker's last word.
Progress(q) == \A i \in 1 .. Len(q) : q[i] = "progress"
LastWord(q) == \A i \in 1 .. Len(q) : q[i] # "progress" => i = Len(q)

\* What the worker has said, and may still say, at each stage.
WorkerPlaced ==
  /\ "at" \in DOMAIN load
  /\ workers \in {0, 1}
  /\ stage \in {"none", "bundle"} => workers = 0 /\ load.at = "none" /\ replies = <<>>
  /\ stage \in {"open", "done"} => load.at # "fetching" /\ replies = <<>>
  /\ replies \in Seq({"progress", "ok", "error"})
  /\ LastWord(replies)
  /\ load.at = "fetching" => Progress(replies)

SetupInv == SetupPlaced /\ WorkerPlaced

LEMMA ResolvableSteps ==
  ASSUME NEW r \in Resolvables, NEW p \in {Null, "progress"},
         NEW e \in {"error", "invalid bundle", "no worker"}
  PROVE  /\ CompleteWith(r, "db") \in Resolvables /\ CompleteWith(r, "db").error = r.error
         /\ CompleteWith(r, "db").status = "COMPLETED"
         /\ FailWith(r, e) \in Resolvables /\ FailWith(r, e).value = r.value
         /\ FailWith(r, e).status = "FAILED"
         /\ UpdateRunning(r, p) \in Resolvables
         /\ UpdateRunning(r, p).value = r.value /\ UpdateRunning(r, p).error = r.error
BY DEF Resolvables, CompleteWith, FailWith, UpdateRunning

LEMMA TailProperties ==
  ASSUME NEW S, NEW q \in Seq(S), q # <<>>
  PROVE  /\ Len(q) \in Nat \ {0} /\ Head(q) = q[1] /\ q[1] \in S
         /\ Tail(q) \in Seq(S) /\ Len(Tail(q)) = Len(q) - 1
         /\ \A i \in 1 .. Len(q) - 1 : Tail(q)[i] = q[i + 1]
         /\ Len(q) = 1 => Tail(q) = <<>>
<1>1. Len(q) \in Nat \ {0}
  BY EmptySeq
<1>2. /\ Tail(q) \in Seq(S) /\ Len(Tail(q)) = Len(q) - 1 /\ Head(q) = q[1]
      /\ \A i \in 1 .. Len(q) - 1 : Tail(q)[i] = q[i + 1]
  BY <1>1
<1>3. Len(q) = 1 => Tail(q) = <<>>
  <2>1. \A s \in Seq(S) : Len(s) = 0 => s = <<>>
    BY EmptySeq
  <2>2. Len(q) = 1 => Len(Tail(q)) = 0
    BY <1>2
  <2>. QED  BY <1>2, <2>1, <2>2, Zenon
<1>. QED  BY <1>1, <1>2, <1>3, ElementOfSeq

\* The last word is taken, or remains the last.
LEMMA LastWordTaken ==
  ASSUME NEW S, NEW q \in Seq(S), q # <<>>, LastWord(q)
  PROVE  /\ Head(q) # "progress" => Tail(q) = <<>> /\ ~Progress(q)
         /\ LastWord(Tail(q))
         /\ Progress(q) => Progress(Tail(q))
<1>1. Len(q) \in Nat \ {0}
  BY TailProperties
<1>2. 1 \in 1 .. Len(q)
  BY <1>1
<1>3. Head(q) # "progress" => Len(q) = 1 /\ ~Progress(q)
  BY <1>1, <1>2, TailProperties DEF LastWord, Progress
<1>4. ASSUME NEW i \in 1 .. Len(Tail(q))
      PROVE  /\ i + 1 \in 1 .. Len(q) /\ Tail(q)[i] = q[i + 1]
             /\ i + 1 = Len(q) => i = Len(Tail(q))
  BY <1>1, TailProperties
<1>. QED  BY <1>3, <1>4, TailProperties DEF LastWord, Progress

LEMMA LastWordSaid ==
  ASSUME NEW S, NEW q \in Seq(S), Progress(q), NEW word \in S
  PROVE  /\ LastWord(q) /\ LastWord(Append(q, word))
         /\ word = "progress" => Progress(Append(q, word))
BY DEF LastWord, Progress

LEMMA SetupInit == Init => SetupInv
BY SMT DEF Init, SetupInv, SetupPlaced, WorkerPlaced, LastWord, Progress, Resolvables, NewResolvable, NewLoad

LEMMA SetupStep == SetupInv /\ [Next]_vars => SetupInv'
<1> SUFFICES ASSUME SetupInv, [Next]_vars PROVE SetupInv'
  OBVIOUS
<1> USE DEF SetupInv, SetupPlaced, WorkerPlaced
<1>1. CASE StartWorker
  <2>1. CASE setup' = FailWith(setup, "invalid bundle") /\ stage' = "done"
             /\ UNCHANGED <<workers, load, replies>>
    <3>1. setup' \in Resolvables /\ setup'.value = setup.value /\ setup'.status = "FAILED"
      BY ResolvableSteps, <2>1
    <3>2. stage = "bundle"
      BY <1>1 DEF StartWorker
    <3>. QED  BY <2>1, <3>1, <3>2
  <2>2. CASE setup' = FailWith(setup, "no worker") /\ stage' = "done"
             /\ UNCHANGED <<workers, load, replies>>
    <3>1. setup' \in Resolvables /\ setup'.value = setup.value /\ setup'.status = "FAILED"
      BY ResolvableSteps, <2>2
    <3>2. stage = "bundle"
      BY <1>1 DEF StartWorker
    <3>. QED  BY <2>2, <3>1, <3>2
  <2>3. CASE /\ workers' = workers + 1
             /\ load' = [NewLoad EXCEPT !.build = BundleOf(page), !.at = "fetching"]
             /\ stage' = "instantiate" /\ UNCHANGED <<setup, replies>>
    <3>1. "at" \in DOMAIN load' /\ load'.at = "fetching"
      BY <2>3, Zenon DEF NewLoad
    <3>2. stage = "bundle"
      BY <1>1 DEF StartWorker
    <3>3. Progress(replies') /\ workers' = 1
      BY <2>3, <3>2 DEF Progress
    <3>. QED  BY <2>3, <3>1, <3>2, <3>3
  <2>. QED  BY <1>1, <2>1, <2>2, <2>3, Zenon DEF StartWorker
<1>2. CASE Chunk
  <2>1. /\ load.at = "fetching" /\ "at" \in DOMAIN load' /\ load'.at = load.at
        /\ replies' = replies \/ replies' = Append(replies, "progress")
        /\ UNCHANGED <<setup, stage, workers>>
    BY <1>2 DEF Chunk
  <2>2. Progress(replies) /\ replies \in Seq({"progress", "ok", "error"})
    BY <2>1
  <2>3. LastWord(replies') /\ Progress(replies') /\ replies' \in Seq({"progress", "ok", "error"})
    <3>1. CASE replies' = replies
      BY <2>2, <3>1, LastWordSaid
    <3>2. CASE replies' = Append(replies, "progress")
      BY <2>2, <3>2, LastWordSaid
    <3>. QED  BY <2>1, <3>1, <3>2
  <2>. QED  BY <2>1, <2>3
<1>3. CASE Instantiated
  <2>1. Outcome(page, load.build) \in {"error", "ok", "hung"}
    BY DEF Outcome
  <2>2. /\ load.at = "fetching" /\ "at" \in DOMAIN load' /\ load'.at # "fetching"
        /\ \/ replies' = replies
           \/ replies' = Append(replies, "ok") \/ replies' = Append(replies, "error")
        /\ UNCHANGED <<setup, stage, workers>>
    BY <1>3, <2>1 DEF Instantiated
  <2>3. Progress(replies) /\ replies \in Seq({"progress", "ok", "error"})
    BY <2>2
  <2>4. LastWord(replies') /\ replies' \in Seq({"progress", "ok", "error"})
    <3>1. CASE replies' = replies
      BY <2>3, <3>1, LastWordSaid
    <3>2. CASE replies' = Append(replies, "ok")
      BY <2>3, <3>2, LastWordSaid
    <3>3. CASE replies' = Append(replies, "error")
      BY <2>3, <3>3, LastWordSaid
    <3>. QED  BY <2>2, <3>1, <3>2, <3>3
  <2>. QED  BY <2>2, <2>4
<1>4. CASE OnReply
  <2>1. /\ replies # <<>> /\ replies' = Tail(replies) /\ UNCHANGED <<workers, load>>
        /\ \/ Head(replies) = "progress" /\ setup' = UpdateRunning(setup, "progress")
              /\ UNCHANGED stage
           \/ /\ Head(replies) = "ok" /\ stage' = "done" /\ setup' = CompleteWith(setup, "db")
           \/ /\ Head(replies) = "ok" /\ stage' = "open" /\ UNCHANGED setup
           \/ /\ Head(replies) = "error" /\ stage' = "done" /\ setup' = FailWith(setup, "error")
    BY <1>4 DEF OnReply
  <2>2. stage = "instantiate"
    BY <2>1
  <2>3. /\ replies' \in Seq({"progress", "ok", "error"})
        /\ LastWord(replies') /\ (Progress(replies) => Progress(replies'))
    BY <2>1, TailProperties, LastWordTaken
  <2>4. Head(replies) # "progress" => replies' = <<>> /\ load.at # "fetching"
    BY <2>1, LastWordTaken
  <2>5. CASE Head(replies) = "progress" /\ setup' = UpdateRunning(setup, "progress")
             /\ UNCHANGED stage
    <3>1. setup' \in Resolvables /\ setup'.value = setup.value /\ setup'.error = setup.error
      BY ResolvableSteps, <2>5
    <3>2. SetupPlaced'
      BY <2>2, <2>5, <3>1
    <3>3. WorkerPlaced'
      BY <2>1, <2>2, <2>3, <2>5
    <3>. QED  BY <3>2, <3>3
  <2>6. CASE Head(replies) = "ok" /\ stage' = "open" /\ UNCHANGED setup
    <3>1. replies' = <<>> /\ load'.at # "fetching" /\ UNCHANGED <<workers, load>>
      BY <2>1, <2>4, <2>6
    <3>2. SetupPlaced'
      BY <2>2, <2>6
    <3>3. WorkerPlaced'
      BY <2>3, <2>6, <3>1
    <3>. QED  BY <3>2, <3>3
  <2>7. CASE /\ Head(replies) # "progress" /\ stage' = "done"
             /\ \/ setup' = CompleteWith(setup, "db")
                \/ setup' = FailWith(setup, "error")
    <3>1. /\ setup' \in Resolvables /\ setup'.status \in {"COMPLETED", "FAILED"}
          /\ setup'.value = setup.value \/ setup'.error = setup.error
      <4>1. CASE setup' = CompleteWith(setup, "db")
        BY ResolvableSteps, <4>1
      <4>2. CASE setup' = FailWith(setup, "error")
        BY ResolvableSteps, <4>2
      <4>. QED  BY <2>7, <4>1, <4>2
    <3>2. SetupPlaced'
      BY <2>2, <2>7, <3>1
    <3>3. WorkerPlaced'
      <4>1. replies' = <<>> /\ load'.at # "fetching" /\ UNCHANGED <<workers, load>>
        BY <2>1, <2>4, <2>7
      <4>. QED  BY <2>3, <2>7, <4>1
    <3>. QED  BY <3>2, <3>3
  <2>. QED  BY <2>1, <2>5, <2>6, <2>7
<1>5. CASE Open
  <2>1. /\ setup' \in Resolvables /\ setup'.status \in {"COMPLETED", "FAILED"}
        /\ setup'.value = setup.value \/ setup'.error = setup.error
    <3>1. CASE setup' = CompleteWith(setup, "db")
      BY ResolvableSteps, <3>1
    <3>2. CASE setup' = FailWith(setup, "error")
      BY ResolvableSteps, <3>2
    <3>. QED  BY <1>5, <3>1, <3>2 DEF Open
  <2>2. stage = "open" /\ stage' = "done" /\ UNCHANGED <<workers, load, replies>>
    BY <1>5 DEF Open
  <2>. QED  BY <2>1, <2>2
<1>6. ASSUME UNCHANGED <<setup, workers, load, replies>>,
             UNCHANGED stage \/ (stage = "none" /\ stage' = "bundle")
      PROVE  SetupInv'
  BY <1>6
<1>7. CASE \E id \in Ids : Dial(id)
  BY <1>6, <1>7 DEF Dial, ResolveDB
<1>8. CASE Mount
  BY <1>6, <1>8 DEF Mount, ResolveDB
<1>9. CASE Reload
  <2>1. /\ setup' = NewResolvable /\ stage' = "none" /\ workers' = 0 /\ load' = NewLoad
        /\ replies' = <<>>
    BY <1>9 DEF Reload, NewPage
  <2>2. load'.at = "none" /\ "at" \in DOMAIN load'
    BY <2>1, Zenon DEF NewLoad
  <2>3. setup' \in Resolvables /\ setup'.value = Null /\ setup'.error = Null
    BY <2>1 DEF NewResolvable, Resolvables
  <2>4. LastWord(replies') /\ Progress(replies')
    BY <2>1 DEF LastWord, Progress
  <2>. QED  BY <2>1, <2>2, <2>3, <2>4
<1>10. CASE \/ \E id \in Ids : Connected(id)
            \/ FontsLoaded \/ ResolveDatabase \/ Render \/ OpenShellHistory \/ LoadShellHistory
            \/ Store \/ Input \/ UNCHANGED vars
  BY <1>6, <1>10 DEF Connected, FontsLoaded, ResolveDatabase, Render, OpenShellHistory,
                     LoadShellHistory, Store, Input
<1>. QED
  BY <1>1, <1>2, <1>3, <1>4, <1>5, <1>7, <1>8, <1>9, <1>10 DEF Next, Work, User

(***************************************************************************)
(* One page has one database, for every browser and every build, whatever  *)
(* components ask for it and whenever (DuckDBProvider's inFlight,          *)
(* database_provider.tsx:38).                                              *)
(***************************************************************************)
THEOREM PagesHaveOneDatabase == Spec => []OneDatabase
<1>1. SetupInv => OneDatabase
  <2>1. SetupPlaced => /\ setup.value = Null \/ setup.error = Null
                       /\ Settled(setup) => setup.status # "RUNNING" /\ stage = "done"
    BY DEF SetupPlaced, Settled
  <2>. QED  BY <2>1 DEF SetupInv, WorkerPlaced, OneDatabase
<1>. QED  BY SetupInit, SetupStep, <1>1, PTL DEF Spec
(***************************************************************************)
(* The inputs come back                                                    *)
(***************************************************************************)
\* Finitely many keys can be put in order: each by how many are not above it.
LEMMA KeysCanBeOrdered ==
  ASSUME NEW m \in Int, NEW K \in SUBSET (0 .. m)
  PROVE  /\ Cardinality(K) \in Nat
         /\ KeysInOrder(K) \in [1 .. Cardinality(K) -> K] /\ InOrder(KeysInOrder(K))
<1> DEFINE Below(k) == {x \in K : x <= k}
           rank == [k \in K |-> Cardinality(Below(k))]
           n == Cardinality(K)
<1>1. IsFiniteSet(K) /\ n \in Nat
  <2>1. IsFiniteSet(0 .. m)
    BY FS_Interval
  <2>2. IsFiniteSet(K)
    BY <2>1, FS_Subset
  <2>. QED  BY <2>2, FS_CardinalityType
<1>i. \A k \in K : k \in Int
  OBVIOUS
<1>2. ASSUME NEW k \in K
      PROVE  IsFiniteSet(Below(k)) /\ rank[k] \in 1 .. n
  <2>1. IsFiniteSet(Below(k)) /\ Cardinality(Below(k)) <= n
    BY <1>1, FS_Subset
  <2>2. k \in Below(k) /\ Below(k) # {}
    OBVIOUS
  <2>3. Cardinality(Below(k)) \in Nat /\ Cardinality(Below(k)) # 0
    BY <2>1, <2>2, FS_CardinalityType, FS_EmptySet
  <2>. QED  BY <1>1, <2>1, <2>3
<1>3. ASSUME NEW k \in K, NEW l \in K, k < l
      PROVE  rank[k] < rank[l]
  <2>1. Below(k) \subseteq Below(l) /\ l \in Below(l) /\ l \notin Below(k)
    <3>1. k \in Int /\ l \in Int /\ ~(l <= k)
      BY <1>3, <1>i
    <3>2. ASSUME NEW x \in K, x <= k PROVE x <= l
      BY <1>3, <1>i, <3>1, <3>2
    <3>3. l \in Below(l) /\ l \notin Below(k)
      BY <3>1
    <3>4. Below(k) \subseteq Below(l)
      BY <3>2, Zenon
    <3>. QED  BY <3>3, <3>4
  <2>2. Cardinality(Below(k)) <= Cardinality(Below(l)) /\ Cardinality(Below(k)) # Cardinality(Below(l))
    BY <1>2, <2>1, FS_Subset
  <2>. QED  BY <1>2, <2>2
<1>4. rank \in Surjection(K, 1 .. n)
  <2> HIDE DEF rank
  <2>1. rank \in [K -> 1 .. n]
    BY <1>2 DEF rank
  <2>2. rank \in Injection(K, 1 .. n)
    BY <1>3, <2>1 DEF Injection, IsInjective
  <2>3. IsFiniteSet(1 .. n) /\ Cardinality(1 .. n) = n
    BY <1>1, FS_Interval
  <2>. QED  BY <2>2, <2>3, FS_Injection
<1> HIDE DEF rank
<1>5. \A i \in 1 .. n : \E k \in K : rank[k] = i
  BY <1>4 DEF Surjection
<1> DEFINE s == [i \in 1 .. n |-> CHOOSE k \in K : rank[k] = i]
<1>6. \A i \in 1 .. n : s[i] \in K /\ rank[s[i]] = i
  BY <1>5
<1>7. s \in [1 .. n -> K] /\ InOrder(s)
  <2>1. s \in [1 .. n -> K] /\ DOMAIN s = 1 .. n
    BY <1>6
  <2> HIDE DEF s
  <2>2. \A i, j \in 1 .. n : i < j => s[i] < s[j]
    <3>1. ASSUME NEW i \in 1 .. n, NEW j \in 1 .. n, i < j PROVE s[i] < s[j]
      <4>1. /\ s[i] \in K /\ s[j] \in K /\ s[i] \in Int /\ s[j] \in Int
            /\ rank[s[i]] = i /\ rank[s[j]] = j
        BY <1>6, <1>i, Zenon
      <4>. i \in Int /\ j \in Int
        BY <1>1
      <4>2. ~ (s[j] < s[i])
        <5>1. s[j] < s[i] => j < i
          BY <1>3, <4>1
        <5>. QED  BY <3>1, <4>1, <5>1
      <4>3. s[i] # s[j]
        BY <3>1, <4>1
      <4>. QED  BY <4>1, <4>2, <4>3
    <3>. QED  BY <3>1
  <2>. QED  BY <2>1, <2>2 DEF InOrder
<1>. QED  BY <1>1, <1>7 DEF KeysInOrder

Transactions ==
  [key : 0 .. Capacity - 1, input : Nat, info : [next : Nat, count : Nat]]

HistoryTyped ==
  /\ DOMAIN entries \subseteq 0 .. Capacity - 1
  /\ \A k \in DOMAIN entries : entries[k] \in Nat
  /\ info \in [next : Nat, count : Nat] /\ counters \in [next : Nat, count : Nat]
  /\ idb \in BOOLEAN /\ typed \in Nat /\ committed \subseteq Nat
  /\ txs \in Seq(Transactions)

\* The transactions under way are those of the last inputs of this page, with
\* the last counters; the counter of the store is not ahead of them.
Queued ==
  /\ ~idb => txs = <<>> /\ counters = NoInfo
  /\ idb => info.next <= counters.next - Len(txs)
  /\ Len(txs) <= typed
  /\ \A j \in 1 .. Len(txs) : /\ txs[j].input = typed - Len(txs) + j
                              /\ txs[j].info.next = counters.next - Len(txs) + j
                              /\ txs[j].key = (txs[j].info.next - 1) % Capacity

\* Input i is stored under the counter n, which is as close to the counters of
\* the store and of the page as i is to what has been typed.
StoredAt(i, n) ==
  /\ n % Capacity \in DOMAIN entries /\ entries[n % Capacity] = i
  /\ n < info.next /\ info.next - n <= typed + 1 - i
  /\ idb => counters.next - n <= typed + 1 - i
Kept == \A i \in committed : typed - i < Capacity => \E n \in Nat : StoredAt(i, n)

\* Until the ring has come round, its entries are in order.
Sorted ==
  /\ \A k \in DOMAIN entries : entries[k] <= typed - Len(txs)
  /\ info.next <= Capacity => InOrder(entries) /\ \A k \in DOMAIN entries : k < info.next

Linked == link \in Seq({Extraswaps(Texts[j]) : j \in DOMAIN Texts}) /\ LinkIsExact

HistoryInv == HistoryTyped /\ Queued /\ Kept /\ Sorted /\ Linked

LEMMA KeysDiffer ==
  ASSUME NEW c \in Nat \ {0}, NEW a \in Nat, NEW b \in Nat, a < b, b - a < c
  PROVE  (a % c) # (b % c)
<1> DEFINE p == a \div c
           q == b \div c
           r == a % c
<1>1. SUFFICES ASSUME r = (b % c) PROVE FALSE
  OBVIOUS
<1>2. a = (c * p) + r /\ b = (c * q) + r /\ p \in Int /\ q \in Int /\ r \in Int
  BY <1>1
<1> HIDE DEF p, q, r
<1>3. b - a = c * (q - p)
  BY <1>2
<1>4. \A x \in Int : x >= 1 => c * x >= c
  OBVIOUS
<1>5. \A x \in Int : x <= 0 => c * x <= 0
  OBVIOUS
<1>. QED  BY <1>2, <1>3, <1>4, <1>5

LEMMA KeyOfSmall ==
  ASSUME NEW c \in Nat \ {0}, NEW a \in Nat
  PROVE  a % c \in 0 .. c - 1 /\ (a < c => a % c = a)
OBVIOUS

LEMMA SwapsBack ==
  ASSUME NEW t \in Seq(STRING)
  PROVE  Extraswaps(Extraswaps(t)) = t
<1> DEFINE u == Extraswaps(t)
<1>1. DOMAIN u = DOMAIN t /\ \A i \in DOMAIN t : u[i] = CASE t[i] = " " -> "-" [] t[i] = "-" -> " "
       [] t[i] = ";" -> "~" [] t[i] = "~" -> ";" [] OTHER -> t[i]
  BY DEF Extraswaps
<1> HIDE DEF u
<1>2. Extraswaps(u) = [i \in DOMAIN t |-> t[i]]
  BY <1>1 DEF Extraswaps
<1>3. t = [i \in DOMAIN t |-> t[i]]
  OBVIOUS
<1>. QED  BY <1>2, <1>3 DEF u

LEMMA HistoryInitially == HistoryInit => HistoryInv
<1> SUFFICES ASSUME HistoryInit PROVE HistoryInv
  OBVIOUS
<1> USE HistoryAssumption DEF HistoryInit
<1>1. HistoryTyped
  <2>1. DOMAIN entries = {} /\ txs \in Seq(Transactions)
    OBVIOUS
  <2>. QED  BY <2>1 DEF HistoryTyped, NoInfo
<1>2. Queued
  BY DEF Queued
<1>3. Kept
  BY DEF Kept
<1>4. Sorted
  BY DEF Sorted, InOrder
<1>5. Linked
  BY DEF Linked, LinkIsExact
<1>. QED  BY <1>1, <1>2, <1>3, <1>4, <1>5 DEF HistoryInv

\* The first transaction is done or aborted.
LEMMA QueueShrinks ==
  ASSUME HistoryTyped, Queued, txs # <<>>, txs' = Tail(txs),
         UNCHANGED <<idb, counters, typed>>
  PROVE  /\ idb /\ Head(txs) = txs[1] /\ txs[1] \in Transactions
         /\ txs' \in Seq(Transactions) /\ Len(txs) \in Nat \ {0} /\ Len(txs') = Len(txs) - 1
         /\ txs[1].input = typed - Len(txs) + 1
         /\ txs[1].info.next = counters.next - Len(txs) + 1
         /\ txs[1].key = (counters.next - Len(txs)) % Capacity
         /\ Len(txs') <= typed
         /\ \A j \in 1 .. Len(txs') : /\ txs'[j].input = typed - Len(txs') + j
                                      /\ txs'[j].info.next = counters.next - Len(txs') + j
                                      /\ txs'[j].key = (txs'[j].info.next - 1) % Capacity
<1>1. /\ Len(txs) \in Nat \ {0} /\ Head(txs) = txs[1] /\ txs[1] \in Transactions
      /\ txs' \in Seq(Transactions) /\ Len(txs') = Len(txs) - 1
      /\ \A j \in 1 .. Len(txs) - 1 : txs'[j] = txs[j + 1]
  BY TailProperties DEF HistoryTyped
<1>2. 1 \in 1 .. Len(txs) /\ typed \in Nat /\ counters.next \in Nat
  BY <1>1 DEF HistoryTyped
<1>3. /\ txs[1].input = typed - Len(txs) + 1
      /\ txs[1].info.next = counters.next - Len(txs) + 1
      /\ txs[1].key = (txs[1].info.next - 1) % Capacity
  BY <1>2 DEF Queued
<1>4. txs[1].info.next - 1 = counters.next - Len(txs)
  BY <1>1, <1>2, <1>3
<1>5. ASSUME NEW j \in 1 .. Len(txs')
      PROVE  /\ txs'[j].input = typed - Len(txs') + j
             /\ txs'[j].info.next = counters.next - Len(txs') + j
             /\ txs'[j].key = (txs'[j].info.next - 1) % Capacity
  <2>1. j + 1 \in 1 .. Len(txs) /\ txs'[j] = txs[j + 1]
    BY <1>1
  <2>2. /\ txs'[j].input = typed - Len(txs) + (j + 1)
        /\ txs'[j].info.next = counters.next - Len(txs) + (j + 1)
        /\ txs'[j].key = (txs'[j].info.next - 1) % Capacity
    BY <2>1 DEF Queued
  <2>. QED  BY <1>1, <1>2, <2>2
<1>6. idb /\ Len(txs') <= typed
  BY <1>1, <1>2 DEF Queued, HistoryTyped
<1>. QED  BY <1>1, <1>3, <1>4, <1>5, <1>6

LEMMA AbortKeeps ==
  ASSUME HistoryInv, Abort
  PROVE  HistoryInv'
<1> USE DEF HistoryInv
<1>1. /\ txs # <<>> /\ txs' = Tail(txs)
      /\ UNCHANGED <<storeVars, idb, counters, loaded, typed, committed, link, replayed>>
  BY DEF Abort
<1>2. HistoryTyped'
  BY <1>1, QueueShrinks DEF HistoryTyped
<1>3. Queued'
  <2>1. info.next \in Nat /\ counters.next \in Nat
    BY DEF HistoryTyped
  <2>. QED  BY <1>1, <2>1, QueueShrinks DEF Queued
<1>4. Kept'
  BY <1>1 DEF Kept, StoredAt
<1>5. Sorted'
  <2>1. typed \in Nat /\ \A k \in DOMAIN entries : entries[k] \in Nat
    BY DEF HistoryTyped
  <2>. QED  BY <1>1, <2>1, QueueShrinks DEF Sorted, InOrder
<1>6. Linked'
  BY <1>1 DEF Linked, LinkIsExact
<1>. QED  BY <1>2, <1>3, <1>4, <1>5, <1>6

LEMMA CommitKeeps ==
  ASSUME HistoryInv, Commit
  PROVE  HistoryInv'
<1> USE DEF HistoryInv
<1>1. /\ txs # <<>> /\ txs' = Tail(txs)
      /\ UNCHANGED <<idb, counters, loaded, typed, link, replayed>>
  BY DEF Commit
<1>q. /\ idb /\ Len(txs) \in Nat \ {0} /\ Len(txs) <= typed /\ Len(txs') = Len(txs) - 1
      /\ Capacity \in Nat \ {0} /\ typed \in Nat /\ info.next \in Nat /\ counters.next \in Nat
      /\ info.next <= counters.next - Len(txs)
  <2>1. /\ idb /\ Len(txs) \in Nat \ {0} /\ Len(txs') = Len(txs) - 1
    BY <1>1, QueueShrinks
  <2>2. Len(txs) <= typed /\ info.next <= counters.next - Len(txs)
    BY <2>1 DEF Queued
  <2>. QED  BY <2>1, <2>2, HistoryAssumption DEF HistoryTyped
<1>m. PICK m \in Nat : m = counters.next - Len(txs)
  BY <1>q
<1>t. PICK tx \in Transactions : tx = txs[1]
  BY <1>1, QueueShrinks
<1>2. /\ entries' = [k \in DOMAIN entries \cup {tx.key} |-> IF k = tx.key THEN tx.input ELSE entries[k]]
      /\ info' = tx.info /\ committed' = committed \cup {tx.input}
  BY <1>1, <1>t, QueueShrinks DEF Commit
<1>3. info.next <= m /\ m = counters.next - Len(txs)
  BY <1>q, <1>m
<1>4. /\ tx.input = typed - Len(txs) + 1 /\ tx.input \in Nat
      /\ info'.next = m + 1 /\ tx.key \in 0 .. Capacity - 1
      /\ info' \in [next : Nat, count : Nat]
  <2>1. /\ tx.input = typed - Len(txs) + 1
        /\ tx.info.next = counters.next - Len(txs) + 1
    BY <1>1, <1>t, QueueShrinks
  <2>2. tx.input \in Nat /\ tx.key \in 0 .. Capacity - 1 /\ tx.info \in [next : Nat, count : Nat]
    BY DEF Transactions
  <2>. QED  BY <1>2, <1>3, <1>q, <2>1, <2>2
<1>k. tx.key = (m % Capacity)
  BY <1>1, <1>m, <1>t, QueueShrinks
<1>5. DOMAIN entries' = DOMAIN entries \cup {tx.key}
      /\ \A k \in DOMAIN entries' : entries'[k] = IF k = tx.key THEN tx.input ELSE entries[k]
  BY <1>2
<1>6. HistoryTyped'
  BY <1>1, <1>2, <1>4, <1>5, QueueShrinks DEF HistoryTyped
<1>7. Queued'
  <2>1. info'.next <= counters'.next - Len(txs') /\ idb'
    BY <1>1, <1>3, <1>4, <1>q
  <2>. QED  BY <1>1, <2>1, QueueShrinks DEF Queued
<1>8. Kept'
  <2>1. ASSUME NEW i \in committed, typed - i < Capacity
        PROVE  \E n \in Nat : StoredAt(i, n)'
    <3>1. PICK n \in Nat : StoredAt(i, n)
      BY <2>1 DEF Kept
    <3>2. i \in Nat /\ n < m /\ counters.next - n <= typed + 1 - i
      <4>1. i \in Nat /\ n < info.next /\ counters.next - n <= typed + 1 - i
        BY <1>q, <3>1 DEF StoredAt, HistoryTyped
      <4>. QED  BY <1>q, <1>3, <4>1
    <3>3. m - n < Capacity
      BY <1>3, <1>q, <2>1, <3>2
    <3>4. (n % Capacity) # (m % Capacity)
      BY <1>3, <1>q, <3>2, <3>3, KeysDiffer
    <3>5. n % Capacity \in DOMAIN entries' /\ entries'[n % Capacity] = i
      BY <1>k, <1>4, <1>5, <3>1, <3>4 DEF StoredAt
    <3>6. n < info'.next /\ info'.next - n <= typed + 1 - i
      <4>1. m + 1 - n <= typed + 1 - i /\ n < m + 1
        BY <1>3, <1>q, <3>2
      <4>. QED  BY <1>4, <4>1
    <3>. QED  BY <1>1, <3>2, <3>5, <3>6 DEF StoredAt
  <2>2. StoredAt(tx.input, m)'
    <3>1. m % Capacity \in DOMAIN entries' /\ entries'[m % Capacity] = tx.input
      BY <1>k, <1>5
    <3>2. m < info'.next /\ info'.next - m <= typed + 1 - tx.input
          /\ counters.next - m <= typed + 1 - tx.input
      <4>1. \A x, y \in Int : x = y - Len(txs) + 1 => y + 1 - x = Len(txs)
        BY <1>q
      <4>2. typed + 1 - tx.input = Len(txs)
        BY <1>q, <1>4, <4>1
      <4>3. counters.next - m = Len(txs) /\ m + 1 - m = 1 /\ m < m + 1
        BY <1>m, <1>3, <1>q
      <4>. QED  BY <1>q, <1>4, <4>2, <4>3
    <3>3. StoredAt(tx.input, m)' <=>
            /\ m % Capacity \in DOMAIN entries' /\ entries'[m % Capacity] = tx.input
            /\ m < info'.next /\ info'.next - m <= typed' + 1 - tx.input
            /\ idb' => counters'.next - m <= typed' + 1 - tx.input
      BY <1>1 DEF StoredAt
    <3>. QED  BY <1>1, <3>1, <3>2, <3>3
  <2>. QED  BY <1>1, <1>2, <1>3, <2>1, <2>2 DEF Kept
<1>9. Sorted'
  <2>1. \A k \in DOMAIN entries : entries[k] \in Nat /\ entries[k] <= typed - Len(txs) /\ k \in Nat
    BY DEF Sorted, HistoryTyped
  <2>2. \A k \in DOMAIN entries' : entries'[k] <= typed' - Len(txs')
    BY <1>1, <1>3, <1>q, <1>4, <1>5, <2>1
  <2>3. ASSUME info'.next <= Capacity
        PROVE  InOrder(entries') /\ \A k \in DOMAIN entries' : k < info'.next
    <3>1. info.next <= Capacity /\ m < Capacity
      BY <1>3, <1>q, <1>4, <2>3
    <3>2. tx.key = m
      BY <1>k, <1>3, <1>q, <3>1, KeyOfSmall
    <3>3. InOrder(entries) /\ \A k \in DOMAIN entries : k < m
      BY <1>3, <1>q, <2>1, <3>1 DEF Sorted
    <3>4. InOrder(entries')
      BY <1>3, <1>q, <1>4, <1>5, <2>1, <3>2, <3>3 DEF InOrder
    <3>5. \A k \in DOMAIN entries' : k < info'.next
      BY <1>3, <1>q, <1>4, <1>5, <2>1, <3>2, <3>3
    <3>. QED  BY <3>4, <3>5
  <2>. QED  BY <2>2, <2>3 DEF Sorted
<1>10. Linked'
  BY <1>1 DEF Linked, LinkIsExact
<1>. QED  BY <1>6, <1>7, <1>8, <1>9, <1>10

LEMMA PushKeeps ==
  ASSUME HistoryInv, PushInputToHistory
  PROVE  HistoryInv' /\ UNCHANGED <<storeVars, idb, loaded>>
<1> USE DEF HistoryInv
<1>1. /\ typed < Len(Texts) /\ link' = Append(link, Extraswaps(Texts[typed + 1])) /\ Push
      /\ UNCHANGED <<storeVars, idb, loaded, committed, replayed>>
  BY DEF PushInputToHistory
<1>t. /\ typed \in Nat /\ counters.next \in Nat /\ counters.count \in Nat /\ info.next \in Nat
      /\ Capacity \in Nat \ {0} /\ Len(txs) \in Nat /\ \A i \in committed : i \in Nat
      /\ \A k \in DOMAIN entries : entries[k] \in Nat
  BY HistoryAssumption DEF HistoryTyped
<1>2. Linked'
  <2>1. typed + 1 \in DOMAIN Texts
    BY <1>1, <1>t, HistoryAssumption
  <2>. QED  BY <1>1, <2>1 DEF Linked, LinkIsExact
<1>3. CASE ~idb
  <2>1. UNCHANGED <<counters, txs, typed>>
    BY <1>1, <1>3 DEF Push
  <2>. QED  BY <1>1, <1>2, <2>1 DEF HistoryTyped, Queued, Kept, StoredAt, Sorted, InOrder
<1>4. CASE idb
  <2>1. /\ counters' = Counted(counters) /\ typed' = typed + 1
        /\ txs' = Append(txs, [key |-> NextKey(counters), input |-> typed + 1, info |-> counters'])
    BY <1>1, <1>4 DEF Push
  <2>2. counters' \in [next : Nat, count : Nat] /\ counters'.next = counters.next + 1
    BY <1>t, <2>1 DEF Counted, Lesser
  <2>3. PICK tx : tx = [key |-> NextKey(counters), input |-> typed + 1, info |-> counters']
    OBVIOUS
  <2>4. NextKey(counters) = (counters.next % Capacity) /\ NextKey(counters) \in 0 .. Capacity - 1
    BY <1>t, KeyOfSmall DEF NextKey
  <2>5. /\ tx \in Transactions /\ tx.input = typed + 1 /\ tx.info.next = counters.next + 1
        /\ tx.key = NextKey(counters)
    BY <1>t, <2>2, <2>3, <2>4 DEF Transactions
  <2>6. /\ txs' \in Seq(Transactions) /\ Len(txs') = Len(txs) + 1
        /\ \A j \in 1 .. Len(txs) : txs'[j] = txs[j]
        /\ txs'[Len(txs) + 1] = tx
    BY <2>1, <2>3, <2>5 DEF HistoryTyped
  <2>7. HistoryTyped'
    BY <1>1, <1>t, <2>1, <2>2, <2>6 DEF HistoryTyped
  <2>8. Queued'
    <3>1. ASSUME NEW j \in 1 .. Len(txs')
          PROVE  /\ txs'[j].input = typed' - Len(txs') + j
                 /\ txs'[j].info.next = counters'.next - Len(txs') + j
                 /\ txs'[j].key = (txs'[j].info.next - 1) % Capacity
      <4>1. CASE j = Len(txs) + 1
        <5>1. txs'[j] = tx
          BY <2>6, <4>1
        <5>2. tx.info.next - 1 = counters.next
          BY <1>t, <2>5
        <5>3. tx.input = typed' - Len(txs') + j /\ tx.info.next = counters'.next - Len(txs') + j
          BY <1>t, <2>1, <2>2, <2>5, <2>6, <4>1
        <5>. QED  BY <2>4, <2>5, <5>1, <5>2, <5>3
      <4>2. CASE j \in 1 .. Len(txs)
        <5>1. /\ txs'[j].input = typed - Len(txs) + j
              /\ txs'[j].info.next = counters.next - Len(txs) + j
              /\ txs'[j].key = (txs'[j].info.next - 1) % Capacity
          BY <2>6, <4>2 DEF Queued
        <5>2. typed' - Len(txs') = typed - Len(txs)
              /\ counters'.next - Len(txs') = counters.next - Len(txs)
          BY <1>t, <2>1, <2>2, <2>6
        <5>. QED  BY <5>1, <5>2
      <4>. QED  BY <1>t, <2>6, <4>1, <4>2
    <3>2. info.next <= counters.next - Len(txs) /\ Len(txs) <= typed
      BY <1>4 DEF Queued
    <3>3. info'.next <= counters'.next - Len(txs') /\ Len(txs') <= typed' /\ idb'
      BY <1>1, <1>4, <1>t, <2>1, <2>2, <2>6, <3>2
    <3>. QED  BY <3>1, <3>3 DEF Queued
  <2>9. Kept'
    <3>1. ASSUME NEW i \in committed, typed' - i < Capacity
          PROVE  \E n \in Nat : StoredAt(i, n)'
      <4>1. typed - i < Capacity
        BY <1>t, <2>1, <3>1
      <4>2. PICK n \in Nat : StoredAt(i, n)
        BY <4>1 DEF Kept
      <4>3. /\ info'.next - n <= typed' + 1 - i /\ counters'.next - n <= typed' + 1 - i
            /\ n < info'.next
        <5>1. info.next - n <= typed + 1 - i /\ counters.next - n <= typed + 1 - i /\ n < info.next
          BY <1>4, <4>2 DEF StoredAt
        <5>2. n \in Nat /\ i \in Nat /\ UNCHANGED info
          BY <1>1, <1>t, <4>2
        <5>. QED  BY <1>t, <2>1, <2>2, <5>1, <5>2
      <4>. QED  BY <1>1, <4>2, <4>3 DEF StoredAt
    <3>. QED  BY <1>1, <3>1 DEF Kept
  <2>10. Sorted'
    <3>1. typed' - Len(txs') = typed - Len(txs)
      BY <1>t, <2>1, <2>6
    <3>. QED  BY <1>1, <3>1 DEF Sorted, InOrder
  <2>. QED  BY <1>1, <1>2, <2>7, <2>8, <2>9, <2>10
<1>. QED  BY <1>3, <1>4

LEMMA OpenKeeps ==
  ASSUME HistoryInv, ~idb, OpenHistory
  PROVE  /\ HistoryInv' /\ UNCHANGED <<storeVars, loaded>>
         /\ idb' => counters' = info' /\ txs' = <<>>
<1> USE DEF HistoryInv
<1>1. txs = <<>> /\ Len(txs) = 0 /\ info.next \in Nat /\ info.next - 0 = info.next
  BY DEF Queued, HistoryTyped
<1>2. CASE /\ idb' = TRUE /\ counters' = info
           /\ UNCHANGED <<storeVars, txs, loaded, typed, committed, link, replayed>>
  <2>1. HistoryTyped'
    BY <1>2 DEF HistoryTyped
  <2>2. Queued'
    BY <1>1, <1>2 DEF Queued
  <2>3. Kept'
    BY <1>2 DEF Kept, StoredAt
  <2>4. Sorted' /\ Linked'
    BY <1>2 DEF Sorted, InOrder, Linked, LinkIsExact
  <2>. QED  BY <1>1, <1>2, <2>1, <2>2, <2>3, <2>4
<1>3. CASE UNCHANGED historyVars
  BY <1>3 DEF HistoryTyped, Queued, Kept, StoredAt, Sorted, InOrder, Linked, LinkIsExact
<1>. QED  BY <1>2, <1>3 DEF OpenHistory

LEMMA LeaveKeeps ==
  ASSUME HistoryInv, LeaveHistory
  PROVE  HistoryInv' /\ ~idb' /\ loaded' = <<>>
<1> USE DEF HistoryInv
<1>1. /\ idb' = FALSE /\ counters' = NoInfo /\ txs' = <<>> /\ loaded' = <<>>
      /\ replayed' \in {<<>>, Replay(link)} /\ link' = <<>>
      /\ UNCHANGED <<storeVars, typed, committed>>
  BY DEF LeaveHistory
<1>2. HistoryTyped'
  <2>1. txs' \in Seq(Transactions) /\ counters' \in [next : Nat, count : Nat]
    BY <1>1 DEF NoInfo
  <2>. QED  BY <1>1, <2>1 DEF HistoryTyped
<1>3. Queued'
  BY <1>1 DEF Queued, HistoryTyped
<1>4. Kept'
  BY <1>1 DEF Kept, StoredAt
<1>5. Sorted'
  <2>1. /\ \A k \in DOMAIN entries : entries[k] \in Nat /\ entries[k] <= typed - Len(txs)
        /\ typed \in Nat /\ Len(txs) \in Nat /\ Len(txs') = 0
    BY <1>1 DEF Sorted, HistoryTyped
  <2>2. \A k \in DOMAIN entries : entries[k] <= typed - 0
    BY <2>1
  <2>. QED  BY <1>1, <2>1, <2>2 DEF Sorted, InOrder
<1>6. Linked'
  <2>1. LinkIsExact'
    <3>1. CASE replayed' = <<>>
      BY <3>1 DEF LinkIsExact
    <3>2. ASSUME replayed' = Replay(link), NEW i \in DOMAIN link
          PROVE  \E j \in DOMAIN Texts : replayed'[i] = Texts[j]
      <4>1. link[i] \in {Extraswaps(Texts[j]) : j \in DOMAIN Texts}
        BY DEF Linked
      <4>2. PICK j \in DOMAIN Texts : link[i] = Extraswaps(Texts[j])
        BY <4>1
      <4>3. Texts[j] \in Seq(STRING)
        BY HistoryAssumption
      <4>4. replayed'[i] = Texts[j]
        BY <3>2, <4>2, <4>3, SwapsBack DEF Replay
      <4>. QED  BY <4>4
    <3>. QED  BY <1>1, <3>1, <3>2 DEF LinkIsExact, Replay
  <2>. QED  BY <1>1, <2>1 DEF Linked
<1>. QED  BY <1>1, <1>2, <1>3, <1>4, <1>5, <1>6

\* What the shell is given, turned around or not.
LEMMA LoadKeeps ==
  ASSUME HistoryInv, idb => counters = info, CanRotate(Load), info.next <= Capacity
  PROVE  InOrder(Rotated(Load))
<1> USE DEF HistoryInv
<1>1. CASE counters.count = 0
  <2>1. Load.log = <<>> /\ Load.cursor = 0
    BY <1>1 DEF Load
  <2>2. Rotated(Load) = SubSeq(<<>>, 1, Len(<<>>)) \o SubSeq(<<>>, 1, 0)
    BY <2>1 DEF Rotated
  <2>3. Len(Rotated(Load)) = 0 /\ Rotated(Load) \in Seq({})
    BY <2>2
  <2>. QED  BY <2>3 DEF InOrder
<1>2. CASE counters.count # 0
  <2> DEFINE n == Cardinality(DOMAIN entries)
             keys == KeysInOrder(DOMAIN entries)
             log == [i \in 1 .. n |-> entries[keys[i]]]
  <2>1. /\ idb /\ counters = info /\ info.next \in Nat /\ Capacity \in Nat \ {0}
        /\ DOMAIN entries \subseteq 0 .. Capacity - 1
        /\ \A k \in DOMAIN entries : entries[k] \in Nat
    BY <1>2, HistoryAssumption DEF HistoryTyped, Queued, NoInfo
  <2>2. DOMAIN entries \subseteq 0 .. info.next - 1 /\ InOrder(entries)
    BY <2>1 DEF Sorted
  <2>3. n \in Nat /\ n <= info.next
    <3>1. IsFiniteSet(0 .. info.next - 1) /\ Cardinality(0 .. info.next - 1) = info.next
      <4>1. info.next - 1 \in Int /\ 0 \in Int
        BY <2>1
      <4>2. /\ IsFiniteSet(0 .. info.next - 1)
            /\ Cardinality(0 .. info.next - 1) =
                 IF 0 > info.next - 1 THEN 0 ELSE (info.next - 1) - 0 + 1
        BY <4>1, FS_Interval
      <4>. QED  BY <2>1, <4>2
    <3>. QED  BY <2>2, <3>1, FS_Subset, FS_CardinalityType
  <2>4. /\ keys \in [1 .. n -> DOMAIN entries] /\ InOrder(keys)
    <3>1. info.next - 1 \in Int
      BY <2>1
    <3>. QED  BY <2>2, <3>1, KeysCanBeOrdered
  <2>5. Load.log = log /\ Load.cursor = Lesser(info.next, Capacity)
    BY <1>2, <2>1 DEF Load
  <2> HIDE DEF n, keys
  <2>6. log \in Seq(Nat) /\ Len(log) = n /\ \A i \in 1 .. n : log[i] = entries[keys[i]]
    BY <2>1, <2>3, <2>4
  <2> HIDE DEF log
  <2>7. Load.cursor = n
    BY <2>1, <2>3, <2>5, <2>6 DEF Lesser, CanRotate
  <2>8. Rotated(Load) = SubSeq(log, n + 1, Len(log)) \o SubSeq(log, 1, n)
    BY <2>5, <2>7 DEF Rotated
  <2>9. Rotated(Load) = log
    BY <2>3, <2>6, <2>8
  <2>10. InOrder(log)
    <3>1. ASSUME NEW i \in 1 .. n, NEW j \in 1 .. n, i < j
          PROVE  log[i] < log[j]
      <4>1. keys[i] < keys[j] /\ keys[i] \in DOMAIN entries /\ keys[j] \in DOMAIN entries
        BY <2>4, <3>1 DEF InOrder
      <4>. QED  BY <2>2, <2>6, <4>1 DEF InOrder
    <3>. QED  BY <2>6, <3>1 DEF InOrder
  <2>. QED  BY <2>9, <2>10
<1>. QED  BY <1>1, <1>2

-----------------------------------------------------------------------------
\* Where the shell stands: its history is opened once, and loaded before
\* anything is typed.
ShellPlaced ==
  /\ shell \notin {"load", "attached", "failed"} => ~idb
  /\ shell = "load" /\ idb => counters = info /\ txs = <<>>
  /\ LoadedInOrder

ShellInv == HistoryInv /\ ShellPlaced

LEMMA ShellStep == ShellInv /\ [Next]_vars => ShellInv'
<1> SUFFICES ASSUME ShellInv, [Next]_vars PROVE ShellInv'
  OBVIOUS
<1>0. HistoryInv /\ ShellPlaced
  BY DEF ShellInv
<1>s. ASSUME UNCHANGED historyVars PROVE HistoryInv'
  BY <1>0, <1>s DEF HistoryInv, HistoryTyped, Queued, Kept, StoredAt, Sorted, InOrder, Linked,
                    LinkIsExact
<1>1. ASSUME UNCHANGED historyVars,
             \/ shell' = shell \/ shell' = "failed"
             \/ shell' # "load" /\ shell \notin {"load", "attached", "failed"}
      PROVE  ShellInv'
  BY <1>0, <1>1, <1>s DEF ShellInv, ShellPlaced, LoadedInOrder, InOrder
<1>2. CASE \/ StartWorker \/ Chunk \/ Instantiated \/ OnReply \/ Open
           \/ (\E id \in Ids : Connected(id) \/ Dial(id)) \/ UNCHANGED vars
  BY <1>1, <1>2 DEF StartWorker, Chunk, Instantiated, OnReply, Open, Connected, Dial
<1>3. CASE FontsLoaded \/ ResolveDatabase \/ Mount
  BY <1>1, <1>3 DEF FontsLoaded, ResolveDatabase, Mount
<1>4. CASE Render
  BY <1>1, <1>4 DEF Render, Propagate
<1>5. CASE OpenShellHistory
  <2>1. ~idb /\ OpenHistory /\ shell' = "load"
    BY <1>0, <1>5 DEF OpenShellHistory, ShellPlaced
  <2>2. /\ HistoryInv' /\ UNCHANGED <<storeVars, loaded>>
        /\ idb' => counters' = info' /\ txs' = <<>>
    BY <1>0, <2>1, OpenKeeps
  <2>. QED  BY <1>0, <2>1, <2>2 DEF ShellInv, ShellPlaced, LoadedInOrder, InOrder
<1>6. CASE LoadShellHistory
  <2>1. /\ shell = "load"
        /\ UNCHANGED <<storeVars, idb, counters, txs, link, replayed, typed, committed>>
        /\ \/ CanRotate(Load) /\ shell' = "attached" /\ loaded' = Rotated(Load)
           \/ shell' = "failed" /\ UNCHANGED loaded
    BY <1>6 DEF LoadShellHistory
  <2>2. HistoryInv'
    BY <1>0, <2>1 DEF HistoryInv, HistoryTyped, Queued, Kept, StoredAt, Sorted, InOrder, Linked,
                      LinkIsExact
  <2>3. LoadedInOrder'
    <3>1. idb => counters = info
      BY <1>0, <2>1 DEF ShellPlaced
    <3>2. CASE CanRotate(Load) /\ loaded' = Rotated(Load)
      BY <1>0, <2>1, <3>1, <3>2, LoadKeeps DEF LoadedInOrder
    <3>3. CASE UNCHANGED loaded
      BY <1>0, <2>1, <3>3 DEF LoadedInOrder, ShellPlaced
    <3>. QED  BY <2>1, <3>2, <3>3
  <2>. QED  BY <2>1, <2>2, <2>3 DEF ShellInv, ShellPlaced
<1>7. CASE Store
  <2>1. CASE Commit /\ UNCHANGED webVars
    <3>1. HistoryInv' /\ txs # <<>> /\ UNCHANGED <<shell, idb, loaded>>
      BY <1>0, <2>1, CommitKeeps DEF Commit
    <3>2. info'.next <= Capacity => info.next <= Capacity
      <4>1. /\ Len(txs) \in Nat \ {0} /\ txs[1].info.next = counters.next - Len(txs) + 1
            /\ info'.next = txs[1].info.next /\ idb
        <5>1. /\ txs # <<>> /\ txs' = Tail(txs) /\ info' = Head(txs).info
              /\ UNCHANGED <<idb, counters, typed>>
          BY <2>1 DEF Commit
        <5>. QED  BY <1>0, <5>1, QueueShrinks DEF HistoryInv
      <4>2. info.next <= counters.next - Len(txs) /\ info.next \in Nat /\ counters.next \in Nat
        BY <1>0, <4>1 DEF HistoryInv, HistoryTyped, Queued
      <4>. QED  BY <4>1, <4>2, HistoryAssumption
    <3>3. shell # "load" \/ ~idb
      BY <1>0, <3>1 DEF ShellPlaced
    <3>. QED  BY <1>0, <3>1, <3>2, <3>3 DEF ShellInv, ShellPlaced, LoadedInOrder, InOrder
  <2>2. CASE Abort /\ UNCHANGED webVars
    <3>1. HistoryInv' /\ txs # <<>> /\ UNCHANGED <<shell, idb, loaded, info>>
      BY <1>0, <2>2, AbortKeeps DEF Abort
    <3>2. shell # "load" \/ ~idb
      BY <1>0, <3>1 DEF ShellPlaced
    <3>. QED  BY <1>0, <3>1, <3>2 DEF ShellInv, ShellPlaced, LoadedInOrder, InOrder
  <2>. QED  BY <1>7, <2>1, <2>2 DEF Store
<1>8. CASE Input
  <2>1. HistoryInv' /\ shell = "attached" /\ UNCHANGED <<shell, storeVars, idb, loaded>>
    BY <1>0, <1>8, PushKeeps DEF Input
  <2>. QED  BY <1>0, <2>1 DEF ShellInv, ShellPlaced, LoadedInOrder, InOrder
<1>9. CASE Reload
  <2>1. HistoryInv' /\ ~idb' /\ loaded' = <<>> /\ shell' = "unmounted"
    BY <1>0, <1>9, LeaveKeeps DEF Reload, NewPage
  <2>. QED  BY <2>1 DEF ShellInv, ShellPlaced, LoadedInOrder, InOrder
<1>. QED
  BY <1>2, <1>3, <1>4, <1>5, <1>6, <1>7, <1>8, <1>9 DEF Next, Work, User

LEMMA ShellInit == Init => ShellInv
<1> SUFFICES ASSUME Init PROVE ShellInv
  OBVIOUS
<1>1. HistoryInv
  BY HistoryInitially DEF Init
<1>. QED  BY <1>1 DEF Init, HistoryInit, ShellInv, ShellPlaced, LoadedInOrder, InOrder

(***************************************************************************)
(* Whatever is typed, aborted and left, an input whose transaction was     *)
(* done is in the store until Capacity inputs came after it; a shell is    *)
(* given the inputs in order until the ring has come round; and a link     *)
(* types what was typed (history_store.ts push, load; shell.rs             *)
(* load_history; shell.ts pushInputToHistory).                             *)
(***************************************************************************)
THEOREM HistoryIsKept == Spec => []InputsComeBack
<1>1. ShellInv => InputsComeBack
  <2> SUFFICES ASSUME ShellInv PROVE InputsComeBack
    OBVIOUS
  <2> USE DEF ShellInv, HistoryInv
  <2>1. \A i \in committed : typed - i < Capacity => i \in Range(entries)
    BY DEF Kept, StoredAt, Range
  <2>2. Cardinality(DOMAIN entries) <= Capacity
    <3>1. Capacity \in Nat /\ DOMAIN entries \subseteq 0 .. Capacity - 1
      BY HistoryAssumption DEF HistoryTyped
    <3>2. IsFiniteSet(0 .. Capacity - 1) /\ Cardinality(0 .. Capacity - 1) = Capacity
      BY <3>1, FS_Interval
    <3>. QED  BY <3>1, <3>2, FS_Subset
  <2>. QED  BY <2>1, <2>2 DEF InputsComeBack, RecentAreStored, Linked, ShellPlaced
<1>. QED  BY ShellInit, ShellStep, <1>1, PTL DEF Spec
=============================================================================
