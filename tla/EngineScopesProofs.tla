------------------------- MODULE EngineScopesProofs -------------------------
(***************************************************************************)
(* For every number of workers, every set of options, of files and of     *)
(* handles, and every bound: the state keeps its shape, a thread runs      *)
(* under the options it was started with, a worker's handles are the       *)
(* latest, answers of functions are exact and requests follow the options. *)
(*                                                                         *)
(* The second needs more than itself.  What a worker has when a thread     *)
(* starts on it is decided by messages that were posted before and are     *)
(* taken later, so the invariant speaks of the mail: what it ends with is  *)
(* what the main scope has, and what precedes a `run' ends with what the   *)
(* main scope had when it posted it.  No worker has two `run' messages,    *)
(* and none is posted to one that runs a thread: the main scope's own view *)
(* of the pool keeps that.                                                 *)
(***************************************************************************)
EXTENDS EngineScopes, TLAPS

\* The duckdb handler always takes the messages.
Reclaimed == \A w \in Pthreads : handler[w] = "duckdb"

\* One worker: m is its mail, c its options, main those of the main scope,
\* started those its thread was started under, p what the main scope takes it
\* for, and e whether it runs a thread.
\*   1. A spawned worker that has taken its mail has the main scope's options.
\*   2. The main scope takes it for running from the `run' it posts to the end
\*      of the thread, and there is one `run' at most.
\*   3. What precedes a `run' brings the options it was posted under.
Agrees(m, c, main, started, p, e) ==
  /\ p # "none" => EndsWith(m, Len(m), c, main)
  /\ e => p = "running" /\ c = started
  /\ \A k \in 1 .. Len(m) :
       m[k].cmd = "run" =>
         /\ p = "running"
         /\ ~e
         /\ EndsWith(m, k, c, started)
         /\ \A j \in 1 .. Len(m) : m[j].cmd = "run" => j = k

WorkersAgree ==
  \A w \in Pthreads :
    Agrees(mail[w], http[w], http[Main], startedWith[w], pool[w], w \in exec)

IInv == TypeOK /\ Reclaimed /\ WorkersAgree

----------------------------------------------------------------------------
(* What the messages of a queue leave a worker with. *)

\* A message appended does not change what those before it bring.
LEMMA EndsBefore ==
  ASSUME NEW S, NEW m \in Seq(S), NEW x \in S, NEW n \in 0 .. Len(m), NEW c, NEW d,
         EndsWith(m, n, c, d)
  PROVE  EndsWith(Append(m, x), n, c, d)
  <1>1. \A j \in 1 .. n : Append(m, x)[j] = m[j]
    OBVIOUS
  <1> QED BY <1>1 DEF EndsWith

\* Any other message than options leaves what the queue brings as it is.
LEMMA EndsAfterOther ==
  ASSUME NEW S, NEW m \in Seq(S), NEW x \in S, x.cmd # "http", NEW c, NEW d,
         EndsWith(m, Len(m), c, d)
  PROVE  EndsWith(Append(m, x), Len(m) + 1, c, d)
  <1>1. \A j \in 1 .. Len(m) : Append(m, x)[j] = m[j]
    OBVIOUS
  <1>2. Append(m, x)[Len(m) + 1] = x
    OBVIOUS
  <1>3. Len(m) \in Nat
    OBVIOUS
  <1>4. CASE (\A j \in 1 .. Len(m) : m[j].cmd # "http") /\ c = d
    BY <1>1, <1>2, <1>3, <1>4 DEF EndsWith
  <1>5. ASSUME NEW i \in 1 .. Len(m), m[i].cmd = "http", m[i].http = d,
               \A j \in i + 1 .. Len(m) : m[j].cmd # "http"
        PROVE  EndsWith(Append(m, x), Len(m) + 1, c, d)
    <2>1. i \in 1 .. Len(m) + 1
      BY <1>3
    <2>2. \A j \in i + 1 .. Len(m) + 1 : Append(m, x)[j].cmd # "http"
      BY <1>1, <1>2, <1>3, <1>5
    <2> QED BY <2>1, <2>2, <1>1, <1>5 DEF EndsWith
  <1> QED BY <1>4, <1>5 DEF EndsWith

\* Options that come last are what the queue brings.
LEMMA EndsAfterOptions ==
  ASSUME NEW S, NEW m \in Seq(S), NEW x \in S, x.cmd = "http", NEW c
  PROVE  EndsWith(Append(m, x), Len(m) + 1, c, x.http)
  <1>1. Append(m, x)[Len(m) + 1] = x
    OBVIOUS
  <1>2. Len(m) + 1 \in 1 .. Len(m) + 1 /\ (Len(m) + 1) + 1 .. Len(m) + 1 = {}
    OBVIOUS
  <1> QED BY <1>1, <1>2 DEF EndsWith

\* Taking a message that is not options.
LEMMA EndsTailOther ==
  ASSUME NEW S, NEW m \in Seq(S), m # <<>>, m[1].cmd # "http",
         NEW n \in 1 .. Len(m), NEW c, NEW d, EndsWith(m, n, c, d)
  PROVE  EndsWith(Tail(m), n - 1, c, d)
  <1>1. \A j \in 1 .. n - 1 : Tail(m)[j] = m[j + 1]
    OBVIOUS
  <1>2. n \in Nat /\ Len(m) \in Nat /\ n >= 1
    OBVIOUS
  <1>3. CASE (\A j \in 1 .. n : m[j].cmd # "http") /\ c = d
    BY <1>1, <1>2, <1>3 DEF EndsWith
  <1>4. ASSUME NEW i \in 1 .. n, m[i].cmd = "http", m[i].http = d,
               \A j \in i + 1 .. n : m[j].cmd # "http"
        PROVE  EndsWith(Tail(m), n - 1, c, d)
    <2>1. i - 1 \in 1 .. n - 1
      BY <1>4, <1>2
    <2>2. Tail(m)[i - 1] = m[i]
      BY <2>1, <1>1
    <2>3. \A j \in (i - 1) + 1 .. n - 1 : Tail(m)[j].cmd # "http"
      BY <1>1, <1>2, <1>4
    <2> QED BY <2>1, <2>2, <2>3, <1>4 DEF EndsWith
  <1> QED BY <1>3, <1>4 DEF EndsWith

\* Taking options: they are what the worker has from now on.
LEMMA EndsTailOptions ==
  ASSUME NEW S, NEW m \in Seq(S), m # <<>>, m[1].cmd = "http",
         NEW n \in 1 .. Len(m), NEW c, NEW d, EndsWith(m, n, c, d)
  PROVE  EndsWith(Tail(m), n - 1, m[1].http, d)
  <1>1. \A j \in 1 .. n - 1 : Tail(m)[j] = m[j + 1]
    OBVIOUS
  <1>2. n \in Nat /\ Len(m) \in Nat /\ n >= 1
    OBVIOUS
  <1>3. PICK i \in 1 .. n : /\ m[i].cmd = "http"
                            /\ m[i].http = d
                            /\ \A j \in i + 1 .. n : m[j].cmd # "http"
    BY <1>2 DEF EndsWith
  <1>4. \A j \in i .. n - 1 : Tail(m)[j].cmd # "http"
    BY <1>1, <1>2, <1>3
  <1>5. CASE i = 1
    BY <1>1, <1>2, <1>3, <1>4, <1>5 DEF EndsWith
  <1>6. CASE i # 1
    <2>1. i - 1 \in 1 .. n - 1 /\ Tail(m)[i - 1] = m[i]
      BY <1>1, <1>2, <1>6
    <2> QED BY <2>1, <1>2, <1>3, <1>4 DEF EndsWith
  <1> QED BY <1>5, <1>6

----------------------------------------------------------------------------
(* What each kind of step does to one worker. *)

\* A message that is neither options nor `run' is appended.
LEMMA AgreesAppendOther ==
  ASSUME NEW S, NEW m \in Seq(S), NEW x \in S, x.cmd # "http", x.cmd # "run",
         NEW c, NEW main, NEW started, NEW p, NEW e \in BOOLEAN,
         Agrees(m, c, main, started, p, e)
  PROVE  Agrees(Append(m, x), c, main, started, p, e)
  <1> DEFINE a == Append(m, x)
  <1>1. Len(a) = Len(m) + 1 /\ Len(m) \in Nat /\ a[Len(m) + 1] = x
    OBVIOUS
  <1>2. \A k \in 1 .. Len(m) : a[k] = m[k]
    OBVIOUS
  <1>3. p # "none" => EndsWith(a, Len(a), c, main)
    BY <1>1, EndsAfterOther DEF Agrees
  <1>4. ASSUME NEW k \in 1 .. Len(a), a[k].cmd = "run"
        PROVE  /\ p = "running" /\ ~e
               /\ EndsWith(a, k, c, started)
               /\ \A j \in 1 .. Len(a) : a[j].cmd = "run" => j = k
    <2>1. k \in 1 .. Len(m) /\ m[k].cmd = "run"
      BY <1>1, <1>2, <1>4
    <2>2. p = "running" /\ ~e /\ EndsWith(m, k, c, started)
      BY <2>1 DEF Agrees
    <2>3. EndsWith(a, k, c, started)
      BY <2>1, <2>2, <1>1, EndsBefore
    <2>4. \A j \in 1 .. Len(a) : a[j].cmd = "run" => j \in 1 .. Len(m) /\ m[j].cmd = "run"
      BY <1>1, <1>2
    <2> QED BY <2>1, <2>2, <2>3, <2>4 DEF Agrees
  <1> HIDE DEF a
  <1>9. Agrees(a, c, main, started, p, e)
    BY <1>3, <1>4 DEF Agrees
  <1> QED BY <1>9 DEF a

\* The main scope's options change and are appended.
LEMMA AgreesAppendOptions ==
  ASSUME NEW S, NEW m \in Seq(S), NEW x \in S, x.cmd = "http",
         NEW c, NEW main, NEW started, NEW p, NEW e \in BOOLEAN,
         Agrees(m, c, main, started, p, e)
  PROVE  Agrees(Append(m, x), c, x.http, started, p, e)
  <1> DEFINE a == Append(m, x)
  <1>1. Len(a) = Len(m) + 1 /\ Len(m) \in Nat /\ a[Len(m) + 1] = x
    OBVIOUS
  <1>2. \A k \in 1 .. Len(m) : a[k] = m[k]
    OBVIOUS
  <1>3. EndsWith(a, Len(a), c, x.http)
    BY <1>1, EndsAfterOptions
  <1>4. ASSUME NEW k \in 1 .. Len(a), a[k].cmd = "run"
        PROVE  /\ p = "running" /\ ~e
               /\ EndsWith(a, k, c, started)
               /\ \A j \in 1 .. Len(a) : a[j].cmd = "run" => j = k
    <2>1. k \in 1 .. Len(m) /\ m[k].cmd = "run"
      BY <1>1, <1>2, <1>4
    <2>2. p = "running" /\ ~e /\ EndsWith(m, k, c, started)
      BY <2>1 DEF Agrees
    <2>3. EndsWith(a, k, c, started)
      BY <2>1, <2>2, <1>1, EndsBefore
    <2>4. \A j \in 1 .. Len(a) : a[j].cmd = "run" => j \in 1 .. Len(m) /\ m[j].cmd = "run"
      BY <1>1, <1>2
    <2> QED BY <2>1, <2>2, <2>3, <2>4 DEF Agrees
  <1>5. e => p = "running" /\ c = started
    BY DEF Agrees
  <1> HIDE DEF a
  <1>9. Agrees(a, c, x.http, started, p, e)
    BY <1>3, <1>4, <1>5 DEF Agrees
  <1> QED BY <1>9 DEF a

\* A thread is started on a worker at rest, under the main scope's options.
LEMMA AgreesAppendRun ==
  ASSUME NEW S, NEW m \in Seq(S), NEW x \in S, x.cmd = "run",
         NEW c, NEW main, NEW started, NEW e \in BOOLEAN,
         Agrees(m, c, main, started, "unused", e)
  PROVE  Agrees(Append(m, x), c, main, main, "running", e)
  <1> DEFINE a == Append(m, x)
  <1>1. Len(a) = Len(m) + 1 /\ Len(m) \in Nat /\ a[Len(m) + 1] = x
    OBVIOUS
  <1>2. \A k \in 1 .. Len(m) : a[k] = m[k]
    OBVIOUS
  <1>3. EndsWith(a, Len(a), c, main)
    BY <1>1, EndsAfterOther DEF Agrees
  <1>4. ~e /\ \A k \in 1 .. Len(m) : m[k].cmd # "run"
    BY DEF Agrees
  <1>5. \A k \in 1 .. Len(a) : a[k].cmd = "run" => k = Len(a)
    BY <1>1, <1>2, <1>4
  <1> HIDE DEF a
  <1>9. Agrees(a, c, main, main, "running", e)
    BY <1>3, <1>4, <1>5 DEF Agrees
  <1> QED BY <1>9 DEF a

\* A worker at its event loop takes a message that is neither.
LEMMA AgreesTakeOther ==
  ASSUME NEW S, NEW m \in Seq(S), m # <<>>, m[1].cmd # "http", m[1].cmd # "run",
         NEW c, NEW main, NEW started, NEW p, NEW e \in BOOLEAN,
         Agrees(m, c, main, started, p, e)
  PROVE  Agrees(Tail(m), c, main, started, p, e)
  <1> DEFINE t == Tail(m)
  <1>1. t \in Seq(S) /\ Len(t) = Len(m) - 1 /\ Len(m) \in Nat /\ Len(m) >= 1
    OBVIOUS
  <1>2. \A k \in 1 .. Len(t) : t[k] = m[k + 1]
    OBVIOUS
  <1>3. p # "none" => EndsWith(t, Len(t), c, main)
    <2>1. Len(m) \in 1 .. Len(m)
      BY <1>1
    <2> QED BY <1>1, <2>1, EndsTailOther DEF Agrees
  <1>4. ASSUME NEW k \in 1 .. Len(t), t[k].cmd = "run"
        PROVE  /\ p = "running" /\ ~e
               /\ EndsWith(t, k, c, started)
               /\ \A j \in 1 .. Len(t) : t[j].cmd = "run" => j = k
    <2>1. k + 1 \in 1 .. Len(m) /\ m[k + 1].cmd = "run" /\ (k + 1) - 1 = k
      BY <1>1, <1>2, <1>4
    <2>2. p = "running" /\ ~e /\ EndsWith(m, k + 1, c, started)
      BY <2>1 DEF Agrees
    <2>3. EndsWith(t, (k + 1) - 1, c, started)
      BY <2>1, <2>2, EndsTailOther
    <2>4. \A j \in 1 .. Len(t) :
            t[j].cmd = "run" => j + 1 \in 1 .. Len(m) /\ m[j + 1].cmd = "run"
      BY <1>1, <1>2
    <2>5. \A j \in 1 .. Len(t) : t[j].cmd = "run" => j + 1 = k + 1
      BY <2>1, <2>4 DEF Agrees
    <2>6. \A j \in 1 .. Len(t) : t[j].cmd = "run" => j = k
      BY <2>5, <1>1
    <2>7. EndsWith(t, k, c, started)
      BY <2>1, <2>3
    <2> QED BY <2>2, <2>6, <2>7
  <1>5. e => p = "running" /\ c = started
    BY DEF Agrees
  <1> HIDE DEF t
  <1>9. Agrees(t, c, main, started, p, e)
    BY <1>3, <1>4, <1>5 DEF Agrees
  <1> QED BY <1>9 DEF t

\* A worker at its event loop takes options.
LEMMA AgreesTakeOptions ==
  ASSUME NEW S, NEW m \in Seq(S), m # <<>>, m[1].cmd = "http",
         NEW c, NEW main, NEW started, NEW p,
         Agrees(m, c, main, started, p, FALSE)
  PROVE  Agrees(Tail(m), m[1].http, main, started, p, FALSE)
  <1> DEFINE t == Tail(m)
  <1>1. t \in Seq(S) /\ Len(t) = Len(m) - 1 /\ Len(m) \in Nat /\ Len(m) >= 1
    OBVIOUS
  <1>2. \A k \in 1 .. Len(t) : t[k] = m[k + 1]
    OBVIOUS
  <1>3. p # "none" => EndsWith(t, Len(t), m[1].http, main)
    <2>1. Len(m) \in 1 .. Len(m)
      BY <1>1
    <2> QED BY <1>1, <2>1, EndsTailOptions DEF Agrees
  <1>4. ASSUME NEW k \in 1 .. Len(t), t[k].cmd = "run"
        PROVE  /\ p = "running"
               /\ EndsWith(t, k, m[1].http, started)
               /\ \A j \in 1 .. Len(t) : t[j].cmd = "run" => j = k
    <2>1. k + 1 \in 1 .. Len(m) /\ m[k + 1].cmd = "run" /\ (k + 1) - 1 = k
      BY <1>1, <1>2, <1>4
    <2>2. p = "running" /\ EndsWith(m, k + 1, c, started)
      BY <2>1 DEF Agrees
    <2>3. EndsWith(t, (k + 1) - 1, m[1].http, started)
      BY <2>1, <2>2, EndsTailOptions
    <2>4. \A j \in 1 .. Len(t) :
            t[j].cmd = "run" => j + 1 \in 1 .. Len(m) /\ m[j + 1].cmd = "run"
      BY <1>1, <1>2
    <2>5. \A j \in 1 .. Len(t) : t[j].cmd = "run" => j + 1 = k + 1
      BY <2>1, <2>4 DEF Agrees
    <2>6. \A j \in 1 .. Len(t) : t[j].cmd = "run" => j = k
      BY <2>5, <1>1
    <2>7. EndsWith(t, k, m[1].http, started)
      BY <2>1, <2>3
    <2> QED BY <2>2, <2>6, <2>7
  <1> HIDE DEF t
  <1>9. Agrees(t, m[1].http, main, started, p, FALSE)
    BY <1>3, <1>4 DEF Agrees
  <1> QED BY <1>9 DEF t

\* A worker takes `run': its thread has the options it was started under.
LEMMA AgreesTakeRun ==
  ASSUME NEW S, NEW m \in Seq(S), m # <<>>, m[1].cmd = "run",
         NEW c, NEW main, NEW started, NEW p,
         Agrees(m, c, main, started, p, FALSE)
  PROVE  Agrees(Tail(m), c, main, started, p, TRUE)
  <1> DEFINE t == Tail(m)
  <1>1. t \in Seq(S) /\ Len(t) = Len(m) - 1 /\ Len(m) \in Nat /\ Len(m) >= 1
    OBVIOUS
  <1>2. \A k \in 1 .. Len(t) : t[k] = m[k + 1]
    OBVIOUS
  <1>3. p # "none" => EndsWith(t, Len(t), c, main)
    <2>1. Len(m) \in 1 .. Len(m)
      BY <1>1
    <2> QED BY <1>1, <2>1, EndsTailOther DEF Agrees
  <1>4. 1 \in 1 .. Len(m)
    BY <1>1
  <1>5. p = "running" /\ c = started
    BY <1>4 DEF Agrees, EndsWith
  <1>6. \A k \in 1 .. Len(t) : t[k].cmd # "run"
    <2>1. \A j \in 1 .. Len(m) : m[j].cmd = "run" => j = 1
      BY <1>4 DEF Agrees
    <2> QED BY <2>1, <1>1, <1>2
  <1> HIDE DEF t
  <1>9. Agrees(t, c, main, started, p, TRUE)
    BY <1>3, <1>5, <1>6 DEF Agrees
  <1> QED BY <1>9 DEF t

----------------------------------------------------------------------------
(* The steps of the specification. *)

LEMMA TypeInitially == Init => TypeOK
  <1> SUFFICES ASSUME Init PROVE TypeOK
    OBVIOUS
  <1>1. <<>> \in Seq(Messages)
    OBVIOUS
  <1> QED BY <1>1 DEF Init, TypeOK, Scopes

\* Every message that is posted is one of the three kinds.
LEMMA TypeKept ==
  ASSUME TypeOK, [Next]_vars
  PROVE  TypeOK'
  <1> USE DEF TypeOK, Scopes
  <1>1. ASSUME NEW s \in Scopes, Grow(s) PROVE TypeOK'
    BY <1>1 DEF Grow, poolVars, fileVars
  <1>2. ASSUME NEW s \in Scopes, NEW u, NEW end, Request(s, u, end) PROVE TypeOK'
    <2>1. FreshHeapBuffer(seen[s], heap, end).covers \in {heap, seen[s]}
      BY DEF FreshHeapBuffer
    <2>2. seen' = [seen EXCEPT ![s] = FreshHeapBuffer(seen[s], heap, end).covers]
      BY <1>2 DEF Request
    <2>3. /\ build' = build /\ http' = http /\ mail' = mail /\ pool' = pool /\ handler' = handler
          /\ exec' = exec /\ startedWith' = startedWith /\ files' = files /\ latest' = latest
          /\ heap' = heap
      BY <1>2 DEF Request, poolVars, fileVars
    <2> QED BY <2>1, <2>2, <2>3
  <1>3. ASSUME NEW c \in Configs \cup {NoHttp}, SetHTTPOptions(c) PROVE TypeOK'
    <2>1. [cmd |-> "http", http |-> c] \in Messages
      BY DEF Messages, HttpMessages
    <2> QED BY <1>3, <2>1 DEF SetHTTPOptions, PostToSpawned, poolVars, fileVars, heapVars
  <1>4. ASSUME NEW n \in Files, NEW h \in Handles, RegisterFileHandle(n, h) PROVE TypeOK'
    <2>1. RegisterMsg(n, h) \in Messages /\ DropMsg(n) \in Messages
      BY DEF Messages, FileMessages, RegisterMsg, DropMsg
    <2>2. \A w \in Pthreads : TellHandle(w, n, h) \in Seq(Messages)
      BY <2>1 DEF TellHandle
    <2>3. mail' \in [Pthreads -> Seq(Messages)]
      BY <1>4, <2>2 DEF RegisterFileHandle
    <2>4. files' \in [Scopes -> [Files -> Handles \cup {NoHandle}]]
      BY <1>4 DEF RegisterFileHandle
    <2>5. latest' \in [Files -> [handle : Handles \cup {NoHandle}, told : BOOLEAN]]
      BY <1>4 DEF RegisterFileHandle
    <2> QED BY <1>4, <2>3, <2>4, <2>5 DEF RegisterFileHandle, poolVars, heapVars
  <1>5. ASSUME NEW n \in Files, DropFile(n) PROVE TypeOK'
    BY <1>5 DEF DropFile, poolVars, heapVars
  <1>6. ASSUME NEW w \in Pthreads, Spawn(w) PROVE TypeOK'
    <2>1. <<[cmd |-> "load"]>> \in Seq(Messages)
      BY DEF Messages
    <2> QED BY <1>6, <2>1 DEF Spawn, BootOptions, fileVars
  <1>7. ASSUME NEW w \in Pthreads, Start(w) PROVE TypeOK'
    <2>1. [cmd |-> "run"] \in Messages
      BY DEF Messages
    <2> QED BY <1>7, <2>1 DEF Start, fileVars, heapVars
  <1>8. ASSUME NEW w \in Pthreads, Finish(w) PROVE TypeOK'
    BY <1>8 DEF Finish, fileVars, heapVars
  <1>9. ASSUME NEW w \in Pthreads, Collect(w) PROVE TypeOK'
    BY <1>9 DEF Collect, fileVars, heapVars
  <1>10. ASSUME NEW w \in Pthreads, OnLoad(w) PROVE TypeOK'
    BY <1>10 DEF OnLoad, Receive, ReclaimOnMessage, fileVars, heapVars
  <1>11. ASSUME NEW w \in Pthreads, OnRun(w) PROVE TypeOK'
    BY <1>11 DEF OnRun, Receive, fileVars, heapVars
  <1>12. ASSUME NEW w \in Pthreads, NEW c \in Configs \cup {NoHttp}, OnHTTPOptions(w, c)
         PROVE TypeOK'
    BY <1>12 DEF OnHTTPOptions, Receive, poolVars, fileVars, heapVars
  <1>13. ASSUME NEW w \in Pthreads, NEW n \in Files, NEW h \in Handles \cup {NoHandle},
                OnFileHandle(w, n, h)
         PROVE TypeOK'
    <2>1. mail' = [mail EXCEPT ![w] = Tail(@)] /\ mail[w] # <<>>
      BY <1>13 DEF OnFileHandle, Receive
    <2>2. files' \in [Scopes -> [Files -> Handles \cup {NoHandle}]]
      BY <1>13 DEF OnFileHandle
    <2>3. mail' \in [Pthreads -> Seq(Messages)]
      BY <2>1
    <2> QED BY <1>13, <2>2, <2>3 DEF OnFileHandle, poolVars, heapVars
  <1>14. ASSUME NEW f, NEW r, NEW refused, CreateScalarFunction(f, r, refused) PROVE TypeOK'
    BY <1>14 DEF CreateScalarFunction, poolVars, fileVars, heapVars
  <1>15. CASE Reset
    BY <1>15 DEF Reset, poolVars, fileVars, heapVars
  <1>16. ASSUME NEW id, NEW k, NEW g, CallFunction(id, k, g) PROVE TypeOK'
    BY <1>16 DEF CallFunction, poolVars, fileVars, heapVars
  <1>17. CASE UNCHANGED vars
    BY <1>17 DEF vars, poolVars, fileVars, heapVars
  <1> QED
    BY <1>1, <1>2, <1>3, <1>4, <1>5, <1>6, <1>7, <1>8, <1>9, <1>10, <1>11, <1>12, <1>13,
       <1>14, <1>15, <1>16, <1>17 DEF Next, Worker

LEMMA IInvInitially == Init => IInv
  <1> SUFFICES ASSUME Init PROVE IInv
    OBVIOUS
  <1>1. Reclaimed
    BY DEF Init, Reclaimed
  <1>2. ASSUME NEW w \in Pthreads
        PROVE  Agrees(mail[w], http[w], http[Main], startedWith[w], pool[w], w \in exec)
    <2>1. mail[w] = <<>> /\ pool[w] = "none" /\ w \notin exec
      BY DEF Init
    <2> QED BY <2>1 DEF Agrees
  <1> QED BY TypeInitially, <1>1, <1>2 DEF IInv, WorkersAgree

\* A worker that nothing happens to.
LEMMA UntouchedAgrees ==
  ASSUME IInv, NEW w \in Pthreads,
         mail'[w] = mail[w], http'[w] = http[w], http'[Main] = http[Main],
         startedWith'[w] = startedWith[w], pool'[w] = pool[w], w \in exec' <=> w \in exec
  PROVE  Agrees(mail'[w], http'[w], http'[Main], startedWith'[w], pool'[w], w \in exec')
  <1>1. Agrees(mail[w], http[w], http[Main], startedWith[w], pool[w], w \in exec)
    BY DEF IInv, WorkersAgree
  <1>2. (w \in exec') = (w \in exec)
    OBVIOUS
  <1> QED BY <1>1, <1>2

\* A worker that takes a message, by the message's kind.
LEMMA ReceiverAgrees ==
  ASSUME IInv, NEW w \in Pthreads, NEW msg, Receive(w, msg),
         http'[Main] = http[Main], startedWith'[w] = startedWith[w], pool'[w] = pool[w],
         \/ /\ msg.cmd \notin {"http", "run"}
            /\ http'[w] = http[w] /\ w \notin exec'
         \/ /\ msg.cmd = "http"
            /\ http'[w] = msg.http /\ w \notin exec'
         \/ /\ msg.cmd = "run"
            /\ http'[w] = http[w] /\ w \in exec'
  PROVE  Agrees(mail'[w], http'[w], http'[Main], startedWith'[w], pool'[w], w \in exec')
  <1> DEFINE m == mail[w]
  <1>1. m \in Seq(Messages) /\ m # <<>> /\ m[1] = msg
    BY DEF IInv, TypeOK, Receive
  <1>2. mail'[w] = Tail(m)
    BY DEF IInv, TypeOK, Receive
  <1>3. (w \in exec) = FALSE
    BY DEF Receive
  <1>4. Agrees(m, http[w], http[Main], startedWith[w], pool[w], FALSE)
    BY <1>3 DEF IInv, WorkersAgree
  <1> HIDE DEF m
  <1>5. CASE msg.cmd \notin {"http", "run"}
    <2>1. (w \in exec') = FALSE /\ http'[w] = http[w]
      BY <1>5
    <2>2. Agrees(Tail(m), http[w], http[Main], startedWith[w], pool[w], FALSE)
      BY <1>1, <1>4, <1>5, AgreesTakeOther
    <2> QED BY <2>1, <2>2, <1>2
  <1>6. CASE msg.cmd = "http"
    <2>1. (w \in exec') = FALSE /\ http'[w] = m[1].http
      BY <1>1, <1>6
    <2>2. Agrees(Tail(m), m[1].http, http[Main], startedWith[w], pool[w], FALSE)
      BY <1>1, <1>4, <1>6, AgreesTakeOptions
    <2> QED BY <2>1, <2>2, <1>2
  <1>7. CASE msg.cmd = "run"
    <2>1. (w \in exec') = TRUE /\ http'[w] = http[w]
      BY <1>7
    <2>2. Agrees(Tail(m), http[w], http[Main], startedWith[w], pool[w], TRUE)
      BY <1>1, <1>4, <1>7, AgreesTakeRun
    <2> QED BY <2>1, <2>2, <1>2
  <1> QED BY <1>5, <1>6, <1>7

\* The steps that touch no worker.
LEMMA QuietStep ==
  ASSUME IInv, mail' = mail, http' = http, startedWith' = startedWith,
         pool' = pool, exec' = exec, handler' = handler
  PROVE  Reclaimed' /\ WorkersAgree'
  <1>1. Reclaimed'
    BY DEF IInv, Reclaimed
  <1> QED BY <1>1, UntouchedAgrees DEF WorkersAgree

\* A step of one worker leaves the others alone.
LEMMA OneWorkerStep ==
  ASSUME IInv, NEW w \in Pthreads,
         \A v \in Pthreads \ {w} :
           /\ mail'[v] = mail[v] /\ http'[v] = http[v] /\ startedWith'[v] = startedWith[v]
           /\ pool'[v] = pool[v] /\ (v \in exec' <=> v \in exec)
           /\ handler'[v] = handler[v],
         http'[Main] = http[Main],
         handler'[w] = "duckdb",
         Agrees(mail'[w], http'[w], http'[Main], startedWith'[w], pool'[w], w \in exec')
  PROVE  Reclaimed' /\ WorkersAgree'
  <1>1. Reclaimed'
    BY DEF IInv, Reclaimed
  <1>2. ASSUME NEW v \in Pthreads
        PROVE  Agrees(mail'[v], http'[v], http'[Main], startedWith'[v], pool'[v], v \in exec')
    <2>1. CASE v = w
      BY <2>1
    <2>2. CASE v # w
      BY <2>2, UntouchedAgrees
    <2> QED BY <2>1, <2>2
  <1> QED BY <1>1, <1>2 DEF WorkersAgree

LEMMA WorkersStillAgree ==
  ASSUME IInv, [Next]_vars
  PROVE  Reclaimed' /\ WorkersAgree'
  <1>1. ASSUME NEW s \in Scopes, Grow(s) PROVE Reclaimed' /\ WorkersAgree'
    BY <1>1, QuietStep DEF Grow, poolVars
  <1>2. ASSUME NEW s \in Scopes, NEW u, NEW end, Request(s, u, end)
        PROVE  Reclaimed' /\ WorkersAgree'
    BY <1>2, QuietStep DEF Request, poolVars
  <1>3. ASSUME NEW c \in Configs \cup {NoHttp}, SetHTTPOptions(c)
        PROVE  Reclaimed' /\ WorkersAgree'
    <2> DEFINE msg == [cmd |-> "http", http |-> c]
    <2>1. /\ pool' = pool /\ handler' = handler /\ exec' = exec /\ startedWith' = startedWith
          /\ http' = [http EXCEPT ![Main] = c]
          /\ mail' = [w \in Pthreads |-> IF w \in Spawned THEN Append(mail[w], msg) ELSE mail[w]]
      BY <1>3 DEF SetHTTPOptions, PostToSpawned, poolVars
    <2>2. http'[Main] = c /\ \A w \in Pthreads : http'[w] = http[w]
      BY <2>1, ScopesAssumption DEF IInv, TypeOK, Scopes
    <2>3. msg \in Messages /\ msg.cmd = "http" /\ msg.http = c
      BY DEF Messages, HttpMessages
    <2> HIDE DEF msg
    <2>4. ASSUME NEW w \in Pthreads
          PROVE  Agrees(mail'[w], http'[w], http'[Main], startedWith'[w], pool'[w], w \in exec')
      <3>1. Agrees(mail[w], http[w], http[Main], startedWith[w], pool[w], w \in exec)
        BY DEF IInv, WorkersAgree
      <3>2. (w \in exec') = (w \in exec) /\ (w \in exec) \in BOOLEAN
        BY <2>1
      <3>3. mail[w] \in Seq(Messages)
        BY DEF IInv, TypeOK
      <3>4. CASE w \in Spawned
        <4>1. mail'[w] = Append(mail[w], msg)
          BY <2>1, <3>4
        <4>2. Agrees(Append(mail[w], msg), http[w], msg.http, startedWith[w], pool[w], w \in exec)
          BY <3>1, <3>2, <3>3, <2>3, AgreesAppendOptions
        <4> QED BY <4>1, <4>2, <2>1, <2>2, <2>3, <3>2
      <3>5. CASE w \notin Spawned
        <4>1. mail'[w] = mail[w] /\ pool[w] = "none"
          BY <2>1, <3>5 DEF Spawned
        <4>2. Agrees(mail[w], http[w], c, startedWith[w], pool[w], w \in exec)
          BY <3>1, <4>1 DEF Agrees
        <4> QED BY <4>1, <4>2, <2>1, <2>2, <3>2
      <3> QED BY <3>4, <3>5
    <2>5. Reclaimed'
      BY <2>1 DEF IInv, Reclaimed
    <2> QED BY <2>4, <2>5 DEF WorkersAgree
  <1>4. ASSUME NEW n \in Files, NEW h \in Handles, RegisterFileHandle(n, h)
        PROVE  Reclaimed' /\ WorkersAgree'
    <2>1. /\ pool' = pool /\ handler' = handler /\ exec' = exec /\ startedWith' = startedWith
          /\ http' = http
          /\ mail' = mail \/ mail' = [w \in Pthreads |-> TellHandle(w, n, h)]
      BY <1>4 DEF RegisterFileHandle, poolVars
    <2>2. CASE mail' = mail
      BY <2>1, <2>2, QuietStep
    <2>3. CASE mail' = [w \in Pthreads |-> TellHandle(w, n, h)]
      <3>1. ASSUME NEW w \in Pthreads
            PROVE  Agrees(mail'[w], http'[w], http'[Main], startedWith'[w], pool'[w], w \in exec')
        <4>1. Agrees(mail[w], http[w], http[Main], startedWith[w], pool[w], w \in exec)
          BY DEF IInv, WorkersAgree
        <4>2. (w \in exec') = (w \in exec) /\ (w \in exec) \in BOOLEAN
          BY <2>1
        <4>3. PICK msg \in Messages :
                /\ msg.cmd \notin {"http", "run"}
                /\ mail'[w] = mail[w] \/ mail'[w] = Append(mail[w], msg)
          <5>1. /\ RegisterMsg(n, h) \in Messages
                /\ RegisterMsg(n, h).cmd = "registerFileHandle"
                /\ DropMsg(n) \in Messages
                /\ DropMsg(n).cmd = "dropFileHandle"
            BY DEF RegisterMsg, DropMsg, Messages, FileMessages
          <5>2. pool[w] \in {"none", "unused", "running"}
            BY DEF IInv, TypeOK
          <5>3. mail'[w] = TellHandle(w, n, h)
            BY <2>3
          <5>4. \/ mail'[w] = mail[w]
                \/ mail'[w] = Append(mail[w], RegisterMsg(n, h))
                \/ mail'[w] = Append(mail[w], DropMsg(n))
            BY <5>2, <5>3 DEF TellHandle
          <5> QED BY <5>1, <5>4
        <4>4. mail[w] \in Seq(Messages)
          BY DEF IInv, TypeOK
        <4>5. Agrees(Append(mail[w], msg), http[w], http[Main], startedWith[w], pool[w], w \in exec)
          BY <4>1, <4>2, <4>3, <4>4, AgreesAppendOther
        <4> QED BY <2>1, <4>1, <4>2, <4>3, <4>5
      <3>2. Reclaimed'
        BY <2>1 DEF IInv, Reclaimed
      <3> QED BY <3>1, <3>2 DEF WorkersAgree
    <2> QED BY <2>1, <2>2, <2>3
  <1>5. ASSUME NEW n \in Files, DropFile(n) PROVE Reclaimed' /\ WorkersAgree'
    BY <1>5, QuietStep DEF DropFile, poolVars
  <1>6. ASSUME NEW w \in Pthreads, Spawn(w) PROVE Reclaimed' /\ WorkersAgree'
    <2>1. /\ pool[w] = "none" /\ pool' = [pool EXCEPT ![w] = "unused"]
          /\ http' = [http EXCEPT ![w] = http[Main]]
          /\ mail' = [mail EXCEPT ![w] = <<[cmd |-> "load"]>>]
          /\ handler' = handler /\ exec' = exec /\ startedWith' = startedWith
      BY <1>6 DEF Spawn, BootOptions
    <2>2. w \notin exec
      BY <2>1 DEF IInv, WorkersAgree, Agrees
    <2>3. /\ pool'[w] = "unused" /\ http'[w] = http[Main] /\ http'[Main] = http[Main]
          /\ mail'[w] = <<[cmd |-> "load"]>>
      BY <2>1, ScopesAssumption DEF IInv, TypeOK, Scopes
    <2>4. /\ Len(<<[cmd |-> "load"]>>) = 1
          /\ \A k \in 1 .. 1 : <<[cmd |-> "load"]>>[k].cmd = "load"
      OBVIOUS
    <2>5. EndsWith(mail'[w], Len(mail'[w]), http'[w], http'[Main])
      BY <2>3, <2>4 DEF EndsWith
    <2>6. \A k \in 1 .. Len(mail'[w]) : mail'[w][k].cmd # "run"
      BY <2>3, <2>4
    <2>7. w \notin exec'
      BY <2>1, <2>2
    <2>8. Agrees(mail'[w], http'[w], http'[Main], startedWith'[w], pool'[w], w \in exec')
      BY <2>5, <2>6, <2>7 DEF Agrees
    <2>9. handler'[w] = "duckdb"
      BY <2>1 DEF IInv, Reclaimed
    <2> QED BY <2>1, <2>3, <2>8, <2>9, OneWorkerStep
  <1>7. ASSUME NEW w \in Pthreads, Start(w) PROVE Reclaimed' /\ WorkersAgree'
    <2> DEFINE msg == [cmd |-> "run"]
    <2>1. /\ pool[w] = "unused" /\ pool' = [pool EXCEPT ![w] = "running"]
          /\ http' = http /\ mail' = [mail EXCEPT ![w] = Append(mail[w], msg)]
          /\ handler' = handler /\ exec' = exec
          /\ startedWith' = [startedWith EXCEPT ![w] = http[Main]]
      BY <1>7 DEF Start
    <2>2. msg \in Messages /\ msg.cmd = "run"
      BY DEF Messages
    <2> HIDE DEF msg
    <2>3. /\ pool'[w] = "running" /\ mail'[w] = Append(mail[w], msg)
          /\ startedWith'[w] = http[Main] /\ mail[w] \in Seq(Messages)
      BY <2>1 DEF IInv, TypeOK
    <2>4. Agrees(mail[w], http[w], http[Main], startedWith[w], "unused", w \in exec)
      BY <2>1 DEF IInv, WorkersAgree
    <2>5. (w \in exec') = (w \in exec) /\ (w \in exec) \in BOOLEAN
      BY <2>1
    <2>6. Agrees(Append(mail[w], msg), http[w], http[Main], http[Main], "running", w \in exec)
      BY <2>2, <2>3, <2>4, <2>5, AgreesAppendRun
    <2>7. Agrees(mail'[w], http'[w], http'[Main], startedWith'[w], pool'[w], w \in exec')
      BY <2>1, <2>3, <2>5, <2>6
    <2>8. handler'[w] = "duckdb"
      BY <2>1 DEF IInv, Reclaimed
    <2> QED BY <2>1, <2>7, <2>8, OneWorkerStep DEF IInv, TypeOK
  <1>8. ASSUME NEW w \in Pthreads, Finish(w) PROVE Reclaimed' /\ WorkersAgree'
    <2>1. /\ w \in exec /\ exec' = exec \ {w}
          /\ http' = http /\ mail' = mail /\ pool' = pool /\ handler' = handler
          /\ startedWith' = startedWith
      BY <1>8 DEF Finish
    <2>2. Agrees(mail[w], http[w], http[Main], startedWith[w], pool[w], w \in exec)
      BY DEF IInv, WorkersAgree
    <2>3. w \notin exec'
      BY <2>1
    <2>4. Agrees(mail'[w], http'[w], http'[Main], startedWith'[w], pool'[w], w \in exec')
      BY <2>1, <2>2, <2>3 DEF Agrees
    <2>5. handler'[w] = "duckdb"
      BY <2>1 DEF IInv, Reclaimed
    <2> QED BY <2>1, <2>4, <2>5, OneWorkerStep
  <1>9. ASSUME NEW w \in Pthreads, Collect(w) PROVE Reclaimed' /\ WorkersAgree'
    <2>1. /\ pool[w] = "running" /\ w \notin exec
          /\ \A i \in DOMAIN mail[w] : mail[w][i].cmd # "run"
          /\ pool' = [pool EXCEPT ![w] = "unused"]
          /\ http' = http /\ mail' = mail /\ exec' = exec /\ handler' = handler
          /\ startedWith' = startedWith
      BY <1>9 DEF Collect
    <2>2. Agrees(mail[w], http[w], http[Main], startedWith[w], pool[w], w \in exec)
      BY DEF IInv, WorkersAgree
    <2>3. DOMAIN mail[w] = 1 .. Len(mail[w])
      BY DEF IInv, TypeOK
    <2>4. \A i \in 1 .. Len(mail[w]) : mail[w][i].cmd # "run"
      BY <2>1, <2>3
    <2>5. EndsWith(mail[w], Len(mail[w]), http[w], http[Main])
      BY <2>1, <2>2 DEF Agrees
    <2>6. Agrees(mail'[w], http'[w], http'[Main], startedWith'[w], pool'[w], w \in exec')
      BY <2>1, <2>4, <2>5 DEF Agrees
    <2>7. handler'[w] = "duckdb"
      BY <2>1 DEF IInv, Reclaimed
    <2> QED BY <2>1, <2>6, <2>7, OneWorkerStep DEF IInv, TypeOK
  <1>10. ASSUME NEW w \in Pthreads, OnLoad(w) PROVE Reclaimed' /\ WorkersAgree'
    <2>1. /\ Receive(w, [cmd |-> "load"])
          /\ handler' = [handler EXCEPT ![w] = "duckdb"]
          /\ http' = http /\ pool' = pool /\ exec' = exec /\ startedWith' = startedWith
      BY <1>10 DEF OnLoad, ReclaimOnMessage
    <2>0. w \notin exec /\ w \notin exec'
      BY <2>1 DEF Receive
    <2>2. Agrees(mail'[w], http'[w], http'[Main], startedWith'[w], pool'[w], w \in exec')
      BY <2>0, <2>1, ReceiverAgrees
    <2>3. handler'[w] = "duckdb"
      BY <2>1 DEF IInv, TypeOK
    <2>4. \A v \in Pthreads \ {w} : mail'[v] = mail[v] /\ handler'[v] = handler[v]
      BY <2>1 DEF Receive, IInv, TypeOK
    <2> QED BY <2>1, <2>2, <2>3, <2>4, OneWorkerStep
  <1>11. ASSUME NEW w \in Pthreads, OnRun(w) PROVE Reclaimed' /\ WorkersAgree'
    <2>1. /\ Receive(w, [cmd |-> "run"])
          /\ exec' = exec \cup {w}
          /\ http' = http /\ pool' = pool /\ handler' = handler /\ startedWith' = startedWith
      BY <1>11 DEF OnRun
    <2>2. Agrees(mail'[w], http'[w], http'[Main], startedWith'[w], pool'[w], w \in exec')
      BY <2>1, ReceiverAgrees
    <2>3. handler'[w] = "duckdb"
      BY <2>1 DEF IInv, Reclaimed
    <2>4. \A v \in Pthreads \ {w} : mail'[v] = mail[v]
      BY <2>1 DEF Receive, IInv, TypeOK
    <2> QED BY <2>1, <2>2, <2>3, <2>4, OneWorkerStep
  <1>12. ASSUME NEW w \in Pthreads, NEW c \in Configs \cup {NoHttp}, OnHTTPOptions(w, c)
         PROVE  Reclaimed' /\ WorkersAgree'
    <2>1. /\ Receive(w, [cmd |-> "http", http |-> c])
          /\ http' = [http EXCEPT ![w] = c]
          /\ exec' = exec /\ pool' = pool /\ handler' = handler /\ startedWith' = startedWith
      BY <1>12 DEF OnHTTPOptions, poolVars, IInv, Reclaimed
    <2>2. http'[w] = c /\ http'[Main] = http[Main] /\ w \notin exec
      BY <2>1, ScopesAssumption DEF IInv, TypeOK, Scopes, Receive
    <2>3. Agrees(mail'[w], http'[w], http'[Main], startedWith'[w], pool'[w], w \in exec')
      BY <2>1, <2>2, ReceiverAgrees
    <2>4. handler'[w] = "duckdb"
      BY <2>1 DEF IInv, Reclaimed
    <2>5. \A v \in Pthreads \ {w} : mail'[v] = mail[v] /\ http'[v] = http[v]
      BY <2>1 DEF Receive, IInv, TypeOK, Scopes
    <2> QED BY <2>1, <2>2, <2>3, <2>4, <2>5, OneWorkerStep
  <1>13. ASSUME NEW w \in Pthreads, NEW n \in Files, NEW h \in Handles \cup {NoHandle},
                OnFileHandle(w, n, h)
         PROVE  Reclaimed' /\ WorkersAgree'
    <2>1. PICK msg : Receive(w, msg) /\ msg.cmd \notin {"http", "run"}
      <3>1. /\ RegisterMsg(n, h).cmd = "registerFileHandle"
            /\ DropMsg(n).cmd = "dropFileHandle"
        BY DEF RegisterMsg, DropMsg
      <3> QED BY <1>13, <3>1 DEF OnFileHandle
    <2>2. /\ http' = http /\ pool' = pool /\ exec' = exec /\ handler' = handler
          /\ startedWith' = startedWith
      BY <1>13 DEF OnFileHandle, poolVars
    <2>3. Agrees(mail'[w], http'[w], http'[Main], startedWith'[w], pool'[w], w \in exec')
      BY <2>1, <2>2, ReceiverAgrees DEF Receive
    <2>4. handler'[w] = "duckdb"
      BY <2>2 DEF IInv, Reclaimed
    <2>5. \A v \in Pthreads \ {w} : mail'[v] = mail[v]
      BY <2>1 DEF Receive, IInv, TypeOK
    <2> QED BY <2>2, <2>3, <2>4, <2>5, OneWorkerStep
  <1>14. ASSUME NEW f, NEW r, NEW refused, CreateScalarFunction(f, r, refused)
         PROVE  Reclaimed' /\ WorkersAgree'
    BY <1>14, QuietStep DEF CreateScalarFunction, poolVars
  <1>15. CASE Reset
    BY <1>15, QuietStep DEF Reset, poolVars
  <1>16. ASSUME NEW id, NEW k, NEW g, CallFunction(id, k, g) PROVE Reclaimed' /\ WorkersAgree'
    BY <1>16, QuietStep DEF CallFunction, poolVars
  <1>17. CASE UNCHANGED vars
    BY <1>17, QuietStep DEF vars, poolVars
  <1> QED
    BY <1>1, <1>2, <1>3, <1>4, <1>5, <1>6, <1>7, <1>8, <1>9, <1>10, <1>11, <1>12, <1>13,
       <1>14, <1>15, <1>16, <1>17 DEF Next, Worker

----------------------------------------------------------------------------
\* The invariant of the mail holds in every behaviour.
THEOREM ScopesInvariance == Spec => []IInv
  <1>1. ASSUME IInv, [Next]_vars PROVE IInv'
    <2>1. TypeOK'
      BY <1>1, TypeKept DEF IInv
    <2> QED BY <1>1, <2>1, WorkersStillAgree DEF IInv
  <1> QED BY IInvInitially, <1>1, PTL DEF Spec

\* The state keeps its shape: messages are of the three kinds, and no scope
\* takes the memory for larger than it is.
THEOREM ScopesTypeCorrect == Spec => []TypeOK
  <1>1. IInv => TypeOK
    BY DEF IInv
  <1> QED BY <1>1, ScopesInvariance, PTL

\* A thread runs under the options that the main scope had when it started
\* it (http_options.ts:11-15), for any number of workers and of messages.
THEOREM OptionsReachThreads == Spec => []ThreadsHaveTheirOptions
  <1>1. IInv => ThreadsHaveTheirOptions
    BY DEF IInv, TypeOK, WorkersAgree, Agrees, ThreadsHaveTheirOptions
  <1> QED BY <1>1, ScopesInvariance, PTL

----------------------------------------------------------------------------
(* The handles of the workers. *)

\* A message about the file n, and the handle a worker has for n after it.
About(msg, n) == msg.cmd \in {"registerFileHandle", "dropFileHandle"} /\ msg.file = n

Brings(msg) == IF msg.cmd = "registerFileHandle" THEN msg.handle ELSE NoHandle

\* A worker with the handle c for n has d after the messages of m.
LeavesWith(m, n, c, d) ==
  \/ /\ \A j \in 1 .. Len(m) : ~About(m[j], n)
     /\ c = d
  \/ \E i \in 1 .. Len(m) :
       /\ About(m[i], n)
       /\ Brings(m[i]) = d
       /\ \A j \in i + 1 .. Len(m) : ~About(m[j], n)

\* What the mail of a spawned worker leaves it with for a name is the latest
\* handle of that name or none; a worker that was never spawned has nothing.
HandlesFollow ==
  \A w \in Pthreads, n \in Files :
    /\ pool[w] = "none" => mail[w] = <<>> /\ files[w][n] = NoHandle
    /\ pool[w] # "none" /\ latest[n].told =>
         \E h \in {NoHandle, latest[n].handle} : LeavesWith(mail[w], n, files[w][n], h)

\* A message about another file, or about none, changes nothing ...
LEMMA LeavesAfterOther ==
  ASSUME NEW S, NEW m \in Seq(S), NEW x \in S, NEW n, ~About(x, n), NEW c, NEW d,
         LeavesWith(m, n, c, d)
  PROVE  LeavesWith(Append(m, x), n, c, d)
  <1> DEFINE a == Append(m, x)
  <1>1. Len(a) = Len(m) + 1 /\ Len(m) \in Nat /\ a[Len(m) + 1] = x
    OBVIOUS
  <1>2. \A j \in 1 .. Len(m) : a[j] = m[j]
    OBVIOUS
  <1> HIDE DEF a
  <1>3. CASE (\A j \in 1 .. Len(m) : ~About(m[j], n)) /\ c = d
    <2>1. \A j \in 1 .. Len(a) : ~About(a[j], n)
      BY <1>1, <1>2, <1>3
    <2>2. LeavesWith(a, n, c, d)
      BY <2>1, <1>3 DEF LeavesWith
    <2> QED BY <2>2 DEF a
  <1>4. ASSUME NEW i \in 1 .. Len(m), About(m[i], n), Brings(m[i]) = d,
               \A j \in i + 1 .. Len(m) : ~About(m[j], n)
        PROVE  LeavesWith(Append(m, x), n, c, d)
    <2>1. i \in 1 .. Len(a) /\ a[i] = m[i]
      BY <1>1, <1>2
    <2>2. \A j \in i + 1 .. Len(a) : ~About(a[j], n)
      BY <1>1, <1>2, <1>4
    <2>3. LeavesWith(a, n, c, d)
      BY <2>1, <2>2, <1>4 DEF LeavesWith
    <2> QED BY <2>3 DEF a
  <1> QED BY <1>3, <1>4 DEF LeavesWith

\* ... one about the file is what counts when it comes last ...
LEMMA LeavesAfterAbout ==
  ASSUME NEW S, NEW m \in Seq(S), NEW x \in S, NEW n, About(x, n), NEW c
  PROVE  LeavesWith(Append(m, x), n, c, Brings(x))
  <1> DEFINE a == Append(m, x)
  <1>1. Len(a) = Len(m) + 1 /\ Len(m) \in Nat /\ a[Len(m) + 1] = x
    OBVIOUS
  <1> HIDE DEF a
  <1>2. Len(a) \in 1 .. Len(a) /\ Len(a) + 1 .. Len(a) = {}
    BY <1>1
  <1>3. LeavesWith(a, n, c, Brings(x))
    BY <1>1, <1>2 DEF LeavesWith
  <1> QED BY <1>3 DEF a

\* ... and a message that is taken has been counted already.
LEMMA LeavesTail ==
  ASSUME NEW S, NEW m \in Seq(S), m # <<>>, NEW n, NEW c, NEW d, LeavesWith(m, n, c, d)
  PROVE  LeavesWith(Tail(m), n, IF About(m[1], n) THEN Brings(m[1]) ELSE c, d)
  <1> DEFINE t == Tail(m)
              b == IF About(m[1], n) THEN Brings(m[1]) ELSE c
  <1>1. Len(t) = Len(m) - 1 /\ Len(m) \in Nat /\ Len(m) >= 1
    OBVIOUS
  <1>2. \A j \in 1 .. Len(t) : t[j] = m[j + 1]
    OBVIOUS
  <1> HIDE DEF t, b
  <1>3. CASE (\A j \in 1 .. Len(m) : ~About(m[j], n)) /\ c = d
    <2>1. \A j \in 1 .. Len(t) : ~About(t[j], n)
      BY <1>1, <1>2, <1>3
    <2>2. b = d
      BY <1>1, <1>3 DEF b
    <2>3. LeavesWith(t, n, b, d)
      BY <2>1, <2>2 DEF LeavesWith
    <2> QED BY <2>3 DEF t, b
  <1>4. ASSUME NEW i \in 1 .. Len(m), About(m[i], n), Brings(m[i]) = d,
               \A j \in i + 1 .. Len(m) : ~About(m[j], n)
        PROVE  LeavesWith(Tail(m), n, IF About(m[1], n) THEN Brings(m[1]) ELSE c, d)
    <2>1. CASE i = 1
      <3>1. b = d
        BY <1>4, <2>1 DEF b
      <3>2. \A j \in 1 .. Len(t) : ~About(t[j], n)
        BY <1>1, <1>2, <1>4, <2>1
      <3>3. LeavesWith(t, n, b, d)
        BY <3>1, <3>2 DEF LeavesWith
      <3> QED BY <3>3 DEF t, b
    <2>2. CASE i # 1
      <3>1. i - 1 \in 1 .. Len(t) /\ t[i - 1] = m[i]
        BY <1>1, <1>2, <2>2
      <3>2. \A j \in (i - 1) + 1 .. Len(t) : ~About(t[j], n)
        BY <1>1, <1>2, <1>4
      <3>3. LeavesWith(t, n, b, d)
        BY <3>1, <3>2, <1>4 DEF LeavesWith
      <3> QED BY <3>3 DEF t, b
    <2> QED BY <2>1, <2>2
  <1> QED BY <1>3, <1>4 DEF LeavesWith

\* The last message about a name is the one that HandleToBe chooses.
LEMMA HandleToBeIs ==
  ASSUME TypeOK, NEW w \in Pthreads, NEW n \in Files, NEW d,
         LeavesWith(mail[w], n, files[w][n], d)
  PROVE  HandleToBe(w, n) = d
  <1> DEFINE m == mail[w]
              about == {i \in DOMAIN m : About(m[i], n)}
              last == CHOOSE i \in about : \A j \in about : j <= i
  <1>1. m \in Seq(Messages) /\ DOMAIN m = 1 .. Len(m)
    BY DEF TypeOK
  <1>2. HandleToBe(w, n) = IF about = {} THEN files[w][n] ELSE Brings(m[last])
    BY DEF HandleToBe, About, Brings
  <1>3. CASE (\A j \in 1 .. Len(m) : ~About(m[j], n)) /\ files[w][n] = d
    <2>1. about = {}
      BY <1>1, <1>3
    <2> QED BY <1>2, <1>3, <2>1
  <1>4. ASSUME NEW i \in 1 .. Len(m), About(m[i], n), Brings(m[i]) = d,
               \A j \in i + 1 .. Len(m) : ~About(m[j], n)
        PROVE  HandleToBe(w, n) = d
    <2>1. i \in about /\ about \subseteq 1 .. Len(m)
      BY <1>1, <1>4
    <2>2. \A j \in about : j <= i
      <3> SUFFICES ASSUME NEW j \in about, ~(j <= i) PROVE FALSE
        OBVIOUS
      <3>1. j \in i + 1 .. Len(m)
        BY <1>1, <2>1
      <3> QED BY <1>4, <3>1
    <2> HIDE DEF about
    <2>3. \E k \in about : \A j \in about : j <= k
      BY <2>1, <2>2
    <2>4. last \in about /\ \A j \in about : j <= last
      BY <2>3
    <2> HIDE DEF last
    <2>5. last = i
      BY <2>1, <2>2, <2>4
    <2> QED BY <1>2, <1>4, <2>1, <2>5
  <1> QED BY <1>3, <1>4 DEF LeavesWith

\* A worker that takes a message: what the mail brought, the message and the rest bring.
LEMMA ReceiverFollows ==
  ASSUME IInv, HandlesFollow, NEW w \in Pthreads, NEW msg, Receive(w, msg), pool' = pool,
         latest' = latest, NEW n \in Files,
         files'[w][n] = IF About(msg, n) THEN Brings(msg) ELSE files[w][n],
         pool[w] # "none", latest[n].told
  PROVE  \E h \in {NoHandle, latest[n].handle} : LeavesWith(mail'[w], n, files'[w][n], h)
  <1>1. PICK h \in {NoHandle, latest[n].handle} : LeavesWith(mail[w], n, files[w][n], h)
    BY DEF HandlesFollow
  <1>2. mail[w] \in Seq(Messages) /\ mail[w] # <<>> /\ mail[w][1] = msg /\ mail'[w] = Tail(mail[w])
    BY DEF Receive, IInv, TypeOK
  <1>3. LeavesWith(Tail(mail[w]), n, IF About(msg, n) THEN Brings(msg) ELSE files[w][n], h)
    BY <1>1, <1>2, LeavesTail
  <1> QED BY <1>2, <1>3

\* A worker whose mail only gets a message about no file.
LEMMA OtherPostFollows ==
  ASSUME IInv, HandlesFollow, NEW w \in Pthreads, NEW n \in Files,
         NEW msg \in Messages, ~About(msg, n),
         mail'[w] \in {mail[w], Append(mail[w], msg)}, files'[w][n] = files[w][n],
         pool[w] # "none", latest[n].told
  PROVE  \E h \in {NoHandle, latest[n].handle} : LeavesWith(mail'[w], n, files'[w][n], h)
  <1>1. PICK h \in {NoHandle, latest[n].handle} : LeavesWith(mail[w], n, files[w][n], h)
    BY DEF HandlesFollow
  <1>2. mail[w] \in Seq(Messages)
    BY DEF IInv, TypeOK
  <1>3. LeavesWith(Append(mail[w], msg), n, files[w][n], h)
    BY <1>1, <1>2, LeavesAfterOther
  <1> QED BY <1>1, <1>3

\* The main scope registers a file: it tells running workers the handle, and the others to
\* forget the one they have.
LEMMA RegisterFollows ==
  ASSUME IInv, HandlesFollow, NEW f \in Files, NEW g \in Handles, RegisterFileHandle(f, g)
  PROVE  HandlesFollow'
  <1> DEFINE throws == g \in Uncloneable /\ \E w \in Pthreads : pool[w] = "running"
  <1>1. /\ files' = [files EXCEPT ![Main][f] = g]
        /\ latest' = [latest EXCEPT ![f] = [handle |-> g, told |-> ~throws]]
        /\ mail' = IF throws THEN mail ELSE [w \in Pthreads |-> TellHandle(w, f, g)]
        /\ pool' = pool
    BY DEF RegisterFileHandle, poolVars
  <1>2. TypeOK /\ Main \notin Pthreads
    BY ScopesAssumption DEF IInv
  <1>3. \A w \in Pthreads : files'[w] = files[w]
    BY <1>1, <1>2 DEF TypeOK, Scopes
  <1>4. /\ latest'[f].handle = g /\ (latest'[f].told <=> ~throws)
        /\ \A n \in Files \ {f} : latest'[n] = latest[n]
    BY <1>1, <1>2 DEF TypeOK
  <1> HIDE DEF throws
  <1>5. ASSUME NEW w \in Pthreads, pool[w] = "none", NEW n \in Files
        PROVE  mail'[w] = <<>> /\ files'[w][n] = NoHandle
    <2>1. TellHandle(w, f, g) = mail[w]
      BY <1>5 DEF TellHandle
    <2> QED BY <1>1, <1>3, <1>5, <2>1 DEF HandlesFollow
  <1>6. ASSUME NEW w \in Pthreads, pool[w] # "none"
        PROVE  \E msg \in {RegisterMsg(f, g), DropMsg(f)} :
                  mail'[w] = IF throws THEN mail[w] ELSE Append(mail[w], msg)
    <2>1. pool[w] \in {"unused", "running"}
      BY <1>2, <1>6 DEF TypeOK
    <2>2. \/ TellHandle(w, f, g) = Append(mail[w], RegisterMsg(f, g))
          \/ TellHandle(w, f, g) = Append(mail[w], DropMsg(f))
      BY <2>1 DEF TellHandle
    <2> QED BY <1>1, <2>2
  <1>7. \A msg \in {RegisterMsg(f, g), DropMsg(f)} :
            /\ msg \in Messages /\ Brings(msg) \in {NoHandle, g}
            /\ \A n \in Files : About(msg, n) <=> n = f
    BY DEF RegisterMsg, DropMsg, Messages, FileMessages, About, Brings
  <1>8. ASSUME NEW w \in Pthreads, NEW n \in Files, pool[w] # "none", latest'[n].told
        PROVE  \E h \in {NoHandle, latest'[n].handle} : LeavesWith(mail'[w], n, files'[w][n], h)
    <2>1. PICK msg \in {RegisterMsg(f, g), DropMsg(f)} :
              mail'[w] = IF throws THEN mail[w] ELSE Append(mail[w], msg)
      BY <1>6, <1>8
    <2>2. mail[w] \in Seq(Messages)
      BY <1>2 DEF TypeOK
    <2>3. CASE n = f
      <3>1. mail'[w] = Append(mail[w], msg)
        BY <1>4, <1>8, <2>1, <2>3
      <3>2. LeavesWith(Append(mail[w], msg), n, files'[w][n], Brings(msg))
        BY <1>7, <2>2, <2>3, LeavesAfterAbout
      <3> QED BY <1>4, <1>7, <2>3, <3>1, <3>2
    <2>4. CASE n # f
      BY <1>3, <1>4, <1>7, <1>8, <2>1, <2>4, OtherPostFollows
    <2> QED BY <2>3, <2>4
  <1> QED BY <1>1, <1>5, <1>8 DEF HandlesFollow

\* A step that tells no worker of a file.
LEMMA NoFileFollows ==
  ASSUME IInv, HandlesFollow, latest' = latest,
         \A w \in Pthreads : files'[w] = files[w] /\ (pool'[w] = "none" <=> pool[w] = "none"),
         \A w \in Pthreads : \/ mail'[w] = mail[w]
                             \/ /\ pool[w] # "none"
                                /\ \E msg \in Messages :
                                      /\ msg.cmd \in {"http", "run"}
                                      /\ mail'[w] = Append(mail[w], msg)
  PROVE  HandlesFollow'
  <1>1. ASSUME NEW w \in Pthreads, NEW n \in Files, pool[w] # "none", latest[n].told
        PROVE  \E h \in {NoHandle, latest[n].handle} : LeavesWith(mail'[w], n, files'[w][n], h)
    <2>1. CASE mail'[w] = mail[w]
      BY <1>1, <2>1 DEF HandlesFollow
    <2>2. ASSUME NEW msg \in Messages, msg.cmd \in {"http", "run"},
                 mail'[w] = Append(mail[w], msg)
          PROVE  \E h \in {NoHandle, latest[n].handle} : LeavesWith(mail'[w], n, files'[w][n], h)
      BY <1>1, <2>2, OtherPostFollows DEF About
    <2> QED BY <2>1, <2>2
  <1> QED BY <1>1 DEF HandlesFollow

\* A worker takes a message, and the others' mail is left alone.
LEMMA TakingFollows ==
  ASSUME IInv, HandlesFollow, latest' = latest, pool' = pool, NEW w \in Pthreads, NEW msg,
         Receive(w, msg), \A v \in Pthreads \ {w} : files'[v] = files[v],
         \A n \in Files : files'[w][n] = IF About(msg, n) THEN Brings(msg) ELSE files[w][n]
  PROVE  HandlesFollow'
  <1>1. mail[w] # <<>> /\ \A v \in Pthreads \ {w} : mail'[v] = mail[v]
    BY DEF Receive, IInv, TypeOK
  <1>2. ASSUME NEW n \in Files, NEW v \in Pthreads \ {w}, pool[v] # "none", latest[n].told
        PROVE  \E h \in {NoHandle, latest[n].handle} : LeavesWith(mail'[v], n, files'[v][n], h)
    BY <1>1, <1>2 DEF HandlesFollow
  <1>3. ASSUME NEW n \in Files
        PROVE  pool[w] # "none"
    BY <1>1, <1>3 DEF HandlesFollow
  <1> QED BY <1>1, <1>2, <1>3, ReceiverFollows DEF HandlesFollow

LEMMA HandlesStillFollow ==
  ASSUME IInv, HandlesFollow, [Next]_vars
  PROVE  HandlesFollow'
  <1>0. TypeOK /\ Main \notin Pthreads /\ \A w \in Pthreads : handler[w] = "duckdb"
    BY ScopesAssumption DEF IInv, Reclaimed
  <1>1. ASSUME NEW s \in Scopes, Grow(s) PROVE HandlesFollow'
    BY <1>1, NoFileFollows DEF Grow, poolVars, fileVars
  <1>2. ASSUME NEW s \in Scopes, NEW u, NEW end, Request(s, u, end) PROVE HandlesFollow'
    BY <1>2, NoFileFollows DEF Request, poolVars, fileVars
  <1>3. ASSUME NEW c \in Configs \cup {NoHttp}, SetHTTPOptions(c) PROVE HandlesFollow'
    <2> DEFINE msg == [cmd |-> "http", http |-> c]
    <2>1. msg \in Messages /\ msg.cmd = "http"
      BY DEF Messages, HttpMessages
    <2>2. \A w \in Pthreads : mail'[w] = mail[w] \/ (pool[w] # "none" /\ mail'[w] = Append(mail[w], msg))
      BY <1>3 DEF SetHTTPOptions, PostToSpawned, Spawned
    <2> HIDE DEF msg
    <2> QED BY <1>3, <2>1, <2>2, NoFileFollows DEF SetHTTPOptions, poolVars, fileVars
  <1>4. ASSUME NEW n \in Files, NEW h \in Handles, RegisterFileHandle(n, h) PROVE HandlesFollow'
    BY <1>4, RegisterFollows
  <1>5. ASSUME NEW n \in Files, DropFile(n) PROVE HandlesFollow'
    <2>1. \A w \in Pthreads : files'[w] = files[w]
      BY <1>0, <1>5 DEF DropFile, TypeOK, Scopes
    <2> QED BY <1>5, <2>1, NoFileFollows DEF DropFile, poolVars
  <1>6. ASSUME NEW w \in Pthreads, Spawn(w) PROVE HandlesFollow'
    <2>1. /\ pool[w] = "none" /\ pool' = [pool EXCEPT ![w] = "unused"]
          /\ mail' = [mail EXCEPT ![w] = <<[cmd |-> "load"]>>] /\ files' = files /\ latest' = latest
      BY <1>6 DEF Spawn, fileVars
    <2>2. mail'[w] = <<[cmd |-> "load"]>> /\ \A n \in Files : files'[w][n] = NoHandle
      BY <1>0, <2>1 DEF HandlesFollow, TypeOK
    <2>3. /\ Len(<<[cmd |-> "load"]>>) = 1
          /\ \A k \in 1 .. 1 : <<[cmd |-> "load"]>>[k].cmd = "load"
      OBVIOUS
    <2>4. \A n \in Files : LeavesWith(mail'[w], n, files'[w][n], NoHandle)
      BY <2>2, <2>3 DEF LeavesWith, About
    <2>5. /\ pool'[w] = "unused"
          /\ \A v \in Pthreads \ {w} : pool'[v] = pool[v] /\ mail'[v] = mail[v]
      BY <1>0, <2>1 DEF TypeOK
    <2> QED BY <2>1, <2>4, <2>5 DEF HandlesFollow
  <1>7. ASSUME NEW w \in Pthreads, Start(w) PROVE HandlesFollow'
    <2> DEFINE msg == [cmd |-> "run"]
    <2>1. msg \in Messages /\ msg.cmd = "run"
      BY DEF Messages
    <2>2. /\ pool[w] = "unused" /\ pool' = [pool EXCEPT ![w] = "running"]
          /\ mail' = [mail EXCEPT ![w] = Append(mail[w], msg)]
      BY <1>7 DEF Start
    <2>3. \A v \in Pthreads : /\ pool'[v] = "none" <=> pool[v] = "none"
                              /\ \/ mail'[v] = mail[v]
                                 \/ pool[v] # "none" /\ mail'[v] = Append(mail[v], msg)
      BY <1>0, <2>2 DEF TypeOK
    <2> HIDE DEF msg
    <2> QED BY <1>7, <2>1, <2>3, NoFileFollows DEF Start, fileVars
  <1>8. ASSUME NEW w \in Pthreads, Finish(w) PROVE HandlesFollow'
    BY <1>8, NoFileFollows DEF Finish, fileVars
  <1>9. ASSUME NEW w \in Pthreads, Collect(w) PROVE HandlesFollow'
    <2>1. \A v \in Pthreads : pool'[v] = "none" <=> pool[v] = "none"
      BY <1>0, <1>9 DEF Collect, TypeOK
    <2> QED BY <1>9, <2>1, NoFileFollows DEF Collect, fileVars
  <1>10. ASSUME NEW w \in Pthreads, OnLoad(w) PROVE HandlesFollow'
    BY <1>10, TakingFollows DEF OnLoad, fileVars, About
  <1>11. ASSUME NEW w \in Pthreads, OnRun(w) PROVE HandlesFollow'
    BY <1>11, TakingFollows DEF OnRun, fileVars, About
  <1>12. ASSUME NEW w \in Pthreads, NEW c \in Configs \cup {NoHttp}, OnHTTPOptions(w, c)
         PROVE HandlesFollow'
    <2>1. ~ \E n \in Files : About([cmd |-> "http", http |-> c], n)
      BY DEF About
    <2> QED BY <1>12, <2>1, TakingFollows DEF OnHTTPOptions, poolVars, fileVars
  <1>13. ASSUME NEW w \in Pthreads, NEW f \in Files, NEW h \in Handles \cup {NoHandle},
                OnFileHandle(w, f, h)
         PROVE HandlesFollow'
    <2>1. files' = [files EXCEPT ![w][f] = h] /\ latest' = latest /\ pool' = pool
      BY <1>0, <1>13 DEF OnFileHandle, poolVars
    <2>2. PICK msg \in {RegisterMsg(f, h), DropMsg(f)} :
              Receive(w, msg) /\ (msg = DropMsg(f) => h = NoHandle)
      <3>1. RegisterMsg(f, h) # DropMsg(f)
        BY DEF RegisterMsg, DropMsg
      <3> QED BY <1>13, <3>1 DEF OnFileHandle
    <2>3. Brings(msg) = h /\ \A n \in Files : About(msg, n) <=> n = f
      <3>1. CASE msg = RegisterMsg(f, h)
        BY <3>1 DEF RegisterMsg, About, Brings
      <3>2. CASE msg = DropMsg(f)
        BY <2>2, <3>2 DEF DropMsg, About, Brings
      <3> QED BY <2>2, <3>1, <3>2
    <2>4. /\ \A v \in Pthreads \ {w} : files'[v] = files[v]
          /\ \A n \in Files : files'[w][n] = IF n = f THEN h ELSE files[w][n]
      BY <1>0, <2>1 DEF TypeOK, Scopes
    <2> QED BY <2>1, <2>2, <2>3, <2>4, TakingFollows
  <1>14. ASSUME NEW f, NEW r, NEW refused, CreateScalarFunction(f, r, refused) PROVE HandlesFollow'
    BY <1>14, NoFileFollows DEF CreateScalarFunction, poolVars, fileVars
  <1>15. CASE Reset
    BY <1>15, NoFileFollows DEF Reset, poolVars, fileVars
  <1>16. ASSUME NEW id, NEW k, NEW g, CallFunction(id, k, g) PROVE HandlesFollow'
    BY <1>16, NoFileFollows DEF CallFunction, poolVars, fileVars
  <1>17. CASE UNCHANGED vars
    BY <1>17, NoFileFollows DEF vars, poolVars, fileVars
  <1> QED
    BY <1>1, <1>2, <1>3, <1>4, <1>5, <1>6, <1>7, <1>8, <1>9, <1>10, <1>11, <1>12, <1>13,
       <1>14, <1>15, <1>16, <1>17 DEF Next, Worker

\* registerFileHandle (bindings_base.ts:611-624) reaches every worker: none comes out of
\* its mail with the handle of an earlier registration, whether it was running, at rest or
\* not yet loaded, and whatever else is in its mail.
THEOREM LatestHandlesReachWorkers == Spec => []HandlesAreLatest
  <1>1. Init => HandlesFollow
    <2>1. Init => \A w \in Pthreads : /\ pool[w] = "none" /\ mail[w] = <<>>
                                      /\ \A n \in Files : files[w][n] = NoHandle
      BY DEF Init, Scopes
    <2> QED BY <2>1 DEF HandlesFollow
  <1>2. IInv /\ HandlesFollow /\ [Next]_vars => HandlesFollow'
    BY HandlesStillFollow
  <1>3. IInv /\ HandlesFollow => HandlesAreLatest
    <2> SUFFICES ASSUME IInv, HandlesFollow, NEW w \in Spawned, NEW n \in Files, latest[n].told
                 PROVE  HandleToBe(w, n) \in {NoHandle, latest[n].handle}
      BY DEF HandlesAreLatest
    <2>1. w \in Pthreads /\ TypeOK
      BY DEF Spawned, IInv
    <2>2. PICK h \in {NoHandle, latest[n].handle} : LeavesWith(mail[w], n, files[w][n], h)
      BY DEF Spawned, HandlesFollow
    <2> QED BY <2>1, <2>2, HandleToBeIs
  <1> QED BY <1>1, <1>2, <1>3, ScopesInvariance, PTL DEF Spec

----------------------------------------------------------------------------
(* The user functions. *)

\* The runtime knows each function of the catalog under the same id.
FunctionsKnown ==
  /\ catalog \in [FunctionIds -> {<<>>} \cup (Functions \X ReturnTypes)]
  /\ udfs \in [FunctionIds -> {<<>>} \cup {<<f>> : f \in Functions}]
  /\ nextUDFId \in Nat
  /\ \A id \in FunctionIds : catalog[id] # <<>> => udfs[id] = <<catalog[id][1]>>

\* What is resolved for a row does not depend on how the kind is read, as long as no view
\* is dead.
LEMMA ResolvedAlike ==
  ASSUME NEW col \in Chunks, col.kind \in ViewedKinds, NEW i
  PROVE  Resolve([col EXCEPT !.kind = IF @ = "struct" THEN @ ELSE "text"], i, FALSE)
           = Resolve(col, i, FALSE)
  <1> DEFINE read == [col EXCEPT !.kind = IF @ = "struct" THEN @ ELSE "text"]
  <1>1. col \in [kind : Kinds, valid : Seq(BOOLEAN), value : {k.value : k \in Chunks}]
    BY ChunksAssumption
  <1>2. /\ read.kind = IF col.kind = "struct" THEN "struct" ELSE "text"
        /\ read.valid = col.valid /\ read.value = col.value
    BY <1>1
  <1>3. col.kind \in {"text", "flat", "struct"}
    BY DEF ViewedKinds
  <1> HIDE DEF read
  <1>4. Resolve(read, i, FALSE) = Resolve(col, i, FALSE)
    BY <1>2, <1>3 DEF Resolve
  <1> QED BY <1>4 DEF read

\* Row i is touched if the memory grew before the row was done, unless all that it
\* detached were views of strings that had been read.
Touched(col, grew, i) == \E g \in grew : g <= 2 + i /\ (g = 1 => col.kind # "text")

\* A row that is not touched is computed from live views, and stored through live views.
LEMMA UntouchedRow ==
  ASSUME NEW col \in Chunks, col.kind \in ViewedKinds, NEW grew \in SUBSET Points(Len(col.valid)),
         2 \notin grew, NEW i \in 1 .. Len(col.valid), ~Touched(col, grew, i)
  PROVE  /\ Resolve(col, i, Detached(grew, 0, 1 + i)) = Resolve(col, i, FALSE)
         /\ ~Detached(grew, 1, 2 + i) /\ ~Detached(grew, 2, 2 + i)
  <1>1. Len(col.valid) \in Nat /\ i \in Nat /\ \A g \in grew : g \in Nat \ {0}
    BY ChunksAssumption DEF Points
  <1>2. \A g \in grew : g > 2 + i \/ (g = 1 /\ col.kind = "text")
    BY <1>1 DEF Touched
  <1>3. ~Detached(grew, 1, 2 + i) /\ ~Detached(grew, 2, 2 + i)
    BY <1>1, <1>2 DEF Detached
  <1>4. CASE col.kind = "text"
    <2>1. \A gone : Resolve(col, i, gone) = IF col.valid[i] THEN col.value[i] ELSE Null
      BY <1>4 DEF Resolve
    <2> QED BY <1>3, <2>1
  <1>5. CASE col.kind # "text"
    <2>1. ~Detached(grew, 0, 1 + i)
      BY <1>1, <1>2, <1>5 DEF Detached
    <2> QED BY <1>3, <2>1 DEF Resolve
  <1> QED BY <1>3, <1>4, <1>5

\* What AnswersAreExact asks of one call whose arguments have data views.
ExactReply(func, col, ret, grew, status, read) ==
  LET rows == Meaning(func, col)
  IN IF ret = "INT64" \/ 2 \in grew \/ col.valid = <<>>
     THEN status = "no arrays for the result"
     ELSE \/ /\ status = "ok"
             /\ DOMAIN read = DOMAIN rows
             /\ \A i \in DOMAIN rows : Touched(col, grew, i) \/ (read[i] = rows[i] /\ rows[i] # Threw)
          \/ /\ status = "the function threw"
             /\ \E i \in DOMAIN rows : Touched(col, grew, i) \/ rows[i] = Threw

\* A call fails for the reasons that AnswersAreExact gives, and otherwise says for every row
\* that is not touched what the function means.
LEMMA CallIsExact ==
  ASSUME NEW func \in Functions, NEW col \in Chunks, col.kind \in ViewedKinds,
         NEW ret \in ReturnTypes, ret # "text",
         NEW grew \in SUBSET Points(Len(col.valid)), NEW start
  PROVE  LET reply == CallScalarUDF(func, col, ret, grew, start)
         IN ExactReply(func, col, ret, grew, reply.status, ReadReply(ret, reply))
  <1> DEFINE n == Len(col.valid)
             rows == Meaning(func, col)
             out == [i \in 1 .. n |-> Apply(func, col.kind, Resolve(col, i, Detached(grew, 0, 1 + i)))]
             reply == CallScalarUDF(func, col, ret, grew, start)
             read == ReadReply(ret, reply)
             mark == [i \in 1 .. n |-> IF out[i] = Null THEN "null" ELSE "valid"]
             answered == [status |-> "ok",
                          validity |-> [i \in 1 .. n |-> IF Detached(grew, 2, 2 + i) THEN Lost ELSE mark[i]],
                          data |-> [i \in 1 .. n |-> IF Detached(grew, 1, 2 + i) \/ out[i] = Null
                                                     THEN Lost ELSE out[i]],
                          strings |-> out, start |-> start]
             missing == ret = "INT64" \/ 2 \in grew \/ col.valid = <<>>
             exact(i) == Touched(col, grew, i) \/ (read[i] = rows[i] /\ rows[i] # Threw)
  <1>1. n \in Nat /\ (n = 0 <=> col.valid = <<>>)
    BY ChunksAssumption
  <1>2. missing <=> ArraysMissing(ret, n, grew)
    <2>1. Detached(grew, 1, 2) <=> 2 \in grew
      BY <1>1 DEF Detached, Points
    <2> QED BY <1>1, <2>1 DEF ArraysMissing
  <1>3. rows = [i \in 1 .. n |-> Apply(func, col.kind, Resolve(col, i, FALSE))]
    BY ResolvedAlike DEF Meaning
  <1>4. reply = IF ArraysMissing(ret, n, grew) THEN Failed("no arrays for the result")
                ELSE IF \E i \in 1 .. n : out[i] = Threw THEN Failed("the function threw")
                ELSE answered
    BY DEF CallScalarUDF, Validity
  <1>5. ASSUME ~missing, NEW i \in 1 .. n, ~Touched(col, grew, i)
        PROVE  out[i] = rows[i] /\ ~Detached(grew, 1, 2 + i) /\ ~Detached(grew, 2, 2 + i)
    <2>1. /\ Resolve(col, i, Detached(grew, 0, 1 + i)) = Resolve(col, i, FALSE)
          /\ ~Detached(grew, 1, 2 + i) /\ ~Detached(grew, 2, 2 + i)
      BY <1>5, UntouchedRow
    <2> QED BY <1>3, <2>1
  <1> SUFFICES IF missing THEN reply.status = "no arrays for the result"
               ELSE \/ /\ reply.status = "ok"
                       /\ DOMAIN read = DOMAIN rows
                       /\ \A i \in DOMAIN rows : exact(i)
                    \/ /\ reply.status = "the function threw"
                       /\ \E i \in DOMAIN rows : Touched(col, grew, i) \/ rows[i] = Threw
    BY DEF ExactReply
  <1>6. DOMAIN rows = 1 .. n
    BY <1>3
  <1>7. /\ answered.status = "ok" /\ DOMAIN answered.validity = 1 .. n
        /\ \A i \in 1 .. n :
              /\ ~Detached(grew, 2, 2 + i) =>
                   answered.validity[i] = IF out[i] = Null THEN "null" ELSE "valid"
              /\ ~Detached(grew, 1, 2 + i) =>
                   answered.data[i] = IF out[i] = Null THEN Lost ELSE out[i]
    OBVIOUS
  <1> HIDE DEF out, rows, reply, answered, missing
  <1>8. CASE missing
    BY <1>2, <1>4, <1>8 DEF Failed
  <1>9. CASE ~missing /\ \E i \in 1 .. n : out[i] = Threw
    <2>1. reply.status = "the function threw"
      BY <1>2, <1>4, <1>9 DEF Failed
    <2>2. \E i \in DOMAIN rows : Touched(col, grew, i) \/ rows[i] = Threw
      BY <1>5, <1>6, <1>9
    <2> QED BY <1>9, <2>1, <2>2
  <1>10. CASE ~missing /\ ~ \E i \in 1 .. n : out[i] = Threw
    <2>1. reply = answered
      BY <1>2, <1>4, <1>10
    <2> DEFINE value(i) == CASE answered.validity[i] = Lost   -> Lost
                             [] answered.validity[i] = "null" -> Null
                             [] answered.validity[i] = "valid" -> answered.data[i]
    <2>2. read = [i \in 1 .. n |-> value(i)]
      <3>1. ReadReply(ret, answered) = [i \in 1 .. n |-> value(i)]
        BY <1>7 DEF ReadReply
      <3> QED BY <2>1, <3>1
    <2> HIDE DEF read
    <2>3. ASSUME NEW i \in 1 .. n, ~Touched(col, grew, i) PROVE read[i] = rows[i] /\ rows[i] # Threw
      <3>1. out[i] = rows[i] /\ ~Detached(grew, 1, 2 + i) /\ ~Detached(grew, 2, 2 + i)
        BY <1>5, <1>10, <2>3
      <3>2. value(i) = rows[i]
        BY <1>7, <3>1, MarksAssumption
      <3> HIDE DEF value
      <3> QED BY <1>10, <2>2, <3>1, <3>2
    <2>4. DOMAIN read = 1 .. n
      BY <2>2
    <2> QED BY <1>6, <1>7, <1>10, <2>1, <2>3, <2>4
  <1> QED BY <1>8, <1>9, <1>10

\* Three actions deal with functions; the others leave them alone.
LEMMA FunctionSteps ==
  ASSUME [Next]_vars
  PROVE  \/ \E f \in Functions, r \in ReturnTypes, refused \in BOOLEAN :
               CreateScalarFunction(f, r, refused)
         \/ Reset
         \/ \E id \in FunctionIds, k \in Chunks : \E g \in SUBSET Points(Len(k.valid)) :
               CallFunction(id, k, g)
         \/ UNCHANGED udfVars
  <1>1. ASSUME NEW v \in Pthreads, Worker(v) PROVE UNCHANGED udfVars
    <2>1. \/ Spawn(v) \/ Start(v) \/ Finish(v) \/ Collect(v) \/ OnLoad(v) \/ OnRun(v)
          => UNCHANGED udfVars
      BY DEF Spawn, Start, Finish, Collect, OnLoad, OnRun
    <2>2. ASSUME NEW c \in Configs \cup {NoHttp}, OnHTTPOptions(v, c) PROVE UNCHANGED udfVars
      BY <2>2 DEF OnHTTPOptions
    <2>3. ASSUME NEW n \in Files, NEW h \in Handles \cup {NoHandle}, OnFileHandle(v, n, h)
          PROVE  UNCHANGED udfVars
      BY <2>3 DEF OnFileHandle
    <2> QED BY <1>1, <2>1, <2>2, <2>3 DEF Worker
  <1>2. \A s \in Scopes : Grow(s) => UNCHANGED udfVars
    BY DEF Grow
  <1>3. \A s \in Scopes, u \in Urls, end \in 1 .. MaxHeap : Request(s, u, end) => UNCHANGED udfVars
    BY DEF Request
  <1>4. \A c \in Configs \cup {NoHttp} : SetHTTPOptions(c) => UNCHANGED udfVars
    BY DEF SetHTTPOptions
  <1>5. \A n \in Files : /\ \A h \in Handles : RegisterFileHandle(n, h) => UNCHANGED udfVars
                         /\ DropFile(n) => UNCHANGED udfVars
    BY DEF RegisterFileHandle, DropFile
  <1>6. UNCHANGED vars => UNCHANGED udfVars
    BY DEF vars
  <1> QED BY <1>1, <1>2, <1>3, <1>4, <1>5, <1>6 DEF Next

LEMMA FunctionsStayKnown ==
  ASSUME FunctionsKnown, [Next]_vars
  PROVE  FunctionsKnown'
  <1> USE DEF FunctionsKnown
  <1>1. ASSUME NEW f \in Functions, NEW r \in ReturnTypes, NEW refused \in BOOLEAN,
               CreateScalarFunction(f, r, refused)
        PROVE  FunctionsKnown'
    <2>1. CASE refused
      BY <1>1, <2>1 DEF CreateScalarFunction
    <2>2. CASE ~refused
      <3>1. /\ nextUDFId \in FunctionIds /\ nextUDFId' = nextUDFId + 1
            /\ catalog' = [catalog EXCEPT ![nextUDFId] = <<f, r>>]
            /\ udfs' = [udfs EXCEPT ![nextUDFId] = <<f>>]
        BY <1>1, <2>2 DEF CreateScalarFunction
      <3>2. <<f, r>>[1] = f /\ <<f, r>> \in Functions \X ReturnTypes
        OBVIOUS
      <3> QED BY <3>1, <3>2
    <2> QED BY <2>1, <2>2
  <1>2. CASE Reset
    BY <1>2 DEF Reset
  <1>3. CASE UNCHANGED <<catalog, udfs, nextUDFId>>
    BY <1>3
  <1>4. \/ \E f \in Functions, r \in ReturnTypes, refused \in BOOLEAN :
              CreateScalarFunction(f, r, refused)
        \/ Reset \/ UNCHANGED <<catalog, udfs, nextUDFId>>
    BY FunctionSteps DEF udfVars, CallFunction
  <1> QED BY <1>1, <1>2, <1>3, <1>4

\* Only a call answers.
LEMMA AnswerStep ==
  ASSUME FunctionsKnown, AnswersAreExact, [Next]_vars
  PROVE  AnswersAreExact'
  <1>1. ASSUME NEW id \in FunctionIds, NEW k \in Chunks, NEW g \in SUBSET Points(Len(k.valid)),
               CallFunction(id, k, g)
        PROVE  AnswersAreExact'
    <2> DEFINE func == catalog[id][1]
               ret == catalog[id][2]
               start == Len(k.valid) + 1
               reply == CallScalarUDFFunction(udfs[id], k, ret, g, start)
               rows == Meaning(func, k)
    <2>1. func \in Functions /\ ret \in ReturnTypes /\ udfs[id] # <<>> /\ udfs[id][1] = func
      <3>1. catalog[id] \in Functions \X ReturnTypes /\ udfs[id] = <<func>>
        BY <1>1 DEF CallFunction, FunctionsKnown
      <3> QED BY <3>1
    <2>2. answer' = [func |-> func, ret |-> ret, chunk |-> k, grew |-> g,
                     status |-> reply.status, rows |-> ReadReply(ret, reply)]
      BY <1>1, <2>1 DEF CallFunction
    <2>3. k.kind \in Kinds
      BY ChunksAssumption
    <2>4. reply = IF k.kind \notin ViewedKinds THEN Failed("unsupported argument")
                  ELSE CallScalarUDF(func, k, ret, g, start)
      BY <2>1 DEF CallScalarUDFFunction
    <2> HIDE DEF func, ret, reply, start
    <2>5. /\ answer'.func = func /\ answer'.ret = ret /\ answer'.chunk = k /\ answer'.grew = g
          /\ answer'.status = reply.status /\ answer'.rows = ReadReply(ret, reply)
      BY <2>2
    <2>6. Meaning(answer'.func, answer'.chunk) = rows
      BY <2>5
    <2> HIDE DEF rows
    <2>7. CASE ret = "text"
      BY <2>5, <2>7 DEF AnswersAreExact
    <2>8. CASE k.kind \notin ViewedKinds
      <3>1. reply.status = "unsupported argument" /\ k.kind = "unsupported"
        BY <2>3, <2>4, <2>8 DEF Failed, Kinds
      <3> QED BY <2>5, <3>1 DEF AnswersAreExact
    <2>9. CASE ret # "text" /\ k.kind \in ViewedKinds
      <3> DEFINE made == CallScalarUDF(func, k, ret, g, start)
                 read == ReadReply(ret, made)
      <3>1. /\ func \in Functions /\ ret \in ReturnTypes /\ ret # "text"
            /\ k.kind \in ViewedKinds /\ g \in SUBSET Points(Len(k.valid))
        BY <1>1, <2>1, <2>9
      <3>2. reply = made /\ k.kind # "unsupported"
        BY <2>4, <2>9 DEF ViewedKinds
      <3>3. ExactReply(func, k, ret, g, made.status, read)
        BY <3>1, CallIsExact
      <3>4. answer'.status = made.status /\ answer'.rows = read
        BY <2>5, <3>2
      <3> HIDE DEF made, read
      <3> QED BY <2>5, <2>6, <2>9, <3>2, <3>3, <3>4 DEF AnswersAreExact, ExactReply, Touched, rows
    <2> QED BY <2>7, <2>8, <2>9
  <1>2. CASE answer' = answer
    BY <1>2 DEF AnswersAreExact
  <1>3. \/ \E id \in FunctionIds, k \in Chunks : \E g \in SUBSET Points(Len(k.valid)) :
              CallFunction(id, k, g)
        \/ answer' = answer
    BY FunctionSteps DEF udfVars, CreateScalarFunction, Reset
  <1> QED BY <1>1, <1>2, <1>3

\* callScalarUDF finds the function that the engine's catalog names, for chunks of any
\* length and kind and whatever was created, refused or reset before.  At whichever points
\* of the call the memory grows, every row that was done before has the function's value,
\* and the call fails if the row throws; growth between the two allocations of the result
\* fails the call, and so do argument and result types without arrays.
THEOREM FunctionsAnswerExactly == Spec => []AnswersAreExact
  <1>1. Init => FunctionsKnown /\ AnswersAreExact
    BY DEF Init, FunctionsKnown, AnswersAreExact
  <1>2. FunctionsKnown /\ AnswersAreExact /\ [Next]_vars
          => FunctionsKnown' /\ AnswersAreExact'
    BY FunctionsStayKnown, AnswerStep
  <1> QED BY <1>1, <1>2, PTL DEF Spec

----------------------------------------------------------------------------
(* The requests. *)

\* The last request has read its name, and goes by the options that were in force.
RequestObeys ==
  sent # <<>> =>
    /\ sent.done /\ sent.url \in Urls /\ sent.force \in Configs \cup {NoHttp}
    /\ sent.creds <=> WantsCredentials(sent.force, sent.url)
    /\ sent.headers = ExtraHeaders(sent.force, sent.url)

LEMMA RequestStillObeys ==
  ASSUME IInv, RequestObeys, [Next]_vars
  PROVE  RequestObeys'
  <1>1. ASSUME NEW s \in Scopes, NEW u \in Urls, NEW end \in 1 .. MaxHeap, Request(s, u, end)
        PROVE  RequestObeys'
    <2> DEFINE force == IF s = Main THEN http[Main] ELSE startedWith[s]
               done == FreshHeapBuffer(seen[s], heap, end).ok
    <2>1. end <= heap /\ (s = Main \/ s \in exec)
      BY <1>1 DEF Request
    <2>2. done
      BY <2>1 DEF FreshHeapBuffer
    <2>3. force = http[s] /\ force \in Configs \cup {NoHttp}
      <3>1. s # Main => s \in exec /\ s \in Pthreads /\ http[s] = startedWith[s]
        BY <2>1 DEF Scopes, IInv, WorkersAgree, Agrees
      <3> QED BY <3>1 DEF IInv, TypeOK
    <2>4. sent' = [by |-> s, url |-> u, done |-> done, force |-> force,
                   creds |-> WantsCredentials(http[s], u), headers |-> ExtraHeaders(http[s], u)]
      BY <1>1 DEF Request
    <2> HIDE DEF force, done
    <2>5. /\ sent'.done = done /\ sent'.url = u /\ sent'.force = force
          /\ sent'.creds = WantsCredentials(http[s], u)
          /\ sent'.headers = ExtraHeaders(http[s], u)
      BY <2>4
    <2> QED BY <2>2, <2>3, <2>5 DEF RequestObeys
  <1>2. CASE sent' = sent
    BY <1>2 DEF RequestObeys
  <1>3. \/ \E s \in Scopes, u \in Urls, end \in 1 .. MaxHeap : Request(s, u, end)
        \/ sent' = sent
    BY DEF Next, vars, Worker, Grow, SetHTTPOptions, RegisterFileHandle,
           DropFile, Spawn, Start, Finish, Collect, OnLoad, OnRun, OnHTTPOptions, OnFileHandle,
           CreateScalarFunction, Reset, CallFunction
  <1> QED BY <1>1, <1>2, <1>3

\* A request reads its name whoever has grown the memory, and carries credentials and
\* headers for exactly the URLs that the options in force when its thread was started cover
\* (http_options.ts:57-69), for all options whose patterns match what they cover.
THEOREM RequestsObeyOptions ==
  ASSUME PatternsMatch
  PROVE  Spec => []RequestsFollowOptions
  <1>1. Init => RequestObeys
    BY DEF Init, RequestObeys
  <1>2. IInv /\ RequestObeys /\ [Next]_vars => RequestObeys'
    BY RequestStillObeys
  <1>3. RequestObeys => RequestsFollowOptions
    <2> SUFFICES ASSUME sent # <<>>, RequestObeys
                 PROVE  /\ sent.done
                        /\ sent.creds <=>
                             /\ sent.force # NoHttp
                             /\ sent.force.all \/ \E p \in sent.force.creds : Covers(p, sent.url)
                        /\ sent.headers = IF sent.force = NoHttp THEN {}
                                          ELSE {p \in sent.force.headers : Covers(p, sent.url)}
      BY DEF RequestsFollowOptions
    <2>1. /\ sent.done /\ sent.url \in Urls /\ sent.force \in Configs \cup {NoHttp}
          /\ sent.creds <=> WantsCredentials(sent.force, sent.url)
          /\ sent.headers = ExtraHeaders(sent.force, sent.url)
      BY DEF RequestObeys
    <2>2. sent.force # NoHttp =>
            \A p \in sent.force.creds \cup sent.force.headers :
              MatchesPattern(p, sent.url) <=> Covers(p, sent.url)
      BY <2>1 DEF PatternsMatch
    <2> QED BY <2>1, <2>2 DEF WantsCredentials, ExtraHeaders
  <1> QED BY <1>1, <1>2, <1>3, ScopesInvariance, PTL DEF Spec
=============================================================================
