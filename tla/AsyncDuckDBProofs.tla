-------------------------- MODULE AsyncDuckDBProofs --------------------------
(***************************************************************************)
(* For any number of callers, scripts, files and messages: what the two    *)
(* sides of the channels know of a request agrees, and so do the access    *)
(* handles with the files that are registered and the one that is open.    *)
(*                                                                         *)
(* The handlers of the worker differ in what they do to files; what they   *)
(* do to the request they serve is always one of a few things: take it     *)
(* from the queue or resume it, and answer it or suspend it.  WorkerStep   *)
(* says that once, every handler is shown to be such a step, and the       *)
(* invariants of requests, replies, promises and of the database follow    *)
(* from WorkerStep alone.  In the same way every call of a client and      *)
(* every reply it takes is a CallerStep.                                   *)
(*                                                                         *)
(* The worker answers a second instantiate and starts it all the same, so  *)
(* that it answers it twice.  The theorems about answers are therefore     *)
(* about programs that instantiate once.                                   *)
(*                                                                         *)
(* That a query finds the files it has registered is proved last: every    *)
(* request that is not answered has a caller that waits for it, and what   *)
(* that caller calls says what the request can drop.                       *)
(***************************************************************************)
EXTENDS AsyncDuckDB, SequenceTheorems, FiniteSetTheorems, WellFoundedInduction, TLAPS

----------------------------------------------------------------------------
(* The inductive invariant *)

CallerStates ==
  [script : Seq(Request), at : Awaits, mid : Ids \cup {None}, todo : Seq(Files), mine : Seq(Files)]

Handlers ==
  [at : Stages, inst : Ids \cup {None}, todo : Seq(Files), fresh : SUBSET Files]

\* The channels and promises have their types ...
MessagesTyped ==
  /\ worker \in BOOLEAN /\ listening \in BOOLEAN /\ failed \in BOOLEAN /\ alive \in BOOLEAN
  /\ nextMessageId \in 0 .. MaxMessages
  /\ pendingRequests \in SUBSET Ids
  /\ promise \in [Ids -> {"none", "ok", "error"}]
  /\ task \in [Ids -> Request \cup {NoRequest}]
  /\ requests \in Seq(Ids)
  /\ replies \in Seq(Replies)
  /\ answered \in [Ids -> {"none", "ok", "error", "missing"}]

\* ... and so have the callers ...
CallersTyped ==
  /\ config \in Configs
  /\ caller \in [Callers -> CallerStates]

\* ... and the worker.
WorkerTyped ==
  /\ handler \in [Ids -> Handlers]
  /\ bindings \in Ids \cup {None}
  /\ root \in BOOLEAN
  /\ files \in SUBSET Files /\ prepared \in SUBSET Files
  /\ stored \in SUBSET Files /\ pinned \in SUBSET Files
  /\ opened \in Configs
  /\ database \in Seq(Ids)

TypeOK == MessagesTyped /\ CallersTyped /\ WorkerTyped

\* Where a caller stands: it waits for a request unless it is between two calls,
\* and only a query makes several requests.
CallersAgree ==
  \A c \in Callers :
    /\ caller[c].at = "start" => caller[c].mid = None
    /\ caller[c].at # "start" => caller[c].script # <<>>
    /\ caller[c].at \in {"register", "run", "drop"} => CallOf(c).kind = "runQuery"
    /\ caller[c].at = "register" => caller[c].todo # <<>>

\* A handler that is suspended belongs to a request of its kind.
Fits(m, h) ==
  /\ h.at = "instantiate" => task[m].kind = "instantiate"
  /\ h.at \in {"root", "acquire"} => task[m].kind \in {"open", "registerOPFSFileName"}
  /\ h.at = "acquire" => h.todo # <<>>
  /\ h.at = "convert" => task[m].kind = "registerFileHandle" /\ h.todo # <<>>

StagesAgree == \A m \in Ids : Fits(m, handler[m])

\* Requests wait in the order of their ids, not yet begun.  Only what was posted is
\* waiting, suspended or answered.
PostedAgree ==
  /\ \A i \in 1 .. Len(requests) :
       requests[i] < nextMessageId /\ handler[requests[i]].at = "none"
  /\ \A i, j \in 1 .. Len(requests) : i < j => requests[i] < requests[j]
  /\ \A m \in Ids : handler[m].at # "none" => m < nextMessageId
  /\ \A m \in Ids : m < nextMessageId => task[m] \in Request
  /\ \A m \in Ids : m >= nextMessageId => answered[m] = "none" /\ task[m] = NoRequest

\* There is no database without bindings.
EngineAgrees == bindings = None => database = <<>>

Inv0 == TypeOK /\ CallersAgree /\ StagesAgree /\ PostedAgree /\ EngineAgrees

\* What waits or is suspended is not answered.
RequestsAgree ==
  /\ \A i \in 1 .. Len(requests) : answered[requests[i]] = "none"
  /\ \A m \in Ids : handler[m].at # "none" => answered[m] = "none"
  /\ ~alive => ~worker

\* What a reply says is what was answered, and it comes once.
RepliesAgree ==
  /\ \A i \in 1 .. Len(replies) :
       LET m == replies[i].to IN
       /\ answered[m] # "none"
       /\ promise[m] = "none"
       /\ replies[i].type = IF answered[m] = "ok" THEN ReplyType(task[m].kind) ELSE "ERROR"
  /\ \A i, j \in 1 .. Len(replies) : replies[i].to = replies[j].to => i = j

\* A promise settles with the answer to its request.
PromisesAgree ==
  /\ \A m \in pendingRequests : m < nextMessageId /\ promise[m] = "none"
  /\ \A m \in Ids : promise[m] # "none" => /\ answered[m] # "none"
                                           /\ (promise[m] = "ok") <=> (answered[m] = "ok")

\* Where the answer to m stands, as long as the worker lives.
Waits(m)  == \E i \in 1 .. Len(requests) : requests[i] = m
Replied(m) == \E i \in 1 .. Len(replies) : replies[i].to = m

NoAnswerIsLost ==
  alive => \A m \in Ids :
    /\ m < nextMessageId /\ answered[m] = "none" => Waits(m) \/ handler[m].at # "none"
    /\ m \in pendingRequests /\ answered[m] # "none" => Replied(m)

\* A program instantiates once: what is posted of it, and what is still to come.
ToInstantiate(c, i) == i \in 1 .. Len(caller[c].script) /\ caller[c].script[i].kind = "instantiate"

OneInstantiate ==
  /\ \A c, d \in Callers : \A i, j \in Nat :
       ToInstantiate(c, i) /\ ToInstantiate(d, j) => c = d /\ i = j
  /\ \A m \in Ids, c \in Callers : \A i \in Nat :
       task[m].kind = "instantiate" /\ ToInstantiate(c, i) => i = 1 /\ caller[c].mid = m
  /\ \A m, n \in Ids : task[m].kind = "instantiate" /\ task[n].kind = "instantiate" => m = n
  /\ bindings # None => task[bindings].kind = "instantiate" /\ answered[bindings] = "ok"

\* The database consists of requests that were answered ok.
DatabaseAgrees ==
  \A i \in 1 .. Len(database) : answered[database[i]] = "ok"

Inv1 == /\ RequestsAgree /\ RepliesAgree /\ PromisesAgree /\ NoAnswerIsLost
        /\ OneInstantiate /\ DatabaseAgrees /\ SynchronousInOrder

IInv == Inv0 /\ Inv1

----------------------------------------------------------------------------
(* Steps, by what they do to requests *)

\* Caller c goes on in its script, and the requests in kept stay pending: its call
\* returns, or it posts r.  It posts what it calls, or what a query needs beside.
CallerStep(c, kept) ==
  \/ /\ Return(c, kept)
     /\ caller[c].script # <<>>
     /\ UNCHANGED config \/ (~worker /\ config' \in Configs)
  \/ \E r \in Request, s \in CallerStates :
       /\ worker /\ nextMessageId < MaxMessages
       /\ nextMessageId' = nextMessageId + 1
       /\ pendingRequests' = kept \cup {nextMessageId}
       /\ task' = [task EXCEPT ![nextMessageId] = r]
       /\ requests' = Append(requests, nextMessageId)
       /\ caller' = [caller EXCEPT ![c] = s]
       /\ s.script = caller[c].script /\ s.script # <<>>
       /\ s.mid = nextMessageId /\ s.at # "start"
       /\ s.at \in {"register", "run", "drop"} => CallOf(c).kind = "runQuery"
       /\ s.at = "register" => s.todo # <<>>
       /\ \/ caller[c].at = "start" /\ r.kind = CallOf(c).kind
          \/ /\ CallOf(c).kind = "runQuery"
             /\ r.kind \in {"registerOPFSFileName", "runQuery", "dropFiles"}
       /\ config' = IF r.kind = "open" THEN r.config ELSE config

\* It goes on because it makes a call, or because the reply to request n has come.
Settles(n) ==
  /\ replies # <<>> /\ Head(replies).to = n /\ replies' = Tail(replies)
  /\ promise' = [promise EXCEPT ![n] = Settlement(Head(replies))]

CallerMove(c, kept) ==
  /\ CallerStep(c, kept)
  /\ UNCHANGED <<worker, listening, failed, alive, handler, answered, handles, engine>>
  /\ \/ kept = pendingRequests /\ UNCHANGED <<promise, replies>>
     \/ \E n \in pendingRequests : kept = pendingRequests \ {n} /\ Settles(n)

\* What the worker is doing with request m.
Takes(m) == requests # <<>> /\ m = Head(requests) /\ requests' = Tail(requests)
Resumes(m) == handler[m].at # "none" /\ UNCHANGED requests

\* A step of the worker is about one request, which it takes or resumes.
WorkerMove(m) ==
  /\ alive /\ UNCHANGED <<client, nextMessageId, pendingRequests, promise, caller, task, alive>>
  /\ WorkerTyped'
  /\ Takes(m) \/ Resumes(m)
  /\ \A n \in Ids \ {m} : handler'[n] = handler[n]
  /\ Fits(m, handler'[m])
  /\ \/ UNCHANGED <<replies, answered>>
     \/ \E how \in {"ok", "error", "missing"} : Answer(m, how)
  /\ EngineAgrees'

\* It suspends the handler, or it ends with the answer; the request has then had its
\* effect on the database or none.
Suspends(m) ==
  /\ handler'[m].at # "none"
  /\ task[m].kind \notin Synchronous
  /\ UNCHANGED <<replies, answered, database, bindings>>

Effect(m, how) ==
  \/ UNCHANGED <<database, bindings>>
  \/ /\ how = "ok"
     /\ database' = Append(database, m)
     /\ UNCHANGED bindings
  \/ /\ how = "ok"
     /\ database' = <<m>>
     /\ UNCHANGED bindings \/ (bindings' = m /\ task[m].kind = "instantiate")

Ends(m) ==
  /\ handler'[m].at = "none"
  /\ \E how \in {"ok", "error", "missing"} : Answer(m, how) /\ Effect(m, how)

\* A second instantiate does otherwise: it is refused and started.
InstantiatesAgain(m) == task[m].kind = "instantiate" /\ bindings # None

WorkerStep(m) == WorkerMove(m) /\ (Suspends(m) \/ Ends(m) \/ InstantiatesAgain(m))

----------------------------------------------------------------------------
(* Operators *)

\* A set of natural numbers that is not empty has a least element.
LEMMA LeastOf ==
  ASSUME NEW R, \A x, y \in Nat : x < y => <<x, y>> \in R, IsWellFoundedOn(R, Nat),
         NEW S, S \subseteq Nat, S # {}
  PROVE  \E n \in S : \A k \in S : n <= k
  <1>1. PICK x \in S : \A y \in S : ~ (<<y, x>> \in R)
    BY ZenonT(60), WFMin
  <1>2. \A y \in S : ~ (y < x)
    BY <1>1
  <1> QED BY <1>2

LEMMA LeastElement ==
  ASSUME NEW S, S \subseteq Nat, S # {}
  PROVE  \E n \in S : \A k \in S : n <= k
  <1> DEFINE R == OpToRel(<, Nat)
  <1>1. IsWellFoundedOn(R, Nat)
    BY NatLessThanWellFounded
  <1>2. \A x, y \in Nat : x < y => <<x, y>> \in R
    BY Zenon DEF OpToRel
  <1> HIDE DEF R
  <1> QED BY <1>1, <1>2, LeastOf

\* The files that still need a handle are some of the last ones.
LEMMA SkipTyped ==
  ASSUME NEW todo \in Seq(Files)
  PROVE  Skip(todo) \in Seq(Files)
  <1> DEFINE k == CHOOSE n \in 0 .. Len(todo) : /\ \A i \in 1 .. n : todo[i] \in files
                                                /\ n = Len(todo) \/ todo[n + 1] \notin files
             S == {n \in 0 .. Len(todo) : n = Len(todo) \/ todo[n + 1] \notin files}
  <1>1. PICK low \in S : \A n \in S : low <= n
    <2>1. Len(todo) \in S /\ S \subseteq Nat
      OBVIOUS
    <2> HIDE DEF S
    <2> QED BY <2>1, LeastElement
  <1>2. \A i \in 1 .. low : todo[i] \in files
    <2> SUFFICES ASSUME NEW i \in 1 .. low PROVE todo[i] \in files
      OBVIOUS
    <2>1. /\ i - 1 \in 0 .. Len(todo) /\ i - 1 # Len(todo) /\ (i - 1) + 1 = i
          /\ i - 1 < low /\ low \in Nat
      BY <1>1
    <2>2. i - 1 \notin S
      <3> HIDE DEF S
      <3> QED BY <1>1, <2>1
    <2> QED BY <2>1, <2>2
  <1>3. k \in 0 .. Len(todo)
    BY <1>1, <1>2
  <1>4. SubSeq(todo, k + 1, Len(todo)) \in Seq(Files)
    <2> HIDE DEF k
    <2> QED BY <1>3
  <1> QED BY <1>4 DEF Skip

LEMMA RqTyped ==
  /\ \A f \in Files : [Rq("registerOPFSFileName", <<f>>) EXCEPT !.config.auto = TRUE] \in Request
  /\ \A fs \in Seq(Files) : Rq("dropFiles", fs) \in Request
  /\ \A r \in Request, b \in BOOLEAN : [r EXCEPT !.config.auto = b] \in Request
  <1>1. NoConfig \in Configs /\ \A c \in Configs, b \in BOOLEAN : [c EXCEPT !.auto = b] \in Configs
    <2>1. NoConfig \in Configs
      BY DEF NoConfig, Configs
    <2>2. ASSUME NEW c \in Configs, NEW b \in BOOLEAN
          PROVE  [c EXCEPT !.auto = b] \in Configs
      <3>1. c.path \in DOMAIN WalOf \cup {None}
        BY DEF Configs
      <3>2. [c EXCEPT !.auto = b] = [path |-> c.path, auto |-> b]
        BY DEF Configs
      <3> QED BY <3>1, <3>2, Zenon DEF Configs
    <2> QED BY <2>1, <2>2
  <1>2. \A r \in Request, b \in BOOLEAN : [r EXCEPT !.config.auto = b] \in Request
    BY <1>1 DEF Request
  <1>3. \A fs \in Seq(Files) : Rq("dropFiles", fs) \in Request
    BY <1>1 DEF Rq, NoRequest, Request, Kinds
  <1>4. ASSUME NEW f \in Files
        PROVE  Rq("registerOPFSFileName", <<f>>) \in Request
    <2>1. <<f>> \in Seq(Files) /\ Len(<<f>>) = 1
      OBVIOUS
    <2> QED BY <1>1, <2>1 DEF Rq, NoRequest, Request, Kinds
  <1> QED BY <1>2, <1>3, <1>4

----------------------------------------------------------------------------
(* Callers *)

\* A caller that posts a request of its call goes on as a CallerStep.
LEMMA PostIsCallerStep ==
  ASSUME Inv0, NEW c \in Callers, NEW kept, NEW r \in Request, NEW s \in CallerStates,
         PostTask(c, kept, r, s),
         s.script = caller[c].script, s.script # <<>>, s.at # "start",
         s.at \in {"register", "run", "drop"} => CallOf(c).kind = "runQuery",
         s.at = "register" => s.todo # <<>>,
         \/ caller[c].at = "start" /\ r.kind = CallOf(c).kind
         \/ /\ CallOf(c).kind = "runQuery"
            /\ r.kind \in {"registerOPFSFileName", "runQuery", "dropFiles"},
         config' = IF r.kind = "open" THEN r.config ELSE config
  PROVE  CallerStep(c, kept)
  <1>1. nextMessageId \in Nat /\ MaxMessages \in Nat
    BY ScriptAssumption DEF Inv0, TypeOK, MessagesTyped
  <1>2. nextMessageId < MaxMessages => nextMessageId \in Ids
    BY <1>1 DEF Ids
  <1> DEFINE u == [s EXCEPT !.mid = nextMessageId]
  <1>3. nextMessageId < MaxMessages =>
          /\ u \in CallerStates /\ u.script = s.script /\ u.at = s.at
          /\ u.mid = nextMessageId /\ u.todo = s.todo
    BY <1>2 DEF CallerStates
  <1>4. CASE ~worker /\ Return(c, kept)
    <2>1. config' \in Configs
      BY DEF Inv0, TypeOK, CallersTyped, Request
    <2> QED BY <1>4, <2>1 DEF CallerStep
  <1>5. CASE worker /\ nextMessageId < MaxMessages
    <2>1. /\ nextMessageId' = nextMessageId + 1
          /\ pendingRequests' = kept \cup {nextMessageId}
          /\ task' = [task EXCEPT ![nextMessageId] = r]
          /\ requests' = Append(requests, nextMessageId)
          /\ caller' = [caller EXCEPT ![c] = u]
      BY <1>5 DEF PostTask
    <2> HIDE DEF u
    <2> QED BY <2>1, <1>3, <1>5 DEF CallerStep
  <1> QED BY <1>4, <1>5 DEF PostTask

\* Every call is a CallerStep.
LEMMA CallIsCallerStep ==
  ASSUME Inv0, NEW c \in Callers, Call(c)
  PROVE  CallerStep(c, pendingRequests)
  <1> DEFINE s == caller[c]
             r == CallOf(c)
  <1>1. /\ s \in CallerStates /\ s.at = "start" /\ s.script \in Seq(Request) /\ s.script # <<>>
        /\ r \in Request /\ r = Head(s.script)
    BY DEF Call, CallerStates, CallOf, Inv0, TypeOK, CallersTyped
  <1>2. CASE r.kind = "runQuery" /\ ShouldOPFSFileHandling /\ r.files # <<>>
    <2> DEFINE t == [s EXCEPT !.todo = r.files]
               q == [Rq("registerOPFSFileName", <<Head(t.todo)>>) EXCEPT !.config.auto = TRUE]
               u == [t EXCEPT !.at = "register"]
    <2>1. PostTask(c, pendingRequests, q, u) /\ UNCHANGED config
      BY <1>1, <1>2, Zenon DEF Call, RegisterNext, MakeRequest
    <2>2. r.files \in Seq(Files) /\ Head(t.todo) \in Files
      BY <1>1, <1>2 DEF Request, CallerStates
    <2>3. q \in Request /\ q.kind = "registerOPFSFileName"
      BY <2>2, RqTyped DEF Rq, NoRequest
    <2>4. u \in CallerStates /\ u.script = s.script /\ u.at = "register" /\ u.todo = r.files
      BY <1>1, <2>2 DEF CallerStates, Awaits
    <2> HIDE DEF u, q
    <2> QED BY <2>1, <2>3, <2>4, <1>1, <1>2, PostIsCallerStep
  <1>3. CASE r.kind = "runQuery" /\ (~ShouldOPFSFileHandling \/ r.files = <<>>)
    <2> DEFINE q == [r EXCEPT !.config.auto = s.at = "register"]
               u == [s EXCEPT !.at = "run"]
    <2>1. PostTask(c, pendingRequests, q, u) /\ UNCHANGED config
      BY <1>1, <1>3, Zenon DEF Call, RunQuery, MakeRequest
    <2>2. q \in Request /\ q.kind = "runQuery"
      BY <1>1, <1>3, RqTyped DEF Request
    <2>3. u \in CallerStates /\ u.script = s.script /\ u.at = "run"
      BY <1>1 DEF CallerStates, Awaits
    <2> HIDE DEF u, q
    <2> QED BY <2>1, <2>2, <2>3, <1>1, <1>3, PostIsCallerStep
  <1>4. CASE r.kind # "runQuery"
    <2> DEFINE u == [s EXCEPT !.at = "request"]
    <2>1. /\ PostTask(c, pendingRequests, r, u)
          /\ config' = IF r.kind = "open" THEN r.config ELSE config
      BY <1>1, <1>4, Zenon DEF Call, MakeRequest
    <2>2. u \in CallerStates /\ u.script = s.script /\ u.at = "request"
      BY <1>1 DEF CallerStates, Awaits
    <2> HIDE DEF u
    <2> QED BY <2>1, <2>2, <1>1, PostIsCallerStep
  <1> QED BY <1>2, <1>3, <1>4

\* So is every continuation of an async function.
LEMMA ContinueIsCallerStep ==
  ASSUME Inv0, NEW c \in Callers, caller[c].mid # None, NEW kept, NEW status,
         Continue(c, kept, status), UNCHANGED config
  PROVE  CallerStep(c, kept)
  <1> DEFINE s == caller[c]
             r == CallOf(c)
  <1>1. /\ s \in CallerStates /\ s.at # "start" /\ s.script \in Seq(Request) /\ s.script # <<>>
        /\ r \in Request /\ r = Head(s.script)
        /\ s.todo \in Seq(Files) /\ s.mine \in Seq(Files)
    BY DEF CallersAgree, CallerStates, CallOf, Inv0, TypeOK, CallersTyped
  <1>2. /\ s.at \in {"register", "run", "drop"} => r.kind = "runQuery"
        /\ s.at = "register" => s.todo # <<>>
    BY DEF CallersAgree, Inv0
  <1>3. CASE s.at = "register" /\ status = "ok" /\ Tail(s.todo) # <<>>
             /\ RegisterNext(c, kept, [s EXCEPT !.todo = Tail(@), !.mine = Append(@, Head(s.todo))])
    <2> DEFINE t == [s EXCEPT !.todo = Tail(@), !.mine = Append(@, Head(s.todo))]
               q == [Rq("registerOPFSFileName", <<Head(t.todo)>>) EXCEPT !.config.auto = TRUE]
               u == [t EXCEPT !.at = "register"]
    <2>1. PostTask(c, kept, q, u)
      BY <1>3, Zenon DEF RegisterNext
    <2>2. /\ Tail(s.todo) \in Seq(Files) /\ Head(Tail(s.todo)) \in Files
          /\ Append(s.mine, Head(s.todo)) \in Seq(Files)
          /\ t.todo = Tail(s.todo)
      BY <1>1, <1>2, <1>3 DEF CallerStates
    <2>3. q \in Request /\ q.kind = "registerOPFSFileName"
      BY <2>2, RqTyped DEF Rq, NoRequest
    <2>4. u \in CallerStates /\ u.script = s.script /\ u.at = "register" /\ u.todo = Tail(s.todo)
      BY <1>1, <2>2 DEF CallerStates, Awaits
    <2> HIDE DEF u, q
    <2> QED BY <2>1, <2>3, <2>4, <1>1, <1>2, <1>3, PostIsCallerStep
  <1>4. CASE s.at = "register" /\ status = "ok" /\ Tail(s.todo) = <<>>
             /\ RunQuery(c, kept, [s EXCEPT !.todo = <<>>, !.mine = Append(@, Head(s.todo))])
    <2> DEFINE t == [s EXCEPT !.todo = <<>>, !.mine = Append(@, Head(s.todo))]
               q == [r EXCEPT !.config.auto = t.at = "register"]
               u == [t EXCEPT !.at = "run"]
    <2>1. PostTask(c, kept, q, u)
      BY <1>4, Zenon DEF RunQuery
    <2>2. Append(s.mine, Head(s.todo)) \in Seq(Files) /\ <<>> \in Seq(Files)
      BY <1>1, <1>2, <1>4
    <2>3. q \in Request /\ q.kind = "runQuery"
      BY <1>1, <1>2, <1>4, RqTyped DEF Request
    <2>4. u \in CallerStates /\ u.script = s.script /\ u.at = "run"
      BY <1>1, <2>2 DEF CallerStates, Awaits
    <2> HIDE DEF u, q
    <2> QED BY <2>1, <2>3, <2>4, <1>1, <1>2, <1>4, PostIsCallerStep
  <1>5. CASE s.at = "run" /\ PostTask(c, kept, Rq("dropFiles", s.mine), [s EXCEPT !.at = "drop"])
    <2> DEFINE q == Rq("dropFiles", s.mine)
               u == [s EXCEPT !.at = "drop"]
    <2>1. q \in Request /\ q.kind = "dropFiles"
      BY <1>1, RqTyped DEF Rq, NoRequest
    <2>2. u \in CallerStates /\ u.script = s.script /\ u.at = "drop"
      BY <1>1 DEF CallerStates, Awaits
    <2>3. PostTask(c, kept, q, u)
      BY <1>5
    <2> HIDE DEF u, q
    <2> QED BY <2>1, <2>2, <2>3, <1>1, <1>2, <1>5, PostIsCallerStep
  <1>6. CASE Return(c, kept)
    BY <1>1, <1>6, Zenon DEF CallerStep
  <1> QED BY <1>3, <1>4, <1>5, <1>6 DEF Continue

\* The types and the agreement of callers and handlers survive a CallerStep.
LEMMA CallerStepKeepsInv0 ==
  ASSUME Inv0, NEW c \in Callers, NEW kept \in SUBSET Ids, CallerStep(c, kept),
         promise' \in [Ids -> {"none", "ok", "error"}], replies' \in Seq(Replies),
         UNCHANGED <<worker, listening, failed, alive, handler, answered, handles, engine>>
  PROVE  Inv0'
  <1> USE DEF Inv0, TypeOK, MessagesTyped, CallersTyped
  <1>1. /\ nextMessageId \in Nat /\ MaxMessages \in Nat
        /\ nextMessageId < MaxMessages => nextMessageId \in Ids
        /\ \A m \in Ids : m \in Nat /\ m # None
    BY ScriptAssumption DEF Ids
  <1>2. WorkerTyped' /\ EngineAgrees'
    BY DEF WorkerTyped, EngineAgrees, handles, engine
  <1>3. /\ pendingRequests' \in SUBSET Ids /\ nextMessageId' \in 0 .. MaxMessages
        /\ task' \in [Ids -> Request \cup {NoRequest}] /\ requests' \in Seq(Ids)
        /\ config' \in Configs
    <2>1. CASE Return(c, kept) /\ config' \in Configs
      BY <2>1 DEF Return
    <2>2. ASSUME nextMessageId < MaxMessages, NEW r \in Request,
                 nextMessageId' = nextMessageId + 1,
                 pendingRequests' = kept \cup {nextMessageId},
                 task' = [task EXCEPT ![nextMessageId] = r],
                 requests' = Append(requests, nextMessageId),
                 config' = IF r.kind = "open" THEN r.config ELSE config
          PROVE  /\ pendingRequests' \in SUBSET Ids /\ nextMessageId' \in 0 .. MaxMessages
                 /\ task' \in [Ids -> Request \cup {NoRequest}] /\ requests' \in Seq(Ids)
                 /\ config' \in Configs
      <3>1. r.config \in Configs
        BY DEF Request
      <3> QED BY <2>2, <3>1, <1>1
    <2> QED BY <2>1, <2>2 DEF CallerStep
  <1>4. PostedAgree' /\ StagesAgree'
    <2>1. CASE UNCHANGED <<nextMessageId, task, requests>>
      BY <2>1 DEF PostedAgree, StagesAgree, Fits
    <2>2. ASSUME nextMessageId < MaxMessages, NEW r \in Request,
                 nextMessageId' = nextMessageId + 1,
                 task' = [task EXCEPT ![nextMessageId] = r],
                 requests' = Append(requests, nextMessageId)
          PROVE  PostedAgree' /\ StagesAgree'
      <3>1. handler[nextMessageId].at = "none"
        BY <2>2, <1>1 DEF PostedAgree
      <3>2. \A m \in Ids : m # nextMessageId => task'[m] = task[m]
        BY <2>2
      <3>3. StagesAgree'
        <4> SUFFICES ASSUME NEW m \in Ids PROVE Fits(m, handler[m])'
          BY DEF StagesAgree
        <4> QED BY <3>1, <3>2 DEF Fits, StagesAgree
      <3>4. PostedAgree'
        BY <2>2, <1>1, <3>2 DEF PostedAgree
      <3> QED BY <3>3, <3>4
    <2> QED BY <2>1, <2>2 DEF CallerStep, Return
  <1>5. CallersAgree' /\ caller' \in [Callers -> CallerStates]
    <2>1. ASSUME NEW t \in CallerStates, caller' = [caller EXCEPT ![c] = t],
                 t.at = "start" => t.mid = None, t.at # "start" => t.script # <<>>,
                 t.at \in {"register", "run", "drop"} => Head(t.script).kind = "runQuery",
                 t.at = "register" => t.todo # <<>>
          PROVE  CallersAgree' /\ caller' \in [Callers -> CallerStates]
      BY <2>1 DEF CallersAgree, CallOf
    <2>2. CASE Return(c, kept)
      <3>1. caller[c] \in CallerStates /\ caller[c].script \in Seq(Request) /\ caller[c].script # <<>>
        BY <2>2 DEF CallerStates, CallerStep
      <3> DEFINE t == Idle(Tail(caller[c].script))
      <3>2. t \in CallerStates /\ t.at = "start" /\ t.mid = None
        BY <3>1 DEF CallerStates, Awaits, Idle
      <3>3. caller' = [caller EXCEPT ![c] = t]
        BY <2>2 DEF Return
      <3> HIDE DEF t
      <3> QED BY <3>2, <3>3, <2>1
    <2> QED BY <2>1, <2>2 DEF CallerStep, CallOf
  <1> QED BY <1>1, <1>2, <1>3, <1>4, <1>5

----------------------------------------------------------------------------
(* The worker *)

\* What a handler finds that takes a request.
LEMMA Taken ==
  ASSUME Inv0, NEW kinds, Take(kinds)
  PROVE  LET m == Head(requests) IN
         /\ alive /\ Takes(m)
         /\ m \in Ids /\ task[m] \in Request /\ task[m].kind \in kinds
         /\ handler[m].at = "none" /\ m # None /\ m = requests[1]
         /\ Fits(m, handler[m])
  <1>1. /\ requests \in Seq(Ids) /\ requests # <<>> /\ requests[1] = Head(requests)
        /\ 1 \in 1 .. Len(requests) /\ Head(requests) \in Ids
    BY DEF Take, Inv0, TypeOK, MessagesTyped
  <1> QED BY <1>1, ScriptAssumption DEF Take, Takes, Inv0, PostedAgree, StagesAgree, Ids

\* A handler that answers at once.
LEMMA AnswersAtOnce ==
  ASSUME NEW m \in Ids, alive, Takes(m), handler[m].at = "none", Fits(m, handler[m]),
         UNCHANGED <<client, calls, alive, handler>>, WorkerTyped', EngineAgrees',
         NEW how \in {"ok", "error", "missing"}, Answer(m, how), Effect(m, how)
  PROVE  WorkerStep(m)
  <1>1. Fits(m, handler'[m])
    BY DEF Fits
  <1>2. WorkerMove(m)
    BY <1>1 DEF WorkerMove, calls
  <1>3. Ends(m)
    BY DEF Ends
  <1> QED BY <1>2, <1>3 DEF WorkerStep

LEMMA PingStep ==
  ASSUME Inv0, Ping
  PROVE  \E m \in Ids : WorkerStep(m)
  <1>1. PICK m \in Ids : m = Head(requests) /\ alive /\ Takes(m)
                         /\ handler[m].at = "none" /\ Fits(m, handler[m])
    BY Taken, Zenon DEF Ping
  <1>2. /\ Answer(m, "ok")
        /\ UNCHANGED <<client, calls, alive, handler, handles, engine>>
    BY <1>1, Zenon DEF Ping
  <1>3. WorkerTyped' /\ EngineAgrees'
    BY <1>2 DEF Inv0, TypeOK, WorkerTyped, EngineAgrees, handles, engine
  <1>4. Effect(m, "ok")
    BY <1>2 DEF Effect, engine
  <1> QED BY <1>1, <1>2, <1>3, <1>4, AnswersAtOnce, Zenon

LEMMA NotInitializedStep ==
  ASSUME Inv0, NotInitialized
  PROVE  \E m \in Ids : WorkerStep(m)
  <1>1. PICK m \in Ids : m = Head(requests) /\ alive /\ Takes(m)
                         /\ handler[m].at = "none" /\ Fits(m, handler[m])
    BY Taken, Zenon DEF NotInitialized
  <1>2. /\ Answer(m, "error")
        /\ UNCHANGED <<client, calls, alive, handler, handles, engine>>
    BY <1>1, Zenon DEF NotInitialized
  <1>3. WorkerTyped' /\ EngineAgrees'
    BY <1>2 DEF Inv0, TypeOK, WorkerTyped, EngineAgrees, handles, engine
  <1>4. Effect(m, "error")
    BY <1>2 DEF Effect, engine
  <1> QED BY <1>1, <1>2, <1>3, <1>4, AnswersAtOnce, Zenon

LEMMA OtherStep ==
  ASSUME Inv0, Other
  PROVE  \E m \in Ids : WorkerStep(m)
  <1>1. PICK m \in Ids : m = Head(requests) /\ alive /\ Takes(m) /\ task[m].kind = "other"
                         /\ handler[m].at = "none" /\ Fits(m, handler[m])
    BY Taken DEF Other
  <1>2. /\ bindings # None
        /\ UNCHANGED <<client, calls, alive, handler, handles, bindings, opened>>
    BY <1>1, Zenon DEF Other
  <1>3. PICK how \in {"ok", "error", "missing"} :
          /\ Answer(m, how)
          /\ (how = "ok" /\ database' = Append(database, m)) \/ UNCHANGED database
    BY <1>1, Zenon DEF Other
  <1>4. WorkerTyped' /\ EngineAgrees'
    BY <1>2, <1>3 DEF Inv0, TypeOK, WorkerTyped, EngineAgrees, handles
  <1>5. Effect(m, how)
    BY <1>1, <1>2, <1>3 DEF Effect
  <1> QED BY <1>1, <1>2, <1>3, <1>4, <1>5, AnswersAtOnce, Zenon

LEMMA ResetStep ==
  ASSUME Inv0, Reset
  PROVE  \E m \in Ids : WorkerStep(m)
  <1>1. PICK m \in Ids : m = Head(requests) /\ alive /\ Takes(m) /\ task[m].kind = "reset"
                         /\ handler[m].at = "none" /\ Fits(m, handler[m])
    BY Taken DEF Reset
  <1>2. /\ bindings # None /\ Answer(m, "ok") /\ opened' = NoConfig /\ database' = <<m>>
        /\ UNCHANGED <<client, calls, alive, handler, handles, bindings>>
    BY <1>1, Zenon DEF Reset
  <1>3. WorkerTyped' /\ EngineAgrees'
    <2>1. NoConfig \in Configs
      BY DEF NoConfig, Configs
    <2> QED BY <1>2, <2>1 DEF Inv0, TypeOK, WorkerTyped, EngineAgrees, handles
  <1>4. Effect(m, "ok")
    BY <1>2 DEF Effect
  <1> QED BY <1>1, <1>2, <1>3, <1>4, AnswersAtOnce, Zenon

LEMMA QueryStep ==
  ASSUME Inv0, Query
  PROVE  \E m \in Ids : WorkerStep(m)
  <1>1. PICK m \in Ids : m = Head(requests) /\ alive /\ Takes(m) /\ task[m].kind = "runQuery"
                         /\ task[m] \in Request
                         /\ handler[m].at = "none" /\ Fits(m, handler[m])
    BY Taken DEF Query
  <1>2. /\ bindings # None
        /\ UNCHANGED <<client, calls, alive, handler, root, pinned, bindings, opened>>
    BY <1>1, Zenon DEF Query
  <1>3. PICK how \in {"ok", "error", "missing"} :
          /\ Answer(m, how)
          /\ \/ /\ how = "ok" /\ database' = Append(database, m)
                /\ files' = files \cup task[m].writes
                /\ prepared' = prepared \ task[m].writes
                /\ stored' = stored \cup task[m].writes
             \/ UNCHANGED <<database, files, prepared, stored>>
    BY <1>1 DEF Query
  <1>4. task[m].writes \in SUBSET Files
    BY <1>1 DEF Request
  <1>5. WorkerTyped' /\ EngineAgrees'
    BY <1>2, <1>3, <1>4 DEF Inv0, TypeOK, WorkerTyped, EngineAgrees
  <1>6. Effect(m, how)
    BY <1>1, <1>2, <1>3 DEF Effect
  <1> QED BY <1>1, <1>2, <1>3, <1>5, <1>6, AnswersAtOnce, Zenon

LEMMA DropStep ==
  ASSUME Inv0, DropNamed \/ DropAll
  PROVE  \E m \in Ids : WorkerStep(m)
  <1>1. PICK m \in Ids : m = Head(requests) /\ alive /\ Takes(m)
                         /\ handler[m].at = "none" /\ Fits(m, handler[m])
    BY Taken, Zenon DEF DropNamed, DropAll
  <1>2. UNCHANGED <<client, calls, alive, handler, root, prepared, stored, engine>>
    BY <1>1, Zenon DEF DropNamed, DropAll
  <1>3. PICK how \in {"ok", "error", "missing"} :
          Answer(m, how) /\ pinned' \subseteq pinned /\ files' \subseteq files
    BY <1>1 DEF DropNamed, DropAll
  <1>4. WorkerTyped' /\ EngineAgrees'
    BY <1>2, <1>3 DEF Inv0, TypeOK, WorkerTyped, EngineAgrees, engine
  <1>5. Effect(m, how)
    BY <1>1, <1>2, <1>3 DEF Effect, engine
  <1> QED BY <1>1, <1>2, <1>3, <1>4, <1>5, AnswersAtOnce, Zenon

\* What a handler finds that goes on after an await.
LEMMA Resumed ==
  ASSUME Inv0, NEW m \in Ids, handler[m].at # "none"
  PROVE  /\ task[m] \in Request /\ Fits(m, handler[m]) /\ m # None
         /\ handler[m] \in Handlers
  BY ScriptAssumption DEF Inv0, TypeOK, WorkerTyped, PostedAgree, StagesAgree, Ids

LEMMA InstantiateStep ==
  ASSUME Inv0, Instantiate
  PROVE  \E m \in Ids : WorkerStep(m)
  <1>1. PICK m \in Ids : m = Head(requests) /\ alive /\ Takes(m) /\ task[m].kind = "instantiate"
    BY Taken DEF Instantiate
  <1> DEFINE h == [NoHandler EXCEPT !.at = "instantiate"]
  <1>2. /\ handler' = [handler EXCEPT ![m] = h]
        /\ UNCHANGED <<client, calls, alive, handles, engine>>
    BY <1>1, Zenon DEF Instantiate
  <1>3. (bindings # None /\ Answer(m, "error")) \/ (bindings = None /\ UNCHANGED <<replies, answered>>)
    BY <1>1, Zenon DEF Instantiate
  <1>4. h \in Handlers /\ h.at = "instantiate"
    <2>1. h = [at |-> "instantiate", inst |-> None, todo |-> <<>>, fresh |-> {}]
      BY DEF NoHandler
    <2>2. <<>> \in Seq(Files)
      OBVIOUS
    <2> QED BY <2>1, <2>2, Zenon DEF Handlers, Stages
  <1> HIDE DEF h
  <1>5. handler'[m] = h /\ handler' \in [Ids -> Handlers]
    BY <1>2, <1>4 DEF Inv0, TypeOK, WorkerTyped
  <1>6. WorkerMove(m)
    <2>1. WorkerTyped' /\ EngineAgrees'
      BY <1>2, <1>5 DEF Inv0, TypeOK, WorkerTyped, EngineAgrees, handles, engine
    <2>2. Fits(m, handler'[m])
      BY <1>1, <1>4, <1>5 DEF Fits
    <2>3. \A n \in Ids \ {m} : handler'[n] = handler[n]
      BY <1>2 DEF Inv0, TypeOK, WorkerTyped
    <2>4. UNCHANGED <<replies, answered>> \/ \E how \in {"ok", "error", "missing"} : Answer(m, how)
      BY <1>3, Zenon
    <2> QED BY <1>1, <1>2, <2>1, <2>2, <2>3, <2>4 DEF WorkerMove, calls
  <1>7. CASE bindings # None
    BY <1>1, <1>6, <1>7 DEF WorkerStep, InstantiatesAgain
  <1>8. CASE bindings = None
    <2>1. Suspends(m)
      BY <1>1, <1>2, <1>3, <1>4, <1>5, <1>8 DEF Suspends, Synchronous, engine
    <2> QED BY <1>6, <2>1 DEF WorkerStep
  <1> QED BY <1>7, <1>8

LEMMA InstantiatedStep ==
  ASSUME Inv0, NEW m \in Ids, Instantiated(m)
  PROVE  WorkerStep(m)
  <1>1. /\ alive /\ handler[m].at = "instantiate" /\ handler' = [handler EXCEPT ![m] = NoHandler]
        /\ opened' = NoConfig /\ pinned' = {}
        /\ UNCHANGED <<client, calls, requests, alive, root, files, prepared, stored>>
    BY Zenon DEF Instantiated
  <1>2. task[m].kind = "instantiate" /\ m # None
    BY <1>1, Resumed DEF Fits
  <1>3. PICK how \in {"ok", "error", "missing"} :
          /\ Answer(m, how)
          /\ \/ how = "ok" /\ bindings' = m /\ database' = <<m>>
             \/ bindings' = None /\ database' = <<>>
    BY Zenon DEF Instantiated
  <1>4. NoHandler \in Handlers /\ NoHandler.at = "none" /\ NoConfig \in Configs
    BY DEF NoHandler, Handlers, Stages, NoConfig, Configs
  <1>5. handler'[m] = NoHandler /\ handler' \in [Ids -> Handlers]
    BY <1>1, <1>4 DEF Inv0, TypeOK, WorkerTyped
  <1>6. WorkerMove(m)
    <2>1. WorkerTyped' /\ EngineAgrees'
      <3>1. <<m>> \in Seq(Ids) /\ <<>> \in Seq(Ids)
        OBVIOUS
      <3>2. bindings' \in Ids \cup {None} /\ database' \in Seq(Ids) /\ EngineAgrees'
        BY <1>2, <1>3, <3>1 DEF EngineAgrees
      <3> QED BY <1>1, <1>4, <1>5, <3>2 DEF Inv0, TypeOK, WorkerTyped
    <2>2. Fits(m, handler'[m])
      BY <1>4, <1>5 DEF Fits
    <2>3. \A n \in Ids \ {m} : handler'[n] = handler[n]
      BY <1>1 DEF Inv0, TypeOK, WorkerTyped
    <2>4. Resumes(m)
      BY <1>1 DEF Resumes
    <2> QED BY <1>1, <1>3, <2>1, <2>2, <2>3, <2>4 DEF WorkerMove, calls
  <1>7. CASE bindings # None
    BY <1>2, <1>6, <1>7 DEF WorkerStep, InstantiatesAgain
  <1>8. CASE bindings = None
    <2>1. database = <<>>
      BY <1>8 DEF Inv0, EngineAgrees
    <2>2. Effect(m, how)
      BY <1>2, <1>3, <1>8, <2>1 DEF Effect
    <2>3. Ends(m)
      BY <1>3, <1>4, <1>5, <2>2 DEF Ends
    <2> QED BY <1>6, <2>3 DEF WorkerStep
  <1> QED BY <1>7, <1>8

\* What DuckDB makes of a request to open a database.
LEMMA OpenDatabaseEnds ==
  ASSUME Inv0, NEW m \in Ids, task[m] \in Request,
         NEW reg \in SUBSET Files, NEW prep \in SUBSET Files, OpenDatabase(m, reg, prep)
  PROVE  /\ files' \in SUBSET Files /\ prepared' \in SUBSET Files
         /\ bindings' = bindings /\ opened' \in Configs /\ database' \in Seq(Ids)
         /\ EngineAgrees'
         /\ \E how \in {"ok", "error", "missing"} : Answer(m, how) /\ Effect(m, how)
  <1>1. opened \in Configs /\ database \in Seq(Ids) /\ task[m].config \in Configs
    BY DEF Inv0, TypeOK, WorkerTyped, Request
  <1>2. CASE /\ bindings # None
             /\ files' = reg \cup (prep \cap DatabaseFiles(task[m].config))
             /\ prepared' = prep \ DatabaseFiles(task[m].config)
             /\ opened' = task[m].config /\ database' = <<m>> /\ Answer(m, "ok")
             /\ UNCHANGED bindings
    <2>1. Effect(m, "ok")
      BY <1>2 DEF Effect
    <2> QED BY <1>1, <1>2, <2>1 DEF EngineAgrees
  <1>3. CASE files' = reg /\ prepared' = prep /\ Answer(m, "error") /\ UNCHANGED engine
    <2>1. Effect(m, "error")
      BY <1>3 DEF Effect, engine
    <2> QED BY <1>1, <1>3, <2>1 DEF EngineAgrees, engine, Inv0
  <1> QED BY <1>2, <1>3, Zenon DEF OpenDatabase

\* A handler that is suspended is a WorkerStep ...
LEMMA SuspendStep ==
  ASSUME Inv0, NEW m \in Ids, alive, Takes(m) \/ Resumes(m),
         UNCHANGED <<client, calls, alive, stored>>,
         root' \in BOOLEAN, prepared' \in SUBSET Files, task[m].kind \notin Synchronous,
         NEW at \in Stages, at # "none", NEW todo \in Seq(Files), NEW fresh \in SUBSET Files,
         at = "instantiate" => task[m].kind = "instantiate",
         at \in {"root", "acquire"} => task[m].kind \in {"open", "registerOPFSFileName"},
         at = "acquire" => todo # <<>>,
         at = "convert" => task[m].kind = "registerFileHandle" /\ todo # <<>>,
         Suspend(m, at, todo, fresh)
  PROVE  WorkerStep(m)
  <1> DEFINE h == [at |-> at, inst |-> IF handler[m].at = "none" THEN bindings ELSE handler[m].inst,
                   todo |-> todo, fresh |-> fresh]
  <1>1. /\ handler' = [handler EXCEPT ![m] = h]
        /\ UNCHANGED <<replies, answered, files, pinned, engine>>
    BY DEF Suspend
  <1>2. h \in Handlers /\ h.at = at /\ h.todo = todo
    BY DEF Handlers, Inv0, TypeOK, WorkerTyped
  <1> HIDE DEF h
  <1>3. handler'[m] = h /\ handler' \in [Ids -> Handlers]
    BY <1>1, <1>2 DEF Inv0, TypeOK, WorkerTyped
  <1>4. WorkerMove(m)
    <2>1. WorkerTyped' /\ EngineAgrees'
      BY <1>1, <1>3 DEF Inv0, TypeOK, WorkerTyped, EngineAgrees, engine
    <2>2. Fits(m, handler'[m])
      BY <1>2, <1>3 DEF Fits
    <2>3. \A n \in Ids \ {m} : handler'[n] = handler[n]
      BY <1>1 DEF Inv0, TypeOK, WorkerTyped
    <2> QED BY <1>1, <2>1, <2>2, <2>3 DEF WorkerMove, calls
  <1>5. Suspends(m)
    BY <1>1, <1>2, <1>3 DEF Suspends, engine
  <1> QED BY <1>4, <1>5 DEF WorkerStep

\* ... and so is one that ends with its answer.
LEMMA FinishStep ==
  ASSUME Inv0, NEW m \in Ids, alive, Takes(m) \/ Resumes(m),
         UNCHANGED <<client, calls, alive, stored>>, root' \in BOOLEAN,
         files' \in SUBSET Files, prepared' \in SUBSET Files, pinned' \in SUBSET Files,
         bindings' = bindings, opened' \in Configs, database' \in Seq(Ids), EngineAgrees',
         Finish(m),
         \E how \in {"ok", "error", "missing"} : Answer(m, how) /\ Effect(m, how)
  PROVE  WorkerStep(m)
  <1>1. NoHandler \in Handlers /\ NoHandler.at = "none"
    BY DEF NoHandler, Handlers, Stages
  <1>2. handler'[m] = NoHandler /\ handler' \in [Ids -> Handlers]
    BY <1>1 DEF Finish, Inv0, TypeOK, WorkerTyped
  <1>3. WorkerMove(m)
    <2>1. WorkerTyped'
      BY <1>2 DEF Inv0, TypeOK, WorkerTyped
    <2>2. Fits(m, handler'[m])
      BY <1>1, <1>2 DEF Fits
    <2>3. \A n \in Ids \ {m} : handler'[n] = handler[n]
      BY DEF Finish, Inv0, TypeOK, WorkerTyped
    <2>4. \E how \in {"ok", "error", "missing"} : Answer(m, how)
      OBVIOUS
    <2> QED BY <2>1, <2>2, <2>3, <2>4 DEF WorkerMove, calls
  <1>4. Ends(m)
    BY <1>1, <1>2 DEF Ends
  <1> QED BY <1>3, <1>4 DEF WorkerStep

LEMMA RefuseStep ==
  ASSUME Inv0, NEW m \in Ids, alive, Takes(m) \/ Resumes(m),
         UNCHANGED <<client, calls, alive, stored>>, root' \in BOOLEAN,
         prepared' \in SUBSET Files, Refuse(m)
  PROVE  WorkerStep(m)
  <1>1. Finish(m) /\ Answer(m, "error") /\ UNCHANGED <<files, pinned, engine>>
    BY DEF Refuse
  <1>2. Effect(m, "error")
    BY <1>1 DEF Effect, engine
  <1>3. /\ files' \in SUBSET Files /\ pinned' \in SUBSET Files /\ bindings' = bindings
        /\ opened' \in Configs /\ database' \in Seq(Ids) /\ EngineAgrees'
    BY <1>1 DEF Inv0, TypeOK, WorkerTyped, EngineAgrees, engine
  <1> QED BY <1>1, <1>2, <1>3, FinishStep

\* Every outcome of prepareFileHandles is a WorkerStep.
LEMMA PrepareStep ==
  ASSUME Inv0, NEW m \in Ids, alive, Takes(m) \/ Resumes(m),
         UNCHANGED <<client, calls, alive, stored>>, root' \in BOOLEAN,
         task[m] \in Request, task[m].kind \in {"open", "registerOPFSFileName"},
         NEW todo \in Seq(Files), NEW fresh \in SUBSET Files, NEW prep \in SUBSET Files,
         Prepare(m, todo, fresh, prep)
  PROVE  WorkerStep(m)
  <1>1. CASE /\ Skip(todo) # <<>>
             /\ Suspend(m, "acquire", Skip(todo), fresh) /\ prepared' = prep
    <2>1. Skip(todo) \in Seq(Files)
      BY SkipTyped
    <2>2. "acquire" \in Stages /\ "acquire" # "none" /\ task[m].kind \notin Synchronous
      BY DEF Stages, Synchronous
    <2> QED BY <1>1, <2>1, <2>2, SuspendStep
  <1>2. CASE Prepared(m, fresh, prep)
    <2> DEFINE full == fresh \cap stored
    <2>1. full \in SUBSET Files /\ files \in SUBSET Files /\ pinned \in SUBSET Files
      BY DEF Inv0, TypeOK, WorkerTyped
    <2>2. Finish(m) /\ pinned' \in SUBSET Files
      BY <1>2, <2>1 DEF Prepared, Register
    <2>3. CASE OpenDatabase(m, files \cup full, prep \ full)
      <3>1. files \cup full \in SUBSET Files /\ prep \ full \in SUBSET Files
        BY <2>1
      <3> HIDE DEF full
      <3>2. /\ files' \in SUBSET Files /\ prepared' \in SUBSET Files
            /\ bindings' = bindings /\ opened' \in Configs /\ database' \in Seq(Ids)
            /\ EngineAgrees'
            /\ \E how \in {"ok", "error", "missing"} : Answer(m, how) /\ Effect(m, how)
        BY <2>3, <3>1, OpenDatabaseEnds
      <3> QED BY <2>2, <3>2, FinishStep
    <2>4. CASE /\ files' = files \cup full /\ prepared' = prep \ full
               /\ Answer(m, "ok") /\ UNCHANGED engine
      <3>1. Effect(m, "ok")
        BY <2>4 DEF Effect, engine
      <3>2. /\ files' \in SUBSET Files /\ prepared' \in SUBSET Files /\ bindings' = bindings
            /\ opened' \in Configs /\ database' \in Seq(Ids) /\ EngineAgrees'
        BY <2>1, <2>4 DEF Inv0, TypeOK, WorkerTyped, EngineAgrees, engine
      <3> QED BY <2>2, <2>4, <3>1, <3>2, FinishStep
    <2> QED BY <1>2, <2>3, <2>4, Zenon DEF Prepared
  <1>3. CASE Refuse(m) /\ prepared' = prep
    BY <1>3, RefuseStep
  <1> QED BY <1>1, <1>2, <1>3, Zenon DEF Prepare

\* The files that a request registers or opens.
LEMMA FilesToPrepareTyped ==
  ASSUME NEW r \in Request, r.kind = "open" => r.config.path # None
  PROVE  FilesToPrepare(r) \in Seq(Files)
  <1>1. CASE r.kind = "open"
    <2>1. r.config.path \in DOMAIN WalOf
      BY <1>1 DEF Request, Configs
    <2>2. r.config.path \in Files /\ WalOf[r.config.path] \in Files
      BY <2>1, ScriptAssumption
    <2> QED BY <1>1, <2>2 DEF FilesToPrepare
  <1>2. CASE r.kind # "open"
    BY <1>2 DEF FilesToPrepare, Request
  <1> QED BY <1>1, <1>2

LEMMA StartPrepareStep ==
  ASSUME Inv0, StartPrepare
  PROVE  \E m \in Ids : WorkerStep(m)
  <1>1. PICK m \in Ids : /\ m = Head(requests) /\ alive /\ Takes(m)
                         /\ task[m].kind \in {"open", "registerOPFSFileName"} /\ task[m] \in Request
                         /\ handler[m].at = "none" /\ Fits(m, handler[m])
    BY Taken, Zenon DEF StartPrepare
  <1> DEFINE r == task[m]
  <1>2. UNCHANGED <<client, calls, alive, root, stored>> /\ root \in BOOLEAN /\ prepared \in SUBSET Files
    BY DEF StartPrepare, Inv0, TypeOK, WorkerTyped
  <1>3. (r.kind = "open" => r.config.path # None) => FilesToPrepare(r) \in Seq(Files)
    BY <1>1, FilesToPrepareTyped
  <1>4. CASE OpenDatabase(m, files, prepared) /\ UNCHANGED <<handler, pinned>>
    <2>1. files \in SUBSET Files
      BY DEF Inv0, TypeOK, WorkerTyped
    <2>2. /\ files' \in SUBSET Files /\ prepared' \in SUBSET Files
          /\ bindings' = bindings /\ opened' \in Configs /\ database' \in Seq(Ids)
          /\ EngineAgrees'
          /\ \E how \in {"ok", "error", "missing"} : Answer(m, how) /\ Effect(m, how)
      BY <1>1, <1>2, <1>4, <2>1, OpenDatabaseEnds
    <2>3. WorkerTyped'
      BY <1>2, <1>4, <2>2 DEF Inv0, TypeOK, WorkerTyped
    <2> QED BY <1>1, <1>2, <1>4, <2>2, <2>3, AnswersAtOnce
  <1>5. CASE /\ r.kind = "open" => r.config.path # None
             /\ Suspend(m, "root", FilesToPrepare(r), {}) /\ UNCHANGED prepared
    <2>1. /\ "root" \in Stages /\ "root" # "none" /\ task[m].kind \notin Synchronous
          /\ {} \in SUBSET Files
      BY <1>1 DEF Stages, Synchronous
    <2> QED BY <1>1, <1>2, <1>3, <1>5, <2>1, SuspendStep
  <1>6. CASE /\ r.kind = "open" => r.config.path # None
             /\ Prepare(m, FilesToPrepare(r), {}, prepared)
    BY <1>1, <1>2, <1>3, <1>6, PrepareStep
  <1> QED BY <1>1, <1>4, <1>5, <1>6, Zenon DEF StartPrepare

LEMMA AssignOPFSRootStep ==
  ASSUME Inv0, NEW m \in Ids, AssignOPFSRoot(m)
  PROVE  WorkerStep(m)
  <1>1. /\ alive /\ Resumes(m) /\ root' \in BOOLEAN
        /\ UNCHANGED <<client, calls, alive, stored>>
        /\ Prepare(m, handler[m].todo, {}, prepared)
    BY DEF AssignOPFSRoot, Resumes
  <1>2. /\ task[m] \in Request /\ task[m].kind \in {"open", "registerOPFSFileName"}
        /\ handler[m].todo \in Seq(Files)
    BY Resumed DEF AssignOPFSRoot, Fits, Handlers
  <1>3. {} \in SUBSET Files /\ prepared \in SUBSET Files
    BY DEF Inv0, TypeOK, WorkerTyped
  <1> QED BY <1>1, <1>2, <1>3, PrepareStep

LEMMA AcquireStep ==
  ASSUME Inv0, NEW m \in Ids, Acquire(m)
  PROVE  WorkerStep(m)
  <1> DEFINE h == handler[m]
             f == Head(h.todo)
  <1>1. /\ alive /\ Resumes(m) /\ UNCHANGED <<client, calls, alive, root, stored>>
        /\ root' \in BOOLEAN /\ prepared \in SUBSET Files
    BY DEF Acquire, Resumes, Inv0, TypeOK, WorkerTyped
  <1>2. /\ task[m] \in Request /\ task[m].kind \in {"open", "registerOPFSFileName"}
        /\ h.todo \in Seq(Files) /\ h.todo # <<>> /\ h.fresh \in SUBSET Files
    BY Resumed DEF Acquire, Fits, Handlers
  <1>3. f \in Files /\ Tail(h.todo) \in Seq(Files)
    BY <1>2
  <1>4. CASE Prepare(m, Tail(h.todo), h.fresh \cup {f}, prepared \cup {f})
    <2>1. h.fresh \cup {f} \in SUBSET Files /\ prepared \cup {f} \in SUBSET Files
      BY <1>1, <1>2, <1>3
    <2> HIDE DEF f, h
    <2> QED BY <1>1, <1>2, <1>3, <1>4, <2>1, PrepareStep
  <1>5. CASE Refuse(m) /\ UNCHANGED prepared
    BY <1>1, <1>5, RefuseStep
  <1> QED BY <1>4, <1>5, Zenon DEF Acquire

LEMMA StartConvertStep ==
  ASSUME Inv0, StartConvert
  PROVE  \E m \in Ids : WorkerStep(m)
  <1>1. PICK m \in Ids : /\ m = Head(requests) /\ alive /\ Takes(m)
                         /\ task[m].kind = "registerFileHandle" /\ task[m] \in Request
    BY Taken DEF StartConvert
  <1>2. /\ UNCHANGED <<client, calls, alive, root, prepared, stored>>
        /\ root' \in BOOLEAN /\ prepared' \in SUBSET Files
    BY DEF StartConvert, Inv0, TypeOK, WorkerTyped
  <1>3. Suspend(m, "convert", task[m].files, {})
    BY <1>1, Zenon DEF StartConvert
  <1>4. task[m].files \in Seq(Files) /\ task[m].files # <<>>
    BY <1>1 DEF Request
  <1>5. /\ "convert" \in Stages /\ "convert" # "none" /\ task[m].kind \notin Synchronous
        /\ {} \in SUBSET Files
    BY <1>1 DEF Stages, Synchronous
  <1> QED BY <1>1, <1>2, <1>3, <1>4, <1>5, SuspendStep

LEMMA ConvertStep ==
  ASSUME Inv0, NEW m \in Ids, Convert(m)
  PROVE  WorkerStep(m)
  <1> DEFINE f == Head(handler[m].todo)
  <1>1. /\ alive /\ Resumes(m) /\ UNCHANGED <<client, calls, alive, root, prepared, stored>>
        /\ root' \in BOOLEAN /\ prepared' \in SUBSET Files
    BY DEF Convert, Resumes, Inv0, TypeOK, WorkerTyped
  <1>2. f \in Files
    BY Resumed DEF Convert, Fits, Handlers
  <1>3. CASE /\ Finish(m) /\ Register(m, {f}) /\ files' = files \cup {f}
             /\ Answer(m, "ok") /\ UNCHANGED engine
    <2>1. /\ files' \in SUBSET Files /\ pinned' \in SUBSET Files /\ bindings' = bindings
          /\ opened' \in Configs /\ database' \in Seq(Ids) /\ EngineAgrees'
      BY <1>2, <1>3 DEF Register, Inv0, TypeOK, WorkerTyped, EngineAgrees, engine
    <2>2. Effect(m, "ok")
      BY <1>3 DEF Effect, engine
    <2> QED BY <1>1, <1>3, <2>1, <2>2, FinishStep
  <1>4. CASE Refuse(m)
    BY <1>1, <1>4, RefuseStep
  <1> QED BY <1>3, <1>4, Zenon DEF Convert

\* Whatever the worker does is a WorkerStep.
LEMMA ServeIsWorkerStep ==
  ASSUME Inv0, Serve
  PROVE  \E m \in Ids : WorkerStep(m)
  BY PingStep, InstantiateStep, NotInitializedStep, OtherStep, ResetStep, QueryStep, DropStep,
     StartPrepareStep, StartConvertStep, Zenon DEF Serve

LEMMA ResumeIsWorkerStep ==
  ASSUME Inv0, NEW m \in Ids, Resume(m)
  PROVE  WorkerStep(m)
  BY InstantiatedStep, AssignOPFSRootStep, AcquireStep, ConvertStep, Zenon DEF Resume

----------------------------------------------------------------------------
(* Types *)

\* The request that is taken leaves the queue, the one that goes on was not in it.
LEMMA QueueAfter ==
  ASSUME Inv0, NEW m \in Ids, Takes(m) \/ Resumes(m)
  PROVE  /\ m < nextMessageId
         /\ requests' \in Seq(Ids)
         /\ \A j \in 1 .. Len(requests) : requests[j] # m => \E i \in 1 .. Len(requests') : requests'[i] = requests[j]
         /\ \E k \in {0, 1} : /\ k = 1 => Takes(m)
                              /\ Len(requests') = Len(requests) - k
                              /\ \A i \in 1 .. Len(requests') : /\ i + k \in 1 .. Len(requests)
                                                                /\ requests'[i] = requests[i + k]
                                                                /\ requests'[i] # m
  <1>1. /\ requests \in Seq(Ids) /\ nextMessageId \in Nat /\ \A n \in Ids : n \in Nat
        /\ \A i \in 1 .. Len(requests) :
              requests[i] \in Ids /\ requests[i] < nextMessageId /\ handler[requests[i]].at = "none"
        /\ \A i, j \in 1 .. Len(requests) : i < j => requests[i] < requests[j]
        /\ \A n \in Ids : handler[n].at # "none" => n < nextMessageId
    <2>1. \A n \in Ids : n \in Nat
      BY ScriptAssumption DEF Ids
    <2>2. nextMessageId \in Nat /\ requests \in Seq(Ids)
      BY ScriptAssumption DEF Inv0, TypeOK, MessagesTyped
    <2> QED BY <2>1, <2>2 DEF Inv0, PostedAgree
  <1>2. CASE Resumes(m)
    <2>1. /\ requests' = requests /\ m < nextMessageId
          /\ \A i \in 1 .. Len(requests') : /\ i + 0 \in 1 .. Len(requests)
                                            /\ requests'[i] = requests[i + 0]
                                            /\ requests'[i] # m
      BY <1>1, <1>2 DEF Resumes
    <2>2. Len(requests') = Len(requests) - 0
      BY <2>1, <1>1
    <2>3. \E k \in {0} : /\ k = 1 => Takes(m)
                        /\ Len(requests') = Len(requests) - k
                        /\ \A i \in 1 .. Len(requests') : /\ i + k \in 1 .. Len(requests)
                                                          /\ requests'[i] = requests[i + k]
                                                          /\ requests'[i] # m
      BY <2>1, <2>2
    <2>4. \A j \in 1 .. Len(requests) : \E i \in 1 .. Len(requests') : requests'[i] = requests[j]
      BY <2>1
    <2> QED BY <1>1, <2>1, <2>3, <2>4
  <1>3. CASE Takes(m)
    <2>1. /\ requests # <<>> /\ m = requests[1] /\ requests' = Tail(requests)
          /\ Len(requests') = Len(requests) - 1 /\ Len(requests) \in Nat /\ Len(requests) >= 1
          /\ requests' \in Seq(Ids)
      BY <1>1, <1>3 DEF Takes
    <2>2. \A i \in 1 .. Len(requests') : i + 1 \in 1 .. Len(requests) /\ requests'[i] = requests[i + 1]
      BY <1>1, <2>1
    <2>3. \A i \in 1 .. Len(requests') : requests'[i] # m
      <3> SUFFICES ASSUME NEW i \in 1 .. Len(requests') PROVE requests'[i] # m
        OBVIOUS
      <3>1. i + 1 \in 1 .. Len(requests) /\ 1 \in 1 .. Len(requests) /\ 1 < i + 1
        BY <2>1
      <3>2. requests[1] < requests[i + 1]
        BY <3>1, <1>1
      <3> QED BY <3>1, <3>2, <2>1, <2>2, <1>1
    <2>4. ASSUME NEW j \in 1 .. Len(requests), requests[j] # m
          PROVE  \E i \in 1 .. Len(requests') : requests'[i] = requests[j]
      <3>1. j # 1
        BY <2>1, <2>4
      <3>2. j - 1 \in 1 .. Len(requests') /\ (j - 1) + 1 = j
        BY <2>1, <3>1
      <3> QED BY <2>2, <3>2
    <2>5. m < nextMessageId
      BY <2>1, <1>1
    <2> QED BY <1>3, <2>1, <2>2, <2>3, <2>4, <2>5
  <1> QED BY <1>2, <1>3

\* What an answer makes of the replies.
LEMMA AnswerTyped ==
  ASSUME Inv0, NEW m \in Ids,
         \/ UNCHANGED <<replies, answered>>
         \/ \E how \in {"ok", "error", "missing"} : Answer(m, how)
  PROVE  /\ replies' \in Seq(Replies)
         /\ answered' \in [Ids -> {"none", "ok", "error", "missing"}]
         /\ \A n \in Ids \ {m} : answered'[n] = answered[n]
  <1>1. replies \in Seq(Replies) /\ answered \in [Ids -> {"none", "ok", "error", "missing"}]
    BY DEF Inv0, TypeOK, MessagesTyped
  <1>2. ASSUME NEW how \in {"ok", "error", "missing"}, Answer(m, how)
        PROVE  /\ replies' \in Seq(Replies)
               /\ answered' \in [Ids -> {"none", "ok", "error", "missing"}]
               /\ \A n \in Ids \ {m} : answered'[n] = answered[n]
    <2> DEFINE type == IF how = "ok" THEN ReplyType(task[m].kind) ELSE "ERROR"
    <2>1. type \in {"OK", "RESULT", "ERROR"}
      BY DEF ReplyType
    <2>2. replies' = Append(replies, [to |-> m, type |-> type])
      BY <1>2 DEF Answer
    <2> HIDE DEF type
    <2>3. replies' \in Seq(Replies)
      BY <2>1, <2>2, <1>1 DEF Replies
    <2> QED BY <2>3, <1>1, <1>2 DEF Answer
  <1> QED BY <1>1, <1>2

LEMMA WorkerMoveKeepsInv0 ==
  ASSUME Inv0, NEW m \in Ids, WorkerMove(m)
  PROVE  Inv0'
  <1>1. /\ UNCHANGED <<worker, listening, config, failed, nextMessageId, pendingRequests,
                       promise, caller, task, alive>>
        /\ WorkerTyped' /\ EngineAgrees' /\ Fits(m, handler'[m])
        /\ \A n \in Ids \ {m} : handler'[n] = handler[n]
    BY DEF WorkerMove, client
  <1>2. /\ replies' \in Seq(Replies)
        /\ answered' \in [Ids -> {"none", "ok", "error", "missing"}]
        /\ \A n \in Ids \ {m} : answered'[n] = answered[n]
    BY AnswerTyped DEF WorkerMove
  <1>3. PICK k \in {0, 1} :
          /\ Len(requests') = Len(requests) - k
          /\ \A i \in 1 .. Len(requests') : /\ i + k \in 1 .. Len(requests)
                                            /\ requests'[i] = requests[i + k]
                                            /\ requests'[i] # m
    BY QueueAfter DEF WorkerMove
  <1>4. m < nextMessageId /\ requests' \in Seq(Ids)
    BY QueueAfter DEF WorkerMove
  <1>5. MessagesTyped' /\ CallersTyped' /\ WorkerTyped'
    BY <1>1, <1>2, <1>4 DEF Inv0, TypeOK, MessagesTyped, CallersTyped
  <1>6. CallersAgree'
    BY <1>1 DEF Inv0, CallersAgree, CallOf
  <1>7. StagesAgree'
    BY <1>1 DEF Inv0, StagesAgree, Fits
  <1>8. PostedAgree'
    <2>1. \A i \in 1 .. Len(requests') :
            requests'[i] < nextMessageId' /\ handler'[requests'[i]].at = "none"
      <3> SUFFICES ASSUME NEW i \in 1 .. Len(requests')
                   PROVE  requests'[i] < nextMessageId' /\ handler'[requests'[i]].at = "none"
        OBVIOUS
      <3>1. requests'[i] \in Ids \ {m}
        BY <1>3, <1>4
      <3> QED BY <3>1, <1>1, <1>3 DEF Inv0, PostedAgree
    <2>2. \A i, j \in 1 .. Len(requests') : i < j => requests'[i] < requests'[j]
      <3> SUFFICES ASSUME NEW i \in 1 .. Len(requests'), NEW j \in 1 .. Len(requests'), i < j
                   PROVE  requests'[i] < requests'[j]
        OBVIOUS
      <3>1. /\ i + k \in 1 .. Len(requests) /\ j + k \in 1 .. Len(requests) /\ i + k < j + k
            /\ requests'[i] = requests[i + k] /\ requests'[j] = requests[j + k]
        BY <1>3
      <3> QED BY <3>1 DEF Inv0, PostedAgree
    <2>3. \A n \in Ids : handler'[n].at # "none" => n < nextMessageId'
      BY <1>1, <1>4 DEF Inv0, PostedAgree
    <2>4. \A n \in Ids : n >= nextMessageId' => answered'[n] = "none" /\ task'[n] = NoRequest
      <3> SUFFICES ASSUME NEW n \in Ids, n >= nextMessageId
                   PROVE  answered'[n] = "none" /\ task'[n] = NoRequest
        BY <1>1
      <3>1. n # m
        BY <1>4 DEF Inv0, TypeOK, MessagesTyped, Ids
      <3> QED BY <3>1, <1>1, <1>2 DEF Inv0, PostedAgree
    <2> QED BY <2>1, <2>2, <2>3, <2>4, <1>1 DEF Inv0, PostedAgree
  <1> QED BY <1>1, <1>5, <1>6, <1>7, <1>8 DEF Inv0, TypeOK

\* The client that gives up its worker, or hears of an error.
LEMMA TeardownKeepsInv0 ==
  ASSUME Inv0, Terminate \/ Detach \/ OnError
  PROVE  Inv0'
  <1>1. /\ UNCHANGED <<config, nextMessageId, promise, caller, task, handler, answered, handles, engine>>
        /\ worker' \in BOOLEAN /\ listening' \in BOOLEAN /\ failed' \in BOOLEAN /\ alive' \in BOOLEAN
        /\ pendingRequests' \in SUBSET Ids
        /\ requests' = requests \/ requests' = <<>>
        /\ replies' = replies \/ replies' = <<>>
    <2> USE DEF Inv0, TypeOK, MessagesTyped
    <2>1. CASE Terminate
      BY <2>1 DEF Terminate, calls
    <2>2. CASE Detach
      BY <2>2 DEF Detach, calls
    <2>3. CASE OnError
      BY <2>3 DEF OnError
    <2> QED BY <2>1, <2>2, <2>3
  <1>2. MessagesTyped'
    <2>1. requests' \in Seq(Ids) /\ replies' \in Seq(Replies)
      <3>1. <<>> \in Seq(Ids) /\ <<>> \in Seq(Replies)
        OBVIOUS
      <3>2. requests \in Seq(Ids) /\ replies \in Seq(Replies)
        BY DEF Inv0, TypeOK, MessagesTyped
      <3>3. (requests' = requests \/ requests' = <<>>) /\ (replies' = replies \/ replies' = <<>>)
        BY <1>1
      <3> QED BY <3>1, <3>2, <3>3, Zenon
    <2>2. /\ nextMessageId' \in 0 .. MaxMessages
          /\ promise' \in [Ids -> {"none", "ok", "error"}]
          /\ task' \in [Ids -> Request \cup {NoRequest}]
          /\ answered' \in [Ids -> {"none", "ok", "error", "missing"}]
      BY <1>1 DEF Inv0, TypeOK, MessagesTyped
    <2> QED BY <1>1, <2>1, <2>2, Zenon DEF MessagesTyped
  <1>3. CallersTyped' /\ WorkerTyped' /\ CallersAgree' /\ StagesAgree' /\ EngineAgrees'
    BY <1>1 DEF Inv0, TypeOK, CallersTyped, WorkerTyped, CallersAgree, CallOf, StagesAgree, Fits,
                EngineAgrees, handles, engine
  <1>4. PostedAgree'
    <2>1. CASE requests' = requests
      BY <2>1, <1>1 DEF Inv0, PostedAgree
    <2>2. CASE requests' = <<>>
      BY <2>2, <1>1 DEF Inv0, PostedAgree
    <2> QED BY <1>1, <2>1, <2>2
  <1> QED BY <1>2, <1>3, <1>4 DEF Inv0, TypeOK

\* A reply settles a promise as one of two things, and the caller goes on.
LEMMA OnMessageIsCallerStep ==
  ASSUME Inv0, OnMessage
  PROVE  LET reply == Head(replies) IN
         /\ reply \in Replies /\ reply.to \in pendingRequests /\ replies # <<>>
         /\ replies' = Tail(replies) /\ replies' \in Seq(Replies)
         /\ promise' = [promise EXCEPT ![reply.to] = Settlement(reply)]
         /\ promise' \in [Ids -> {"none", "ok", "error"}]
         /\ \E c \in Callers : /\ caller[c].mid = reply.to
                               /\ CallerStep(c, pendingRequests \ {reply.to})
         /\ UNCHANGED <<client, alive, handler, answered, handles, engine>>
  <1> DEFINE reply == Head(replies)
  <1>1. reply \in Replies /\ replies # <<>> /\ replies' = Tail(replies) /\ replies' \in Seq(Replies)
    BY DEF OnMessage, Inv0, TypeOK, MessagesTyped
  <1>2. /\ reply.to \in pendingRequests
        /\ promise' = [promise EXCEPT ![reply.to] = Settlement(reply)]
        /\ UNCHANGED <<client, alive, handler, answered, handles, engine>>
    BY Zenon DEF OnMessage
  <1>3. Settlement(reply) \in {"ok", "error"}
    BY DEF Settlement
  <1>4. promise' \in [Ids -> {"none", "ok", "error"}]
    <2> HIDE DEF reply
    <2> QED BY <1>2, <1>3 DEF Inv0, TypeOK, MessagesTyped
  <1>5. PICK c \in Callers : /\ caller[c].mid = reply.to
                             /\ Continue(c, pendingRequests \ {reply.to}, Settlement(reply))
    BY Zenon DEF OnMessage
  <1>6. caller[c].mid # None /\ UNCHANGED config
    BY <1>1, <1>2, <1>5, ScriptAssumption DEF Replies, Ids, client
  <1>7. CallerStep(c, pendingRequests \ {reply.to})
    <2> HIDE DEF reply
    <2> QED BY <1>5, <1>6, ContinueIsCallerStep
  <1> QED BY <1>1, <1>2, <1>4, <1>5, <1>7

LEMMA InitInv0 == Init => Inv0
  <1> SUFFICES ASSUME Init PROVE Inv0
    OBVIOUS
  <1>1. /\ NoConfig \in Configs /\ NoHandler \in Handlers
        /\ NoHandler.at = "none"
    BY DEF NoConfig, Configs, NoHandler, Handlers, Stages
  <1>2. /\ Ids \subseteq Nat /\ 0 \in 0 .. MaxMessages /\ <<>> \in Seq(Ids) /\ <<>> \in Seq(Replies)
        /\ Stored \subseteq Files
    BY ScriptAssumption DEF Ids
  <1>3. PICK s \in Scripts : caller = [c \in Callers |-> Idle(s[c])]
    BY DEF Init
  <1>4. \A c \in Callers : Idle(s[c]) \in CallerStates /\ Idle(s[c]).at = "start" /\ Idle(s[c]).mid = None
    <2> SUFFICES ASSUME NEW c \in Callers
                 PROVE  Idle(s[c]) \in CallerStates /\ Idle(s[c]).at = "start" /\ Idle(s[c]).mid = None
      OBVIOUS
    <2>1. s[c] \in Seq(Request)
      BY RequestAssumption
    <2> QED BY <2>1 DEF Idle, CallerStates, Awaits
  <1>5. MessagesTyped
    BY <1>2 DEF Init, MessagesTyped
  <1>6. CallersTyped /\ WorkerTyped /\ EngineAgrees
    BY <1>1, <1>2, <1>3, <1>4 DEF Init, CallersTyped, WorkerTyped, EngineAgrees
  <1>7. CallersAgree
    BY <1>3, <1>4 DEF CallersAgree
  <1>8. StagesAgree /\ PostedAgree
    BY <1>1, <1>2 DEF Init, StagesAgree, PostedAgree, Fits
  <1> QED BY <1>5, <1>6, <1>7, <1>8 DEF Inv0, TypeOK

LEMMA StepKeepsInv0 == Inv0 /\ [Next]_vars => Inv0'
  <1> SUFFICES ASSUME Inv0, [Next]_vars PROVE Inv0'
    OBVIOUS
  <1>1. ASSUME NEW c \in Callers, Call(c) PROVE Inv0'
    <2>1. /\ UNCHANGED <<worker, listening, failed, promise, replies, alive, handler, answered, handles, engine>>
          /\ promise' \in [Ids -> {"none", "ok", "error"}] /\ replies' \in Seq(Replies)
      BY <1>1 DEF Call, Inv0, TypeOK, MessagesTyped
    <2>2. CallerStep(c, pendingRequests) /\ pendingRequests \in SUBSET Ids
      BY <1>1, CallIsCallerStep DEF Inv0, TypeOK, MessagesTyped
    <2> QED BY <2>1, <2>2, CallerStepKeepsInv0
  <1>2. CASE OnMessage
    <2>1. PICK c \in Callers : CallerStep(c, pendingRequests \ {Head(replies).to})
      BY <1>2, OnMessageIsCallerStep
    <2>2. /\ UNCHANGED <<worker, listening, failed, alive, handler, answered, handles, engine>>
          /\ promise' \in [Ids -> {"none", "ok", "error"}] /\ replies' \in Seq(Replies)
      BY <1>2, OnMessageIsCallerStep DEF client
    <2>3. pendingRequests \ {Head(replies).to} \in SUBSET Ids
      BY DEF Inv0, TypeOK, MessagesTyped
    <2> QED BY <2>1, <2>2, <2>3, CallerStepKeepsInv0
  <1>3. CASE UnassociatedResponse
    <2>1. replies' \in Seq(Replies)
      BY <1>3 DEF UnassociatedResponse, Inv0, TypeOK, MessagesTyped
    <2>2. UNCHANGED <<worker, listening, config, failed, nextMessageId, pendingRequests, promise, caller,
                      task, requests, alive, handler, answered, handles, engine>>
      BY <1>3 DEF UnassociatedResponse, client, calls
    <2> QED BY <2>1, <2>2 DEF Inv0, TypeOK, MessagesTyped, CallersTyped, WorkerTyped, CallersAgree,
                              CallOf, StagesAgree, Fits, PostedAgree, EngineAgrees, handles, engine
  <1>4. CASE Terminate \/ Detach \/ OnError
    BY <1>4, TeardownKeepsInv0
  <1>5. CASE Serve
    BY <1>5, ServeIsWorkerStep, WorkerMoveKeepsInv0 DEF WorkerStep
  <1>6. ASSUME NEW m \in Ids, Resume(m) PROVE Inv0'
    BY <1>6, ResumeIsWorkerStep, WorkerMoveKeepsInv0 DEF WorkerStep
  <1>7. CASE UNCHANGED vars
    BY <1>7 DEF Inv0, TypeOK, MessagesTyped, CallersTyped, WorkerTyped, CallersAgree,
                CallOf, StagesAgree, Fits, PostedAgree, EngineAgrees, vars
  <1> QED BY <1>1, <1>2, <1>3, <1>4, <1>5, <1>6, <1>7, Zenon DEF Next

\* The variables of client, channels and worker have their types, in every state of
\* every program: what waits, is suspended or was answered was posted before.
THEOREM TypeCorrect == Spec => []TypeOK
  <1>1. Inv0 => TypeOK
    BY DEF Inv0
  <1> QED BY InitInv0, StepKeepsInv0, <1>1, PTL DEF Spec

----------------------------------------------------------------------------
(* Access handles *)

\* A handler that goes on with the prepared handles prep keeps the registered ones
\* apart from them, and pins only what it registers.
LEMMA PrepareKeepsHandles ==
  ASSUME HandlesAgree, NEW m, NEW todo, NEW fresh, NEW prep, files \cap prep = {},
         Prepare(m, todo, fresh, prep)
  PROVE  HandlesAgree'
  <1> USE DEF HandlesAgree
  <1>1. CASE Suspend(m, "acquire", Skip(todo), fresh) /\ prepared' = prep
    BY <1>1 DEF Suspend
  <1>2. CASE Prepared(m, fresh, prep)
    <2> DEFINE full == fresh \cap stored
               names == DatabaseFiles(task[m].config)
    <2>1. pinned' \subseteq pinned \cup full
      BY <1>2 DEF Prepared, Register
    <2>2. \/ files' = files \cup full \cup ((prep \ full) \cap names) /\ prepared' = (prep \ full) \ names
          \/ files' = files \cup full /\ prepared' = prep \ full
      BY <1>2, Zenon DEF Prepared, OpenDatabase
    <2> HIDE DEF full, names
    <2> QED BY <2>1, <2>2
  <1>3. CASE Refuse(m) /\ prepared' = prep
    BY <1>3 DEF Refuse
  <1> QED BY <1>1, <1>2, <1>3, Zenon DEF Prepare

LEMMA ServeKeepsHandles ==
  ASSUME HandlesAgree, Serve
  PROVE  HandlesAgree'
  <1> USE DEF HandlesAgree
  <1>1. CASE Ping \/ Instantiate \/ NotInitialized \/ Other \/ Reset
    BY <1>1 DEF Ping, Instantiate, NotInitialized, Other, Reset, handles
  <1>2. CASE Query
    BY <1>2 DEF Query
  <1>3. CASE DropNamed
    BY <1>3 DEF DropNamed
  <1>4. CASE DropAll
    BY <1>4 DEF DropAll
  <1>5. CASE StartPrepare
    <2> DEFINE m == Head(requests)
               r == task[m]
               names == DatabaseFiles(r.config)
    <2>1. CASE OpenDatabase(m, files, prepared) /\ UNCHANGED <<handler, pinned>>
      <3>1. \/ files' = files \cup (prepared \cap names) /\ prepared' = prepared \ names
            \/ files' = files /\ prepared' = prepared
        BY <2>1, Zenon DEF OpenDatabase
      <3> HIDE DEF names
      <3> QED BY <2>1, <3>1
    <2>2. CASE Suspend(m, "root", FilesToPrepare(r), {}) /\ UNCHANGED prepared
      BY <2>2 DEF Suspend
    <2>3. CASE Prepare(m, FilesToPrepare(r), {}, prepared)
      BY <2>3, PrepareKeepsHandles
    <2> QED BY <1>5, <2>1, <2>2, <2>3, Zenon DEF StartPrepare
  <1>6. CASE StartConvert
    BY <1>6 DEF StartConvert, Suspend
  <1> QED BY <1>1, <1>2, <1>3, <1>4, <1>5, <1>6, Zenon DEF Serve

LEMMA ResumeKeepsHandles ==
  ASSUME HandlesAgree, NEW m \in Ids, Resume(m)
  PROVE  HandlesAgree'
  <1> USE DEF HandlesAgree
  <1>1. CASE Instantiated(m)
    BY <1>1 DEF Instantiated
  <1>2. CASE AssignOPFSRoot(m)
    BY <1>2, PrepareKeepsHandles DEF AssignOPFSRoot
  <1>3. CASE Acquire(m)
    <2> DEFINE h == handler[m]
               f == Head(h.todo)
    <2>1. CASE f \notin Locked /\ Prepare(m, Tail(h.todo), h.fresh \cup {f}, prepared \cup {f})
      <3>1. files \cap (prepared \cup {f}) = {}
        BY <2>1 DEF Locked
      <3> QED BY <2>1, <3>1, PrepareKeepsHandles
    <2>2. CASE Refuse(m) /\ UNCHANGED prepared
      BY <2>2 DEF Refuse
    <2> QED BY <1>3, <2>1, <2>2, Zenon DEF Acquire
  <1>4. CASE Convert(m)
    <2> DEFINE f == Head(handler[m].todo)
    <2>1. CASE /\ f \notin Locked /\ Register(m, {f}) /\ files' = files \cup {f}
               /\ UNCHANGED prepared
      BY <2>1 DEF Register, Locked
    <2>2. CASE Refuse(m) /\ UNCHANGED prepared
      BY <2>2 DEF Refuse
    <2> QED BY <1>4, <2>1, <2>2, Zenon DEF Convert
  <1> QED BY <1>1, <1>2, <1>3, <1>4 DEF Resume

LEMMA StepKeepsHandles == HandlesAgree /\ [Next]_vars => HandlesAgree'
  <1> SUFFICES ASSUME HandlesAgree, [Next]_vars PROVE HandlesAgree'
    OBVIOUS
  <1>1. ASSUME NEW c \in Callers, Call(c) PROVE HandlesAgree'
    BY <1>1 DEF Call, HandlesAgree, handles
  <1>2. CASE OnMessage \/ UnassociatedResponse
    BY <1>2 DEF OnMessage, UnassociatedResponse, HandlesAgree, handles
  <1>3. CASE Terminate \/ Detach \/ OnError
    BY <1>3 DEF Terminate, Detach, OnError, HandlesAgree, handles
  <1>4. CASE Serve
    BY <1>4, ServeKeepsHandles
  <1>5. ASSUME NEW m \in Ids, Resume(m) PROVE HandlesAgree'
    BY <1>5, ResumeKeepsHandles
  <1>6. CASE UNCHANGED vars
    BY <1>6 DEF vars, HandlesAgree
  <1> QED BY <1>1, <1>2, <1>3, <1>4, <1>5, <1>6, Zenon DEF Next

\* Every pinned file has an access handle, and no file has two of them, one that is
\* registered and one that is prepared, however the handlers that register, open,
\* drop and write the same files are interleaved: _files and _preparedHandles of
\* the bindings and the pinned files of the filesystem agree.
THEOREM HandlesAlwaysAgree == Spec => []HandlesAgree
  <1>1. Init => HandlesAgree
    BY DEF Init, HandlesAgree
  <1> QED BY <1>1, StepKeepsHandles, PTL DEF Spec

\* The database is opened with a file that has a handle, registered or prepared, and
\* its handle is a registered one from then on.
LEMMA OpenKeepsDatabase ==
  ASSUME DatabaseKeepsItsFile, NEW m, NEW reg, NEW prep, files \subseteq reg,
         OpenDatabase(m, reg, prep)
  PROVE  DatabaseKeepsItsFile'
  BY DEF OpenDatabase, DatabaseKeepsItsFile, DatabaseFiles, engine

\* A handler that goes on opens the database only with a file for which it has an
\* access handle by then.
LEMMA PrepareKeepsDatabase ==
  ASSUME DatabaseKeepsItsFile, NEW m, NEW todo, NEW fresh, NEW prep, Prepare(m, todo, fresh, prep)
  PROVE  DatabaseKeepsItsFile'
  <1> USE DEF DatabaseKeepsItsFile
  <1>1. CASE Suspend(m, "acquire", Skip(todo), fresh) /\ prepared' = prep
    BY <1>1 DEF Suspend, engine
  <1>2. CASE Prepared(m, fresh, prep)
    <2> DEFINE full == fresh \cap stored
    <2>1. CASE OpenDatabase(m, files \cup full, prep \ full)
      BY <2>1, OpenKeepsDatabase
    <2>2. CASE files' = files \cup full /\ UNCHANGED engine
      BY <2>2 DEF engine
    <2> HIDE DEF full
    <2> QED BY <1>2, <2>1, <2>2, Zenon DEF Prepared, full
  <1>3. CASE Refuse(m) /\ prepared' = prep
    BY <1>3 DEF Refuse, engine
  <1> QED BY <1>1, <1>2, <1>3, Zenon DEF Prepare

LEMMA ServeKeepsDatabase ==
  ASSUME DatabaseKeepsItsFile, Serve
  PROVE  DatabaseKeepsItsFile'
  <1> USE DEF DatabaseKeepsItsFile
  <1>1. CASE Ping \/ Instantiate \/ NotInitialized \/ Other
    BY <1>1 DEF Ping, Instantiate, NotInitialized, Other, handles, engine
  <1>2. CASE Reset
    BY <1>2 DEF Reset, NoConfig
  <1>3. CASE Query
    BY <1>3 DEF Query
  <1>4. CASE DropNamed
    BY <1>4 DEF DropNamed, InUse, engine
  <1>5. CASE DropAll
    BY <1>5 DEF DropAll, InUse, engine
  <1>6. CASE StartPrepare
    <2> DEFINE m == Head(requests)
               r == task[m]
    <2>1. CASE OpenDatabase(m, files, prepared)
      BY <2>1, OpenKeepsDatabase
    <2>2. CASE Suspend(m, "root", FilesToPrepare(r), {})
      BY <2>2 DEF Suspend, engine
    <2>3. CASE Prepare(m, FilesToPrepare(r), {}, prepared)
      BY <2>3, PrepareKeepsDatabase
    <2> QED BY <1>6, <2>1, <2>2, <2>3, Zenon DEF StartPrepare
  <1>7. CASE StartConvert
    BY <1>7 DEF StartConvert, Suspend, engine
  <1> QED BY <1>1, <1>2, <1>3, <1>4, <1>5, <1>6, <1>7, Zenon DEF Serve

LEMMA ResumeKeepsDatabase ==
  ASSUME DatabaseKeepsItsFile, NEW m \in Ids, Resume(m)
  PROVE  DatabaseKeepsItsFile'
  <1> USE DEF DatabaseKeepsItsFile
  <1>1. CASE Instantiated(m)
    BY <1>1 DEF Instantiated, NoConfig
  <1>2. CASE AssignOPFSRoot(m)
    BY <1>2, PrepareKeepsDatabase DEF AssignOPFSRoot
  <1>3. CASE Acquire(m)
    <2> DEFINE h == handler[m]
               f == Head(h.todo)
    <2>1. CASE Prepare(m, Tail(h.todo), h.fresh \cup {f}, prepared \cup {f})
      BY <2>1, PrepareKeepsDatabase
    <2>2. CASE Refuse(m)
      BY <2>2 DEF Refuse, engine
    <2> QED BY <1>3, <2>1, <2>2, Zenon DEF Acquire
  <1>4. CASE Convert(m)
    BY <1>4 DEF Convert, Refuse, engine
  <1> QED BY <1>1, <1>2, <1>3, <1>4 DEF Resume

LEMMA StepKeepsDatabase == DatabaseKeepsItsFile /\ [Next]_vars => DatabaseKeepsItsFile'
  <1> SUFFICES ASSUME DatabaseKeepsItsFile, [Next]_vars PROVE DatabaseKeepsItsFile'
    OBVIOUS
  <1>1. ASSUME NEW c \in Callers, Call(c) PROVE DatabaseKeepsItsFile'
    BY <1>1 DEF Call, DatabaseKeepsItsFile, handles, engine
  <1>2. CASE OnMessage \/ UnassociatedResponse
    BY <1>2 DEF OnMessage, UnassociatedResponse, DatabaseKeepsItsFile, handles, engine
  <1>3. CASE Terminate \/ Detach \/ OnError
    BY <1>3 DEF Terminate, Detach, OnError, DatabaseKeepsItsFile, handles, engine
  <1>4. CASE Serve
    BY <1>4, ServeKeepsDatabase
  <1>5. ASSUME NEW m \in Ids, Resume(m) PROVE DatabaseKeepsItsFile'
    BY <1>5, ResumeKeepsDatabase
  <1>6. CASE UNCHANGED vars
    BY <1>6 DEF vars, DatabaseKeepsItsFile
  <1> QED BY <1>1, <1>2, <1>3, <1>4, <1>5, <1>6, Zenon DEF Next

\* The file of the open database keeps its access handle as long as DuckDB has it open,
\* however opens, registrations, drops and resets of any number of callers are
\* interleaved: a handle that an open found among those in use, or made itself, may be
\* closed while the open awaits the handle of the log (runtime_browser.ts, prepareFileHandles),
\* and then the open fails instead of leaving a database without its file.
THEOREM DatabaseFileStaysRegistered == Spec => []DatabaseKeepsItsFile
  <1>1. Init => DatabaseKeepsItsFile
    BY DEF Init, DatabaseKeepsItsFile, NoConfig
  <1> QED BY <1>1, StepKeepsDatabase, PTL DEF Spec

----------------------------------------------------------------------------
(* Requests, answers and promises *)

\* What a caller changes of the requests: it may post one.
LEMMA PostedAfter ==
  ASSUME Inv0, NEW c \in Callers, NEW kept, CallerStep(c, kept)
  PROVE  /\ \A n \in Ids : n < nextMessageId => task'[n] = task[n] /\ n < nextMessageId'
         /\ \A i \in 1 .. Len(requests) : i \in 1 .. Len(requests') /\ requests'[i] = requests[i]
         /\ \A i \in 1 .. Len(requests') :
              \/ i \in 1 .. Len(requests) /\ requests'[i] = requests[i]
              \/ requests'[i] = nextMessageId /\ nextMessageId \in Ids
         /\ \A n \in Ids : n < nextMessageId' =>
              \/ n < nextMessageId
              \/ n = nextMessageId /\ \E i \in 1 .. Len(requests') : requests'[i] = n
         /\ \A n \in pendingRequests' :
              \/ n \in kept
              \/ n = nextMessageId /\ n \in Ids /\ n < nextMessageId'
  <1>1. /\ nextMessageId \in Nat /\ requests \in Seq(Ids) /\ task \in [Ids -> Request \cup {NoRequest}]
        /\ nextMessageId < MaxMessages => nextMessageId \in Ids
        /\ \A n \in Ids : n \in Nat
    BY ScriptAssumption DEF Inv0, TypeOK, MessagesTyped, Ids
  <1>2. CASE Return(c, kept)
    BY <1>1, <1>2 DEF Return
  <1>3. ASSUME nextMessageId < MaxMessages, NEW r \in Request,
               nextMessageId' = nextMessageId + 1,
               pendingRequests' = kept \cup {nextMessageId},
               task' = [task EXCEPT ![nextMessageId] = r],
               requests' = Append(requests, nextMessageId)
        PROVE  /\ \A n \in Ids : n < nextMessageId => task'[n] = task[n] /\ n < nextMessageId'
               /\ \A i \in 1 .. Len(requests) : i \in 1 .. Len(requests') /\ requests'[i] = requests[i]
               /\ \A i \in 1 .. Len(requests') :
                    \/ i \in 1 .. Len(requests) /\ requests'[i] = requests[i]
                    \/ requests'[i] = nextMessageId /\ nextMessageId \in Ids
               /\ \A n \in Ids : n < nextMessageId' =>
                    \/ n < nextMessageId
                    \/ n = nextMessageId /\ \E i \in 1 .. Len(requests') : requests'[i] = n
               /\ \A n \in pendingRequests' :
                    \/ n \in kept
                    \/ n = nextMessageId /\ n \in Ids /\ n < nextMessageId'
    <2>1. \A n \in Ids : n < nextMessageId => task'[n] = task[n] /\ n < nextMessageId'
      BY <1>1, <1>3
    <2>2. /\ Len(requests') = Len(requests) + 1 /\ Len(requests) \in Nat
          /\ \A i \in 1 .. Len(requests) : requests'[i] = requests[i]
          /\ requests'[Len(requests) + 1] = nextMessageId
      BY <1>1, <1>3
    <2>3. \E i \in 1 .. Len(requests') : requests'[i] = nextMessageId
      BY <2>2
    <2>4. \A n \in Ids : n < nextMessageId' => n < nextMessageId \/ n = nextMessageId
      BY <1>1, <1>3
    <2> QED BY <1>1, <1>3, <2>1, <2>2, <2>3, <2>4
  <1> QED BY <1>2, <1>3, Zenon DEF CallerStep

\* What a reply settles is what was answered.
LEMMA SettlesAsAnswered ==
  ASSUME Inv0, RepliesAgree, NEW n \in pendingRequests, Settles(n)
  PROVE  /\ n \in Ids /\ 1 \in 1 .. Len(replies) /\ replies[1].to = n
         /\ promise'[n] \in {"ok", "error"} /\ answered[n] # "none"
         /\ (promise'[n] = "ok") <=> (answered[n] = "ok")
         /\ \A k \in Ids \ {n} : promise'[k] = promise[k]
         /\ \A i \in 1 .. Len(replies') : /\ i + 1 \in 1 .. Len(replies)
                                          /\ replies'[i] = replies[i + 1]
                                          /\ replies'[i].to # n
         /\ \A i \in 1 .. Len(replies) : replies[i].to # n =>
              \E j \in 1 .. Len(replies') : replies'[j] = replies[i]
  <1>1. /\ replies \in Seq(Replies) /\ n \in Ids /\ replies # <<>> /\ Head(replies) = replies[1]
        /\ replies[1].to = n /\ replies' = Tail(replies) /\ 1 \in 1 .. Len(replies)
        /\ promise \in [Ids -> {"none", "ok", "error"}]
        /\ promise' = [promise EXCEPT ![n] = Settlement(replies[1])]
    BY DEF Settles, Inv0, TypeOK, MessagesTyped
  <1>2. /\ answered[n] # "none"
        /\ replies[1].type = IF answered[n] = "ok" THEN ReplyType(task[n].kind) ELSE "ERROR"
    BY <1>1 DEF RepliesAgree
  <1>3. Settlement(replies[1]) = IF answered[n] = "ok" THEN "ok" ELSE "error"
    BY <1>1, <1>2 DEF Settlement, Expected, ReplyType
  <1>4. /\ Len(replies') = Len(replies) - 1 /\ Len(replies) \in Nat
        /\ \A i \in 1 .. Len(replies') : i + 1 \in 1 .. Len(replies) /\ replies'[i] = replies[i + 1]
    BY <1>1
  <1>5. \A i \in 1 .. Len(replies') : replies'[i].to # n
    <2> SUFFICES ASSUME NEW i \in 1 .. Len(replies'), replies'[i].to = n PROVE FALSE
      OBVIOUS
    <2>1. replies[i + 1].to = replies[1].to /\ i + 1 \in 1 .. Len(replies) /\ i + 1 # 1
      BY <1>1, <1>4
    <2> QED BY <2>1, <1>1 DEF RepliesAgree
  <1>6. ASSUME NEW i \in 1 .. Len(replies), replies[i].to # n
        PROVE  \E j \in 1 .. Len(replies') : replies'[j] = replies[i]
    <2>1. i # 1
      BY <1>1, <1>6
    <2>2. i - 1 \in 1 .. Len(replies') /\ (i - 1) + 1 = i
      BY <1>4, <2>1
    <2> QED BY <1>4, <2>2
  <1> QED BY <1>1, <1>2, <1>3, <1>4, <1>5, <1>6

\* The request that the worker is about is not answered yet.
LEMMA NotYetAnswered ==
  ASSUME Inv0, RequestsAgree, NEW m \in Ids, Takes(m) \/ Resumes(m)
  PROVE  answered[m] = "none" /\ m < nextMessageId
  <1>1. CASE Takes(m)
    <2>1. 1 \in 1 .. Len(requests) /\ requests[1] = m
      BY <1>1 DEF Takes, Inv0, TypeOK, MessagesTyped
    <2> QED BY <2>1 DEF RequestsAgree, Inv0, PostedAgree
  <1>2. CASE Resumes(m)
    BY <1>2 DEF Resumes, RequestsAgree, Inv0, PostedAgree
  <1> QED BY <1>1, <1>2

LEMMA CallerMoveKeepsAnswers ==
  ASSUME Inv0, Inv0', Inv1, NEW c \in Callers, NEW kept, CallerMove(c, kept)
  PROVE  /\ RequestsAgree' /\ RepliesAgree' /\ PromisesAgree' /\ NoAnswerIsLost'
         /\ DatabaseAgrees' /\ SynchronousInOrder'
  <1>1. /\ \A n \in Ids : n < nextMessageId => task'[n] = task[n] /\ n < nextMessageId'
        /\ \A i \in 1 .. Len(requests) : i \in 1 .. Len(requests') /\ requests'[i] = requests[i]
        /\ \A i \in 1 .. Len(requests') :
             \/ i \in 1 .. Len(requests) /\ requests'[i] = requests[i]
             \/ requests'[i] = nextMessageId /\ nextMessageId \in Ids
        /\ \A n \in Ids : n < nextMessageId' =>
             \/ n < nextMessageId
             \/ n = nextMessageId /\ \E i \in 1 .. Len(requests') : requests'[i] = n
        /\ \A n \in pendingRequests' :
             \/ n \in kept
             \/ n = nextMessageId /\ n \in Ids /\ n < nextMessageId'
    BY PostedAfter DEF CallerMove
  <1>2. /\ answered' = answered /\ handler' = handler /\ alive' = alive /\ worker' = worker
        /\ database' = database
        /\ kept \subseteq pendingRequests /\ kept \subseteq Ids
    BY DEF CallerMove, engine, Inv0, TypeOK, MessagesTyped
  <1>3. /\ nextMessageId \in Nat /\ \A n \in Ids : n \in Nat
        /\ \A n \in Ids : answered[n] # "none" => n < nextMessageId
        /\ \A n \in Ids : promise[n] # "none" => answered[n] # "none"
        /\ replies \in Seq(Replies) /\ database \in Seq(Ids)
        /\ \A i \in 1 .. Len(replies) : replies[i].to \in Ids
    <2>1. \A n \in Ids : n \in Nat
      BY ScriptAssumption DEF Ids
    <2>2. nextMessageId \in Nat /\ replies \in Seq(Replies) /\ database \in Seq(Ids)
      BY ScriptAssumption DEF Inv0, TypeOK, MessagesTyped, WorkerTyped
    <2>3. \A i \in 1 .. Len(replies) : replies[i].to \in Ids
      <3>1. \A i \in 1 .. Len(replies) : replies[i] \in Replies
        BY <2>2
      <3>2. \A reply \in Replies : reply.to \in Ids
        BY DEF Replies
      <3> QED BY <3>1, <3>2
    <2>4. /\ \A n \in Ids : answered[n] # "none" => n < nextMessageId
          /\ \A n \in Ids : promise[n] # "none" => answered[n] # "none"
      BY <2>1, <2>2 DEF Inv0, Inv1, PostedAgree, PromisesAgree
    <2> QED BY <2>1, <2>2, <2>3, <2>4
  <1>4. RequestsAgree'
    <2>1. ASSUME NEW i \in 1 .. Len(requests') PROVE answered[requests'[i]] = "none"
      <3>1. CASE i \in 1 .. Len(requests) /\ requests'[i] = requests[i]
        BY <3>1 DEF Inv1, RequestsAgree
      <3>2. CASE requests'[i] = nextMessageId /\ nextMessageId \in Ids
        <4>1. ~(nextMessageId < nextMessageId)
          BY <1>3
        <4> QED BY <1>3, <3>2, <4>1
      <3> QED BY <1>1, <3>1, <3>2
    <2> QED BY <1>2, <2>1 DEF Inv1, RequestsAgree
  <1>5. DatabaseAgrees'
    BY <1>2 DEF Inv1, DatabaseAgrees
  <1>6. SynchronousInOrder'
    <2> SUFFICES ASSUME NEW m \in Ids, NEW n \in Ids, m < n, n < nextMessageId',
                        task'[m].kind \in Synchronous, task'[n].kind \in Synchronous,
                        answered[n] # "none"
                 PROVE  answered[m] # "none"
      BY <1>2 DEF SynchronousInOrder
    <2>1. n < nextMessageId /\ m < nextMessageId
      BY <1>3
    <2> QED BY <2>1, <1>1 DEF Inv1, SynchronousInOrder
  <1>7. CASE kept = pendingRequests /\ UNCHANGED <<promise, replies>>
    <2>1. RepliesAgree'
      <3> SUFFICES ASSUME NEW i \in 1 .. Len(replies)
                   PROVE  task'[replies[i].to] = task[replies[i].to]
        BY <1>2, <1>7 DEF Inv1, RepliesAgree
      <3>1. replies[i].to \in Ids /\ answered[replies[i].to] # "none"
        BY <1>3 DEF Inv1, RepliesAgree
      <3> QED BY <3>1, <1>1, <1>3
    <2>2. PromisesAgree'
      <3>1. ASSUME NEW m \in pendingRequests' PROVE m < nextMessageId' /\ promise[m] = "none"
        <4>1. CASE m \in pendingRequests
          BY <4>1, <1>1, <1>2, <1>7 DEF Inv1, PromisesAgree
        <4>2. CASE m = nextMessageId /\ m \in Ids /\ m < nextMessageId'
          BY <4>2, <1>3
        <4> QED BY <4>1, <4>2, <1>1, <1>7
      <3> QED BY <3>1, <1>2, <1>7 DEF Inv1, PromisesAgree
    <2>3. NoAnswerIsLost'
      <3> SUFFICES ASSUME alive, NEW m \in Ids
                   PROVE  /\ m < nextMessageId' /\ answered[m] = "none" => Waits(m)' \/ handler[m].at # "none"
                          /\ m \in pendingRequests' /\ answered[m] # "none" => Replied(m)
        BY <1>2, <1>7 DEF NoAnswerIsLost, Replied
      <3>1. Waits(m) => Waits(m)'
        BY <1>1 DEF Waits
      <3>2. m = nextMessageId /\ m < nextMessageId' => Waits(m)'
        BY <1>1, <1>3 DEF Waits
      <3>3. ASSUME m \in pendingRequests', answered[m] # "none" PROVE Replied(m)
        BY <1>1, <1>3, <1>7, <3>3 DEF Inv1, NoAnswerIsLost
      <3> QED BY <1>1, <3>1, <3>2, <3>3 DEF Inv1, NoAnswerIsLost
    <2> QED BY <1>4, <1>5, <1>6, <2>1, <2>2, <2>3
  <1>8. ASSUME NEW n \in pendingRequests, kept = pendingRequests \ {n}, Settles(n)
        PROVE  RepliesAgree' /\ PromisesAgree' /\ NoAnswerIsLost'
    <2>1. /\ n \in Ids /\ 1 \in 1 .. Len(replies) /\ replies[1].to = n
          /\ promise'[n] \in {"ok", "error"} /\ answered[n] # "none"
          /\ (promise'[n] = "ok") <=> (answered[n] = "ok")
          /\ \A k \in Ids \ {n} : promise'[k] = promise[k]
          /\ \A i \in 1 .. Len(replies') : /\ i + 1 \in 1 .. Len(replies)
                                           /\ replies'[i] = replies[i + 1]
                                           /\ replies'[i].to # n
          /\ \A i \in 1 .. Len(replies) : replies[i].to # n =>
               \E j \in 1 .. Len(replies') : replies'[j] = replies[i]
      BY <1>8, SettlesAsAnswered DEF Inv1
    <2>2. RepliesAgree'
      <3>1. ASSUME NEW i \in 1 .. Len(replies')
            PROVE  LET m == replies'[i].to IN
                   /\ answered[m] # "none" /\ promise'[m] = "none"
                   /\ replies'[i].type = IF answered[m] = "ok" THEN ReplyType(task'[m].kind) ELSE "ERROR"
        <4> DEFINE m == replies[i + 1].to
        <4>1. m \in Ids /\ m # n /\ answered[m] # "none" /\ promise[m] = "none" /\ replies'[i] = replies[i + 1]
              /\ replies[i + 1].type = IF answered[m] = "ok" THEN ReplyType(task[m].kind) ELSE "ERROR"
          <5>1. /\ i + 1 \in 1 .. Len(replies) /\ replies'[i] = replies[i + 1] /\ replies'[i].to # n
            BY <2>1
          <5>2. m \in Ids /\ m # n
            BY <1>3, <5>1
          <5>3. /\ answered[m] # "none" /\ promise[m] = "none"
                /\ replies[i + 1].type = IF answered[m] = "ok" THEN ReplyType(task[m].kind) ELSE "ERROR"
            BY <5>1 DEF Inv1, RepliesAgree
          <5> QED BY <5>1, <5>2, <5>3
        <4> QED BY <4>1, <1>1, <1>3, <2>1
      <3>2. ASSUME NEW i \in 1 .. Len(replies'), NEW j \in 1 .. Len(replies'), replies'[i].to = replies'[j].to
            PROVE  i = j
        <4>1. i + 1 \in 1 .. Len(replies) /\ j + 1 \in 1 .. Len(replies) /\ replies[i + 1].to = replies[j + 1].to
          BY <2>1, <3>2
        <4>2. i + 1 = j + 1
          BY <4>1 DEF Inv1, RepliesAgree
        <4> QED BY <4>2
      <3> QED BY <3>1, <3>2, <1>2 DEF RepliesAgree
    <2>3. PromisesAgree'
      <3>1. ASSUME NEW m \in pendingRequests' PROVE m < nextMessageId' /\ promise'[m] = "none"
        <4>1. CASE m \in kept
          <5>1. m \in pendingRequests /\ m \in Ids \ {n}
            BY <4>1, <1>2, <1>8
          <5> QED BY <5>1, <1>1, <2>1 DEF Inv1, PromisesAgree
        <4>2. CASE m = nextMessageId /\ m \in Ids /\ m < nextMessageId'
          <5>1. m # n /\ promise[m] = "none"
            BY <4>2, <1>3, <2>1
          <5> QED BY <5>1, <4>2, <2>1
        <4> QED BY <4>1, <4>2, <1>1
      <3>2. ASSUME NEW m \in Ids, promise'[m] # "none"
            PROVE  answered[m] # "none" /\ ((promise'[m] = "ok") <=> (answered[m] = "ok"))
        <4>1. CASE m = n
          BY <4>1, <2>1
        <4>2. CASE m # n
          BY <4>2, <2>1, <3>2 DEF Inv1, PromisesAgree
        <4> QED BY <4>1, <4>2
      <3> QED BY <3>1, <3>2, <1>2 DEF PromisesAgree
    <2>4. NoAnswerIsLost'
      <3> SUFFICES ASSUME alive, NEW m \in Ids
                   PROVE  /\ m < nextMessageId' /\ answered[m] = "none" => Waits(m)' \/ handler[m].at # "none"
                          /\ m \in pendingRequests' /\ answered[m] # "none" => Replied(m)'
        BY <1>2 DEF NoAnswerIsLost
      <3>1. Waits(m) => Waits(m)'
        BY <1>1 DEF Waits
      <3>2. m = nextMessageId /\ m < nextMessageId' => Waits(m)'
        BY <1>1, <1>3 DEF Waits
      <3>3. ASSUME m \in pendingRequests', answered[m] # "none" PROVE Replied(m)'
        <4>1. m \in pendingRequests /\ m # n
          BY <1>1, <1>3, <1>8, <3>3
        <4>2. Replied(m)
          BY <4>1, <3>3 DEF Inv1, NoAnswerIsLost
        <4> QED BY <4>1, <4>2, <2>1 DEF Replied
      <3> QED BY <1>1, <3>1, <3>2, <3>3 DEF Inv1, NoAnswerIsLost
    <2> QED BY <2>2, <2>3, <2>4
  <1> QED BY <1>4, <1>5, <1>6, <1>7, <1>8 DEF CallerMove

\* A program that instantiates once does not do it again.
LEMMA NeverAgain ==
  ASSUME Inv0, OneInstantiate, RequestsAgree, NEW m \in Ids, Takes(m) \/ Resumes(m)
  PROVE  ~InstantiatesAgain(m)
  <1> SUFFICES ASSUME InstantiatesAgain(m) PROVE FALSE
    OBVIOUS
  <1>1. answered[m] = "none"
    BY NotYetAnswered
  <1>2. /\ bindings \in Ids /\ task[bindings].kind = "instantiate" /\ answered[bindings] = "ok"
        /\ task[m].kind = "instantiate"
    BY DEF InstantiatesAgain, OneInstantiate, Inv0, TypeOK, WorkerTyped
  <1>3. m = bindings
    BY <1>2 DEF OneInstantiate
  <1> QED BY <1>1, <1>2, <1>3

\* A step of the worker on m suspends m, or answers it and it alone.
LEMMA WorkerOutcome ==
  ASSUME Inv0, RequestsAgree, OneInstantiate, NEW m \in Ids, WorkerStep(m)
  PROVE  /\ UNCHANGED <<worker, config, nextMessageId, pendingRequests, promise, caller, task, alive>>
         /\ alive /\ m < nextMessageId /\ answered[m] = "none"
         /\ \A n \in Ids \ {m} : handler'[n] = handler[n] /\ answered'[n] = answered[n]
         /\ \/ Suspends(m)
            \/ /\ handler'[m].at = "none"
               /\ \E how \in {"ok", "error", "missing"} :
                    /\ Answer(m, how) /\ Effect(m, how) /\ answered'[m] = how
                    /\ Len(replies') = Len(replies) + 1
                    /\ \A i \in 1 .. Len(replies) : replies'[i] = replies[i]
                    /\ replies'[Len(replies')].to = m
                    /\ replies'[Len(replies')].type =
                         IF how = "ok" THEN ReplyType(task[m].kind) ELSE "ERROR"
  <1>1. /\ UNCHANGED <<worker, config, nextMessageId, pendingRequests, promise, caller, task, alive>> /\ alive
        /\ \A n \in Ids \ {m} : handler'[n] = handler[n]
        /\ Takes(m) \/ Resumes(m)
    BY DEF WorkerStep, WorkerMove, client
  <1>2. m < nextMessageId /\ answered[m] = "none" /\ ~InstantiatesAgain(m)
    BY <1>1, NotYetAnswered, NeverAgain
  <1>3. \A n \in Ids \ {m} : answered'[n] = answered[n]
    BY AnswerTyped DEF WorkerStep, WorkerMove
  <1>4. CASE Suspends(m)
    BY <1>1, <1>2, <1>3, <1>4
  <1>5. ASSUME handler'[m].at = "none", NEW how \in {"ok", "error", "missing"}, Answer(m, how), Effect(m, how)
        PROVE  /\ answered'[m] = how
               /\ Len(replies') = Len(replies) + 1
               /\ \A i \in 1 .. Len(replies) : replies'[i] = replies[i]
               /\ replies'[Len(replies')].to = m
               /\ replies'[Len(replies')].type =
                    IF how = "ok" THEN ReplyType(task[m].kind) ELSE "ERROR"
    <2> DEFINE reply == [to |-> m, type |-> IF how = "ok" THEN ReplyType(task[m].kind) ELSE "ERROR"]
    <2>1. replies \in Seq(Replies) /\ replies' = Append(replies, reply) /\ answered'[m] = how
      BY <1>5 DEF Answer, Inv0, TypeOK, MessagesTyped
    <2>2. reply.to = m /\ reply.type = IF how = "ok" THEN ReplyType(task[m].kind) ELSE "ERROR"
      OBVIOUS
    <2> HIDE DEF reply
    <2>3. /\ Len(replies') = Len(replies) + 1
          /\ \A i \in 1 .. Len(replies) : replies'[i] = replies[i]
          /\ replies'[Len(replies')] = reply
      BY <2>1
    <2> QED BY <2>1, <2>2, <2>3
  <1> QED BY <1>1, <1>2, <1>3, <1>4, <1>5 DEF WorkerStep, Ends

LEMMA WorkerStepKeepsAnswers ==
  ASSUME Inv0, Inv0', Inv1, NEW m \in Ids, WorkerStep(m)
  PROVE  RequestsAgree' /\ RepliesAgree' /\ PromisesAgree' /\ NoAnswerIsLost'
  <1>1. /\ UNCHANGED <<worker, config, nextMessageId, pendingRequests, promise, caller, task, alive>>
        /\ alive /\ m < nextMessageId /\ answered[m] = "none"
        /\ \A n \in Ids \ {m} : handler'[n] = handler[n] /\ answered'[n] = answered[n]
    BY WorkerOutcome DEF Inv1
  <1>2. /\ \A j \in 1 .. Len(requests) : requests[j] # m => \E i \in 1 .. Len(requests') : requests'[i] = requests[j]
        /\ \E k \in {0, 1} : \A i \in 1 .. Len(requests') : /\ i + k \in 1 .. Len(requests)
                                                            /\ requests'[i] = requests[i + k]
                                                            /\ requests'[i] # m
    BY QueueAfter DEF WorkerStep, WorkerMove
  <1>3. /\ requests' \in Seq(Ids) /\ replies \in Seq(Replies) /\ replies' \in Seq(Replies)
        /\ Len(replies) \in Nat
        /\ \A i \in 1 .. Len(replies) : replies[i].to \in Ids
    <2>1. requests' \in Seq(Ids) /\ replies \in Seq(Replies) /\ replies' \in Seq(Replies)
      BY DEF Inv0, TypeOK, MessagesTyped
    <2>2. \A i \in 1 .. Len(replies) : replies[i] \in Replies
      BY <2>1
    <2>3. \A reply \in Replies : reply.to \in Ids
      BY DEF Replies
    <2> QED BY <2>1, <2>2, <2>3
  <1>4. /\ \A i \in 1 .. Len(replies) : replies[i].to # m
        /\ promise[m] = "none"
    BY <1>1, <1>3 DEF Inv1, RepliesAgree, PromisesAgree
  <1>5. \A i \in 1 .. Len(requests') : requests'[i] \in Ids \ {m} /\ answered'[requests'[i]] = "none"
    <2> SUFFICES ASSUME NEW i \in 1 .. Len(requests')
                 PROVE  requests'[i] \in Ids \ {m} /\ answered'[requests'[i]] = "none"
      OBVIOUS
    <2>1. PICK j \in 1 .. Len(requests) : requests'[i] = requests[j] /\ requests'[i] # m
      BY <1>2
    <2>2. requests'[i] \in Ids
      BY <1>3
    <2> QED BY <1>1, <2>1, <2>2 DEF Inv1, RequestsAgree
  <1>6. CASE Suspends(m)
    <2>1. replies' = replies /\ answered' = answered /\ handler'[m].at # "none"
      BY <1>6 DEF Suspends
    <2>2. RequestsAgree'
      BY <1>1, <1>5, <2>1 DEF Inv1, RequestsAgree
    <2>3. RepliesAgree' /\ PromisesAgree'
      BY <1>1, <2>1 DEF Inv1, RepliesAgree, PromisesAgree
    <2>4. NoAnswerIsLost'
      <3> SUFFICES ASSUME NEW n \in Ids
                   PROVE  /\ n < nextMessageId /\ answered[n] = "none" => Waits(n)' \/ handler'[n].at # "none"
                          /\ n \in pendingRequests /\ answered[n] # "none" => Replied(n)
        BY <1>1, <2>1 DEF NoAnswerIsLost, Replied
      <3>1. n # m /\ Waits(n) => Waits(n)'
        BY <1>2 DEF Waits
      <3> QED BY <1>1, <2>1, <3>1 DEF Inv1, NoAnswerIsLost
    <2> QED BY <2>2, <2>3, <2>4
  <1>7. ASSUME handler'[m].at = "none",
               NEW how \in {"ok", "error", "missing"}, answered'[m] = how,
               Len(replies') = Len(replies) + 1,
               \A i \in 1 .. Len(replies) : replies'[i] = replies[i],
               replies'[Len(replies')].to = m,
               replies'[Len(replies')].type = IF how = "ok" THEN ReplyType(task[m].kind) ELSE "ERROR"
        PROVE  RequestsAgree' /\ RepliesAgree' /\ PromisesAgree' /\ NoAnswerIsLost'
    <2>1. RequestsAgree'
      BY <1>1, <1>5, <1>7 DEF Inv1, RequestsAgree
    <2>2. RepliesAgree'
      <3>1. \A i \in 1 .. Len(replies') : i \in 1 .. Len(replies) \/ i = Len(replies')
        BY <1>3, <1>7
      <3>2. ASSUME NEW i \in 1 .. Len(replies')
            PROVE  LET n == replies'[i].to IN
                   /\ answered'[n] # "none" /\ promise[n] = "none"
                   /\ replies'[i].type = IF answered'[n] = "ok" THEN ReplyType(task[n].kind) ELSE "ERROR"
        <4>1. CASE i \in 1 .. Len(replies)
          <5>1. replies[i].to \in Ids \ {m} /\ replies'[i] = replies[i]
            BY <1>3, <1>4, <1>7, <4>1
          <5> QED BY <4>1, <5>1, <1>1 DEF Inv1, RepliesAgree
        <4>2. CASE i = Len(replies')
          BY <4>2, <1>4, <1>7
        <4> QED BY <3>1, <4>1, <4>2
      <3>3. ASSUME NEW i \in 1 .. Len(replies'), NEW j \in 1 .. Len(replies'), replies'[i].to = replies'[j].to
            PROVE  i = j
        <4>1. CASE i \in 1 .. Len(replies) /\ j \in 1 .. Len(replies)
          BY <4>1, <1>7, <3>3 DEF Inv1, RepliesAgree
        <4>2. CASE i \in 1 .. Len(replies) /\ j = Len(replies')
          BY <4>2, <1>4, <1>7, <3>3
        <4>3. CASE i = Len(replies') /\ j \in 1 .. Len(replies)
          BY <4>3, <1>4, <1>7, <3>3
        <4> QED BY <3>1, <4>1, <4>2, <4>3
      <3> QED BY <3>2, <3>3, <1>1 DEF RepliesAgree
    <2>3. PromisesAgree'
      BY <1>1, <1>4 DEF Inv1, PromisesAgree
    <2>4. NoAnswerIsLost'
      <3> SUFFICES ASSUME NEW n \in Ids
                   PROVE  /\ n < nextMessageId /\ answered'[n] = "none" => Waits(n)' \/ handler'[n].at # "none"
                          /\ n \in pendingRequests /\ answered'[n] # "none" => Replied(n)'
        BY <1>1 DEF NoAnswerIsLost
      <3>1. CASE n = m
        <4>1. Len(replies') \in 1 .. Len(replies')
          BY <1>3, <1>7
        <4> QED BY <3>1, <4>1, <1>7 DEF Replied
      <3>2. CASE n # m
        <4>1. Waits(n) => Waits(n)'
          BY <1>2, <3>2 DEF Waits
        <4>2. Replied(n) => Replied(n)'
          <5>1. \A i \in 1 .. Len(replies) : i \in 1 .. Len(replies')
            BY <1>3, <1>7
          <5> QED BY <5>1, <1>7 DEF Replied
        <4> QED BY <1>1, <3>2, <4>1, <4>2 DEF Inv1, NoAnswerIsLost
      <3> QED BY <3>1, <3>2
    <2> QED BY <2>1, <2>2, <2>3, <2>4
  <1> QED BY <1>6, <1>7, WorkerOutcome DEF Inv1

LEMMA WorkerStepKeepsDatabase ==
  ASSUME Inv0, Inv0', Inv1, NEW m \in Ids, WorkerStep(m)
  PROVE  DatabaseAgrees' /\ OneInstantiate'
  <1>1. /\ UNCHANGED <<worker, config, nextMessageId, pendingRequests, promise, caller, task, alive>>
        /\ answered[m] = "none"
        /\ \A n \in Ids \ {m} : answered'[n] = answered[n]
    BY WorkerOutcome DEF Inv1
  <1>2. /\ database \in Seq(Ids) /\ bindings \in Ids \cup {None} /\ Len(database) \in Nat
        /\ \A i \in 1 .. Len(database) : database[i] \in Ids /\ answered[database[i]] = "ok"
        /\ m # None
    BY ScriptAssumption DEF Inv0, TypeOK, WorkerTyped, Inv1, DatabaseAgrees, Ids
  <1>3. \A i \in 1 .. Len(database) : answered'[database[i]] = "ok"
    BY <1>1, <1>2
  <1>4. bindings # None => answered'[bindings] = "ok" /\ task[bindings].kind = "instantiate"
    BY <1>1, <1>2 DEF Inv1, OneInstantiate
  <1>7. ASSUME bindings' = bindings \/ (bindings' = m /\ task[m].kind = "instantiate" /\ answered'[m] = "ok")
        PROVE  OneInstantiate'
    BY <1>1, <1>4, <1>7 DEF Inv1, OneInstantiate, ToInstantiate
  <1>8. CASE UNCHANGED <<database, bindings>>
    BY <1>1, <1>3, <1>7, <1>8 DEF DatabaseAgrees
  <1>9. CASE /\ answered'[m] = "ok" /\ database' = Append(database, m)
             /\ UNCHANGED bindings
    <2>1. /\ Len(database') = Len(database) + 1 /\ database' # <<>>
          /\ \A i \in 1 .. Len(database) : database'[i] = database[i]
          /\ database'[Len(database')] = m
      BY <1>2, <1>9
    <2>2. DatabaseAgrees'
      <3> SUFFICES ASSUME NEW i \in 1 .. Len(database') PROVE answered'[database'[i]] = "ok"
        BY DEF DatabaseAgrees
      <3>1. i \in 1 .. Len(database) \/ i = Len(database')
        BY <1>2, <2>1
      <3> QED BY <3>1, <2>1, <1>3, <1>9
    <2> QED BY <2>2, <1>7, <1>9
  <1>10. CASE /\ answered'[m] = "ok" /\ database' = <<m>>
              /\ UNCHANGED bindings \/ (bindings' = m /\ task[m].kind = "instantiate")
    <2>1. database'[1] = m /\ Len(database') = 1
      BY <1>10
    <2>2. DatabaseAgrees'
      BY <2>1, <1>10 DEF DatabaseAgrees
    <2>3. OneInstantiate'
      BY <1>7, <1>10
    <2> QED BY <2>2, <2>3
  <1>11. CASE Suspends(m)
    BY <1>8, <1>11 DEF Suspends
  <1>12. ASSUME NEW how \in {"ok", "error", "missing"}, Effect(m, how), answered'[m] = how
         PROVE  DatabaseAgrees' /\ OneInstantiate'
    BY <1>8, <1>9, <1>10, <1>12 DEF Effect
  <1> QED BY <1>11, <1>12, WorkerOutcome DEF Inv1

\* Of the requests that do not await, the one that the worker answers was posted first
\* of those that it has yet to answer.
LEMMA WorkerStepKeepsOrder ==
  ASSUME Inv0, Inv1, NEW m \in Ids, WorkerStep(m)
  PROVE  SynchronousInOrder'
  <1>1. /\ UNCHANGED <<nextMessageId, task>> /\ alive
        /\ \A n \in Ids \ {m} : answered'[n] = answered[n]
        /\ Suspends(m) \/ answered'[m] # "none"
    BY WorkerOutcome DEF Inv1
  <1>2. Suspends(m) => answered' = answered
    BY DEF Suspends
  <1> SUFFICES ASSUME NEW k \in Ids, NEW n \in Ids, k < n, n < nextMessageId,
                      task[k].kind \in Synchronous, task[n].kind \in Synchronous,
                      answered'[n] # "none"
               PROVE  answered'[k] # "none"
    BY <1>1 DEF SynchronousInOrder
  <1>3. CASE answered[n] # "none"
    <2>1. answered[k] # "none"
      BY <1>3 DEF Inv1, SynchronousInOrder
    <2> QED BY <2>1, <1>1, <1>2
  <1>4. CASE answered[n] = "none"
    <2>1. n = m /\ ~Suspends(m)
      BY <1>1, <1>2, <1>4
    <2>2. \A j \in Ids : task[j].kind \in Synchronous => handler[j].at = "none"
      <3> SUFFICES ASSUME NEW j \in Ids, task[j].kind \in Synchronous, handler[j].at # "none"
                   PROVE  FALSE
        OBVIOUS
      <3>1. handler[j].at \in Stages /\ Fits(j, handler[j])
        BY DEF Inv0, StagesAgree, TypeOK, WorkerTyped, Handlers
      <3> QED BY <3>1 DEF Stages, Fits, Synchronous
    <2>3. Takes(m)
      BY <2>1, <2>2 DEF WorkerStep, WorkerMove, Resumes
    <2>4. /\ requests[1] = m /\ requests \in Seq(Ids) /\ \A j \in Ids : j \in Nat /\ 1 \in 1 .. Len(requests)
      BY <2>3, ScriptAssumption DEF Takes, Inv0, TypeOK, MessagesTyped, Ids
    <2>5. ~Waits(k)
      <3> SUFFICES ASSUME NEW i \in 1 .. Len(requests), requests[i] = k PROVE FALSE
        BY DEF Waits
      <3>1. requests[i] < requests[1]
        BY <2>1, <2>4
      <3>2. CASE i = 1
        BY <3>1, <3>2, <2>4
      <3>3. CASE 1 < i
        <4>1. requests[1] < requests[i]
          BY <3>3, <2>4 DEF Inv0, PostedAgree
        <4> QED BY <3>1, <4>1, <2>4
      <3> QED BY <3>2, <3>3
    <2>6. k < nextMessageId
      BY ScriptAssumption DEF Ids, Inv0, TypeOK, MessagesTyped
    <2>7. answered[k] # "none"
      BY <1>1, <2>2, <2>5, <2>6 DEF Inv1, NoAnswerIsLost
    <2> QED BY <2>7, <1>1, <1>2
  <1> QED BY <1>3, <1>4

\* A caller that goes on posts what it called, and a program does not come back to it.
LEMMA CallerMoveKeepsInstantiate ==
  ASSUME Inv0, Inv1, NEW c \in Callers, NEW kept, CallerMove(c, kept)
  PROVE  OneInstantiate'
  <1>1. /\ \A n \in Ids : n < nextMessageId => task'[n] = task[n]
        /\ answered' = answered /\ bindings' = bindings
    BY PostedAfter DEF CallerMove, engine
  <1>2. bindings' # None => task'[bindings'].kind = "instantiate" /\ answered'[bindings'] = "ok"
    <2> SUFFICES ASSUME bindings # None
                 PROVE  task'[bindings].kind = "instantiate" /\ answered[bindings] = "ok"
      BY <1>1
    <2>1. bindings \in Ids /\ task[bindings].kind = "instantiate" /\ answered[bindings] = "ok"
      BY DEF Inv0, TypeOK, WorkerTyped, Inv1, OneInstantiate
    <2>2. bindings < nextMessageId
      <3>1. bindings >= nextMessageId => answered[bindings] = "none"
        BY <2>1 DEF Inv0, PostedAgree
      <3>2. bindings \in Nat /\ nextMessageId \in Nat
        BY <2>1, ScriptAssumption DEF Inv0, TypeOK, MessagesTyped, Ids
      <3> QED BY <2>1, <3>1, <3>2
    <2> QED BY <1>1, <2>1, <2>2
  <1>3. /\ caller \in [Callers -> CallerStates] /\ caller[c] \in CallerStates
        /\ caller[c].script \in Seq(Request) /\ Len(caller[c].script) \in Nat
        /\ \A n \in Ids : n # None
        /\ caller[c].at = "start" => caller[c].mid = None
    BY ScriptAssumption DEF Inv0, TypeOK, CallersTyped, CallerStates, CallersAgree, Ids
  <1>4. /\ \A a, b \in Callers : \A i, j \in Nat :
             ToInstantiate(a, i) /\ ToInstantiate(b, j) => a = b /\ i = j
        /\ \A m \in Ids, a \in Callers : \A i \in Nat :
             task[m].kind = "instantiate" /\ ToInstantiate(a, i) => i = 1 /\ caller[a].mid = m
        /\ \A m, n \in Ids : task[m].kind = "instantiate" /\ task[n].kind = "instantiate" => m = n
    BY DEF Inv1, OneInstantiate
  <1>5. CASE Return(c, kept)
    <2> DEFINE s == caller[c].script
    <2>1. /\ caller' = [caller EXCEPT ![c] = Idle(Tail(s))] /\ UNCHANGED task /\ s # <<>>
      BY <1>5 DEF Return, CallerMove, CallerStep
    <2>2. /\ Len(Tail(s)) = Len(s) - 1
          /\ \A i \in 1 .. Len(Tail(s)) : i + 1 \in 1 .. Len(s) /\ Tail(s)[i] = s[i + 1]
      BY <1>3, <2>1
    <2>3. \A a \in Callers \ {c} : caller'[a] = caller[a]
      BY <1>3, <2>1
    <2>4. caller'[c].script = Tail(s)
      BY <1>3, <2>1 DEF Idle
    <2>5. \A i \in Nat : ToInstantiate(c, i)' => ToInstantiate(c, i + 1)
      BY <2>2, <2>4 DEF ToInstantiate
    <2>6. \A a \in Callers \ {c} : \A i \in Nat : ToInstantiate(a, i)' <=> ToInstantiate(a, i)
      BY <2>3 DEF ToInstantiate
    <2>7. ASSUME NEW a \in Callers, NEW b \in Callers, NEW i \in Nat, NEW j \in Nat,
                 ToInstantiate(a, i)', ToInstantiate(b, j)'
          PROVE  a = b /\ i = j
      <3>1. PICK k \in {0, 1} : ToInstantiate(a, i + k) /\ k = IF a = c THEN 1 ELSE 0
        BY <2>5, <2>6, <2>7
      <3>2. PICK l \in {0, 1} : ToInstantiate(b, j + l) /\ l = IF b = c THEN 1 ELSE 0
        BY <2>5, <2>6, <2>7
      <3>3. i + k \in Nat /\ j + l \in Nat
        OBVIOUS
      <3>4. a = b /\ i + k = j + l
        BY <3>1, <3>2, <3>3, <1>4
      <3> QED BY <3>1, <3>2, <3>4
    <2>8. ASSUME NEW m \in Ids, NEW a \in Callers, NEW i \in Nat,
                 task[m].kind = "instantiate", ToInstantiate(a, i)'
          PROVE  i = 1 /\ caller'[a].mid = m
      <3>1. CASE a = c
        <4>1. ToInstantiate(c, i + 1) /\ i + 1 \in Nat
          BY <3>1, <2>5, <2>8
        <4>2. i + 1 = 1
          BY <4>1, <2>8, <1>4
        <4>3. i \in 1 .. Len(Tail(s))
          BY <3>1, <2>4, <2>8 DEF ToInstantiate
        <4> QED BY <4>2, <4>3
      <3>2. CASE a # c
        BY <3>2, <2>3, <2>6, <2>8, <1>4
      <3> QED BY <3>1, <3>2
    <2> QED BY <1>2, <1>4, <2>1, <2>7, <2>8 DEF OneInstantiate
  <1>6. ASSUME nextMessageId < MaxMessages, NEW r \in Request, NEW s \in CallerStates,
               task' = [task EXCEPT ![nextMessageId] = r],
               caller' = [caller EXCEPT ![c] = s],
               s.script = caller[c].script, s.script # <<>>, s.mid = nextMessageId,
               \/ caller[c].at = "start" /\ r.kind = CallOf(c).kind
               \/ /\ CallOf(c).kind = "runQuery"
                  /\ r.kind \in {"registerOPFSFileName", "runQuery", "dropFiles"}
        PROVE  OneInstantiate'
    <2>1. /\ nextMessageId \in Ids
          /\ task' \in [Ids -> Request \cup {NoRequest}] /\ task'[nextMessageId] = r
          /\ \A n \in Ids \ {nextMessageId} : task'[n] = task[n]
      BY <1>6, ScriptAssumption DEF Inv0, TypeOK, MessagesTyped, Ids
    <2>2. /\ caller'[c] = s /\ \A a \in Callers \ {c} : caller'[a] = caller[a]
      BY <1>3, <1>6
    <2>3. \A a \in Callers : \A i \in Nat : ToInstantiate(a, i)' <=> ToInstantiate(a, i)
      BY <1>6, <2>2 DEF ToInstantiate
    <2>4. CallOf(c) = caller[c].script[1] /\ 1 \in 1 .. Len(caller[c].script)
      BY <1>3, <1>6 DEF CallOf
    <2>5. CASE r.kind = "instantiate"
      <3>1. ToInstantiate(c, 1) /\ caller[c].mid = None
        BY <1>3, <1>6, <2>4, <2>5 DEF ToInstantiate
      <3>2. \A n \in Ids : task[n].kind # "instantiate"
        BY <3>1, <1>3, <1>4
      <3>3. \A n \in Ids : task'[n].kind = "instantiate" => n = nextMessageId
        BY <3>2, <2>1
      <3>4. ASSUME NEW a \in Callers, NEW i \in Nat, ToInstantiate(a, i)
            PROVE  i = 1 /\ caller'[a].mid = nextMessageId
        BY <3>1, <3>4, <1>4, <1>6, <2>2
      <3> QED BY <3>3, <3>4, <2>3, <1>2, <1>4 DEF OneInstantiate
    <2>6. CASE r.kind # "instantiate"
      <3>1. \A n \in Ids : task'[n].kind = "instantiate" => n # nextMessageId /\ task[n].kind = "instantiate"
        BY <2>1, <2>6
      <3>2. ASSUME NEW n \in Ids, NEW a \in Callers, NEW i \in Nat,
                   task[n].kind = "instantiate", ToInstantiate(a, i)
            PROVE  i = 1 /\ caller'[a].mid = n
        <4>1. i = 1 /\ caller[a].mid = n
          BY <3>2, <1>4
        <4>2. CASE a = c
          <5>1. caller[c].at # "start" /\ CallOf(c).kind = "instantiate"
            BY <4>1, <4>2, <3>2, <1>3, <2>4 DEF ToInstantiate
          <5> QED BY <5>1, <1>6
        <4> QED BY <4>1, <4>2, <2>2
      <3> QED BY <3>1, <3>2, <2>3, <1>2, <1>4 DEF OneInstantiate
    <2> QED BY <2>5, <2>6
  <1> QED BY <1>5, <1>6, Zenon DEF CallerMove, CallerStep

\* The other steps of the client post nothing and settle nothing.
LEMMA RestKeepsInv1 ==
  ASSUME Inv0, Inv1, UnassociatedResponse \/ Terminate \/ Detach \/ OnError \/ UNCHANGED vars
  PROVE  Inv1'
  <1>1. /\ UNCHANGED <<config, nextMessageId, promise, caller, task, handler, answered, bindings, opened, database>>
        /\ requests' = requests \/ requests' = <<>>
        /\ pendingRequests' = pendingRequests \/ pendingRequests' = {}
        /\ (worker' = worker /\ alive' = alive) \/ worker' = FALSE
        /\ alive' = alive \/ alive' = FALSE
        /\ alive' = alive \/ worker' = FALSE
        /\ \/ replies' = replies
           \/ replies' = <<>> /\ alive' = FALSE
           \/ UnassociatedResponse
        /\ requests' = requests \/ alive' = FALSE
    <2>1. CASE UnassociatedResponse
      BY <2>1 DEF UnassociatedResponse, client, calls, engine
    <2>2. CASE Terminate
      BY <2>2 DEF Terminate, calls, engine
    <2>3. CASE Detach
      BY <2>3 DEF Detach, calls, engine
    <2>4. CASE OnError
      BY <2>4 DEF OnError, engine
    <2>5. CASE UNCHANGED vars
      BY <2>5 DEF vars
    <2> QED BY <2>1, <2>2, <2>3, <2>4, <2>5
  <1>2. /\ \A i \in 1 .. Len(requests') : i \in 1 .. Len(requests) /\ requests'[i] = requests[i]
    BY <1>1
  <1>3. RequestsAgree'
    <2>1. ~alive' => ~worker'
      BY <1>1 DEF Inv1, RequestsAgree
    <2> QED BY <2>1, <1>1, <1>2 DEF Inv1, RequestsAgree
  <1>4. PromisesAgree'
    BY <1>1 DEF Inv1, PromisesAgree
  <1>5. OneInstantiate' /\ DatabaseAgrees' /\ SynchronousInOrder'
    <2>1. OneInstantiate'
      BY <1>1 DEF Inv1, OneInstantiate, ToInstantiate
    <2>2. DatabaseAgrees' /\ SynchronousInOrder'
      BY <1>1 DEF Inv1, DatabaseAgrees, SynchronousInOrder
    <2> QED BY <2>1, <2>2
  <1>6. RepliesAgree' /\ NoAnswerIsLost'
    <2>1. CASE replies' = replies
      <3>1. RepliesAgree'
        BY <1>1, <2>1 DEF Inv1, RepliesAgree
      <3>2. NoAnswerIsLost'
        BY <1>1, <2>1 DEF Inv1, NoAnswerIsLost, Waits, Replied
      <3> QED BY <3>1, <3>2
    <2>2. CASE replies' = <<>> /\ alive' = FALSE
      BY <2>2 DEF RepliesAgree, NoAnswerIsLost
    <2>3. CASE UnassociatedResponse
      <3>1. /\ replies # <<>> /\ replies' = Tail(replies) /\ replies[1].to \notin pendingRequests
            /\ replies \in Seq(Replies) /\ Len(replies) \in Nat
            /\ UNCHANGED <<pendingRequests, requests, alive>>
        BY <2>3 DEF UnassociatedResponse, calls, Inv0, TypeOK, MessagesTyped
      <3>2. /\ Len(replies') = Len(replies) - 1
            /\ \A i \in 1 .. Len(replies') : i + 1 \in 1 .. Len(replies) /\ replies'[i] = replies[i + 1]
        BY <3>1
      <3>3. RepliesAgree'
        <4>1. ASSUME NEW i \in 1 .. Len(replies')
              PROVE  LET m == replies'[i].to IN
                     /\ answered[m] # "none" /\ promise[m] = "none"
                     /\ replies'[i].type = IF answered[m] = "ok" THEN ReplyType(task[m].kind) ELSE "ERROR"
          BY <3>2 DEF Inv1, RepliesAgree
        <4>2. ASSUME NEW i \in 1 .. Len(replies'), NEW j \in 1 .. Len(replies'), replies'[i].to = replies'[j].to
              PROVE  i = j
          <5>1. i + 1 = j + 1
            BY <3>2, <4>2 DEF Inv1, RepliesAgree
          <5> QED BY <5>1
        <4> QED BY <1>1, <4>1, <4>2 DEF RepliesAgree
      <3>4. NoAnswerIsLost'
        <4> SUFFICES ASSUME alive, NEW m \in Ids
                     PROVE  /\ m < nextMessageId /\ answered[m] = "none" => Waits(m) \/ handler[m].at # "none"
                            /\ m \in pendingRequests /\ answered[m] # "none" => Replied(m)'
          BY <1>1, <3>1 DEF NoAnswerIsLost, Waits
        <4>1. ASSUME m \in pendingRequests, NEW i \in 1 .. Len(replies), replies[i].to = m
              PROVE  Replied(m)'
          <5>1. i # 1
            BY <3>1, <4>1
          <5>2. i - 1 \in 1 .. Len(replies') /\ (i - 1) + 1 = i
            BY <3>1, <3>2, <5>1
          <5> QED BY <3>2, <4>1, <5>2 DEF Replied
        <4> QED BY <4>1 DEF Inv1, NoAnswerIsLost, Replied
      <3> QED BY <3>3, <3>4
    <2> QED BY <1>1, <2>1, <2>2, <2>3
  <1> QED BY <1>3, <1>4, <1>5, <1>6 DEF Inv1

LEMMA InitInv1 == InstantiateOnce /\ Init => Inv1
  <1> SUFFICES ASSUME InstantiateOnce, Init PROVE Inv1
    OBVIOUS
  <1>1. PICK s \in Scripts : caller = [c \in Callers |-> Idle(s[c])]
    BY DEF Init
  <1>2. \A c \in Callers : caller[c].script = s[c] /\ s[c] \in Seq(Request)
    BY <1>1, RequestAssumption DEF Idle
  <1>3. \A m \in Ids : task[m].kind = "none"
    BY DEF Init, NoRequest
  <1>4. OneInstantiate
    <2>1. ASSUME NEW c \in Callers, NEW d \in Callers, NEW i \in Nat, NEW j \in Nat,
                 ToInstantiate(c, i), ToInstantiate(d, j)
          PROVE  c = d /\ i = j
      <3>1. /\ i \in DOMAIN s[c] /\ s[c][i].kind = "instantiate"
            /\ j \in DOMAIN s[d] /\ s[d][j].kind = "instantiate"
        BY <1>2, <2>1 DEF ToInstantiate
      <3> QED BY <3>1 DEF InstantiateOnce
    <2> QED BY <2>1, <1>3 DEF OneInstantiate, Init
  <1>5. RequestsAgree /\ RepliesAgree /\ PromisesAgree /\ NoAnswerIsLost /\ DatabaseAgrees
    BY ScriptAssumption DEF Init, RequestsAgree, RepliesAgree, PromisesAgree, NoAnswerIsLost,
                            DatabaseAgrees, NoHandler, Ids
  <1>6. SynchronousInOrder
    BY <1>3 DEF Init, SynchronousInOrder
  <1> QED BY <1>4, <1>5, <1>6 DEF Inv1

\* A step of the client is a CallerMove or one of the rest.
LEMMA CallIsCallerMove ==
  ASSUME Inv0, NEW c \in Callers, Call(c)
  PROVE  \E kept \in SUBSET pendingRequests : CallerMove(c, kept)
  <1>1. CallerStep(c, pendingRequests)
    BY CallIsCallerStep
  <1>2. UNCHANGED <<worker, listening, failed, promise, replies, alive, handler, answered, handles, engine>>
    BY DEF Call
  <1>3. CallerMove(c, pendingRequests)
    BY <1>1, <1>2 DEF CallerMove
  <1> QED BY <1>3

LEMMA OnMessageIsCallerMove ==
  ASSUME Inv0, OnMessage
  PROVE  \E c \in Callers : \E kept \in SUBSET pendingRequests : CallerMove(c, kept)
  <1> DEFINE n == Head(replies).to
  <1>1. PICK c \in Callers : CallerStep(c, pendingRequests \ {n})
    BY OnMessageIsCallerStep
  <1>2. n \in pendingRequests /\ Settles(n)
    BY OnMessageIsCallerStep DEF Settles
  <1>3. UNCHANGED <<worker, listening, failed, alive, handler, answered, handles, engine>>
    BY OnMessageIsCallerStep DEF client
  <1> HIDE DEF n
  <1>4. CallerMove(c, pendingRequests \ {n})
    BY <1>1, <1>2, <1>3 DEF CallerMove
  <1> QED BY <1>4

LEMMA StepKeepsIInv == IInv /\ [Next]_vars => IInv'
  <1> SUFFICES ASSUME IInv, [Next]_vars PROVE IInv'
    OBVIOUS
  <1>1. Inv0 /\ Inv1 /\ Inv0'
    BY StepKeepsInv0 DEF IInv
  <1> SUFFICES Inv1'
    BY <1>1 DEF IInv
  <1>2. ASSUME NEW c \in Callers, NEW kept, CallerMove(c, kept) PROVE Inv1'
    BY <1>1, <1>2, CallerMoveKeepsAnswers, CallerMoveKeepsInstantiate DEF Inv1
  <1>3. ASSUME NEW m \in Ids, WorkerStep(m) PROVE Inv1'
    BY <1>1, <1>3, WorkerStepKeepsAnswers, WorkerStepKeepsDatabase, WorkerStepKeepsOrder DEF Inv1
  <1>4. ASSUME NEW c \in Callers, Call(c) PROVE Inv1'
    BY <1>1, <1>2, <1>4, CallIsCallerMove
  <1>5. CASE OnMessage
    BY <1>1, <1>2, <1>5, OnMessageIsCallerMove
  <1>6. CASE UnassociatedResponse \/ Terminate \/ Detach \/ OnError \/ UNCHANGED vars
    BY <1>1, <1>6, RestKeepsInv1
  <1>7. CASE Serve
    BY <1>1, <1>3, <1>7, ServeIsWorkerStep
  <1>8. ASSUME NEW m \in Ids, Resume(m) PROVE Inv1'
    BY <1>1, <1>3, <1>8, ResumeIsWorkerStep
  <1> QED BY <1>4, <1>5, <1>6, <1>7, <1>8, Zenon DEF Next

\* All parts of the invariant hold for a program that instantiates once.
LEMMA InvariantHolds ==
  ASSUME InstantiateOnce
  PROVE  Spec => []IInv
  <1>1. Init => IInv
    BY InitInv0, InitInv1 DEF IInv
  <1> QED BY <1>1, StepKeepsIInv, PTL DEF Spec

\* The sets that UnderWay counts have one element or none.
LEMMA AtMostOne ==
  ASSUME NEW S, \A x, y \in S : x = y
  PROVE  Cardinality(S) = IF S = {} THEN 0 ELSE 1
  <1>1. CASE S = {}
    BY <1>1, FS_EmptySet
  <1>2. ASSUME NEW x \in S PROVE Cardinality(S) = 1 /\ S # {}
    <2>1. S = {x}
      OBVIOUS
    <2>2. Cardinality({x}) = 1
      BY FS_Singleton
    <2> QED BY <2>1, <2>2
  <1> QED BY <1>1, <1>2

\* The answer that the client still owes to a pending request is under way exactly
\* once, in a queue or in a suspended handler (worker_dispatcher.ts answers on every
\* path, and once): however many callers there are, whatever they call, and whenever
\* the client gives up the worker or hears of an error.
THEOREM AnswersAreNeitherLostNorDoubled ==
  ASSUME InstantiateOnce
  PROVE  Spec => []OneAnswerUnderWay
  <1>1. IInv => OneAnswerUnderWay
    <2> SUFFICES ASSUME Inv0, Inv1 PROVE OneAnswerUnderWay
      BY DEF IInv
    <2>1. requests \in Seq(Ids) /\ replies \in Seq(Replies) /\ pendingRequests \subseteq Ids
      BY DEF Inv0, TypeOK, MessagesTyped
    <2>2. ASSUME NEW m \in Ids
          PROVE  /\ UnderWay(m) = (IF Waits(m) THEN 1 ELSE 0)
                                  + (IF handler[m].at # "none" THEN 1 ELSE 0)
                                  + (IF Replied(m) THEN 1 ELSE 0)
                 /\ Waits(m) => ~Replied(m) /\ handler[m].at = "none"
                 /\ handler[m].at # "none" => ~Replied(m)
      <3> DEFINE A == {i \in DOMAIN requests : requests[i] = m}
                 B == {i \in DOMAIN replies : replies[i].to = m}
      <3>1. Cardinality(A) = IF A = {} THEN 0 ELSE 1
        <4>1. ASSUME NEW i \in A, NEW j \in A PROVE i = j
          <5>1. i \in 1 .. Len(requests) /\ j \in 1 .. Len(requests) /\ requests[i] = requests[j] /\ requests[i] = m
            BY <2>1, <4>1
          <5>2. m \in Nat /\ ~(m < m)
            BY ScriptAssumption DEF Ids
          <5>3. ~(i < j) /\ ~(j < i)
            BY <5>1, <5>2 DEF Inv0, PostedAgree
          <5> QED BY <5>1, <5>3
        <4> HIDE DEF A
        <4> QED BY <4>1, AtMostOne
      <3>2. Cardinality(B) = IF B = {} THEN 0 ELSE 1
        <4>1. ASSUME NEW i \in B, NEW j \in B PROVE i = j
          <5>1. i \in 1 .. Len(replies) /\ j \in 1 .. Len(replies) /\ replies[i].to = replies[j].to
            BY <2>1, <4>1
          <5> QED BY <5>1 DEF Inv1, RepliesAgree
        <4> HIDE DEF B
        <4> QED BY <4>1, AtMostOne
      <3>3. (A = {} <=> ~Waits(m)) /\ (B = {} <=> ~Replied(m))
        BY <2>1 DEF Waits, Replied
      <3>4. UnderWay(m) = Cardinality(A) + (IF handler[m].at # "none" THEN 1 ELSE 0) + Cardinality(B)
        BY DEF UnderWay
      <3>5. Waits(m) => answered[m] = "none" /\ handler[m].at = "none"
        BY DEF Waits, Inv0, PostedAgree, Inv1, RequestsAgree
      <3>6. Replied(m) => answered[m] # "none"
        BY DEF Replied, Inv1, RepliesAgree
      <3>7. handler[m].at # "none" => answered[m] = "none"
        BY DEF Inv1, RequestsAgree
      <3> HIDE DEF A, B
      <3> QED BY <3>1, <3>2, <3>3, <3>4, <3>5, <3>6, <3>7
    <2>3. \A m \in Ids : UnderWay(m) <= 1
      BY <2>2
    <2>4. ASSUME alive, NEW m \in pendingRequests PROVE UnderWay(m) = 1
      <3>1. m \in Ids /\ m < nextMessageId
        BY <2>1 DEF Inv1, PromisesAgree
      <3>2. Waits(m) \/ handler[m].at # "none" \/ Replied(m)
        BY <2>4, <3>1 DEF Inv1, NoAnswerIsLost
      <3> QED BY <3>1, <3>2, <2>2
    <2> QED BY <2>3, <2>4 DEF OneAnswerUnderWay
  <1> QED BY <1>1, InvariantHolds, PTL

\* Requests that do not await are answered in the order in which they were posted,
\* whatever handlers are suspended in between.
THEOREM SynchronousRequestsKeepTheirOrder ==
  ASSUME InstantiateOnce
  PROVE  Spec => []SynchronousInOrder
  <1>1. IInv => SynchronousInOrder
    BY DEF IInv, Inv1
  <1> QED BY <1>1, InvariantHolds, PTL

\* A promise that was rejected (async_bindings.ts, onMessage) belongs to a request
\* that is not among those that made the database what it is.
THEOREM RejectedRequestsHaveNoEffect ==
  ASSUME InstantiateOnce
  PROVE  Spec => []RefusedHasNoEffect
  <1>1. IInv => RefusedHasNoEffect
    <2> SUFFICES ASSUME Inv0, Inv1, NEW m \in Ids, promise[m] = "error",
                        NEW i \in DOMAIN database, database[i] = m
                 PROVE  FALSE
      BY DEF IInv, RefusedHasNoEffect
    <2>1. i \in 1 .. Len(database)
      BY DEF Inv0, TypeOK, WorkerTyped
    <2>2. answered[m] = "ok"
      BY <2>1 DEF Inv1, DatabaseAgrees
    <2>3. promise[m] = "ok"
      BY <2>2 DEF Inv1, PromisesAgree
    <2> QED BY <2>3
  <1> QED BY <1>1, InvariantHolds, PTL

----------------------------------------------------------------------------
(* The refinement of RequestServer *)

\* What shows of the answers.
Shown == [m \in Ids |-> IF answered[m] = "missing" THEN "error" ELSE answered[m]]

\* Ids are given out in order: a caller that goes on has posted some that are new.
LEMMA PostedGrows ==
  ASSUME Inv0, NEW c \in Callers, NEW kept, CallerStep(c, kept)
  PROVE  \E S \in SUBSET (Ids \ (0 .. nextMessageId - 1)) :
           0 .. nextMessageId' - 1 = (0 .. nextMessageId - 1) \cup S
  <1>1. nextMessageId \in Nat
    BY ScriptAssumption DEF Inv0, TypeOK, MessagesTyped
  <1>2. CASE UNCHANGED nextMessageId
    <2>1. {} \in SUBSET (Ids \ (0 .. nextMessageId - 1))
      OBVIOUS
    <2>2. 0 .. nextMessageId' - 1 = (0 .. nextMessageId - 1) \cup {}
      BY <1>2
    <2> QED BY <2>1, <2>2
  <1>3. CASE nextMessageId < MaxMessages /\ nextMessageId' = nextMessageId + 1
    <2>1. nextMessageId \in Ids \ (0 .. nextMessageId - 1)
      BY <1>1, <1>3, ScriptAssumption DEF Ids
    <2>2. 0 .. nextMessageId' - 1 = (0 .. nextMessageId - 1) \cup {nextMessageId}
      BY <1>1, <1>3
    <2>3. {nextMessageId} \in SUBSET (Ids \ (0 .. nextMessageId - 1))
      BY <2>1
    <2> QED BY <2>2, <2>3
  <1> QED BY <1>2, <1>3 DEF CallerStep, Return

\* A caller that makes a call posts, and one that goes on with a reply settles.
LEMMA CallerMoveRefines ==
  ASSUME Inv0, Inv1, NEW c \in Callers, NEW kept, CallerMove(c, kept)
  PROVE  Server!Next
  <1>1. PICK S \in SUBSET (Ids \ (0 .. nextMessageId - 1)) :
          0 .. nextMessageId' - 1 = (0 .. nextMessageId - 1) \cup S
    BY PostedGrows DEF CallerMove
  <1>2. Shown' = Shown /\ database' = database
    BY DEF CallerMove, Shown, engine
  <1>3. CASE UNCHANGED promise
    <2>1. Server!Post
      BY <1>1, <1>2, <1>3 DEF Server!Post, Shown
    <2> QED BY <2>1 DEF Server!Next
  <1>4. ASSUME NEW n \in pendingRequests, Settles(n) PROVE Server!Next
    <2>1. /\ n \in Ids /\ promise'[n] \in {"ok", "error"} /\ answered[n] # "none"
          /\ (promise'[n] = "ok") <=> (answered[n] = "ok")
      BY <1>4, SettlesAsAnswered DEF Inv1
    <2>2. promise[n] = "none"
      BY DEF Inv1, PromisesAgree
    <2>3. Shown[n] = promise'[n] /\ Shown[n] # "none"
      <3>1. answered[n] \in {"none", "ok", "error", "missing"}
        BY <2>1 DEF Inv0, TypeOK, MessagesTyped
      <3> QED BY <2>1, <3>1 DEF Shown
    <2>4. promise' = [promise EXCEPT ![n] = Shown[n]]
      <3>1. promise \in [Ids -> {"none", "ok", "error"}]
        BY DEF Inv0, TypeOK, MessagesTyped
      <3>2. PICK v : promise' = [promise EXCEPT ![n] = v]
        BY <1>4 DEF Settles
      <3>3. promise'[n] = v
        BY <2>1, <3>1, <3>2
      <3> QED BY <2>3, <3>2, <3>3
    <2>5. Server!Settle(n)
      BY <1>1, <1>2, <2>2, <2>3, <2>4 DEF Server!Settle, Shown
    <2> QED BY <2>1, <2>5 DEF Server!Next
  <1> QED BY <1>3, <1>4 DEF CallerMove

\* A handler that ends serves its request, one that is suspended does nothing.
LEMMA WorkerStepRefines ==
  ASSUME Inv0, Inv1, NEW m \in Ids, WorkerStep(m)
  PROVE  [Server!Next]_Server!vars
  <1>1. /\ UNCHANGED <<nextMessageId, promise>> /\ m < nextMessageId /\ answered[m] = "none"
    BY WorkerOutcome DEF Inv1
  <1>2. CASE Suspends(m)
    BY <1>1, <1>2 DEF Suspends, Server!vars
  <1>3. ASSUME NEW how \in {"ok", "error", "missing"}, Answer(m, how), Effect(m, how)
        PROVE  Server!Next
    <2>1. m \in 0 .. nextMessageId - 1
      BY <1>1, ScriptAssumption DEF Inv0, TypeOK, MessagesTyped, Ids
    <2>2. Shown[m] = "none"
      BY <1>1 DEF Shown
    <2>3. Shown' = [Shown EXCEPT ![m] = IF how = "ok" THEN "ok" ELSE "error"]
      <3>1. answered \in [Ids -> {"none", "ok", "error", "missing"}]
        BY DEF Inv0, TypeOK, MessagesTyped
      <3>2. answered' = [answered EXCEPT ![m] = how]
        BY <1>3 DEF Answer
      <3>3. \A n \in Ids : Shown'[n] = IF n = m THEN IF how = "ok" THEN "ok" ELSE "error" ELSE Shown[n]
        BY <1>3, <3>1, <3>2 DEF Shown
      <3> QED BY <3>3 DEF Shown
    <2>4. CASE how = "ok"
      <3>1. database' \in {database, Append(database, m), <<m>>}
        BY <1>3 DEF Effect
      <3>2. Server!Serve(m)
        BY <1>1, <2>1, <2>2, <2>3, <2>4, <3>1 DEF Server!Serve, Shown
      <3> QED BY <3>2 DEF Server!Next
    <2>5. CASE how # "ok"
      <3>1. UNCHANGED database
        BY <1>3, <2>5 DEF Effect
      <3>2. Server!Serve(m)
        BY <1>1, <2>1, <2>2, <2>3, <2>5, <3>1 DEF Server!Serve, Shown
      <3> QED BY <3>2 DEF Server!Next
    <2> QED BY <2>4, <2>5
  <1> QED BY <1>2, <1>3, WorkerOutcome DEF Inv1

\* The two sides of the channels together are an atomic server of requests: each
\* request takes effect at most once, in one step after it was posted, a refused one
\* has none, and a promise settles once, with the answer to its own request.
THEOREM WorkerImplementsRequestServer ==
  ASSUME InstantiateOnce
  PROVE  Spec => ImplementsRequestServer
  <1>1. Init => Server!Init
    <2> SUFFICES ASSUME Init PROVE Server!Init
      OBVIOUS
    <2>1. 0 .. nextMessageId - 1 = {}
      BY DEF Init
    <2>2. Shown = [m \in Ids |-> "none"]
      BY DEF Init, Shown
    <2> QED BY <2>1, <2>2 DEF Init, Server!Init, Shown
  <1>2. IInv /\ [Next]_vars => [Server!Next]_Server!vars
    <2> SUFFICES ASSUME Inv0, Inv1, [Next]_vars PROVE [Server!Next]_Server!vars
      BY DEF IInv
    <2>1. ASSUME NEW c \in Callers, Call(c) PROVE [Server!Next]_Server!vars
      BY <2>1, CallIsCallerMove, CallerMoveRefines
    <2>2. CASE OnMessage
      BY <2>2, OnMessageIsCallerMove, CallerMoveRefines
    <2>3. CASE UnassociatedResponse \/ Terminate \/ Detach \/ OnError \/ UNCHANGED vars
      BY <2>3 DEF UnassociatedResponse, Terminate, Detach, OnError, calls, engine, vars, Server!vars
    <2>4. CASE Serve
      BY <2>4, ServeIsWorkerStep, WorkerStepRefines
    <2>5. ASSUME NEW m \in Ids, Resume(m) PROVE [Server!Next]_Server!vars
      BY <2>5, ResumeIsWorkerStep, WorkerStepRefines
    <2> QED BY <2>1, <2>2, <2>3, <2>4, <2>5, Zenon DEF Next
  <1> QED BY <1>1, <1>2, InvariantHolds, PTL DEF Spec, Server!Spec, ImplementsRequestServer

----------------------------------------------------------------------------
(* Queries and their files *)

\* The calls that each caller has yet to make or to return from.
ToCome == [c \in Callers |-> CallsOf(caller[c].script)]

FilesOf(seq) == {seq[i] : i \in DOMAIN seq}

\* What a caller in state s awaits is request q: of its call, or one of those that a
\* query with automatic file handling makes beside; mine are the files it has registered.
Awaited(q, s) ==
  LET r == Head(s.script) IN
  /\ s.at = "request" => q = r /\ r.kind # "runQuery" /\ s.mine = <<>>
  /\ s.at = "register" =>
       /\ q = [Rq("registerOPFSFileName", <<Head(s.todo)>>) EXCEPT !.config.auto = TRUE]
       /\ FilesOf(s.mine) \cup FilesOf(s.todo) = Named(r)
  /\ s.at = "run" =>
       /\ q = [r EXCEPT !.config.auto = s.mine # <<>>]
       /\ s.mine # <<>> => FilesOf(s.mine) = Named(r)
  /\ s.at = "drop" =>
       /\ q = Rq("dropFiles", s.mine) /\ s.mine # <<>>
       /\ FilesOf(s.mine) \subseteq Named(r)

\* Whatever is not answered yet, a caller waits for it.
OwnersAgree ==
  /\ \A m \in Ids : m < nextMessageId /\ answered[m] = "none" => \E c \in Callers : caller[c].mid = m
  /\ \A c \in Callers :
       IF caller[c].at = "start" THEN caller[c].mine = <<>>
       ELSE /\ caller[c].mid \in Ids /\ caller[c].mid < nextMessageId
            /\ Awaited(task[caller[c].mid], caller[c])

\* A program that opens nothing automatically makes no such query.
NothingAutomatic ==
  /\ \A c \in Callers : \A r \in ToCome[c] : ~OpensAutomatically(r)
  /\ ~ShouldOPFSFileHandling
  /\ \A c \in Callers : caller[c].at # "register" /\ caller[c].mine = <<>>
  /\ \A m \in Ids : task[m].kind = "runQuery" => ~task[m].config.auto

\* A file has a handle, and it is registered if there was something in it.
Ready(f) == f \in Locked /\ (f \in Stored => f \in files)

FilesReady ==
  /\ KeepApart(ToCome)
  /\ Stored \subseteq stored
  /\ \A m \in Ids : /\ handler[m].at \in {"root", "acquire"}
                    /\ task[m].kind = "registerOPFSFileName"
                    => handler[m].todo = task[m].files
  /\ \A c \in Callers :
       /\ caller[c].at \in {"register", "run"} => \A f \in FilesOf(caller[c].mine) : Ready(f)
       /\ caller[c].at = "register" /\ answered[caller[c].mid] = "ok" => Ready(Head(caller[c].todo))
  /\ QueriesFindTheirFiles

QInv == OwnersAgree /\ (NothingAutomatic \/ FilesReady)

----------------------------------------------------------------------------
(* The client *)

LEMMA FilesOfEnds ==
  ASSUME NEW s \in Seq(Files)
  PROVE  /\ FilesOf(<<>>) = {}
         /\ s # <<>> => FilesOf(s) = {Head(s)} \cup FilesOf(Tail(s)) /\ Head(s) \in FilesOf(s)
         /\ \A f \in Files : FilesOf(Append(s, f)) = FilesOf(s) \cup {f}
  <1>1. FilesOf(<<>>) = {}
    BY DEF FilesOf
  <1>2. ASSUME s # <<>>
        PROVE  FilesOf(s) = {Head(s)} \cup FilesOf(Tail(s)) /\ Head(s) \in FilesOf(s)
    <2>1. /\ Len(s) \in Nat \ {0} /\ Len(Tail(s)) = Len(s) - 1 /\ Head(s) = s[1] /\ 1 \in DOMAIN s
          /\ \A i \in 1 .. Len(s) - 1 : Tail(s)[i] = s[i + 1]
          /\ DOMAIN s = 1 .. Len(s) /\ DOMAIN Tail(s) = 1 .. Len(s) - 1
      BY <1>2
    <2>2. ASSUME NEW f \in FilesOf(s) PROVE f \in {Head(s)} \cup FilesOf(Tail(s))
      <3>1. PICK i \in 1 .. Len(s) : s[i] = f
        BY <2>1 DEF FilesOf
      <3>2. CASE i = 1
        BY <2>1, <3>1, <3>2
      <3>3. CASE i # 1
        <4>1. i - 1 \in 1 .. Len(s) - 1 /\ (i - 1) + 1 = i
          BY <2>1, <3>3
        <4>2. Tail(s)[i - 1] = f
          BY <2>1, <3>1, <4>1
        <4> QED BY <2>1, <4>1, <4>2 DEF FilesOf
      <3> QED BY <3>2, <3>3
    <2>3. ASSUME NEW f \in FilesOf(Tail(s)) PROVE f \in FilesOf(s)
      <3>1. PICK i \in 1 .. Len(s) - 1 : Tail(s)[i] = f
        BY <2>1 DEF FilesOf
      <3>2. i + 1 \in 1 .. Len(s) /\ s[i + 1] = f
        BY <2>1, <3>1
      <3> QED BY <2>1, <3>2 DEF FilesOf
    <2>4. Head(s) \in FilesOf(s)
      BY <2>1 DEF FilesOf
    <2> QED BY <2>2, <2>3, <2>4
  <1>3. ASSUME NEW f \in Files PROVE FilesOf(Append(s, f)) = FilesOf(s) \cup {f}
    <2>1. /\ DOMAIN s = 1 .. Len(s) /\ Len(s) \in Nat
          /\ DOMAIN Append(s, f) = 1 .. Len(s) + 1
          /\ \A i \in 1 .. Len(s) + 1 : Append(s, f)[i] = IF i <= Len(s) THEN s[i] ELSE f
      OBVIOUS
    <2> DEFINE t == Append(s, f)
    <2>2. DOMAIN t = 1 .. Len(s) + 1 /\ \A i \in 1 .. Len(s) + 1 : t[i] = IF i <= Len(s) THEN s[i] ELSE f
      BY <2>1
    <2> HIDE DEF t
    <2>3. \A g \in FilesOf(t) : g \in FilesOf(s) \cup {f}
      BY <2>1, <2>2 DEF FilesOf
    <2>4. \A g \in FilesOf(s) : g \in FilesOf(t)
      BY <2>1, <2>2 DEF FilesOf
    <2>5. Len(s) + 1 \in DOMAIN t /\ t[Len(s) + 1] = f
      BY <2>1, <2>2
    <2>6. f \in FilesOf(t)
      BY <2>5 DEF FilesOf
    <2> QED BY <2>3, <2>4, <2>6 DEF t
  <1> QED BY <1>1, <1>2, <1>3

\* From where a caller stands to where s says: it has registered what was answered ok.
Onward(c, s) ==
  /\ s.at \in {"register", "run"} => \A f \in FilesOf(s.mine) :
       /\ caller[c].at = "register"
       /\ \/ f \in FilesOf(caller[c].mine)
          \/ f = Head(caller[c].todo) /\ answered[caller[c].mid] = "ok"
  /\ s.at = "register" => caller[c].at = "register" \/ ShouldOPFSFileHandling
  /\ s.at = "drop" => s.mine = caller[c].mine

\* Caller c posts q and awaits the answer as s says ...
Posts(c, q, s) ==
  /\ nextMessageId \in Ids /\ nextMessageId' = nextMessageId + 1
  /\ task' = [task EXCEPT ![nextMessageId] = q]
  /\ caller' = [caller EXCEPT ![c] = s]
  /\ s.at # "start" /\ s.script = caller[c].script /\ s.mid = nextMessageId
  /\ Awaited(q, s) /\ Onward(c, s)

\* ... or its call returns.
Leaves(c) ==
  /\ caller' = [caller EXCEPT ![c] = Idle(Tail(caller[c].script))]
  /\ UNCHANGED <<nextMessageId, task>>

GoesOn(c) ==
  /\ Leaves(c) \/ \E q \in Request, s \in CallerStates : Posts(c, q, s)
  /\ caller[c].script # <<>>
  /\ caller[c].mid # None => answered[caller[c].mid] # "none"
  /\ config' = config \/ (CallOf(c).kind = "open" /\ config' = CallOf(c).config)
  /\ UNCHANGED <<handler, answered, handles>>

LEMMA PostGoesOn ==
  ASSUME Inv0, NEW c \in Callers, NEW kept, NEW q \in Request, NEW s \in CallerStates,
         PostTask(c, kept, q, s), s.at # "start", s.script = caller[c].script,
         Awaited(q, s), Onward(c, s)
  PROVE  Leaves(c) \/ \E r \in Request, t \in CallerStates : Posts(c, r, t)
  <1>1. CASE Return(c, kept)
    BY <1>1 DEF Return, Leaves
  <1>2. CASE worker /\ nextMessageId < MaxMessages
    <2>1. nextMessageId \in Ids
      BY <1>2, ScriptAssumption DEF Ids, Inv0, TypeOK, MessagesTyped
    <2> DEFINE u == [s EXCEPT !.mid = nextMessageId]
    <2>2. /\ nextMessageId' = nextMessageId + 1
          /\ task' = [task EXCEPT ![nextMessageId] = q]
          /\ caller' = [caller EXCEPT ![c] = u]
      BY <1>2 DEF PostTask
    <2>3. /\ u \in CallerStates /\ u.script = s.script /\ u.at = s.at /\ u.mid = nextMessageId
          /\ u.todo = s.todo /\ u.mine = s.mine
      BY <2>1 DEF CallerStates
    <2> HIDE DEF u
    <2>4. Awaited(q, u) /\ Onward(c, u)
      BY <2>3 DEF Awaited, Onward
    <2>5. Posts(c, q, u)
      BY <2>1, <2>2, <2>3, <2>4 DEF Posts
    <2> QED BY <2>3, <2>5
  <1> QED BY <1>1, <1>2 DEF PostTask

LEMMA CallGoesOn ==
  ASSUME Inv0, OwnersAgree, NEW c \in Callers, Call(c)
  PROVE  GoesOn(c)
  <1> DEFINE s == caller[c]
             r == CallOf(c)
  <1>1. /\ s \in CallerStates /\ s.at = "start" /\ s.script \in Seq(Request) /\ s.script # <<>>
        /\ r \in Request /\ r = Head(s.script) /\ s.mine = <<>> /\ s.mid = None
    BY DEF Call, CallerStates, CallOf, CallersAgree, Inv0, TypeOK, CallersTyped, OwnersAgree
  <1>2. FilesOf(<<>>) = {} /\ FilesOf(r.files) = Named(r) /\ r.files \in Seq(Files)
    BY <1>1 DEF FilesOf, Named, Request
  <1>3. Leaves(c) \/ \E q \in Request, t \in CallerStates : Posts(c, q, t)
    <2>1. CASE r.kind = "runQuery" /\ ShouldOPFSFileHandling /\ r.files # <<>>
      <3> DEFINE t == [s EXCEPT !.todo = r.files]
                 q == [Rq("registerOPFSFileName", <<Head(t.todo)>>) EXCEPT !.config.auto = TRUE]
                 u == [t EXCEPT !.at = "register"]
      <3>1. PostTask(c, pendingRequests, q, u)
        BY <1>1, <2>1, Zenon DEF Call, RegisterNext, MakeRequest
      <3>2. Head(t.todo) \in Files /\ t.todo = r.files
        BY <1>1, <1>2, <2>1 DEF CallerStates
      <3>3. q \in Request /\ q = [Rq("registerOPFSFileName", <<Head(r.files)>>) EXCEPT !.config.auto = TRUE]
        BY <3>2, RqTyped
      <3>4. /\ u \in CallerStates /\ u.script = s.script /\ u.at = "register"
            /\ u.todo = r.files /\ u.mine = <<>>
        BY <1>1, <1>2 DEF CallerStates, Awaits
      <3> HIDE DEF u, q
      <3>5. Awaited(q, u)
        BY <1>1, <1>2, <3>3, <3>4 DEF Awaited
      <3>6. Onward(c, u)
        BY <1>2, <2>1, <3>4 DEF Onward
      <3> QED BY <3>1, <3>3, <3>4, <3>5, <3>6, PostGoesOn
    <2>2. CASE r.kind = "runQuery" /\ (~ShouldOPFSFileHandling \/ r.files = <<>>)
      <3> DEFINE q == [r EXCEPT !.config.auto = s.at = "register"]
                 u == [s EXCEPT !.at = "run"]
      <3>1. PostTask(c, pendingRequests, q, u)
        BY <1>1, <2>2, Zenon DEF Call, RunQuery, MakeRequest
      <3>2. /\ u \in CallerStates /\ u.script = s.script /\ u.at = "run" /\ u.mine = <<>>
        BY <1>1 DEF CallerStates, Awaits
      <3>3. q \in Request /\ q = [r EXCEPT !.config.auto = u.mine # <<>>]
        BY <1>1, <3>2, RqTyped
      <3> HIDE DEF u, q
      <3>4. Awaited(q, u)
        BY <1>1, <3>2, <3>3 DEF Awaited
      <3>5. Onward(c, u)
        BY <1>2, <3>2 DEF Onward
      <3> QED BY <3>1, <3>2, <3>3, <3>4, <3>5, PostGoesOn
    <2>3. CASE r.kind # "runQuery"
      <3> DEFINE u == [s EXCEPT !.at = "request"]
      <3>1. PostTask(c, pendingRequests, r, u)
        BY <1>1, <2>3, Zenon DEF Call, MakeRequest
      <3>2. u \in CallerStates /\ u.script = s.script /\ u.at = "request" /\ u.mine = <<>>
        BY <1>1 DEF CallerStates, Awaits
      <3> HIDE DEF u
      <3>3. Awaited(r, u) /\ Onward(c, u)
        BY <1>1, <2>3, <3>2 DEF Awaited, Onward
      <3> QED BY <1>1, <3>1, <3>2, <3>3, PostGoesOn
    <2> QED BY <2>1, <2>2, <2>3
  <1>4. config' = config \/ (r.kind = "open" /\ config' = r.config)
    BY DEF Call, MakeRequest
  <1>5. UNCHANGED <<handler, answered, handles>>
    BY DEF Call
  <1> QED BY <1>1, <1>3, <1>4, <1>5 DEF GoesOn

LEMMA ContinueGoesOn ==
  ASSUME Inv0, OwnersAgree, NEW c \in Callers, caller[c].mid # None, NEW kept, NEW status,
         Continue(c, kept, status), status = "ok" => answered[caller[c].mid] = "ok"
  PROVE  Leaves(c) \/ \E q \in Request, t \in CallerStates : Posts(c, q, t)
  <1> DEFINE s == caller[c]
             r == CallOf(c)
  <1>1. /\ s \in CallerStates /\ s.at # "start" /\ s.script \in Seq(Request) /\ s.script # <<>>
        /\ r \in Request /\ r = Head(s.script)
        /\ s.todo \in Seq(Files) /\ s.mine \in Seq(Files)
        /\ s.at = "register" => s.todo # <<>>
    BY DEF CallersAgree, CallerStates, CallOf, Inv0, TypeOK, CallersTyped
  <1>2. Awaited(task[s.mid], s)
    BY <1>1 DEF OwnersAgree
  <1>3. CASE s.at = "register" /\ status = "ok" /\ Tail(s.todo) # <<>>
             /\ RegisterNext(c, kept, [s EXCEPT !.todo = Tail(@), !.mine = Append(@, Head(s.todo))])
    <2> DEFINE t == [s EXCEPT !.todo = Tail(@), !.mine = Append(@, Head(s.todo))]
               q == [Rq("registerOPFSFileName", <<Head(t.todo)>>) EXCEPT !.config.auto = TRUE]
               u == [t EXCEPT !.at = "register"]
    <2>1. PostTask(c, kept, q, u)
      BY <1>3, Zenon DEF RegisterNext
    <2>2. /\ Tail(s.todo) \in Seq(Files) /\ Head(Tail(s.todo)) \in Files /\ Head(s.todo) \in Files
          /\ Append(s.mine, Head(s.todo)) \in Seq(Files)
          /\ t.todo = Tail(s.todo)
      BY <1>1, <1>3 DEF CallerStates
    <2>3. q \in Request /\ q = [Rq("registerOPFSFileName", <<Head(Tail(s.todo))>>) EXCEPT !.config.auto = TRUE]
      BY <2>2, RqTyped
    <2>4. /\ u \in CallerStates /\ u.script = s.script /\ u.at = "register"
          /\ u.todo = Tail(s.todo) /\ u.mine = Append(s.mine, Head(s.todo))
      BY <1>1, <2>2 DEF CallerStates, Awaits
    <2> HIDE DEF u, q
    <2>5. /\ FilesOf(s.todo) = {Head(s.todo)} \cup FilesOf(Tail(s.todo))
          /\ FilesOf(u.mine) = FilesOf(s.mine) \cup {Head(s.todo)}
      BY <1>1, <1>3, <2>2, <2>4, FilesOfEnds
    <2>6. Awaited(q, u)
      BY <1>1, <1>2, <1>3, <2>3, <2>4, <2>5 DEF Awaited
    <2>7. Onward(c, u)
      BY <1>3, <2>4, <2>5 DEF Onward
    <2> QED BY <2>1, <2>3, <2>4, <2>6, <2>7, PostGoesOn
  <1>4. CASE s.at = "register" /\ status = "ok" /\ Tail(s.todo) = <<>>
             /\ RunQuery(c, kept, [s EXCEPT !.todo = <<>>, !.mine = Append(@, Head(s.todo))])
    <2> DEFINE t == [s EXCEPT !.todo = <<>>, !.mine = Append(@, Head(s.todo))]
               q == [r EXCEPT !.config.auto = t.at = "register"]
               u == [t EXCEPT !.at = "run"]
    <2>1. PostTask(c, kept, q, u)
      BY <1>4, Zenon DEF RunQuery
    <2>2. /\ Append(s.mine, Head(s.todo)) \in Seq(Files) /\ <<>> \in Seq(Files)
          /\ Append(s.mine, Head(s.todo)) # <<>> /\ Head(s.todo) \in Files
      <3>1. s.mine \in Seq(Files) /\ Head(s.todo) \in Files
        BY <1>1, <1>4
      <3>2. FilesOf(Append(s.mine, Head(s.todo))) = FilesOf(s.mine) \cup {Head(s.todo)} /\ FilesOf(<<>>) = {}
        BY <3>1, FilesOfEnds
      <3>3. Append(s.mine, Head(s.todo)) # <<>>
        BY <3>2
      <3>4. Append(s.mine, Head(s.todo)) \in Seq(Files) /\ <<>> \in Seq(Files)
        BY <3>1
      <3> QED BY <3>1, <3>3, <3>4
    <2>3. /\ u \in CallerStates /\ u.script = s.script /\ u.at = "run"
          /\ u.mine = Append(s.mine, Head(s.todo)) /\ u.mine # <<>>
      BY <1>1, <2>2 DEF CallerStates, Awaits
    <2>4. t.at = "register"
      BY <1>1, <1>4 DEF CallerStates
    <2>5. q \in Request /\ q = [r EXCEPT !.config.auto = u.mine # <<>>]
      BY <1>1, <2>3, <2>4, RqTyped
    <2> HIDE DEF u, q
    <2>6. /\ FilesOf(s.todo) = {Head(s.todo)} \cup FilesOf(<<>>) /\ FilesOf(<<>>) = {}
          /\ FilesOf(u.mine) = FilesOf(s.mine) \cup {Head(s.todo)}
      BY <1>1, <1>4, <2>2, <2>3, FilesOfEnds
    <2>7. Awaited(q, u)
      BY <1>1, <1>2, <1>4, <2>3, <2>5, <2>6 DEF Awaited
    <2>8. Onward(c, u)
      BY <1>4, <2>3, <2>6 DEF Onward
    <2> QED BY <2>1, <2>3, <2>5, <2>7, <2>8, PostGoesOn
  <1>5. CASE s.at = "run" /\ s.mine # <<>> /\ PostTask(c, kept, Rq("dropFiles", s.mine), [s EXCEPT !.at = "drop"])
    <2> DEFINE u == [s EXCEPT !.at = "drop"]
    <2>1. u \in CallerStates /\ u.script = s.script /\ u.at = "drop" /\ u.mine = s.mine
      BY <1>1 DEF CallerStates, Awaits
    <2>2. PostTask(c, kept, Rq("dropFiles", s.mine), u)
      BY <1>5
    <2> HIDE DEF u
    <2>3. Awaited(Rq("dropFiles", s.mine), u) /\ Onward(c, u)
      BY <1>1, <1>2, <1>5, <2>1 DEF Awaited, Onward
    <2> QED BY <1>1, <2>1, <2>2, <2>3, RqTyped, PostGoesOn
  <1>6. CASE Return(c, kept)
    BY <1>6 DEF Return, Leaves
  <1> QED BY <1>3, <1>4, <1>5, <1>6 DEF Continue

LEMMA OnMessageGoesOn ==
  ASSUME Inv0, RepliesAgree, OwnersAgree, OnMessage
  PROVE  \E c \in Callers : GoesOn(c)
  <1> DEFINE reply == Head(replies)
  <1>1. /\ reply.to \in pendingRequests /\ reply.to \in Ids
        /\ replies # <<>> /\ replies' = Tail(replies)
        /\ promise' = [promise EXCEPT ![reply.to] = Settlement(reply)]
        /\ UNCHANGED <<client, handler, answered, handles>>
    BY OnMessageIsCallerStep DEF Replies
  <1>2. PICK c \in Callers : /\ caller[c].mid = reply.to
                             /\ Continue(c, pendingRequests \ {reply.to}, Settlement(reply))
    BY Zenon DEF OnMessage
  <1>3. Settles(reply.to)
    BY <1>1 DEF Settles
  <1>4. answered[reply.to] # "none" /\ ((promise'[reply.to] = "ok") <=> (answered[reply.to] = "ok"))
    <2> HIDE DEF reply
    <2> QED BY <1>1, <1>3, SettlesAsAnswered
  <1>5. promise'[reply.to] = Settlement(reply)
    <2> HIDE DEF reply
    <2> QED BY <1>1 DEF Inv0, TypeOK, MessagesTyped
  <1> HIDE DEF reply
  <1>6. caller[c].mid # None
    BY <1>1, <1>2, ScriptAssumption DEF Ids
  <1>7. Leaves(c) \/ \E q \in Request, t \in CallerStates : Posts(c, q, t)
    BY <1>2, <1>4, <1>5, <1>6, ContinueGoesOn
  <1>8. caller[c].script # <<>>
    BY <1>6 DEF Inv0, CallersAgree
  <1> QED BY <1>1, <1>2, <1>4, <1>7, <1>8 DEF GoesOn, client

LEMMA ScriptsShrink ==
  ASSUME Inv0, NEW c \in Callers, GoesOn(c)
  PROVE  /\ caller'[c] \in CallerStates
         /\ \A d \in Callers \ {c} : caller'[d] = caller[d]
         /\ \A d \in Callers : ToCome'[d] \subseteq ToCome[d]
         /\ CallOf(c) \in ToCome[c]
  <1>1. /\ caller \in [Callers -> CallerStates] /\ caller[c].script \in Seq(Request) /\ caller[c].script # <<>>
    BY DEF GoesOn, CallerStates, Inv0, TypeOK, CallersTyped
  <1>2. Idle(Tail(caller[c].script)) \in CallerStates
    BY <1>1 DEF CallerStates, Awaits, Idle
  <1>3. PICK s \in CallerStates : /\ caller' = [caller EXCEPT ![c] = s]
                                  /\ s.script = caller[c].script \/ s.script = Tail(caller[c].script)
    BY <1>2 DEF GoesOn, Leaves, Posts, Idle
  <1>4. caller'[c] = s /\ \A d \in Callers \ {c} : caller'[d] = caller[d]
    BY <1>1, <1>3
  <1>5. CallsOf(Tail(caller[c].script)) \subseteq CallsOf(caller[c].script)
    <2> DEFINE t == caller[c].script
    <2>1. /\ DOMAIN t = 1 .. Len(t) /\ DOMAIN Tail(t) = 1 .. Len(t) - 1 /\ Len(t) \in Nat
          /\ \A i \in 1 .. Len(t) - 1 : Tail(t)[i] = t[i + 1] /\ i + 1 \in 1 .. Len(t)
      BY <1>1
    <2> HIDE DEF t
    <2> QED BY <2>1 DEF CallsOf, t
  <1>6. \A d \in Callers : ToCome'[d] \subseteq ToCome[d]
    BY <1>3, <1>4, <1>5 DEF ToCome
  <1>7. CallOf(c) \in ToCome[c]
    <2>1. 1 \in DOMAIN caller[c].script /\ caller[c].script[1] = CallOf(c)
      BY <1>1 DEF CallOf
    <2> QED BY <2>1 DEF ToCome, CallsOf
  <1> QED BY <1>3, <1>4, <1>6, <1>7

LEMMA GoesOnKeepsOwners ==
  ASSUME Inv0, OwnersAgree, NEW c \in Callers, GoesOn(c)
  PROVE  OwnersAgree'
  <1>1. /\ nextMessageId \in Nat /\ task \in [Ids -> Request \cup {NoRequest}]
        /\ caller \in [Callers -> CallerStates] /\ UNCHANGED answered
        /\ \A m \in Ids : m \in Nat /\ m # None
    BY ScriptAssumption DEF GoesOn, Inv0, TypeOK, MessagesTyped, CallersTyped, Ids
  <1>2. /\ \A d \in Callers \ {c} : caller'[d] = caller[d]
        /\ caller[c].mid # None => answered[caller[c].mid] # "none"
    BY ScriptsShrink DEF GoesOn
  <1>3. ASSUME NEW m \in Ids, m < nextMessageId, answered[m] = "none"
        PROVE  \E d \in Callers : caller'[d].mid = m
    <2>1. PICK d \in Callers : caller[d].mid = m
      BY <1>3 DEF OwnersAgree
    <2>2. d # c
      BY <1>1, <1>2, <1>3, <2>1
    <2> QED BY <1>2, <2>1, <2>2
  <1>4. CASE Leaves(c)
    <2>1. caller'[c] = Idle(Tail(caller[c].script))
      BY <1>1, <1>4 DEF Leaves
    <2>2. caller'[c].at = "start" /\ caller'[c].mine = <<>>
      BY <2>1 DEF Idle
    <2>3. UNCHANGED <<nextMessageId, task>>
      BY <1>4 DEF Leaves
    <2> QED BY <1>1, <1>2, <1>3, <2>2, <2>3 DEF OwnersAgree
  <1>5. ASSUME NEW q \in Request, NEW s \in CallerStates, Posts(c, q, s)
        PROVE  OwnersAgree'
    <2>1. /\ nextMessageId \in Ids /\ nextMessageId' = nextMessageId + 1
          /\ task' = [task EXCEPT ![nextMessageId] = q] /\ caller' = [caller EXCEPT ![c] = s]
          /\ s.at # "start" /\ s.mid = nextMessageId /\ Awaited(q, s)
      BY <1>5 DEF Posts
    <2>2. caller'[c] = s /\ task'[nextMessageId] = q
      BY <1>1, <2>1
    <2>3. ASSUME NEW m \in Ids, m < nextMessageId', answered'[m] = "none"
          PROVE  \E d \in Callers : caller'[d].mid = m
      <3>1. CASE m = nextMessageId
        BY <2>1, <2>2, <3>1
      <3>2. CASE m # nextMessageId
        <4>1. m < nextMessageId
          BY <1>1, <2>1, <2>3, <3>2
        <4> QED BY <1>1, <1>3, <2>3, <4>1
      <3> QED BY <3>1, <3>2
    <2>4. ASSUME NEW d \in Callers
          PROVE  IF caller'[d].at = "start" THEN caller'[d].mine = <<>>
                 ELSE /\ caller'[d].mid \in Ids /\ caller'[d].mid < nextMessageId'
                      /\ Awaited(task'[caller'[d].mid], caller'[d])
      <3>1. CASE d = c
        BY <1>1, <2>1, <2>2, <3>1
      <3>2. CASE d # c /\ caller[d].at = "start"
        BY <1>2, <3>2 DEF OwnersAgree
      <3>3. CASE d # c /\ caller[d].at # "start"
        <4>1. /\ caller'[d] = caller[d] /\ caller[d].mid \in Ids /\ caller[d].mid < nextMessageId
              /\ Awaited(task[caller[d].mid], caller[d])
          BY <1>2, <3>3 DEF OwnersAgree
        <4>2. task'[caller[d].mid] = task[caller[d].mid] /\ caller[d].mid < nextMessageId'
          <5>1. caller[d].mid \in Nat /\ caller[d].mid # nextMessageId
            BY <1>1, <4>1
          <5>2. caller[d].mid < nextMessageId'
            BY <1>1, <2>1, <4>1, <5>1
          <5> QED BY <1>1, <2>1, <4>1, <5>1, <5>2
        <4> QED BY <3>3, <4>1, <4>2
      <3> QED BY <3>1, <3>2, <3>3
    <2> QED BY <2>3, <2>4 DEF OwnersAgree, Awaited
  <1> QED BY <1>4, <1>5 DEF GoesOn

LEMMA GoesOnKeepsNothingAutomatic ==
  ASSUME Inv0, NothingAutomatic, NEW c \in Callers, GoesOn(c)
  PROVE  NothingAutomatic'
  <1>1. /\ \A d \in Callers \ {c} : caller'[d] = caller[d]
        /\ \A d \in Callers : ToCome'[d] \subseteq ToCome[d]
        /\ CallOf(c) \in ToCome[c]
    BY ScriptsShrink
  <1>2. \A d \in Callers : \A r \in ToCome'[d] : ~OpensAutomatically(r)
    BY <1>1 DEF NothingAutomatic
  <1>3. ~ShouldOPFSFileHandling'
    BY <1>1 DEF NothingAutomatic, GoesOn, ShouldOPFSFileHandling, OpensAutomatically
  <1>4. caller \in [Callers -> CallerStates] /\ task \in [Ids -> Request \cup {NoRequest}]
    BY DEF Inv0, TypeOK, MessagesTyped, CallersTyped
  <1>5. CASE Leaves(c)
    <2>1. caller'[c] = Idle(Tail(caller[c].script)) /\ task' = task
      BY <1>4, <1>5 DEF Leaves
    <2>2. caller'[c].at # "register" /\ caller'[c].mine = <<>>
      BY <2>1 DEF Idle
    <2> QED BY <1>1, <1>2, <1>3, <2>1, <2>2 DEF NothingAutomatic
  <1>6. ASSUME NEW q \in Request, NEW s \in CallerStates, Posts(c, q, s)
        PROVE  NothingAutomatic'
    <2>1. /\ nextMessageId \in Ids /\ task' = [task EXCEPT ![nextMessageId] = q]
          /\ caller' = [caller EXCEPT ![c] = s]
          /\ s.at # "start" /\ Awaited(q, s) /\ Onward(c, s)
      BY <1>6 DEF Posts
    <2>2. caller'[c] = s /\ s.at \in {"request", "register", "run", "drop"} /\ s.mine \in Seq(Files)
      BY <1>4, <2>1 DEF CallerStates, Awaits
    <2>3. s.at # "register" /\ s.at # "drop"
      BY <2>1 DEF Onward, Awaited, NothingAutomatic
    <2>4. s.mine = <<>>
      <3>1. CASE s.at = "run"
        <4>1. FilesOf(s.mine) = {}
          BY <2>1, <3>1 DEF Onward, NothingAutomatic
        <4> QED BY <2>2, <4>1, FilesOfEnds
      <3>2. CASE s.at = "request"
        BY <2>1, <3>2 DEF Awaited
      <3> QED BY <2>2, <2>3, <3>1, <3>2
    <2>5. q.kind = "runQuery" => ~q.config.auto
      <3>1. CASE s.at = "run"
        <4>1. q = [Head(s.script) EXCEPT !.config.auto = s.mine # <<>>] /\ Head(s.script) \in Request
          <5>1. s.script \in Seq(Request) /\ s.script # <<>>
            BY <1>6 DEF Posts, GoesOn, CallerStates
          <5> QED BY <2>1, <3>1, <5>1 DEF Awaited
        <4>2. q.config = [Head(s.script).config EXCEPT !.auto = s.mine # <<>>] /\ Head(s.script).config \in Configs
          BY <4>1 DEF Request
        <4>3. q.config.auto = (s.mine # <<>>)
          BY <4>2 DEF Configs
        <4> QED BY <2>4, <4>3
      <3>2. CASE s.at = "request"
        BY <2>1, <3>2 DEF Awaited
      <3> QED BY <2>2, <2>3, <3>1, <3>2
    <2>6. \A m \in Ids : task'[m] = IF m = nextMessageId THEN q ELSE task[m]
      BY <1>4, <2>1
    <2> QED BY <1>1, <1>2, <1>3, <2>2, <2>3, <2>4, <2>5, <2>6 DEF NothingAutomatic
  <1> QED BY <1>5, <1>6 DEF GoesOn

LEMMA GoesOnKeepsReady ==
  ASSUME Inv0, FilesReady, NEW c \in Callers, GoesOn(c), OwnersAgree
  PROVE  FilesReady'
  <1>1. /\ \A d \in Callers \ {c} : caller'[d] = caller[d]
        /\ \A d \in Callers : ToCome'[d] \subseteq ToCome[d]
    BY ScriptsShrink
  <1>2. KeepApart(ToCome')
    BY <1>1 DEF KeepApart, FilesReady
  <1>3. /\ caller \in [Callers -> CallerStates] /\ task \in [Ids -> Request \cup {NoRequest}]
        /\ UNCHANGED <<handler, answered, files, prepared, stored>>
    BY DEF Inv0, TypeOK, MessagesTyped, CallersTyped, GoesOn, handles
  <1>4. \A f : Ready(f)' <=> Ready(f)
    BY <1>3 DEF Ready, Locked
  <1>5. CASE Leaves(c)
    <2>1. caller'[c] = Idle(Tail(caller[c].script)) /\ task' = task
      BY <1>3, <1>5 DEF Leaves
    <2>2. caller'[c].at = "start"
      BY <2>1 DEF Idle
    <2>3. \A d \in Callers :
            /\ caller'[d].at \in {"register", "run"} => \A f \in FilesOf(caller'[d].mine) : Ready(f)
            /\ caller'[d].at = "register" /\ answered[caller'[d].mid] = "ok" => Ready(Head(caller'[d].todo))
      BY <1>1, <2>2 DEF FilesReady
    <2> QED BY <1>2, <1>3, <1>4, <2>1, <2>3 DEF FilesReady, QueriesFindTheirFiles
  <1>6. ASSUME NEW q \in Request, NEW s \in CallerStates, Posts(c, q, s)
        PROVE  FilesReady'
    <2>1. /\ nextMessageId \in Ids /\ task' = [task EXCEPT ![nextMessageId] = q]
          /\ caller' = [caller EXCEPT ![c] = s] /\ s.mid = nextMessageId
          /\ s.at # "start" /\ Awaited(q, s) /\ Onward(c, s)
      BY <1>6 DEF Posts
    <2>2. caller'[c] = s
      BY <1>3, <2>1
    <2>3. answered[nextMessageId] = "none" /\ handler[nextMessageId].at = "none"
      <3>1. ~(nextMessageId < nextMessageId) /\ nextMessageId >= nextMessageId
        BY <2>1, ScriptAssumption DEF Ids
      <3> QED BY <2>1, <3>1 DEF Inv0, PostedAgree
    <2>4. \A m \in Ids : task'[m] = IF m = nextMessageId THEN q ELSE task[m]
      BY <1>3, <2>1
    <2>5. ASSUME s.at \in {"register", "run"}, NEW f \in FilesOf(s.mine) PROVE Ready(f)
      <3>1. /\ caller[c].at = "register"
            /\ f \in FilesOf(caller[c].mine) \/ (f = Head(caller[c].todo) /\ answered[caller[c].mid] = "ok")
        BY <2>1, <2>5 DEF Onward
      <3> QED BY <3>1 DEF FilesReady
    <2>6. \A d \in Callers :
            /\ caller'[d].at \in {"register", "run"} => \A f \in FilesOf(caller'[d].mine) : Ready(f)
            /\ caller'[d].at = "register" /\ answered[caller'[d].mid] = "ok" => Ready(Head(caller'[d].todo))
      BY <1>1, <2>1, <2>2, <2>3, <2>5 DEF FilesReady
    <2>7. \A m \in Ids : /\ handler[m].at \in {"root", "acquire"}
                         /\ task'[m].kind = "registerOPFSFileName"
                         => handler[m].todo = task'[m].files
      BY <2>3, <2>4 DEF FilesReady
    <2>8. \A m \in Ids : task'[m].kind = "runQuery" /\ task'[m].config.auto => answered[m] # "missing"
      BY <2>3, <2>4 DEF FilesReady, QueriesFindTheirFiles
    <2> QED BY <1>2, <1>3, <1>4, <2>6, <2>7, <2>8 DEF FilesReady, QueriesFindTheirFiles
  <1> QED BY <1>5, <1>6 DEF GoesOn

----------------------------------------------------------------------------
(* What the worker does to files *)

LEMMA SkipOne ==
  /\ Skip(<<>>) = <<>>
  /\ \A f \in Files : Skip(<<f>>) = IF f \in files THEN <<>> ELSE <<f>>
  <1>1. Skip(<<>>) = <<>>
    <2> DEFINE k == CHOOSE n \in 0 .. Len(<<>>) : /\ \A i \in 1 .. n : <<>>[i] \in files
                                                  /\ n = Len(<<>>) \/ <<>>[n + 1] \notin files
    <2>1. Len(<<>>) = 0 /\ 0 .. 0 = {0}
      OBVIOUS
    <2>2. 0 \in 0 .. Len(<<>>) /\ (\A i \in 1 .. 0 : <<>>[i] \in files) /\ 0 = Len(<<>>)
      BY <2>1
    <2>3. k \in 0 .. Len(<<>>)
      BY <2>2
    <2>4. k = 0
      BY <2>1, <2>3
    <2> HIDE DEF k
    <2>5. SubSeq(<<>>, k + 1, Len(<<>>)) = <<>>
      BY <2>1, <2>4
    <2> QED BY <2>5 DEF Skip, k
  <1>2. ASSUME NEW f \in Files PROVE Skip(<<f>>) = IF f \in files THEN <<>> ELSE <<f>>
    <2> DEFINE t == <<f>>
               P(n) == /\ \A i \in 1 .. n : t[i] \in files
                       /\ n = Len(t) \/ t[n + 1] \notin files
               k == CHOOSE n \in 0 .. Len(t) : P(n)
    <2>1. Len(t) = 1 /\ t[1] = f /\ t \in Seq(Files) /\ 0 .. 1 = {0, 1}
      OBVIOUS
    <2> HIDE DEF t
    <2>2. P(0) <=> f \notin files
      BY <2>1
    <2>3. P(1) <=> f \in files
      BY <2>1
    <2>4. k \in {0, 1} /\ P(k)
      <3>1. \E n \in 0 .. Len(t) : P(n)
        BY <2>1, <2>2, <2>3
      <3> QED BY <2>1, <3>1
    <2>5. Skip(t) = SubSeq(t, k + 1, Len(t))
      BY DEF Skip
    <2> HIDE DEF P, k
    <2>6. CASE f \in files
      <3>1. k = 1
        BY <2>2, <2>4, <2>6
      <3>2. SubSeq(t, 2, 1) = <<>>
        BY <2>1
      <3> QED BY <2>1, <2>5, <2>6, <3>1, <3>2 DEF t
    <2>7. CASE f \notin files
      <3>1. k = 0
        BY <2>3, <2>4, <2>7
      <3>2. SubSeq(t, 1, 1) = t
        BY <2>1
      <3> QED BY <2>1, <2>5, <2>7, <3>1, <3>2 DEF t
    <2> QED BY <2>6, <2>7
  <1> QED BY <1>1, <1>2

\* What a step of the worker on m does to files: it takes none away unless it drops
\* them, registers what it says it has, and misses no file that is ready.
Provides(m) ==
  /\ stored \subseteq stored'
  /\ \/ files \subseteq files' /\ Locked \subseteq Locked'
     \/ /\ task[m].kind = "dropFiles" /\ prepared' = prepared
        /\ task[m].files # <<>> => files \ Named(task[m]) \subseteq files'
  /\ task[m].kind = "registerOPFSFileName" /\ Stored \subseteq stored
     /\ (handler[m].at \in {"root", "acquire"} => handler[m].todo = task[m].files) =>
       /\ answered'[m] = "ok" => Ready(Head(task[m].files))'
       /\ handler'[m].at \in {"root", "acquire"} => handler'[m].todo = task[m].files
  /\ answered'[m] = "missing" =>
       /\ task[m].kind = "runQuery"
       /\ ~(Named(task[m]) \ task[m].writes \subseteq files /\ task[m].writes \subseteq Locked)

\* What a handler that prepares files answers.
LEMMA PrepareOutcome ==
  ASSUME Inv0, NEW m \in Ids, answered[m] = "none", task[m].kind \in {"open", "registerOPFSFileName"},
         NEW todo, NEW fresh, NEW prep, prepared \subseteq prep, UNCHANGED stored,
         Prepare(m, todo, fresh, prep)
  PROVE  /\ files \subseteq files' /\ Locked \subseteq Locked'
         /\ answered'[m] # "missing"
         /\ task[m].kind = "registerOPFSFileName" /\ answered'[m] = "ok" =>
              /\ Skip(todo) = <<>> /\ fresh \cap stored \subseteq files' /\ fresh \subseteq Locked'
         /\ handler'[m].at \in {"root", "acquire"} => handler'[m].todo = Skip(todo) /\ Skip(todo) # <<>>
  <1>1. /\ answered \in [Ids -> {"none", "ok", "error", "missing"}] /\ handler \in [Ids -> Handlers]
        /\ files \in SUBSET Files
    BY DEF Inv0, TypeOK, MessagesTyped, WorkerTyped
  <1>2. CASE Skip(todo) # <<>> /\ Suspend(m, "acquire", Skip(todo), fresh) /\ prepared' = prep
    <2>1. /\ UNCHANGED <<answered, files>> /\ handler'[m].todo = Skip(todo)
      BY <1>1, <1>2 DEF Suspend
    <2> QED BY <1>2, <2>1 DEF Locked
  <1>3. CASE Skip(todo) = <<>> /\ fresh \subseteq files \cup prep /\ Prepared(m, fresh, prep)
    <2> DEFINE full == fresh \cap stored
               names == DatabaseFiles(task[m].config)
    <2>1. handler'[m].at = "none"
      BY <1>1, <1>3 DEF Prepared, Finish, NoHandler
    <2>2. /\ \/ files' = files \cup full \cup ((prep \ full) \cap names) /\ prepared' = (prep \ full) \ names
             \/ files' = files \cup full /\ prepared' = prep \ full
          /\ \E how \in {"ok", "error"} : answered' = [answered EXCEPT ![m] = how]
      BY <1>3, Zenon DEF Prepared, OpenDatabase, Answer
    <2>3. answered'[m] # "missing"
      BY <1>1, <2>2
    <2>4. /\ files \subseteq files' /\ Locked \subseteq Locked' /\ full \subseteq files'
          /\ fresh \subseteq Locked'
      <3> HIDE DEF names
      <3> QED BY <1>3, <2>2 DEF Locked
    <2> QED BY <1>3, <2>1, <2>3, <2>4
  <1>4. CASE Skip(todo) = <<>> /\ Refuse(m) /\ prepared' = prep
    <2>1. /\ answered' = [answered EXCEPT ![m] = "error"] /\ files' = files
          /\ handler' = [handler EXCEPT ![m] = NoHandler]
      BY <1>4 DEF Refuse, Finish, Answer
    <2>2. answered'[m] = "error" /\ handler'[m].at = "none"
      BY <1>1, <2>1 DEF NoHandler
    <2> QED BY <1>4, <2>1, <2>2 DEF Locked
  <1> QED BY <1>2, <1>3, <1>4, Zenon DEF Prepare

\* A request that registers names one file.
LEMMA RegisterNamesOne ==
  ASSUME NEW r \in Request, r.kind \in {"registerOPFSFileName", "registerFileHandle"}
  PROVE  r.files = <<Head(r.files)>> /\ Head(r.files) \in Files
  <1>1. r.files \in Seq(Files) /\ Len(r.files) = 1
    BY DEF Request
  <1> QED BY <1>1

LEMMA PrepareProvides ==
  ASSUME Inv0, NEW m \in Ids, answered[m] = "none", task[m] \in Request,
         task[m].kind \in {"open", "registerOPFSFileName"}, UNCHANGED <<task, stored>>,
         NEW todo, Prepare(m, todo, {}, prepared),
         task[m].kind = "registerOPFSFileName" =>
           \/ todo = task[m].files
           \/ ~(handler[m].at \in {"root", "acquire"} => handler[m].todo = task[m].files)
  PROVE  Provides(m)
  <1>1. /\ files \subseteq files' /\ Locked \subseteq Locked'
        /\ answered'[m] # "missing"
        /\ task[m].kind = "registerOPFSFileName" /\ answered'[m] = "ok" => Skip(todo) = <<>>
        /\ handler'[m].at \in {"root", "acquire"} => handler'[m].todo = Skip(todo) /\ Skip(todo) # <<>>
    BY PrepareOutcome
  <1>2. ASSUME task[m].kind = "registerOPFSFileName", todo = task[m].files
        PROVE  /\ answered'[m] = "ok" => Ready(Head(task[m].files))'
               /\ handler'[m].at \in {"root", "acquire"} => handler'[m].todo = task[m].files
    <2>1. task[m].files = <<Head(task[m].files)>> /\ Head(task[m].files) \in Files
      BY <1>2, RegisterNamesOne
    <2>2. Skip(todo) = IF Head(task[m].files) \in files THEN <<>> ELSE todo
      BY <1>2, <2>1, SkipOne
    <2>3. task'[m].files = task[m].files
      OBVIOUS
    <2>4. <<Head(task[m].files)>> # <<>>
      OBVIOUS
    <2>5. answered'[m] = "ok" => Head(task[m].files) \in files'
      BY <1>1, <1>2, <2>1, <2>2, <2>4
    <2> QED BY <1>1, <1>2, <2>2, <2>3, <2>5 DEF Ready, Locked
  <1> QED BY <1>1, <1>2 DEF Provides

\* A step that takes no file away, answers otherwise than ok or missing, or for others.
LEMMA PlainProvides ==
  ASSUME NEW m \in Ids, Stored \subseteq Files,
         stored \subseteq stored', files \subseteq files', Locked \subseteq Locked',
         answered'[m] # "missing",
         \/ task[m].kind # "registerOPFSFileName"
         \/ answered'[m] # "ok" /\ handler'[m].at \notin {"root", "acquire"}
  PROVE  Provides(m)
  BY DEF Provides

LEMMA ServeProvides ==
  ASSUME Inv0, RequestsAgree, Serve
  PROVE  LET m == Head(requests) IN m \in Ids /\ Provides(m) /\ Takes(m)
  <1> DEFINE m == Head(requests)
             r == task[m]
  <1>1. /\ m \in Ids /\ r \in Request /\ Takes(m) /\ handler[m].at = "none" /\ answered[m] = "none"
        /\ answered \in [Ids -> {"none", "ok", "error", "missing"}] /\ handler \in [Ids -> Handlers]
    <2>1. \E kinds : Take(kinds)
      BY Zenon DEF Serve, Ping, Instantiate, NotInitialized, Other, Reset, Query, DropNamed, DropAll,
                   StartPrepare, StartConvert
    <2>2. m \in Ids /\ r \in Request /\ Takes(m) /\ handler[m].at = "none"
      BY <2>1, Taken
    <2>3. answered[m] = "none"
      BY <2>2, NotYetAnswered
    <2> QED BY <2>2, <2>3 DEF Inv0, TypeOK, MessagesTyped, WorkerTyped
  <1> SUFFICES Provides(m)
    BY <1>1
  <1> HIDE DEF m
  <1>2. ASSUME NEW how, Answer(m, how) PROVE answered'[m] = how
    BY <1>1, <1>2 DEF Answer
  <1>3. Stored \subseteq Files
    BY ScriptAssumption
  <1>4. CASE Ping \/ Instantiate \/ NotInitialized \/ Other \/ Reset
    <2>1. /\ UNCHANGED handles
          /\ r.kind \in {"ping", "instantiate", "other", "reset"} \/ handler'[m].at = "none"
          /\ \/ UNCHANGED answered
             \/ Answer(m, "error")
             \/ Answer(m, "ok") /\ r.kind \in {"ping", "instantiate", "other", "reset"}
      BY <1>1, <1>4 DEF m, Ping, Instantiate, NotInitialized, Other, Reset, Take
    <2>2. /\ stored \subseteq stored' /\ files \subseteq files' /\ Locked \subseteq Locked'
      BY <2>1 DEF handles, Locked
    <2>3. answered'[m] # "missing"
      BY <1>1, <1>2, <2>1
    <2>4. \/ r.kind # "registerOPFSFileName"
          \/ answered'[m] # "ok" /\ handler'[m].at \notin {"root", "acquire"}
      BY <1>1, <1>2, <2>1
    <2> QED BY <1>1, <1>3, <2>2, <2>3, <2>4, PlainProvides
  <1>5. CASE Query
    <2> DEFINE found == Named(r) \ r.writes \subseteq files /\ r.writes \subseteq Locked
    <2>1. /\ r.kind = "runQuery"
          /\ \/ /\ Answer(m, "ok") /\ files' = files \cup r.writes
                /\ prepared' = prepared \ r.writes /\ stored' = stored \cup r.writes
             \/ ~found /\ Answer(m, "missing") /\ UNCHANGED <<files, prepared, stored>>
             \/ Answer(m, "error") /\ UNCHANGED <<files, prepared, stored>>
      BY <1>5 DEF m, Query, Take
    <2>2. /\ stored \subseteq stored' /\ files \subseteq files' /\ Locked \subseteq Locked'
      <3> HIDE DEF found
      <3> QED BY <2>1 DEF Locked
    <2>3. answered'[m] = "missing" => ~found
      <3> HIDE DEF found
      <3> QED BY <1>2, <2>1
    <2> QED BY <1>1, <2>1, <2>2, <2>3 DEF Provides
  <1>6. CASE DropNamed
    <2>1. /\ r.kind = "dropFiles" /\ r.files # <<>> /\ files' = files \ (Named(r) \ InUse)
          /\ UNCHANGED <<prepared, stored>>
          /\ \E how \in {"ok", "error"} : Answer(m, how)
      BY <1>6 DEF m, DropNamed, Take
    <2>2. answered'[m] # "missing"
      BY <1>2, <2>1
    <2>3. files \ Named(r) \subseteq files'
      BY <2>1
    <2> QED BY <2>1, <2>2, <2>3 DEF Provides
  <1>7. CASE DropAll
    <2>1. /\ r.kind = "dropFiles" /\ r.files = <<>> /\ UNCHANGED <<prepared, stored>>
          /\ \E how \in {"ok", "error"} : Answer(m, how)
      BY <1>7 DEF m, DropAll, Take
    <2>2. answered'[m] # "missing"
      BY <1>2, <2>1
    <2> QED BY <2>1, <2>2 DEF Provides
  <1>8. CASE StartPrepare
    <2>1. r.kind \in {"open", "registerOPFSFileName"} /\ UNCHANGED <<task, stored>>
      BY <1>8 DEF m, StartPrepare, Take, calls
    <2>2. CASE r.kind = "open" /\ OpenDatabase(m, files, prepared) /\ UNCHANGED <<handler, pinned>>
      <3> DEFINE names == DatabaseFiles(r.config)
      <3>1. /\ \/ files' = files \cup (prepared \cap names) /\ prepared' = prepared \ names
               \/ files' = files /\ prepared' = prepared
            /\ \E how \in {"ok", "error"} : Answer(m, how)
        BY <2>2, Zenon DEF OpenDatabase
      <3> HIDE DEF names
      <3>2. /\ stored \subseteq stored' /\ files \subseteq files' /\ Locked \subseteq Locked'
        BY <2>1, <3>1 DEF Locked
      <3>3. answered'[m] # "missing"
        BY <1>2, <3>1
      <3> QED BY <1>1, <1>3, <2>2, <3>2, <3>3, PlainProvides
    <2>3. CASE Suspend(m, "root", FilesToPrepare(r), {}) /\ UNCHANGED prepared
      <3>1. /\ UNCHANGED <<answered, files, prepared>> /\ handler'[m].todo = FilesToPrepare(r)
        BY <1>1, <2>3 DEF Suspend
      <3>2. answered'[m] = "none" /\ Locked' = Locked
        BY <1>1, <3>1 DEF Locked
      <3>3. r.kind = "registerOPFSFileName" => FilesToPrepare(r) = r.files
        BY DEF FilesToPrepare
      <3> QED BY <2>1, <3>1, <3>2, <3>3 DEF Provides
    <2>4. CASE Prepare(m, FilesToPrepare(r), {}, prepared)
      <3>1. r.kind = "registerOPFSFileName" => FilesToPrepare(r) = r.files
        BY DEF FilesToPrepare
      <3> QED BY <1>1, <2>1, <2>4, <3>1, PrepareProvides
    <2> QED BY <1>8, <2>2, <2>3, <2>4, Zenon DEF m, StartPrepare
  <1>9. CASE StartConvert
    <2>1. /\ r.kind = "registerFileHandle" /\ UNCHANGED <<answered, files, prepared, stored>>
      BY <1>9 DEF m, StartConvert, Take, Suspend
    <2>2. answered'[m] # "missing" /\ Locked' = Locked
      BY <1>1, <2>1 DEF Locked
    <2> QED BY <1>1, <1>3, <2>1, <2>2, PlainProvides
  <1> QED BY <1>4, <1>5, <1>6, <1>7, <1>8, <1>9, Zenon DEF Serve

LEMMA ResumeProvides ==
  ASSUME Inv0, RequestsAgree, NEW m \in Ids, Resume(m)
  PROVE  Provides(m) /\ Resumes(m)
  <1> DEFINE h == handler[m]
  <1> SUFFICES Provides(m)
    BY DEF Resume, Resumes, Instantiated, AssignOPFSRoot, Acquire, Convert, calls
  <1>1. /\ h.at # "none" /\ UNCHANGED requests /\ UNCHANGED task
    BY DEF Resume, Instantiated, AssignOPFSRoot, Acquire, Convert, calls
  <1>2. /\ task[m] \in Request /\ Fits(m, h) /\ h \in Handlers /\ answered[m] = "none"
        /\ answered \in [Ids -> {"none", "ok", "error", "missing"}] /\ handler \in [Ids -> Handlers]
    BY <1>1, Resumed DEF RequestsAgree, Inv0, TypeOK, MessagesTyped, WorkerTyped
  <1>3. ASSUME NEW how, Answer(m, how) PROVE answered'[m] = how
    BY <1>2, <1>3 DEF Answer
  <1>4. Stored \subseteq Files
    BY ScriptAssumption
  <1>5. CASE Instantiated(m)
    <2>1. /\ UNCHANGED <<files, prepared, stored>> /\ \E how \in {"ok", "error"} : Answer(m, how)
          /\ task[m].kind = "instantiate"
      BY <1>2, <1>5 DEF Instantiated, Fits
    <2>2. answered'[m] # "missing" /\ Locked' = Locked
      BY <1>3, <2>1 DEF Locked
    <2> QED BY <1>4, <2>1, <2>2, PlainProvides
  <1>6. CASE AssignOPFSRoot(m)
    <2>1. /\ Prepare(m, h.todo, {}, prepared) /\ UNCHANGED <<task, stored>> /\ h.at = "root"
      BY <1>1, <1>6 DEF AssignOPFSRoot
    <2>2. task[m].kind \in {"open", "registerOPFSFileName"}
      BY <1>2, <2>1 DEF Fits
    <2>3. \/ h.todo = task[m].files
          \/ ~(h.at \in {"root", "acquire"} => h.todo = task[m].files)
      BY <2>1
    <2> QED BY <1>1, <1>2, <2>1, <2>2, <2>3, PrepareProvides
  <1>7. CASE Acquire(m)
    <2> DEFINE f == Head(h.todo)
    <2>1. h.at = "acquire" /\ UNCHANGED stored
      BY <1>7 DEF Acquire
    <2>2. task[m].kind \in {"open", "registerOPFSFileName"}
      BY <1>2, <2>1 DEF Fits
    <2>3. CASE Prepare(m, Tail(h.todo), h.fresh \cup {f}, prepared \cup {f})
      <3>1. /\ files \subseteq files' /\ Locked \subseteq Locked'
            /\ answered'[m] # "missing"
            /\ task[m].kind = "registerOPFSFileName" /\ answered'[m] = "ok" =>
                 (h.fresh \cup {f}) \cap stored \subseteq files' /\ h.fresh \cup {f} \subseteq Locked'
            /\ handler'[m].at \in {"root", "acquire"} => Skip(Tail(h.todo)) # <<>>
        <4> HIDE DEF f, h
        <4> QED BY <1>2, <2>1, <2>2, <2>3, PrepareOutcome
      <3>2. ASSUME task[m].kind = "registerOPFSFileName", h.todo = task[m].files, Stored \subseteq stored
            PROVE  /\ answered'[m] = "ok" => Ready(Head(task[m].files))'
                   /\ handler'[m].at \in {"root", "acquire"} => handler'[m].todo = task[m].files
        <4>1. PICK g \in Files : task[m].files = <<g>>
          BY <1>2, <3>2, RegisterNamesOne
        <4>2. f = Head(task[m].files) /\ Tail(h.todo) = <<>>
          <5>1. Tail(<<g>>) = <<>>
            OBVIOUS
          <5> QED BY <3>2, <4>1, <5>1
        <4>3. handler'[m].at \notin {"root", "acquire"}
          BY <3>1, <4>2, SkipOne
        <4>5. answered'[m] = "ok" => f \in Locked' /\ (f \in Stored => f \in files')
          BY <3>1, <3>2
        <4>6. Ready(Head(task[m].files))' <=> f \in Locked' /\ (f \in Stored => f \in files')
          BY <1>1, <4>2 DEF Ready
        <4> QED BY <4>3, <4>5, <4>6
      <3>3. h.at \in {"root", "acquire"} /\ stored \subseteq stored'
        BY <2>1
      <3> HIDE DEF f
      <3> QED BY <1>1, <3>1, <3>2, <3>3 DEF Provides
    <2>4. CASE Refuse(m) /\ UNCHANGED prepared
      <3>1. /\ UNCHANGED <<files, prepared>> /\ Answer(m, "error") /\ handler' = [handler EXCEPT ![m] = NoHandler]
        BY <2>4 DEF Refuse, Finish
      <3>2. answered'[m] = "error" /\ handler'[m].at = "none" /\ Locked' = Locked
        BY <1>2, <1>3, <3>1 DEF NoHandler, Locked
      <3> QED BY <1>1, <1>4, <2>1, <3>1, <3>2, PlainProvides
    <2> QED BY <1>7, <2>3, <2>4, Zenon DEF Acquire
  <1>8. CASE Convert(m)
    <2>1. /\ files \subseteq files' /\ UNCHANGED <<prepared, stored>>
          /\ \E how \in {"ok", "error"} : Answer(m, how)
          /\ task[m].kind = "registerFileHandle"
      BY <1>2, <1>8 DEF Convert, Refuse, Fits
    <2>2. answered'[m] # "missing" /\ Locked \subseteq Locked'
      BY <1>3, <2>1 DEF Locked
    <2> QED BY <1>1, <1>4, <2>1, <2>2, PlainProvides
  <1> QED BY <1>1, <1>5, <1>6, <1>7, <1>8 DEF Resume

----------------------------------------------------------------------------
(* Every query finds its files *)

LEMMA RequestFields ==
  /\ \A r \in Request, b \in BOOLEAN :
       LET q == [r EXCEPT !.config.auto = b] IN
       /\ q.kind = r.kind /\ q.files = r.files /\ q.writes = r.writes /\ q.config.auto = b
       /\ Named(q) = Named(r)
  /\ \A f : LET q == [Rq("registerOPFSFileName", <<f>>) EXCEPT !.config.auto = TRUE] IN
       q.kind = "registerOPFSFileName" /\ q.files = <<f>>
  /\ \A fs : LET q == Rq("dropFiles", fs) IN
       q.kind = "dropFiles" /\ q.files = fs /\ Named(q) = FilesOf(fs)
  <1>1. ASSUME NEW r \in Request, NEW b \in BOOLEAN
        PROVE  LET q == [r EXCEPT !.config.auto = b] IN
               /\ q.kind = r.kind /\ q.files = r.files /\ q.writes = r.writes /\ q.config.auto = b
               /\ Named(q) = Named(r)
    <2>1. r.config \in Configs /\ r = [kind |-> r.kind, config |-> r.config, files |-> r.files, writes |-> r.writes]
      BY DEF Request
    <2>2. [r.config EXCEPT !.auto = b].auto = b
      BY <2>1 DEF Configs
    <2> QED BY <2>1, <2>2 DEF Named
  <1>2. ASSUME NEW f
        PROVE  LET q == [Rq("registerOPFSFileName", <<f>>) EXCEPT !.config.auto = TRUE] IN
               q.kind = "registerOPFSFileName" /\ q.files = <<f>>
    BY DEF Rq, NoRequest
  <1>3. ASSUME NEW fs
        PROVE  LET q == Rq("dropFiles", fs) IN
               q.kind = "dropFiles" /\ q.files = fs /\ Named(q) = FilesOf(fs)
    BY DEF Rq, NoRequest, Named, FilesOf
  <1> QED BY <1>1, <1>2, <1>3

\* The caller that waits for a request that is not answered, and where it stands.
LEMMA OwnerOf ==
  ASSUME Inv0, OwnersAgree, NEW m \in Ids, m < nextMessageId, answered[m] = "none"
  PROVE  \E d \in Callers :
           /\ caller[d].mid = m /\ Awaited(task[m], caller[d])
           /\ caller[d].at \in {"request", "register", "run", "drop"}
           /\ CallOf(d) = Head(caller[d].script) /\ CallOf(d) \in Request /\ CallOf(d) \in ToCome[d]
           /\ caller[d].at \in {"register", "run", "drop"} => CallOf(d).kind = "runQuery"
  <1>1. PICK d \in Callers : caller[d].mid = m
    BY DEF OwnersAgree
  <1>2. m # None /\ caller[d] \in CallerStates
    BY ScriptAssumption DEF Ids, Inv0, TypeOK, CallersTyped
  <1>3. caller[d].at # "start" /\ caller[d].script # <<>> /\ caller[d].script \in Seq(Request)
    BY <1>1, <1>2 DEF Inv0, CallersAgree, CallerStates
  <1>4. Awaited(task[m], caller[d])
    BY <1>1, <1>3 DEF OwnersAgree
  <1>5. caller[d].at \in {"request", "register", "run", "drop"}
    BY <1>2, <1>3 DEF CallerStates, Awaits
  <1>6. 1 \in DOMAIN caller[d].script /\ caller[d].script[1] = CallOf(d) /\ CallOf(d) \in Request
        /\ CallOf(d) = Head(caller[d].script)
    BY <1>3 DEF CallOf
  <1>7. CallOf(d) \in ToCome[d]
    BY <1>6 DEF ToCome, CallsOf
  <1>8. caller[d].at \in {"register", "run", "drop"} => CallOf(d).kind = "runQuery"
    BY DEF Inv0, CallersAgree
  <1> QED BY <1>1, <1>4, <1>5, <1>6, <1>7, <1>8

\* What a caller has registered are files of its query.
LEMMA MineNamed ==
  ASSUME Inv0, OwnersAgree, NEW c \in Callers, caller[c].at \in {"register", "run"}
  PROVE  /\ FilesOf(caller[c].mine) \subseteq Named(CallOf(c))
         /\ caller[c].at = "register" => Head(caller[c].todo) \in Named(CallOf(c))
         /\ CallOf(c).kind = "runQuery" /\ CallOf(c) \in ToCome[c]
         /\ caller[c].mid \in Ids /\ caller[c].mid < nextMessageId
         /\ Awaited(task[caller[c].mid], caller[c])
  <1>1. /\ caller[c] \in CallerStates /\ caller[c].script # <<>> /\ caller[c].script \in Seq(Request)
        /\ CallOf(c).kind = "runQuery" /\ caller[c].todo \in Seq(Files)
        /\ caller[c].at = "register" => caller[c].todo # <<>>
    BY DEF Inv0, CallersAgree, TypeOK, CallersTyped, CallerStates
  <1>2. 1 \in DOMAIN caller[c].script /\ caller[c].script[1] = CallOf(c) /\ CallOf(c) = Head(caller[c].script)
    BY <1>1 DEF CallOf
  <1>3. CallOf(c) \in ToCome[c]
    BY <1>2 DEF ToCome, CallsOf
  <1>4. /\ caller[c].mid \in Ids /\ caller[c].mid < nextMessageId
        /\ Awaited(task[caller[c].mid], caller[c])
    BY DEF OwnersAgree
  <1>5. CASE caller[c].at = "register"
    <2>1. FilesOf(caller[c].mine) \cup FilesOf(caller[c].todo) = Named(CallOf(c))
      BY <1>2, <1>4, <1>5 DEF Awaited
    <2>2. Head(caller[c].todo) \in FilesOf(caller[c].todo)
      BY <1>1, <1>5, FilesOfEnds
    <2> QED BY <1>1, <1>3, <1>4, <2>1, <2>2
  <1>6. CASE caller[c].at = "run"
    <2>1. caller[c].mine # <<>> => FilesOf(caller[c].mine) = Named(CallOf(c))
      BY <1>2, <1>4, <1>6 DEF Awaited
    <2>2. FilesOf(<<>>) = {}
      BY DEF FilesOf
    <2> QED BY <1>1, <1>3, <1>4, <1>6, <2>1, <2>2
  <1> QED BY <1>5, <1>6

\* No request drops a file of a query that is under way.
LEMMA OthersSpare ==
  ASSUME Inv0, OwnersAgree, KeepApart(ToCome), NEW c \in Callers, caller[c].at \in {"register", "run"},
         NEW m \in Ids, m < nextMessageId, answered[m] = "none", task[m].kind = "dropFiles"
  PROVE  task[m].files # <<>> /\ Named(task[m]) \cap Named(CallOf(c)) = {}
  <1>1. PICK d \in Callers :
           /\ caller[d].mid = m /\ Awaited(task[m], caller[d])
           /\ caller[d].at \in {"request", "register", "run", "drop"}
           /\ CallOf(d) = Head(caller[d].script) /\ CallOf(d) \in Request /\ CallOf(d) \in ToCome[d]
           /\ caller[d].at \in {"register", "run", "drop"} => CallOf(d).kind = "runQuery"
    BY OwnerOf
  <1>2. CallOf(c).kind = "runQuery" /\ CallOf(c) \in ToCome[c]
    BY MineNamed
  <1>3. caller[d].at # "register"
    BY <1>1, RequestFields DEF Awaited
  <1>4. caller[d].at # "run"
    <2> SUFFICES ASSUME caller[d].at = "run" PROVE FALSE
      OBVIOUS
    <2>1. task[m] = [CallOf(d) EXCEPT !.config.auto = caller[d].mine # <<>>]
      BY <1>1 DEF Awaited
    <2>2. task[m].kind = CallOf(d).kind
      BY <1>1, <2>1, RequestFields
    <2> QED BY <1>1, <2>2
  <1>5. d # c
    BY <1>3, <1>4
  <1>6. CASE caller[d].at = "request"
    <2>1. task[m] = CallOf(d)
      BY <1>1, <1>6 DEF Awaited
    <2> QED BY <1>1, <1>2, <1>5, <2>1 DEF KeepApart
  <1>7. CASE caller[d].at = "drop"
    <2>1. /\ task[m] = Rq("dropFiles", caller[d].mine) /\ caller[d].mine # <<>>
          /\ FilesOf(caller[d].mine) \subseteq Named(CallOf(d))
      BY <1>1, <1>7 DEF Awaited
    <2>2. Named(CallOf(c)) \cap Named(CallOf(d)) = {}
      BY <1>1, <1>2, <1>5, <1>7 DEF KeepApart
    <2> QED BY <2>1, <2>2, RequestFields
  <1> QED BY <1>1, <1>3, <1>4, <1>6, <1>7

LEMMA WorkerKeepsOwners ==
  ASSUME Inv0, RequestsAgree, OneInstantiate, OwnersAgree, NEW m \in Ids, WorkerStep(m)
  PROVE  OwnersAgree'
  <1>1. /\ UNCHANGED <<nextMessageId, caller, task>> /\ answered[m] = "none"
        /\ \A n \in Ids \ {m} : answered'[n] = answered[n]
    BY WorkerOutcome
  <1>2. \A n \in Ids : answered'[n] = "none" => answered[n] = "none"
    BY <1>1
  <1> QED BY <1>1, <1>2 DEF OwnersAgree, Awaited

LEMMA WorkerKeepsReady ==
  ASSUME Inv0, RequestsAgree, OneInstantiate, OwnersAgree, FilesReady,
         NEW m \in Ids, WorkerStep(m), Provides(m)
  PROVE  FilesReady'
  <1>1. /\ UNCHANGED <<nextMessageId, caller, task>> /\ m < nextMessageId /\ answered[m] = "none"
        /\ \A n \in Ids \ {m} : handler'[n] = handler[n] /\ answered'[n] = answered[n]
    BY WorkerOutcome
  <1>2. KeepApart(ToCome') /\ Stored \subseteq stored'
    BY <1>1 DEF FilesReady, ToCome, Provides
  <1>3. \A n \in Ids : /\ handler'[n].at \in {"root", "acquire"}
                       /\ task[n].kind = "registerOPFSFileName"
                       => handler'[n].todo = task[n].files
    BY <1>1 DEF FilesReady, Provides
  <1>4. ASSUME NEW c \in Callers, caller[c].at \in {"register", "run"},
               NEW f \in Named(CallOf(c)), Ready(f)
        PROVE  Ready(f)'
    <2>1. CASE files \subseteq files' /\ Locked \subseteq Locked'
      BY <1>4, <2>1 DEF Ready
    <2>2. CASE /\ task[m].kind = "dropFiles" /\ prepared' = prepared
               /\ task[m].files # <<>> => files \ Named(task[m]) \subseteq files'
      <3>1. task[m].files # <<>> /\ f \notin Named(task[m])
        BY <1>1, <1>4, <2>2, OthersSpare DEF FilesReady
      <3> QED BY <1>4, <2>2, <3>1 DEF Ready, Locked
    <2> QED BY <2>1, <2>2 DEF Provides
  <1>5. ASSUME NEW c \in Callers, caller[c].at \in {"register", "run"}, NEW f \in FilesOf(caller[c].mine)
        PROVE  Ready(f)'
    BY <1>4, <1>5, MineNamed DEF FilesReady
  <1>6. ASSUME NEW c \in Callers, caller[c].at = "register", answered'[caller[c].mid] = "ok"
        PROVE  Ready(Head(caller[c].todo))'
    <2>1. CASE caller[c].mid # m
      <3>1. answered[caller[c].mid] = "ok"
        BY <1>1, <1>6, <2>1, MineNamed
      <3>2. Ready(Head(caller[c].todo)) /\ Head(caller[c].todo) \in Named(CallOf(c))
        BY <1>6, <3>1, MineNamed DEF FilesReady
      <3>3. PICK f \in Named(CallOf(c)) : f = Head(caller[c].todo)
        BY <3>2
      <3>4. Ready(f)'
        BY <1>4, <1>6, <3>2, <3>3
      <3> QED BY <1>1, <3>3, <3>4
    <2>2. CASE caller[c].mid = m
      <3>1. task[m] = [Rq("registerOPFSFileName", <<Head(caller[c].todo)>>) EXCEPT !.config.auto = TRUE]
        BY <1>6, <2>2, MineNamed DEF Awaited
      <3>2. task[m].kind = "registerOPFSFileName" /\ task[m].files = <<Head(caller[c].todo)>>
        BY <3>1, RequestFields
      <3>3. Ready(Head(task[m].files))'
        BY <1>6, <2>2, <3>2 DEF Provides, FilesReady
      <3>4. Head(task[m].files) = Head(caller[c].todo) /\ UNCHANGED <<task, caller>>
        BY <1>1, <3>2
      <3> QED BY <3>3, <3>4 DEF Ready
    <2> QED BY <2>1, <2>2
  <1>7. ASSUME NEW n \in Ids, task[n].kind = "runQuery", task[n].config.auto, answered'[n] = "missing"
        PROVE  FALSE
    <2>1. n = m
      BY <1>1, <1>7 DEF FilesReady, QueriesFindTheirFiles
    <2>2. ~(Named(task[m]) \ task[m].writes \subseteq files /\ task[m].writes \subseteq Locked)
      BY <1>7, <2>1 DEF Provides
    <2>3. PICK d \in Callers :
             /\ caller[d].mid = m /\ Awaited(task[m], caller[d])
             /\ caller[d].at \in {"request", "register", "run", "drop"}
             /\ CallOf(d) = Head(caller[d].script) /\ CallOf(d) \in Request /\ CallOf(d) \in ToCome[d]
             /\ caller[d].at \in {"register", "run", "drop"} => CallOf(d).kind = "runQuery"
      BY <1>1, OwnerOf
    <2>4. caller[d].at = "run"
      BY <1>7, <2>1, <2>3, RequestFields DEF Awaited
    <2>5. /\ task[m] = [CallOf(d) EXCEPT !.config.auto = caller[d].mine # <<>>]
          /\ caller[d].mine # <<>> => FilesOf(caller[d].mine) = Named(CallOf(d))
      BY <2>3, <2>4 DEF Awaited
    <2>6. /\ task[m].config.auto = (caller[d].mine # <<>>)
          /\ Named(task[m]) = Named(CallOf(d)) /\ task[m].writes = CallOf(d).writes
      <3>1. PICK b \in BOOLEAN : b = (caller[d].mine # <<>>)
        OBVIOUS
      <3>2. task[m] = [CallOf(d) EXCEPT !.config.auto = b]
        BY <2>5, <3>1
      <3>3. task[m].config.auto = b /\ Named(task[m]) = Named(CallOf(d)) /\ task[m].writes = CallOf(d).writes
        BY <2>3, <3>2, RequestFields
      <3> QED BY <3>1, <3>3
    <2>7. \A f \in Named(CallOf(d)) : Ready(f)
      BY <1>7, <2>1, <2>4, <2>5, <2>6 DEF FilesReady
    <2>8. CallOf(d).writes \subseteq Named(CallOf(d)) /\ Named(CallOf(d)) \ CallOf(d).writes \subseteq Stored
      BY <2>3, <2>4 DEF FilesReady, KeepApart
    <2> QED BY <2>2, <2>6, <2>7, <2>8 DEF Ready
  <1> QED BY <1>1, <1>2, <1>3, <1>5, <1>6, <1>7 DEF FilesReady, QueriesFindTheirFiles

LEMMA WorkerKeepsNothing ==
  ASSUME Inv0, RequestsAgree, OneInstantiate, NothingAutomatic, NEW m \in Ids, WorkerStep(m)
  PROVE  NothingAutomatic'
  <1>1. UNCHANGED <<config, caller, task>>
    BY WorkerOutcome
  <1> QED BY <1>1 DEF NothingAutomatic, ToCome, ShouldOPFSFileHandling

\* What the worker serves is the request that it takes.
LEMMA ServeIsItsStep ==
  ASSUME Inv0, RequestsAgree, Serve
  PROVE  \E m \in Ids : WorkerStep(m) /\ Provides(m)
  <1> DEFINE n == Head(requests)
  <1>1. n \in Ids /\ Provides(n) /\ Takes(n)
    BY ServeProvides
  <1>2. PICK m \in Ids : WorkerStep(m)
    BY ServeIsWorkerStep
  <1>3. Takes(m) \/ Resumes(m)
    BY <1>2 DEF WorkerStep, WorkerMove
  <1>4. m = n
    <2>1. requests # <<>> /\ requests' = Tail(requests) /\ requests \in Seq(Ids)
      BY <1>1 DEF Takes, Inv0, TypeOK, MessagesTyped
    <2>2. Tail(requests) # requests
      <3>1. Len(Tail(requests)) = Len(requests) - 1 /\ Len(requests) \in Nat
        BY <2>1
      <3> QED BY <3>1
    <2> QED BY <1>3, <2>1, <2>2 DEF Takes, Resumes
  <1> QED BY <1>1, <1>2, <1>4

\* The other steps of the client call for nothing and take nothing away.
LEMMA RestKeepsQInv ==
  ASSUME QInv, UnassociatedResponse \/ Terminate \/ Detach \/ OnError \/ UNCHANGED vars
  PROVE  QInv'
  <1>1. UNCHANGED <<config, nextMessageId, caller, task, handler, answered, files, prepared, stored>>
    BY DEF UnassociatedResponse, Terminate, Detach, OnError, vars, client, calls, handles
  <1>2. OwnersAgree'
    BY <1>1 DEF QInv, OwnersAgree, Awaited
  <1>3. NothingAutomatic => NothingAutomatic'
    BY <1>1 DEF NothingAutomatic, ToCome, ShouldOPFSFileHandling
  <1>4. FilesReady => FilesReady'
    BY <1>1 DEF FilesReady, ToCome, Ready, Locked, QueriesFindTheirFiles
  <1> QED BY <1>2, <1>3, <1>4 DEF QInv

LEMMA StepKeepsQInv == IInv /\ QInv /\ [Next]_vars => QInv'
  <1> SUFFICES ASSUME IInv, QInv, [Next]_vars PROVE QInv'
    OBVIOUS
  <1>1. Inv0 /\ RequestsAgree /\ RepliesAgree /\ OneInstantiate /\ OwnersAgree
        /\ (NothingAutomatic \/ FilesReady)
    BY DEF IInv, Inv1, QInv
  <1>2. ASSUME NEW c \in Callers, GoesOn(c) PROVE QInv'
    BY <1>1, <1>2, GoesOnKeepsOwners, GoesOnKeepsNothingAutomatic, GoesOnKeepsReady DEF QInv
  <1>3. ASSUME NEW m \in Ids, WorkerStep(m), Provides(m) PROVE QInv'
    BY <1>1, <1>3, WorkerKeepsOwners, WorkerKeepsNothing, WorkerKeepsReady DEF QInv
  <1>4. ASSUME NEW c \in Callers, Call(c) PROVE QInv'
    BY <1>1, <1>2, <1>4, CallGoesOn
  <1>5. CASE OnMessage
    BY <1>1, <1>2, <1>5, OnMessageGoesOn
  <1>6. CASE UnassociatedResponse \/ Terminate \/ Detach \/ OnError \/ UNCHANGED vars
    BY <1>6, RestKeepsQInv
  <1>7. CASE Serve
    BY <1>1, <1>3, <1>7, ServeIsItsStep
  <1>8. ASSUME NEW m \in Ids, Resume(m) PROVE QInv'
    BY <1>1, <1>3, <1>8, ResumeIsWorkerStep, ResumeProvides
  <1> QED BY <1>4, <1>5, <1>6, <1>7, <1>8, Zenon DEF Next

LEMMA InitQInv == QueriesKeepApart /\ Init => QInv
  <1> SUFFICES ASSUME QueriesKeepApart, Init PROVE QInv
    OBVIOUS
  <1>1. PICK s \in Scripts : caller = [c \in Callers |-> Idle(s[c])]
    BY DEF Init
  <1>2. \A c \in Callers : /\ caller[c].script = s[c] /\ caller[c].at = "start"
                           /\ caller[c].mine = <<>>
    BY <1>1 DEF Idle
  <1>3. ToCome = [c \in Callers |-> CallsOf(s[c])]
    BY <1>2 DEF ToCome
  <1>4. /\ \A m \in Ids : task[m].kind = "none" /\ answered[m] = "none" /\ handler[m].at = "none"
        /\ nextMessageId = 0 /\ config = NoConfig /\ stored = Stored
    BY DEF Init, NoRequest, NoHandler
  <1>5. OwnersAgree
    <2>1. \A m \in Ids : ~(m < nextMessageId)
      BY <1>4, ScriptAssumption DEF Ids
    <2> QED BY <1>2, <2>1 DEF OwnersAgree
  <1>6. CASE \E c \in Callers : \E r \in ToCome[c] : OpensAutomatically(r)
    <2>1. KeepApart(ToCome)
      <3> DEFINE program == [c \in Callers |-> CallsOf(s[c])]
      <3>1. \E c \in Callers : \E r \in program[c] : OpensAutomatically(r)
        BY <1>3, <1>6
      <3>2. KeepApart(program)
        BY <3>1 DEF QueriesKeepApart
      <3> QED BY <1>3, <3>2
    <2>2. FilesReady
      BY <1>2, <1>4, <2>1 DEF FilesReady, QueriesFindTheirFiles
    <2> QED BY <1>5, <2>2 DEF QInv
  <1>7. CASE ~ \E c \in Callers : \E r \in ToCome[c] : OpensAutomatically(r)
    <2>1. NothingAutomatic
      BY <1>2, <1>4, <1>7 DEF NothingAutomatic, ShouldOPFSFileHandling, NoConfig
    <2> QED BY <1>5, <2>1 DEF QInv
  <1> QED BY <1>6, <1>7

\* A query under automatic file handling (async_bindings.ts, runQuery) is never answered
\* that a file is missing: its files stay registered, or prepared, from the reply to each
\* registration until its own answer, whatever the other callers open, query and drop
\* meanwhile, and whatever fails.  It is so in every program that instantiates once, where
\* such queries name files that exist or that they write, and where what others query
\* and drop are other files; the other programs make no such query or may miss one.
THEOREM AutomaticQueriesFindTheirFiles ==
  ASSUME InstantiateOnce, QueriesKeepApart
  PROVE  Spec => []QueriesFindTheirFiles
  <1>1. Init => QInv
    BY InitQInv
  <1>2. QInv => QueriesFindTheirFiles
    BY DEF QInv, NothingAutomatic, FilesReady, QueriesFindTheirFiles
  <1>3. Spec => []IInv
    BY InvariantHolds
  <1> QED BY <1>1, <1>2, <1>3, StepKeepsQInv, PTL DEF Spec
=============================================================================
