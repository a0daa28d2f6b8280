------------------------------- MODULE WebApp -------------------------------
(***************************************************************************)
(* The web shell: react-duckdb's providers, which set the database up once *)
(* for a page and dial connections for its components, the shell that is   *)
(* embedded meanwhile and waits for the database, and its history.         *)
(*                                                                         *)
(* database_provider.tsx, platform_provider.tsx, connection_provider.tsx,  *)
(* resolvable.ts, pages/shell.tsx, embed of shell.ts.  React renders what  *)
(* was set since the last time and runs the effects whose dependencies     *)
(* changed; closures keep the state of the render that made them.  Only    *)
(* the messages of one instantiation are modelled of the worker.           *)
(***************************************************************************)
EXTENDS ModuleLoading, ShellHistory

CONSTANTS
  Pages,       \* browsers and what they are given
  Ids,         \* connections that components dial
  MaxChunks,   \* bound: parts of the module that arrive
  MaxDials,    \* bound: calls of the dialer
  MaxReloads   \* bound: times the page is left

ASSUME WebAppAssumption == Null \notin STRING

VARIABLES
  page,
  setup,       \* DuckDBProvider: the database, set so far
  bundle,      \* DuckDBPlatform: the build, set so far
  stage,       \* what inFlight of DuckDBProvider waits for, once it is set
  workers,     \* history: workers that this page created
  load,        \* the module in the worker
  replies,     \* messages to the main thread
  shown,       \* setup as rendered last
  pending,     \* ids that wait for the database, set so far
  memo,        \* rendered: pending, and what the dialer's closure kept of it
  dialing,     \* calls of connect under way, for each id
  pool,        \* ids with a connection
  dials, reloads,
  shell,       \* how far the shell has come
  captured     \* the database, as the shell's first render saw it

setupVars == <<setup, bundle, stage, workers>>
workerVars == <<load, replies>>
dialVars == <<pending, dialing, pool, dials>>
shellVars == <<shell, captured>>
renderVars == <<shown, memo>>
webVars == <<page, setupVars, workerVars, dialVars, shellVars, renderVars, reloads>>
vars == <<webVars, historyVars>>

(***************************************************************************)
(* Resolvable                                                              *)
(***************************************************************************)
NewResolvable == [status |-> "NONE", value |-> Null, error |-> Null, progress |-> Null]
Resolving(r) == r.status # "NONE"
CompleteWith(r, v) == [r EXCEPT !.status = "COMPLETED", !.value = v, !.progress = Null]
FailWith(r, e) == [r EXCEPT !.status = "FAILED", !.error = e, !.progress = Null]
UpdateRunning(r, p) == [r EXCEPT !.status = "RUNNING", !.progress = p]

Settled(r) == r.value # Null \/ r.error # Null

(***************************************************************************)
(* DuckDBProvider and DuckDBPlatform                                       *)
(***************************************************************************)
NewLoad == [build |-> Null, at |-> "none", chunks |-> 0, reported |-> FALSE]

\* Mutant: every caller starts over.
ResolveAgain ==
  stage' = "bundle" /\ bundle' = UpdateRunning(bundle, Null)

\* The resolver runs once; inFlight is never taken back.
ResolveDB ==
  IF stage # "none" THEN UNCHANGED <<stage, bundle>>
  ELSE stage' = "bundle" /\ bundle' = UpdateRunning(bundle, Null)

\* DuckDBPlatform's own resolver, for a build that is found or not.
BundleResolved(build) ==
  IF build = Null THEN FailWith(bundle, "no bundle") ELSE CompleteWith(bundle, build)

\* The build is there, or none is; the worker is created and told.
StartWorker ==
  /\ stage = "bundle"
  /\ LET build == BundleOf(page)
     IN  /\ bundle' = BundleResolved(build)
         /\ \/ /\ build = Null
               /\ setup' = FailWith(setup, "invalid bundle")
               /\ stage' = "done"
               /\ UNCHANGED <<workers, load>>
            \/ /\ build # Null /\ ~page.starts
               /\ setup' = FailWith(setup, "no worker")
               /\ stage' = "done"
               /\ UNCHANGED <<workers, load>>
            \/ /\ build # Null /\ page.starts
               /\ workers' = workers + 1
               /\ load' = [NewLoad EXCEPT !.build = build, !.at = "fetching"]
               /\ stage' = "instantiate"
               /\ UNCHANGED setup
  /\ UNCHANGED <<replies, page, dialVars, shellVars, renderVars, reloads, historyVars>>

\* The worker: a part of the module arrives.
Chunk ==
  /\ load.at = "fetching" /\ load.chunks < MaxChunks
  /\ Starts(page, load.build) /\ Arrives(page)
  /\ LET mode == LoadMode(page)
     IN  \/ /\ MayBeHeldBack(mode, load.reported)
            /\ load' = [load EXCEPT !.chunks = @ + 1]
            /\ UNCHANGED replies
         \/ /\ MayBeReported(mode)
            /\ load' = [load EXCEPT !.chunks = @ + 1, !.reported = TRUE]
            /\ replies' = Append(replies, "progress")
  /\ UNCHANGED <<setupVars, page, dialVars, shellVars, renderVars, reloads, historyVars>>

\* instantiate comes to its end, or never does.
Instantiated ==
  /\ load.at = "fetching"
  /\ LET outcome == Outcome(page, load.build)
     IN  /\ load' = [load EXCEPT !.at = outcome]
         /\ replies' = IF outcome = "hung" THEN replies ELSE Append(replies, outcome)
  /\ UNCHANGED <<setupVars, page, dialVars, shellVars, renderVars, reloads, historyVars>>

\* The provider hears of progress, of an error, or that the engine is there;
\* then it opens a database if it was given a configuration.
OnReply ==
  /\ replies # <<>>
  /\ replies' = Tail(replies)
  /\ LET reply == Head(replies)
     IN  \/ /\ reply = "progress"
            /\ setup' = UpdateRunning(setup, "progress")
            /\ UNCHANGED stage
         \/ /\ reply = "ok" /\ ~page.config
            /\ setup' = CompleteWith(setup, "db")
            /\ stage' = "done"
         \/ /\ reply = "ok" /\ page.config
            /\ stage' = "open"
            /\ UNCHANGED setup
         \/ /\ reply = "error"
            /\ setup' = FailWith(setup, "error")
            /\ stage' = "done"
  /\ UNCHANGED <<bundle, workers, load, page, dialVars, shellVars, renderVars, reloads,
                 historyVars>>

Open ==
  /\ stage = "open"
  /\ setup' \in {CompleteWith(setup, "db"), FailWith(setup, "error")}
  /\ stage' = "done"
  /\ UNCHANGED <<bundle, workers, workerVars, page, dialVars, shellVars, renderVars, reloads,
                 historyVars>>

(***************************************************************************)
(* DuckDBConnectionProvider                                                *)
(***************************************************************************)
\* dialer: nothing is ever put into its inFlight, so every call connects.
Dialer(calls, ids) ==
  [id \in Ids |-> calls[id] + Cardinality({i \in DOMAIN ids : ids[i] = id})]

\* dialerCallback, as the last render made it: connect, or set the database
\* up and remember the id, or nothing if somebody else does that already.
Dial(id) ==
  /\ dials < MaxDials
  /\ dials' = dials + 1
  /\ IF shown.value # Null
     THEN dialing' = Dialer(dialing, <<id>>) /\ UNCHANGED <<pending, stage, bundle>>
     ELSE IF ~Resolving(shown)
     THEN /\ ResolveDB
          /\ pending' = Append(memo.closure, id)
          /\ UNCHANGED dialing
     ELSE UNCHANGED <<dialing, pending, stage, bundle>>
  /\ UNCHANGED <<setup, workers, workerVars, page, pool, shellVars, renderVars, reloads,
                 historyVars>>

Connected(id) ==
  /\ dialing[id] > 0
  /\ dialing' = [dialing EXCEPT ![id] = @ - 1]
  /\ pool' = pool \cup {id}
  /\ UNCHANGED <<setupVars, workerVars, page, pending, dials, shellVars, renderVars, reloads,
                 historyVars>>

\* Mutant: the effect runs only when an id was remembered.
ClaimNew(changed) ==
  IF setup.value = Null \/ pending = memo.pending THEN UNCHANGED <<pending, dialing>>
  ELSE pending' = <<>> /\ dialing' = Dialer(dialing, pending)

\* The effect of [db, pending].
ClaimPending(changed) ==
  IF setup.value = Null THEN UNCHANGED <<pending, dialing>>
  ELSE pending' = <<>> /\ dialing' = Dialer(dialing, pending)

(***************************************************************************)
(* The shell                                                               *)
(***************************************************************************)
\* The shell appears: it sees the database as it is rendered, and has it set
\* up unless somebody did.
Mount ==
  /\ shell = "unmounted"
  /\ shell' = "fonts"
  /\ captured' = shown
  /\ IF Resolving(shown) THEN UNCHANGED <<stage, bundle>> ELSE ResolveDB
  /\ UNCHANGED <<setup, workers, workerVars, page, dialVars, renderVars, reloads, historyVars>>

\* The fonts, or one of them is missing and nobody hears of it.
FontsLoaded ==
  /\ shell = "fonts"
  /\ shell' \in {"embedding", "failed"}
  /\ UNCHANGED <<setupVars, workerVars, page, dialVars, captured, renderVars, reloads, historyVars>>

\* embed comes to resolveDatabase, the closure of the first render: it answers
\* what that render knew, or registers for what later ones come to know.
ResolveDatabase ==
  /\ shell = "embedding"
  /\ shell' = IF captured.error # Null THEN "failed"
              ELSE IF captured.value # Null THEN "history" ELSE "waiting"
  /\ UNCHANGED <<setupVars, workerVars, page, dialVars, captured, renderVars, reloads, historyVars>>

\* Mutant: a failure is not handed on.
PropagateValue(db) ==
  IF shell # "waiting" THEN shell ELSE IF db.value # Null THEN "history" ELSE shell

\* The effect of [db] tells whoever is registered.
Propagate(db) ==
  IF shell # "waiting" THEN shell
  ELSE IF db.value # Null THEN "history"
  ELSE IF db.error # Null THEN "failed" ELSE shell

\* React renders what was set and runs the effects; a new database gives the
\* dialer a new closure.
Render ==
  /\ setup # shown \/ pending # memo.pending
  /\ shown' = setup
  /\ memo' = [pending |-> pending, closure |-> IF setup # shown THEN pending ELSE memo.closure]
  /\ ClaimPending(setup # shown)
  /\ shell' = IF setup # shown THEN Propagate(setup) ELSE shell
  /\ UNCHANGED <<setupVars, workerVars, page, pool, dials, captured, reloads, historyVars>>

\* embed goes on: the history, then the prompt.
OpenShellHistory ==
  /\ shell = "history"
  /\ shell' = "load"
  /\ OpenHistory
  /\ UNCHANGED <<setupVars, workerVars, page, dialVars, captured, renderVars, reloads>>

LoadShellHistory ==
  /\ shell = "load"
  /\ IF CanRotate(Load) THEN shell' = "attached" /\ loaded' = Rotated(Load)
     ELSE shell' = "failed" /\ UNCHANGED loaded
  /\ UNCHANGED <<setupVars, workerVars, page, dialVars, captured, renderVars, reloads, storeVars,
                 idb, counters, txs, link, replayed, typed, committed>>

Input ==
  /\ shell = "attached"
  /\ PushInputToHistory
  /\ UNCHANGED webVars

Store == (Commit \/ Abort) /\ UNCHANGED webVars

-----------------------------------------------------------------------------
NewPage ==
  /\ setup' = NewResolvable /\ bundle' = NewResolvable
  /\ stage' = "none" /\ workers' = 0 /\ load' = NewLoad /\ replies' = <<>>
  /\ shown' = NewResolvable /\ captured' = NewResolvable
  /\ pending' = <<>> /\ memo' = [pending |-> <<>>, closure |-> <<>>]
  /\ dialing' = [id \in Ids |-> 0] /\ pool' = {}
  /\ shell' = "unmounted"

\* The page is left and comes back; only the database of the browser stays.
Reload ==
  /\ reloads < MaxReloads
  /\ reloads' = reloads + 1
  /\ NewPage /\ LeaveHistory
  /\ UNCHANGED <<page, dials>>

Init ==
  /\ page \in Pages
  /\ setup = NewResolvable /\ bundle = NewResolvable
  /\ stage = "none" /\ workers = 0 /\ load = NewLoad /\ replies = <<>>
  /\ shown = NewResolvable /\ captured = NewResolvable
  /\ pending = <<>> /\ memo = [pending |-> <<>>, closure |-> <<>>]
  /\ dialing = [id \in Ids |-> 0] /\ pool = {} /\ dials = 0
  /\ shell = "unmounted" /\ reloads = 0
  /\ HistoryInit

\* What runs without the user.
Work ==
  \/ StartWorker \/ Chunk \/ Instantiated \/ OnReply \/ Open
  \/ \E id \in Ids : Connected(id)
  \/ FontsLoaded \/ ResolveDatabase \/ Render \/ OpenShellHistory \/ LoadShellHistory
  \/ Store

User == Mount \/ Input \/ Reload \/ \E id \in Ids : Dial(id)

Next == Work \/ User

\* The browser and its workers run on; nobody has to type, dial or look.
Fairness ==
  /\ WF_vars(StartWorker) /\ WF_vars(Instantiated) /\ WF_vars(OnReply) /\ WF_vars(Open)
  /\ WF_vars(Render) /\ WF_vars(FontsLoaded) /\ WF_vars(ResolveDatabase)
  /\ \A id \in Ids : WF_vars(Connected(id))

Spec == Init /\ [][Next]_vars /\ Fairness

-----------------------------------------------------------------------------
(***************************************************************************)
(* Properties                                                              *)
(***************************************************************************)
(***************************************************************************)
(* One page has one database: whatever components ask for it and whenever, *)
(* one worker is created, and a setup that has a value or an error is done *)
(* with it: no progress comes after it, and it has not both                *)
(* (DuckDBProvider's inFlight, database_provider.tsx:38).                  *)
(***************************************************************************)
OneDatabase ==
  /\ workers <= 1
  /\ setup.value = Null \/ setup.error = Null
  /\ Settled(setup) => setup.status # "RUNNING" /\ stage = "done"

(***************************************************************************)
(* A shell that waits hears: once it has registered before the rendered    *)
(* database was settled, it goes on or fails (pages/shell.tsx:45-81).  The *)
(* module may hang instead, but on no page whose bytes arrive, that offers *)
(* mvp and whose URL names no build (platform.ts selectBundle).            *)
(***************************************************************************)
Servable == Arrives(page) /\ "mvp" \in page.bundles /\ page.named = Null

ShellHears ==
  shell = "waiting" /\ ~Settled(shown)
    ~> shell # "waiting" \/ (load.at = "hung" /\ ~Servable)

(***************************************************************************)
(* A remembered id is connected once the database is there                 *)
(* (connection_provider.tsx:53-63), on this page and with no later call    *)
(* that forgets it.                                                        *)
(***************************************************************************)
PendingIsConnected ==
  \A id \in Ids : \A n \in 0 .. MaxReloads :
    id \in Range(pending) /\ dials = MaxDials /\ reloads = n
      ~> id \in pool \/ setup.error # Null \/ load.at = "hung" \/ reloads > n
=============================================================================
