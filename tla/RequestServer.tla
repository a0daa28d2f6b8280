---------------------------- MODULE RequestServer ----------------------------
(***************************************************************************)
(* What AsyncDuckDB (packages/duckdb-wasm/src/parallel) promises to a      *)
(* program that calls a database in a worker: a request is served at most  *)
(* once, in one atomic step after it was posted; a request answered with   *)
(* an error has not changed the database; and a promise settles at most    *)
(* once, with the answer to its own request.  Messages, suspended handlers *)
(* and the order of the queues do not show, and nothing is promised of a   *)
(* request whose worker is gone.                                           *)
(***************************************************************************)
EXTENDS Sequences

CONSTANT Ids  \* the message ids

Answers == {"ok", "error"}

VARIABLES posted,   \* the requests made so far
          answer,   \* answer[m]: how the worker answered m, "none" before
          settled,  \* settled[m]: how the promise of m settled, "none" before
          database  \* the requests that made the database what it is, in order

vars == <<posted, answer, settled, database>>

Init == /\ posted = {}
        /\ answer = [m \in Ids |-> "none"]
        /\ settled = [m \in Ids |-> "none"]
        /\ database = <<>>

\* A caller may post several requests at once, and may do so when a promise settles.
Post == /\ \E S \in SUBSET (Ids \ posted) : posted' = posted \cup S
        /\ UNCHANGED <<answer, settled, database>>

\* The worker answers m.  A successful request changes the database, replaces
\* it by a new one, or leaves it as it is.
Serve(m) ==
    /\ m \in posted /\ answer[m] = "none"
    /\ \/ /\ answer' = [answer EXCEPT ![m] = "ok"]
          /\ database' \in {database, Append(database, m), <<m>>}
       \/ /\ answer' = [answer EXCEPT ![m] = "error"]
          /\ UNCHANGED database
    /\ UNCHANGED <<posted, settled>>

\* The promise settles, and the program goes on with its next request.
Settle(m) ==
    /\ answer[m] # "none" /\ settled[m] = "none"
    /\ settled' = [settled EXCEPT ![m] = answer[m]]
    /\ \E S \in SUBSET (Ids \ posted) : posted' = posted \cup S
    /\ UNCHANGED <<answer, database>>

Next == Post \/ \E m \in Ids : Serve(m) \/ Settle(m)

Spec == Init /\ [][Next]_vars
=============================================================================
