---------------------------- MODULE ResultCursors ----------------------------
(***************************************************************************)
(* What a caller of send relies on.  A query that was sent opens with its  *)
(* header or fails; its reader gets the chunks of its own result, each     *)
(* once and in order, and comes to the end only when it has them all.  A   *)
(* query that was canceled before it had a result can only fail.           *)
(***************************************************************************)
EXTENDS Naturals, Sequences

CONSTANTS Queries, Length

VARIABLES outcome,  \* outcome[q]: how far the caller of q has come
          got,      \* got[q]: the chunks its reader has been given
          canceled  \* the queries that were canceled

Outcomes == {"none", "sent", "open", "done", "failed"}

Init == /\ outcome = [q \in Queries |-> "none"]
        /\ got = [q \in Queries |-> <<>>]
        /\ canceled = {}

Becomes(q, from, to) ==
    /\ outcome[q] = from
    /\ outcome' = [outcome EXCEPT ![q] = to]

Send(q) == Becomes(q, "none", "sent") /\ UNCHANGED <<got, canceled>>

Open(q) == /\ q \notin canceled
           /\ Becomes(q, "sent", "open")
           /\ UNCHANGED <<got, canceled>>

Cancel(q) == /\ outcome[q] = "sent"
             /\ canceled' = canceled \cup {q}
             /\ UNCHANGED <<outcome, got>>

Deliver(q) ==
    /\ outcome[q] = "open" /\ Len(got[q]) < Length[q]
    /\ got' = [got EXCEPT ![q] = Append(@, [query |-> q, index |-> Len(@) + 1])]
    /\ UNCHANGED <<outcome, canceled>>

Finish(q) ==
    /\ Len(got[q]) = Length[q]
    /\ Becomes(q, "open", "done")
    /\ UNCHANGED <<got, canceled>>

Fail(q) ==
    /\ \E from \in {"sent", "open"} : Becomes(q, from, "failed")
    /\ UNCHANGED <<got, canceled>>

Next == \E q \in Queries : Send(q) \/ Open(q) \/ Cancel(q) \/ Deliver(q) \/ Finish(q) \/ Fail(q)

Spec == Init /\ [][Next]_<<outcome, got, canceled>>
===============================================================================
