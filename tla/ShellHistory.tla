---------------------------- MODULE ShellHistory ----------------------------
(***************************************************************************)
(* The history of the shell: history_store.ts keeps the last Capacity      *)
(* inputs in IndexedDB, as a ring of entries and a record of counters that *)
(* one transaction writes together; load_history of shell.rs takes them    *)
(* back; shell.ts also keeps a page's inputs in a link that types them     *)
(* again.                                                                  *)
(*                                                                         *)
(* The i-th input that is stored is Texts[i].  A transaction may abort,    *)
(* the database may not open, and the page may be reloaded at any time.    *)
(***************************************************************************)
EXTENDS Integers, Sequences, FiniteSets, Functions

CONSTANTS
  Capacity,    \* 1 << HISTORY_SIZE_SHIFT
  Texts        \* what the user types, in order; bounds the inputs

ASSUME HistoryAssumption == Capacity \in Nat \ {0} /\ Texts \in Seq(Seq(STRING))

VARIABLES
  entries,     \* LOG_ENTRIES: key to number of the input
  info,        \* LOG_INFO: counters, as committed
  idb,         \* the page's connection to the database is open
  counters,    \* _nextEntryKey and _entryCount of the page
  txs,         \* transactions that are not done
  loaded,      \* the history that the shell was given
  typed,       \* history: number of inputs pushed
  committed,   \* history: those whose transaction is done
  link,        \* the hash: inputs of this page, encoded
  replayed     \* what a page reads from its hash

storeVars == <<entries, info>>
pageVars == <<idb, counters, txs, loaded, link, replayed>>
historyVars == <<storeVars, pageVars, typed, committed>>

NoInfo == [next |-> 0, count |-> 0]
Lesser(a, b) == IF a < b THEN a ELSE b

HistoryInit ==
  /\ entries = <<>> /\ info = NoInfo
  /\ idb = FALSE /\ counters = NoInfo
  /\ txs = <<>> /\ loaded = <<>> /\ link = <<>> /\ replayed = <<>>
  /\ typed = 0 /\ committed = {}

\* open and loadMetadata; without a database there is no persistence.
OpenHistory ==
  \/ idb' = TRUE /\ counters' = info
     /\ UNCHANGED <<storeVars, txs, loaded, typed, committed, link, replayed>>
  \/ UNCHANGED historyVars

\* The entries in the order of their keys, and a cursor.
InOrder(s) == \A i, j \in DOMAIN s : i < j => s[i] < s[j]
KeysInOrder(keys) == CHOOSE s \in [1 .. Cardinality(keys) -> keys] : InOrder(s)

Load ==
  IF counters.count = 0 THEN [log |-> <<>>, cursor |-> 0]
  ELSE [log |-> [i \in 1 .. Cardinality(DOMAIN entries) |->
                   entries[KeysInOrder(DOMAIN entries)[i]]],
        cursor |-> Lesser(counters.next, Capacity)]

\* load_history turns the log around its cursor.  A cursor behind the end of
\* the log panics.
CanRotate(h) == h.cursor <= Len(h.log)
Rotated(h) == SubSeq(h.log, h.cursor + 1, Len(h.log)) \o SubSeq(h.log, 1, h.cursor)

\* Mutant: dashes are left alone.
OneWaySwaps(text) ==
  [i \in DOMAIN text |->
     CASE text[i] = " " -> "-" [] text[i] = ";" -> "~" [] text[i] = "~" -> ";"
       [] OTHER -> text[i]]

\* The blanks of a query are written as dashes, semicolons as tildes, and the
\* other way round.
Extraswaps(text) ==
  [i \in DOMAIN text |->
     CASE text[i] = " " -> "-" [] text[i] = "-" -> " "
       [] text[i] = ";" -> "~" [] text[i] = "~" -> ";"
       [] OTHER -> text[i]]

Replay(hash) == [i \in DOMAIN hash |-> Extraswaps(hash[i])]

\* Mutant: keys are not taken modulo the capacity.
NextKeyUnmasked(c) == c.next

NextKey(c) == c.next % Capacity

Counted(c) == [next |-> c.next + 1, count |-> Lesser(c.count + 1, Capacity)]

\* HistoryStore.push: the counters move at once, the transaction writes both
\* tables later.
Push ==
  IF ~idb THEN UNCHANGED <<counters, txs, typed>>
  ELSE /\ counters' = Counted(counters)
       /\ typed' = typed + 1
       /\ txs' = Append(txs, [key |-> NextKey(counters), input |-> typed + 1, info |-> counters'])

\* pushInputToHistory.
PushInputToHistory ==
  /\ typed < Len(Texts) /\ Len(link) < Len(Texts)
  /\ link' = Append(link, Extraswaps(Texts[typed + 1]))
  /\ Push
  /\ UNCHANGED <<storeVars, idb, loaded, committed, replayed>>

\* Transactions over the same tables are done in their order.
Commit ==
  /\ txs # <<>>
  /\ LET tx == Head(txs)
     IN  /\ entries' = [k \in DOMAIN entries \cup {tx.key} |->
                          IF k = tx.key THEN tx.input ELSE entries[k]]
         /\ info' = tx.info
         /\ committed' = committed \cup {tx.input}
  /\ txs' = Tail(txs)
  /\ UNCHANGED <<idb, counters, loaded, typed, link, replayed>>

Abort ==
  /\ txs # <<>>
  /\ txs' = Tail(txs)
  /\ UNCHANGED <<storeVars, idb, counters, loaded, typed, committed, link, replayed>>

\* A page that is left loses what it did not commit.  The next one starts
\* with an empty hash or follows the link.
LeaveHistory ==
  /\ idb' = FALSE /\ counters' = NoInfo /\ txs' = <<>> /\ loaded' = <<>>
  /\ replayed' \in {<<>>, Replay(link)}
  /\ link' = <<>>
  /\ UNCHANGED <<storeVars, typed, committed>>

-----------------------------------------------------------------------------
(***************************************************************************)
(* Properties                                                              *)
(***************************************************************************)
\* An input whose transaction was done is in the store until Capacity inputs
\* were pushed after it, whatever pages were left and transactions aborted;
\* and there are never more than Capacity.
RecentAreStored ==
  /\ \A i \in committed : typed - i < Capacity => i \in Range(entries)
  /\ Cardinality(DOMAIN entries) <= Capacity

\* Until the ring has come round, the shell is given the inputs in the order
\* in which they were typed.
LoadedInOrder ==
  info.next <= Capacity => InOrder(loaded)

\* A link types what was typed, blanks, dashes and all.
LinkIsExact ==
  \A i \in DOMAIN replayed : \E j \in DOMAIN Texts : replayed[i] = Texts[j]

(***************************************************************************)
(* The inputs come back (history_store.ts push, load; shell.ts             *)
(* pushInputToHistory and the end of embed).                               *)
(***************************************************************************)
InputsComeBack == RecentAreStored /\ LoadedInOrder /\ LinkIsExact
=============================================================================
