------------------------------ MODULE PageStore ------------------------------
(***************************************************************************)
(* What the page buffer of lib/src/io/file_page_buffer.cc promises to the  *)
(* threads that call it: every page is one cell, every call takes effect   *)
(* in one atomic step between the moment it is made and the moment it      *)
(* returns, and a call that fails has no effect.  Neither pages moving in  *)
(* and out of memory nor the order of the disk writes shows.               *)
(*                                                                         *)
(* A page has two parts.  `head' stands for the bytes that were in the     *)
(* file before: FileRef::Write changes them.  `tail' stands for the bytes  *)
(* behind the old end of the file: FileRef::Append changes them.           *)
(***************************************************************************)
CONSTANTS Threads,  \* the threads that call the buffer
          Pages,    \* the pages of all files
          Values,   \* what a part of a page may hold
          InitVal,  \* what every part holds at first
          Calls     \* the calls the threads may make

Kinds == {"read", "write", "append", "flush", "stream"}

Content == [head : Values, tail : Values]

Call == [kind : Kinds, page : Pages, val : Values]

Blank == [head |-> InitVal, tail |-> InitVal]

\* The placeholder of a thread that is in no call.
NoCall == [kind |-> "none", page |-> CHOOSE p \in Pages : TRUE, val |-> InitVal]

NoReply == [status |-> "none", content |-> Blank]

Replies == [status : {"none", "ok", "failed"}, content : Content]

VARIABLES store,  \* store[p]: the content of page p
          call,   \* call[t]: the call t is in
          reply   \* reply[t]: its answer, once the call has taken effect

vars == <<store, call, reply>>

Init == /\ store = [p \in Pages |-> Blank]
        /\ call  = [t \in Threads |-> NoCall]
        /\ reply = [t \in Threads |-> NoReply]

Pending(t, kinds) == call[t].kind \in kinds /\ reply[t] = NoReply

Invoke(t) == /\ call[t] = NoCall
             /\ \E c \in Calls : call' = [call EXCEPT ![t] = c]
             /\ UNCHANGED <<store, reply>>

Answer(t, status, content) ==
    reply' = [reply EXCEPT ![t] = [status |-> status, content |-> content]]

\* A read answers with the whole page as it is at one instant.
Read(t) == /\ Pending(t, {"read", "stream"})
           /\ Answer(t, "ok", store[call[t].page])
           /\ UNCHANGED <<store, call>>

Write(t) == /\ Pending(t, {"write"})
            /\ store' = [store EXCEPT ![call[t].page].head = call[t].val]
            /\ Answer(t, "ok", Blank)
            /\ UNCHANGED call

Append(t) == /\ Pending(t, {"append"})
             /\ store' = [store EXCEPT ![call[t].page].tail = call[t].val]
             /\ Answer(t, "ok", Blank)
             /\ UNCHANGED call

\* Flushing shows in no page's content.
Flush(t) == /\ Pending(t, {"flush"})
            /\ Answer(t, "ok", Blank)
            /\ UNCHANGED <<store, call>>

\* An I/O error ends a call before it has taken effect.
Fail(t) == /\ Pending(t, Kinds)
           /\ Answer(t, "failed", Blank)
           /\ UNCHANGED <<store, call>>

Return(t) == /\ call[t] # NoCall /\ reply[t] # NoReply
             /\ call'  = [call EXCEPT ![t] = NoCall]
             /\ reply' = [reply EXCEPT ![t] = NoReply]
             /\ UNCHANGED store

\* A stream goes on to another page instead of returning.
NextPage(t) == /\ call[t].kind = "stream" /\ reply[t] # NoReply
               /\ \E p \in Pages : call' = [call EXCEPT ![t].kind = "read", ![t].page = p]
               /\ reply' = [reply EXCEPT ![t] = NoReply]
               /\ UNCHANGED store

Next == \E t \in Threads : \/ Invoke(t) \/ Read(t) \/ Write(t) \/ Append(t)
                           \/ Flush(t) \/ Fail(t) \/ Return(t) \/ NextPage(t)

Spec == Init /\ [][Next]_vars
=============================================================================
