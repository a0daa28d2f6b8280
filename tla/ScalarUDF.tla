----------------------------- MODULE ScalarUDF -----------------------------
(***************************************************************************)
(* One call of a JavaScript scalar function over one chunk: what           *)
(* callScalarUDF (udf_runtime.ts) reads of the chunk, what it writes, and  *)
(* what CallScalarUDFFunction (webdb.cc) makes of the reply.               *)
(*                                                                         *)
(* The call is one synchronous run of a thread, but it holds views of the  *)
(* memory across its allocations and across the user's function.  In a     *)
(* build without shared memory any of them may grow the memory, and growth *)
(* detaches every view taken before it: reads of a detached view answer    *)
(* undefined, writes to it are dropped.  The call is therefore laid out on *)
(* a line of points, and `grew' says which of them grew the memory:        *)
(*                                                                         *)
(*   0 arguments viewed    1 malloc of the data   2 malloc of the validity *)
(*   2+i the function's call for row i      n+3 malloc of the lengths      *)
(*   n+4 malloc of the strings              n+5 malloc of the three pointers *)
(***************************************************************************)
EXTENDS Naturals, Sequences

CONSTANTS
  Null,   \* undefined, null and SQL's NULL
  Lost,   \* bytes of the memory that the call did not put there
  Threw   \* an exception of the user's function

\* What the memory holds by chance is none of the marks of the validity.
ASSUME MarksAssumption == Lost \notin {"valid", "null"}

Points(n) == 1 .. n + 5

\* A view taken after point `from' is dead at point `to'.
Detached(grew, from, to) == \E g \in grew : from < g /\ g <= to

(***************************************************************************)
(* Arguments.  A column has a kind, and for each row a validity and a      *)
(* value: strings are decoded while the resolver is built, the others are  *)
(* read row by row.  A struct has one child here, an object with one       *)
(* field, which may itself be null.                                        *)
(***************************************************************************)
ViewedKinds == {"text", "flat", "struct"}

\* The engine hands over columns of these types; it refuses a call with any other.
Kinds == ViewedKinds \cup {"unsupported"}

\* A byte of a dead validity view is undefined, which counts as null.
Resolve(col, i, gone) ==
  CASE col.kind = "text"   -> IF col.valid[i] THEN col.value[i] ELSE Null
    [] col.kind = "flat"   -> IF gone \/ ~col.valid[i] THEN Null ELSE col.value[i]
    [] col.kind = "struct" -> IF gone \/ ~col.valid[i] THEN Null ELSE <<col.value[i]>>

\* The user's functions: the argument itself, and a field of it; a field of
\* null throws.
Functions == {"itself", "field"}

Apply(func, kind, arg) ==
  IF arg = Null THEN IF func = "field" THEN Threw ELSE Null
                ELSE IF kind = "struct" THEN arg[1] ELSE arg

(***************************************************************************)
(* The reply.  Only the types that ptrToArray knows give an array of the   *)
(* chunk's length; a dead result view has length 0 as well.  A string      *)
(* result stores where its bytes begin, counted from the first of them.    *)
(***************************************************************************)
ReturnTypes == {"number", "text", "INT64"}

Validity(out) == [i \in DOMAIN out |-> IF out[i] = Null THEN "null" ELSE "valid"]

StringOffset(out, row) == Len(SelectSeq(SubSeq(out, 1, row - 1), LAMBDA v : v # Null))

StringPointer(out, row, start) == StringOffset(out, row)

Failed(why) == [status |-> why, data |-> <<>>, validity |-> <<>>, strings |-> <<>>, start |-> 0]

\* Mutant: the views are looked at before the second of them is made.
TypeMissing(ret, n, grew) == ret = "INT64" \/ n = 0

\* A view of the result that has length 0, once both are made.
ArraysMissing(ret, n, grew) == ret = "INT64" \/ n = 0 \/ Detached(grew, 1, 2)

CallScalarUDF(func, col, ret, grew, start) ==
  LET n == Len(col.valid)
      arg(i) == Resolve(col, i, Detached(grew, 0, 1 + i))
      out == [i \in 1 .. n |-> Apply(func, col.kind, arg(i))]
      valid == Validity(out)
  IN IF ArraysMissing(ret, n, grew)
     THEN Failed("no arrays for the result")
     ELSE IF \E i \in 1 .. n : out[i] = Threw
     THEN Failed("the function threw")
     ELSE [status |-> "ok",
           validity |-> [i \in 1 .. n |-> IF Detached(grew, 2, 2 + i) THEN Lost ELSE valid[i]],
           data |-> IF ret = "text"
                    THEN [i \in 1 .. n |-> IF Detached(grew, 1, n + 4) THEN Lost
                                           ELSE StringPointer(out, i, start)]
                    ELSE [i \in 1 .. n |-> IF Detached(grew, 1, 2 + i) \/ out[i] = Null THEN Lost
                                           ELSE out[i]],
           strings |-> out,
           start |-> start]

\* CallScalarUDFFunction: a column of a type that has no data view is refused before
\* the function is looked for.  Functions that were created are sequences of one.
CallScalarUDFFunction(udf, col, ret, grew, start) ==
  IF col.kind \notin ViewedKinds THEN Failed("unsupported argument")
  ELSE IF udf = <<>> THEN Failed("unknown")
  ELSE CallScalarUDF(udf[1], col, ret, grew, start)

\* What is in the memory at an address, as far as the reply's strings go.
TextAt(reply, address) ==
  LET rows == {i \in DOMAIN reply.strings :
                 /\ reply.strings[i] # Null
                 /\ reply.start + StringOffset(reply.strings, i) = address}
  IN IF rows = {} THEN Lost ELSE reply.strings[CHOOSE i \in rows : TRUE]

\* The engine's side: nulls first, then the values; a string's entry is
\* taken for the address of its first byte.
ReadReply(ret, reply) ==
  [i \in DOMAIN reply.validity |->
     CASE reply.validity[i] = Lost   -> Lost
       [] reply.validity[i] = "null" -> Null
       [] reply.validity[i] = "valid" ->
            IF ret = "text" /\ reply.data[i] # Lost THEN TextAt(reply, reply.data[i])
                                                    ELSE reply.data[i]]

(***************************************************************************)
(* What the function means: its value for each row of the chunk.           *)
(***************************************************************************)
Meaning(func, col) ==
  [i \in 1 .. Len(col.valid) |->
     Apply(func, col.kind, Resolve([col EXCEPT !.kind = IF @ = "struct" THEN @ ELSE "text"],
                                   i, FALSE))]
============================================================================
