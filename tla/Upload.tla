------------------------------- MODULE Upload -------------------------------
(***************************************************************************)
(* uploadModel() and the multipart body it sends (upload.cpp).             *)
(*                                                                         *)
(* One coroutine resolves, connects, writes and reads, and calls its       *)
(* handler at the end, however it ends.  While it writes, the HTTP         *)
(* library pulls the body out of upload_body::writer, one buffer for each  *)
(* call of get(); a call that leaves an error code behind ends the write.  *)
(*                                                                         *)
(* A buffer is the sequence of the parts that get() puts into it; a file   *)
(* is a number of blocks of at most blockSize bytes each.  The file may be *)
(* unreadable from some block on.                                          *)
(*                                                                         *)
(* The phase "undefined" stands for undefined behaviour: operator<< of     *)
(* ToUtf8 flows off its end.                                               *)
(***************************************************************************)
EXTENDS Naturals, Sequences, FiniteSets, SequencesExt

CONSTANTS
  Fields,     \* the names set() puts into the body
  MaxBlocks   \* bound: the length of the file

ASSUME UploadAssumption == IsFiniteSet(Fields) /\ MaxBlocks \in Nat

\* What a buffer may consist of.
FieldPart(f) == [part |-> "field", of |-> f]
FilePart == [part |-> "file", of |-> 0]
BlockPart(n) == [part |-> "block", of |-> n]
EndPart == [part |-> "end", of |-> 0]

Phases ==
  {"resolving", "connecting", "writing", "reading", "ended", "undefined"}
Results == {"none", "ok", "system", "server_error"}

VARIABLES
  fields,   \* fields_, in the order its iteration happens to have
  blocks,   \* the file: how many blocks it has,
  damaged,  \*   and the first that cannot be read (blocks + 1: none)
  phase,    \* what the coroutine waits for
  state,    \* state_, as a call of get() leaves it
  field,    \* field_: how many fields are done
  block,    \* the file position: how many blocks are read
  body,     \* what was handed to the socket
  result,   \* the ec the handler was called with, or "none"
  runs      \* history: how often the handler was called

vars == <<fields, blocks, damaged, phase, state, field, block, body, result,
          runs>>

file == <<fields, blocks, damaged>>
writer == <<state, field, block>>

\* The handler is called: the last thing the coroutine does.
Finish(ec) ==
  /\ phase' = "ended"
  /\ result' = ec
  /\ runs' = runs + 1

-----------------------------------------------------------------------------

Init ==
  /\ fields \in SetToSeqs(Fields)
  /\ blocks \in 0..MaxBlocks
  /\ damaged \in 1..(blocks + 1)
  /\ phase = "resolving"
  /\ state = 0
  /\ field = 0
  /\ block = 0
  /\ body = <<>>
  /\ result = "none"
  /\ runs = 0

Resolve ==
  /\ phase = "resolving"
  /\ phase' = "connecting"
  /\ UNCHANGED <<file, writer, body, result, runs>>

Running == phase \notin {"ended", "undefined"}

\* The connection is up: the body is set, and writer::init() opens the file.
Connect ==
  /\ phase = "connecting"
  /\ phase' = "writing"
  /\ UNCHANGED <<file, writer, body, result, runs>>

\* Seeded fault: the coroutine ends without a word.
SystemErrorSilently ==
  /\ Running
  /\ phase' = "ended"
  /\ UNCHANGED <<file, writer, body, result, runs>>

\* What the coroutine waits for fails, or the file cannot be opened.
SystemError ==
  /\ Running
  /\ Finish("system")
  /\ UNCHANGED <<file, writer, body>>

-----------------------------------------------------------------------------
(***************************************************************************)
(* One call of writer::get() is one of the following.                      *)
(***************************************************************************)

Get(from) == phase = "writing" /\ state = from

\* Seeded fault: the cursor of the fields does not move.
GetSameField ==
  /\ Get(0)
  /\ field < Len(fields)
  /\ body' = Append(body, FieldPart(fields[field + 1]))
  /\ UNCHANGED <<file, phase, state, field, block, result, runs>>

\* case 0: one more field.
GetField ==
  /\ Get(0)
  /\ field < Len(fields)
  /\ body' = Append(body, FieldPart(fields[field + 1]))
  /\ field' = field + 1
  /\ UNCHANGED <<file, phase, state, block, result, runs>>

\* case 0: the result of writing the value is used (<< "\r\n"), but
\* operator<< does not return one.
GetFieldUndefined ==
  /\ Get(0)
  /\ field < Len(fields)
  /\ phase' = "undefined"
  /\ UNCHANGED <<file, writer, body, result, runs>>

\* No field left: case 1, the head of the file's part.
GetFilePart ==
  /\ Get(0)
  /\ field = Len(fields)
  /\ body' = Append(body, FilePart)
  /\ state' = 2
  /\ UNCHANGED <<file, phase, field, block, result, runs>>

\* Seeded fault: the end of the file is not noticed.
GetBlockForever ==
  /\ Get(2)
  /\ body' = Append(body, BlockPart(block + 1))
  /\ block' = block + 1
  /\ UNCHANGED <<file, phase, state, field, result, runs>>

\* case 2: one more block.
GetBlock ==
  /\ Get(2)
  /\ block < blocks
  /\ block + 1 # damaged
  /\ body' = Append(body, BlockPart(block + 1))
  /\ block' = block + 1
  /\ UNCHANGED <<file, phase, state, field, result, runs>>

\* Seeded fault: a read error is taken for the end of the file.
GetFailsSilently ==
  /\ Get(2)
  /\ block < blocks
  /\ block + 1 = damaged
  /\ state' = 3
  /\ body' = Append(body, EndPart)
  /\ phase' = "reading"
  /\ UNCHANGED <<file, field, block, result, runs>>

\* A read error: case 2 falls through to case 3 all the same, but the library
\* looks at ec first and does not send the buffer.
GetFails ==
  /\ Get(2)
  /\ block < blocks
  /\ block + 1 = damaged
  /\ state' = 3
  /\ Finish("system")
  /\ UNCHANGED <<file, field, block, body>>

\* The end of the file: case 3, the closing boundary.  It is the last buffer;
\* when it is written, the response is awaited.
GetEnd ==
  /\ Get(2)
  /\ block = blocks
  /\ state' = 3
  /\ body' = Append(body, EndPart)
  /\ phase' = "reading"
  /\ UNCHANGED <<file, field, block, result, runs>>

-----------------------------------------------------------------------------

\* The response: 200 and 204 are success, everything else is server_error.
Respond(ok) ==
  /\ phase = "reading"
  /\ Finish(IF ok THEN "ok" ELSE "server_error")
  /\ UNCHANGED <<file, writer, body>>

Next ==
  \/ Resolve \/ Connect \/ SystemError
  \/ GetField \/ GetFieldUndefined \/ GetFilePart
  \/ GetBlock \/ GetFails \/ GetEnd
  \/ \E ok \in BOOLEAN : Respond(ok)

Spec == Init /\ [][Next]_vars

\* run() is executing, and everything the coroutine waits for ends some time:
\* the code has no timeout of its own here.
FairSpec == Spec /\ WF_vars(Next)

-----------------------------------------------------------------------------
(***************************************************************************)
(* Properties                                                              *)
(***************************************************************************)

Part == {FieldPart(f) : f \in Fields} \cup {FilePart, EndPart}
          \cup {BlockPart(n) : n \in 1..MaxBlocks}

\* The types of the variables.
TypeOK ==
  /\ fields \in SetToSeqs(Fields)
  /\ blocks \in 0..MaxBlocks
  /\ damaged \in 1..(blocks + 1)
  /\ phase \in Phases
  /\ state \in {0, 2, 3}
  /\ field \in 0..Len(fields)
  /\ block \in 0..blocks
  /\ body \in Seq(Part)
  /\ result \in Results
  /\ runs \in Nat

\* What a reader of multipart/form-data expects: every field once, the whole
\* file in order, and the closing boundary.
WholeBody ==
  [i \in 1..Len(fields) |-> FieldPart(fields[i])]
    \o <<FilePart>>
    \o [n \in 1..blocks |-> BlockPart(n)]
    \o <<EndPart>>

\* Whatever the order of the fields and the length of the file, get() never
\* hands out anything else than the next part of that body.
BodyInOrder == IsPrefix(body, WholeBody)

\* The handler is told of success only if the whole file was sent: a file that
\* cannot be read to its end is not uploaded up to there.
SuccessIsComplete == result = "ok" => body = WholeBody

\* The handler runs exactly once, however the upload ends, if its behaviour is
\* defined.
HandlerRunsOnce == <>[](runs = 1 \/ phase = "undefined")
=============================================================================
