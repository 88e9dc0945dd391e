------------------------------- MODULE Streams -------------------------------
(***************************************************************************)
(* The three pipes of a supervised child (gripsack-process/src/exchange.rs *)
(* over gripsack-policy/src/process_budget): input written in chunks the   *)
(* child may take in part or refuse, output split into lines for a         *)
(* callback, the end of the error stream kept.  Each has its budget, and a *)
(* violation or the deadline stops the exchange, which is then drained.    *)
(* A byte is its place in its stream; of the output's bytes `newline' says *)
(* which end a line.                                                       *)
(***************************************************************************)
EXTENDS Naturals, Sequences, FiniteSets

LOCAL INSTANCE SequencesExt

CONSTANTS
  Length,      \* of each stream
  Chunk,       \* bytes moved in one tick (IO_CHUNK_BYTES)
  LineBytes,   \* limits: of a line's content, ...
  OutLimits,   \* ... of the output, the limits tried, ...
  ErrBytes,    \* ... of the error stream, ...
  Retained     \* ... and how much of it is kept

VARIABLES
  newline,    \* places of the output that end a line
  answers,    \* the line at which the callback has its response, 0 for never
  raw,        \* the output is passed on as it comes, not in lines
  outBytes,   \* the output's limit
  out,        \* bytes of output read
  split,      \* the content of the line so far, its length in the budget, whether
              \* one was too long, what the callback was given, whether it responded
  err, tail,  \* bytes of the error stream read; the ones kept
  ended,      \* output streams that are at their end or given up
  input,      \* the transfer: bytes acknowledged, and whether it is closed
  taken,      \* what the child took of it
  stop        \* why the exchange stopped

vars == <<newline, answers, raw, outBytes, out, split, err, tail, ended, input, taken, stop>>

Least(a, b) == IF a < b THEN a ELSE b
Places(a, b) == [i \in 1..(IF b < a THEN 0 ELSE b - a + 1) |-> a + i - 1]

-----------------------------------------------------------------------------
\* Every variable has its type: what was kept and acknowledged is within its budget
\* and its stream, and no line outgrows its own.
TypeOK ==
  /\ newline \subseteq 1..Length /\ answers \in 0..Length /\ outBytes \in OutLimits
  /\ out \in 0..Length /\ err \in 0..Length /\ ended \subseteq {"out", "err"}
  /\ split.length \in 0..LineBytes /\ Len(split.line) <= split.length
  /\ Len(tail) <= Retained
  /\ input \in [sent : 0..Length, closed : BOOLEAN]
  /\ {raw, split.failed, split.responded} \subseteq BOOLEAN
  /\ stop \in {"none", "stdout", "stderr", "line", "io", "deadline"}

Init ==
  /\ newline \in SUBSET (1..Length) /\ answers \in 0..Length /\ raw \in BOOLEAN
  /\ outBytes \in OutLimits /\ out = 0 /\ err = 0 /\ tail = <<>> /\ ended = {}
  /\ split = [line |-> <<>>, length |-> 0, failed |-> FALSE, given |-> <<>>,
              responded |-> FALSE]
  /\ input = [sent |-> 0, closed |-> FALSE] /\ taken = <<>> /\ stop = "none"

-----------------------------------------------------------------------------
\* The first stop is kept.  It closes the input and silences the callback: the rest
\* is drained without one.
Stops(why) == stop' = IF stop = "none" THEN why ELSE stop
Silenced(s) == [s EXCEPT !.responded = TRUE, !.line = <<>>]
Closed == [input EXCEPT !.closed = TRUE]

WrittenAll(offer, n) == offer     \* mutant: what was offered counts as written

Written(offer, n) == n

\* One chunk of input is offered; the child takes part of it, is not ready, or has
\* closed its end, which is no error.  A count out of range is one.
Write ==
  /\ stop = "none" /\ ~input.closed
  /\ LET offer == Least(Length - input.sent, Chunk) IN
     \/ \E n \in 1..offer :
          /\ taken' = taken \o Places(input.sent + 1, input.sent + n)
          /\ input' = [sent |-> input.sent + Written(offer, n),
                       closed |-> input.sent + Written(offer, n) = Length]
          /\ UNCHANGED <<split, stop>>
     \/ input' = Closed /\ UNCHANGED <<taken, split, stop>>
     \/ input' = Closed /\ Stops("io") /\ split' = Silenced(split) /\ UNCHANGED taken
  /\ UNCHANGED <<newline, answers, raw, outBytes, out, err, tail, ended>>

\* What is given to the callback, until it has its response.
Give(s, piece) ==
  IF s.responded THEN s
  ELSE [s EXCEPT !.given = Append(@, piece), !.responded = Len(s.given) + 1 = answers]

Boundary(s) == [Give(s, s.line) EXCEPT !.line = <<>>, !.length = 0]

\* One byte of output ends a line, belongs to it, or is too much for it, which is
\* final.  Its end costs a line nothing.
Observe(s, place) ==
  IF s.failed THEN s
  ELSE IF place \in newline THEN Boundary(s)
  ELSE IF s.length = LineBytes THEN [s EXCEPT !.failed = TRUE]
  ELSE [s EXCEPT !.length = @ + 1, !.line = IF s.responded THEN @ ELSE Append(@, place)]

After(read) ==
  IF raw THEN Give(split, read) ELSE FoldLeft(Observe, split, read)

\* The budget is asked before any of the chunk is given.  A stream that violates
\* its budget while it is drained is given up.
ReadOut ==
  /\ "out" \notin ended /\ out < Length
  /\ \E n \in 1..Least(Chunk, Length - out) :
       LET over == out + n > outBytes
           now == IF over THEN split ELSE After(Places(out + 1, out + n))
           bad == over \/ now.failed
       IN /\ out' = out + n
          /\ split' = IF bad THEN Silenced(now) ELSE now
          /\ ended' = IF bad /\ stop # "none" THEN ended \cup {"out"} ELSE ended
          /\ input' = IF bad THEN Closed ELSE input
          /\ IF bad THEN Stops(IF over THEN "stdout" ELSE "line") ELSE UNCHANGED stop
  /\ UNCHANGED <<newline, answers, raw, outBytes, err, tail, taken>>

\* The end of the output ends a line that has content.
EndOut ==
  /\ "out" \notin ended /\ out = Length /\ ended' = ended \cup {"out"}
  /\ split' = IF split.failed \/ split.length = 0 THEN split ELSE Boundary(split)
  /\ UNCHANGED <<newline, answers, raw, outBytes, out, err, tail, input, taken, stop>>

\* The tail makes room for what was read: discard and skip.
Keep(kept, read) ==
  LET skip == IF Len(read) >= Retained THEN Len(read) - Retained ELSE 0
      room == IF Len(read) >= Retained THEN 0 ELSE Retained - Len(read)
      drop == IF Len(kept) > room THEN Len(kept) - room ELSE 0
  IN SubSeq(kept, drop + 1, Len(kept)) \o SubSeq(read, skip + 1, Len(read))

\* What crosses the budget is kept too.
ReadErr ==
  /\ "err" \notin ended /\ err < Length
  /\ \E n \in 1..Least(Chunk, Length - err) :
       LET over == err + n > ErrBytes
       IN /\ err' = err + n /\ tail' = Keep(tail, Places(err + 1, err + n))
          /\ split' = IF over THEN Silenced(split) ELSE split
          /\ ended' = IF over /\ stop # "none" THEN ended \cup {"err"} ELSE ended
          /\ input' = IF over THEN Closed ELSE input
          /\ IF over THEN Stops("stderr") ELSE UNCHANGED stop
  /\ UNCHANGED <<newline, answers, raw, outBytes, out, taken>>

EndErr ==
  /\ "err" \notin ended /\ err = Length /\ ended' = ended \cup {"err"}
  /\ UNCHANGED <<newline, answers, raw, outBytes, out, split, err, tail, input, taken, stop>>

\* The deadline, a cancellation or a failed call.
Expire ==
  /\ stop = "none" /\ Stops("deadline") /\ split' = Silenced(split) /\ input' = Closed
  /\ UNCHANGED <<newline, answers, raw, outBytes, out, err, tail, ended, taken>>

Next == Write \/ ReadOut \/ EndOut \/ ReadErr \/ EndErr \/ Expire

Spec == Init /\ [][Next]_vars

-----------------------------------------------------------------------------
\* The lines of the output by definition: what lies between two ends, and what
\* follows the last one when it is not empty.
Ends == SetToSortSeq(newline, <)
AllLines ==
  LET start(k) == IF k = 1 THEN 1 ELSE Ends[k - 1] + 1
      rest == Places(start(Len(Ends) + 1), Length)
  IN [k \in 1..Len(Ends) |-> Places(start(k), Ends[k] - 1)]
       \o (IF rest = <<>> THEN <<>> ELSE <<rest>>)

\* The callback is given the lines of the output, in order and whole, however the
\* reads cut it; all of them if it was read to its end, none after its response,
\* and none whose end lies beyond the budget.  No line within its limit is refused
\* (exchange.rs, read_stdout and drain; output.rs).
GivenAreTheLines ==
  /\ ~raw => IsPrefix(split.given, AllLines)
  /\ raw => FlattenSeq(split.given) = Places(1, Len(FlattenSeq(split.given)))
  /\ stop = "none" /\ answers = 0 /\ "out" \in ended =>
       IF raw THEN FlattenSeq(split.given) = Places(1, Length) ELSE split.given = AllLines
  /\ stop = "line" => \E k \in DOMAIN AllLines : Len(AllLines[k]) > LineBytes
  /\ answers # 0 => Len(split.given) <= answers
  /\ FlattenSeq(split.given) # <<>> => Last(FlattenSeq(split.given)) <= outBytes

\* The error kept is the end of what was read, to the byte, whatever the chunks.
TailIsTheEnd == tail = Places(err - Least(err, Retained) + 1, err)

\* The child takes the input in order, nothing twice and nothing left out, through
\* short writes; it took all of it when the transfer was completed.
InputIsInOrder ==
  /\ taken = Places(1, Len(taken))
  /\ input.sent = Len(taken)
=============================================================================
