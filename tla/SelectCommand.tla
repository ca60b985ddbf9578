--------------------------- MODULE SelectCommand ----------------------------
(***************************************************************************)
(* run_command_posix_select and terminate_process of                       *)
(* unified_planning/engines/pddl_planner.py: the loop that runs a planner  *)
(* as a subprocess and reads its two streams while it runs.                *)
(*                                                                         *)
(* The subprocess, its two pipes and Python's buffered readers are         *)
(* external, modelled from how the loop uses them.  What a process prints  *)
(* is a sequence of tokens: a Line ends with a newline, a Fragment does    *)
(* not, and what readline() returns is a sequence of tokens of which only  *)
(* the last can be a Line.  The reader takes whatever is in the pipe into  *)
(* its buffer when it holds no complete line, and select() looks at the    *)
(* pipe, not at the buffer.                                                *)
(***************************************************************************)
EXTENDS Integers, Sequences, SequencesExt

CONSTANTS Line, Fragment,
          Prints,      \* what the planner prints on each stream
          MaxWrites    \* bound of the model: tokens it prints

Stream == {"out", "err"}
Token == Line \union Fragment

ASSUME PrintsAssumption == Prints \in [Stream -> SUBSET Token]
ASSUME WritesAssumption == MaxWrites \in Nat
ASSUME TokenAssumption == Line \intersect Fragment = {}

VARIABLES
  process,    \* the subprocess: "none", "running" or "exited"
  signalled,  \* it was sent SIGTERM
  open,       \* per stream: the process can still write to it
  pipe,       \* per stream: written and not yet read
  written,    \* how many tokens it wrote
  buffer,     \* per stream: read from the pipe, not returned by readline()
  pc,         \* where run_command_posix_select is
  ready,      \* readable_streams
  reading,    \* those of them the for loop has still to read
  lastRed,    \* per stream: last_red_out, last_red_err are not 0
  timeout,    \* the timeout is not None
  expired,    \* time.time() - start_time >= timeout
  timedOut,   \* timeout_occurred
  attached    \* engine._process is not None

child == <<process, signalled, open, pipe, written>>
locals == <<pc, ready, reading, lastRed, timedOut>>
clock == <<timeout, expired>>
commandVars == <<child, buffer, locals, clock, attached>>

All(v) == [s \in Stream |-> v]

CommandInit ==
  /\ process = "none"
  /\ signalled = FALSE
  /\ open = All(FALSE)
  /\ pipe = All(<<>>)
  /\ written = 0
  /\ buffer = All(<<>>)
  /\ pc = "start"
  /\ ready = {}
  /\ reading = <<>>
  /\ lastRed = All(FALSE)
  /\ timeout \in BOOLEAN
  /\ expired = FALSE
  /\ timedOut = FALSE
  /\ attached = FALSE
-----------------------------------------------------------------------------
(* The subprocess and the clock. *)

Write(s, t) ==
  /\ open[s]
  /\ written < MaxWrites
  /\ pipe' = [pipe EXCEPT ![s] = Append(@, t)]
  /\ written' = written + 1
  /\ UNCHANGED <<process, signalled, open, buffer, locals, clock, attached>>

\* A process can close one stream and go on.
CloseStream(s) ==
  /\ open[s]
  /\ open' = [open EXCEPT ![s] = FALSE]
  /\ UNCHANGED <<process, signalled, pipe, written, buffer, locals, clock, attached>>

Exit ==
  /\ process = "running"
  /\ process' = "exited"
  /\ open' = All(FALSE)
  /\ UNCHANGED <<signalled, pipe, written, buffer, locals, clock, attached>>

Expire ==
  /\ timeout
  /\ process # "none"
  /\ ~expired
  /\ expired' = TRUE
  /\ UNCHANGED <<child, buffer, locals, timeout, attached>>

Environment ==
  \/ \E s \in Stream : \E t \in Prints[s] : Write(s, t)
  \/ \E s \in Stream : CloseStream(s)
  \/ Exit
  \/ Expire
-----------------------------------------------------------------------------
(* The loop. *)

\* Mutant: the planner is not told to stop.
TerminateNot == signalled' = signalled

\* terminate_process: SIGTERM to the process group, no error if it is gone.
Terminate == signalled' = (signalled \/ process = "running")

Popen ==
  /\ pc = "start"
  /\ process' = "running"
  /\ open' = All(TRUE)
  /\ attached' = TRUE
  /\ pc' = "select"
  /\ UNCHANGED <<signalled, pipe, written, buffer, ready, reading, lastRed, clock, timedOut>>

\* The streams of a set in the order of readable_streams.
InTurn(S) ==
  CASE S = Stream -> <<"out", "err">>
    [] S = {} -> <<>>
    [] OTHER -> <<CHOOSE s \in S : TRUE>>

Readable == {s \in Stream : pipe[s] # <<>> \/ ~open[s]}

OutOfTime == expired

\* select() returns the readable streams, or none after a second; then the
\* clock is read.
Select ==
  /\ pc = "select"
  /\ ready' = Readable
  /\ reading' = InTurn(Readable)
  /\ IF OutOfTime THEN Terminate ELSE UNCHANGED signalled
  /\ timedOut' = OutOfTime
  /\ pc' = "read"
  /\ UNCHANGED <<process, open, pipe, written, buffer, lastRed, clock, attached>>

HasLine(q) == \E i \in DOMAIN q : q[i] \in Line

\* readline() returns the first n tokens of a buffer that holds a line or to
\* which nothing will be added.
IsNextLine(q, n) ==
  IF HasLine(q) THEN n \in DOMAIN q /\ q[n] \in Line /\ \A j \in 1..(n - 1) : q[j] \notin Line
  ELSE n = Len(q)

\* readline() on the stream it was called for has to read from the pipe.
Fill ==
  /\ pc = "read"
  /\ reading # <<>>
  /\ ~HasLine(buffer[Head(reading)])
  /\ pipe[Head(reading)] # <<>>
  /\ buffer' = [buffer EXCEPT ![Head(reading)] = @ \o pipe[Head(reading)]]
  /\ pipe' = [pipe EXCEPT ![Head(reading)] = <<>>]
  /\ UNCHANGED <<process, signalled, open, written, locals, clock, attached>>

\* Without a complete line, readline() returns only at the end of the stream.
AtEnd(s) == pipe[s] = <<>> /\ ~open[s]

\* readline() of stream s returns n tokens, none at the end of it.
ReadLine(s, n) ==
  /\ pc = "read"
  /\ reading # <<>>
  /\ s = Head(reading)
  /\ HasLine(buffer[s]) \/ AtEnd(s)
  /\ IsNextLine(buffer[s], n)
  /\ buffer' = [buffer EXCEPT ![s] = SubSeq(@, n + 1, Len(@))]
  /\ lastRed' = [lastRed EXCEPT ![s] = n # 0]
  /\ reading' = Tail(reading)
  /\ UNCHANGED <<child, pc, ready, clock, timedOut, attached>>

\* Mutant: the loop does not wait for both streams to be readable.
NothingLeftEarly == ~lastRed["out"] /\ ~lastRed["err"]

NothingLeft == ready = Stream /\ ~lastRed["out"] /\ ~lastRed["err"]

\* After the for loop: the condition of the while loop is tested.  (What is
\* kept of the text, for the logs, is left out.)
EndTurn ==
  /\ pc = "read"
  /\ reading = <<>>
  /\ pc' = IF timedOut \/ NothingLeft THEN "wait" ELSE "select"
  /\ UNCHANGED <<child, buffer, ready, reading, lastRed, clock, timedOut, attached>>

\* Mutant: the planner's end is not waited for.
ExitedOrNot == TRUE

\* process.wait() returns.
Exited == process = "exited"

\* The loop's variables are gone.
Wait ==
  /\ pc = "wait"
  /\ Exited
  /\ attached' = FALSE
  /\ pc' = "done"
  /\ ready' = {}
  /\ lastRed' = All(FALSE)
  /\ UNCHANGED <<child, buffer, reading, clock, timedOut>>
-----------------------------------------------------------------------------
CommandTypeOK ==
  /\ process \in {"none", "running", "exited"}
  /\ signalled \in BOOLEAN /\ expired \in BOOLEAN /\ timeout \in BOOLEAN
  /\ timedOut \in BOOLEAN /\ attached \in BOOLEAN
  /\ open \in [Stream -> BOOLEAN]
  /\ pipe \in [Stream -> Seq(Token)] /\ buffer \in [Stream -> Seq(Token)]
  /\ written \in 0..MaxWrites
  /\ pc \in {"start", "select", "read", "wait", "done"}
  /\ ready \subseteq Stream
  /\ reading \in Seq(ready)
  /\ lastRed \in [Stream -> BOOLEAN]

\* When the command returns without a timeout, every line the planner printed
\* was handed to output_stream: the two counters end the loop in time, and
\* not before text that is still in a pipe or a buffer.
AllDelivered ==
  pc \in {"wait", "done"} /\ ~timedOut =>
    \A s \in Stream : buffer[s] = <<>> /\ pipe[s] = <<>> /\ ~open[s]

\* The two blocking calls of the loop, made before a timeout was seen: readline()
\* waits for the end of a line the planner has begun, and wait() for a planner
\* that has closed both its streams.  No timeout is looked at meanwhile.
BeyondTimeout ==
  /\ ~timedOut
  /\ process = "running"
  /\ \/ /\ pc = "read"
        /\ reading # <<>>
        /\ LET s == Head(reading)
           IN ~HasLine(buffer[s]) /\ buffer[s] # <<>> /\ pipe[s] = <<>> /\ open[s]
     \/ pc = "wait"
=============================================================================
