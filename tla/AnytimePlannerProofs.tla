------------------------ MODULE AnytimePlannerProofs ------------------------
(***************************************************************************)
(* What is true of the anytime planner's two threads and the planner they  *)
(* run, for everything it may print and however long it prints.            *)
(***************************************************************************)
EXTENDS AnytimePlanner, SequenceTheorems, TLAPS

Results == [status : Final \union {"INTERMEDIATE"}, plan : Plan]

\* What TypeOK says of results, queue and the generator's variables apart.
ResultsOK ==
  /\ queue \in Seq(Results)
  /\ lastRes \in Results \union {NoResult}
  /\ given \in Results \union {NoResult}

ThreadsOK ==
  /\ gen \in {"new", "get", "yield", "finally", "kill", "join", "closed", "raised"}
  /\ worker \in {"none", "new", "command", "result", "done", "died"}
  /\ storing \in BOOLEAN
  /\ current \in Seq({"body", "bad"})

\* The for loop leaves no stream to be read.
TurnOver == pc # "read" => reading = <<>>

Typed == CommandTypeOK /\ ThreadsOK /\ ResultsOK /\ TurnOver

LEMMA TypedIsTypeOK == Typed => TypeOK
  <1> SUFFICES ASSUME Typed
               PROVE  \A res \in Range(queue) \union ({lastRes, given} \ {NoResult}) :
                        res.status \in Final \union {"INTERMEDIATE"} /\ res.plan \in Plan
    BY DEF Typed, ThreadsOK, TypeOK
  <1>1. Range(queue) \subseteq Results
    BY DEF Typed, ResultsOK, Range
  <1>2. QED BY <1>1 DEF Typed, ResultsOK, Results

LEMMA InTurnType ==
  ASSUME NEW S \in SUBSET Stream
  PROVE  InTurn(S) \in Seq(S) /\ Range(InTurn(S)) = S
  <1>1. CASE S = Stream
    <2>1. InTurn(S) = <<"out", "err">>
      BY <1>1 DEF InTurn, Stream
    <2>2. <<"out", "err">> \in Seq(S) /\ DOMAIN <<"out", "err">> = 1..2
      BY <1>1 DEF Stream
    <2>3. Range(<<"out", "err">>) = {"out", "err"}
      <3> DEFINE both == <<"out", "err">>
      <3>1. DOMAIN both = {1, 2} /\ both[1] = "out" /\ both[2] = "err"
        BY <2>2
      <3> HIDE DEF both
      <3>2. QED BY <3>1 DEF Range
    <2>4. QED BY <1>1, <2>1, <2>2, <2>3 DEF Stream
  <1>2. CASE S = {}
    <2>1. InTurn(S) = <<>>
      BY <1>2 DEF InTurn, Stream
    <2>2. Range(<<>>) = {}
      BY DEF Range
    <2>3. QED BY <1>2, <2>1, <2>2, EmptySeq
  <1>3. CASE S # Stream /\ S # {}
    <2>1. PICK s \in S : S = {s}
      BY <1>3 DEF Stream
    <2>2. (CHOOSE t \in S : TRUE) = s
      BY <2>1
    <2>3. InTurn(S) = <<s>>
      BY <1>3, <2>2 DEF InTurn
    <2>4. <<s>> \in Seq(S) /\ DOMAIN <<s>> = 1..1
      OBVIOUS
    <2>5. Range(<<s>>) = {s}
      BY <2>4 DEF Range
    <2>6. QED BY <2>1, <2>3, <2>4, <2>5
  <1>4. QED BY <1>1, <1>2, <1>3
-----------------------------------------------------------------------------
(* Types. *)

LEMMA InitTyped == Init => Typed
  <1> SUFFICES ASSUME Init PROVE Typed
    OBVIOUS
  <1>1. 0 \in 0..MaxWrites
    BY WritesAssumption
  <1>2. /\ pipe \in [Stream -> Seq(Token)] /\ buffer \in [Stream -> Seq(Token)]
        /\ reading \in Seq(ready) /\ queue \in Seq(Results) /\ current \in Seq({"body", "bad"})
    BY EmptySeq DEF Init, CommandInit, All
  <1>3. CommandTypeOK /\ TurnOver
    BY <1>1, <1>2 DEF Init, CommandInit, All, CommandTypeOK, TurnOver
  <1>4. ThreadsOK /\ ResultsOK
    BY <1>2 DEF Init, ThreadsOK, ResultsOK
  <1>5. QED BY <1>3, <1>4 DEF Typed

LEMMA EnvironmentTyped ==
  ASSUME Typed, Environment, UNCHANGED threadVars
  PROVE  Typed'
  <1>1. ThreadsOK' /\ ResultsOK'
    BY DEF Typed, ThreadsOK, ResultsOK, threadVars
  <1>2. CommandTypeOK' /\ TurnOver'
    <2> USE DEF Typed, CommandTypeOK, TurnOver, locals, clock, child
    <2>1. ASSUME NEW s \in Stream, NEW t \in Prints[s], Write(s, t)
          PROVE  CommandTypeOK' /\ TurnOver'
      <3>1. t \in Token
        BY PrintsAssumption
      <3>2. written' \in 0..MaxWrites
        BY <2>1, WritesAssumption DEF Write
      <3>3. QED BY <2>1, <3>1, <3>2 DEF Write
    <2>2. ASSUME NEW s \in Stream, CloseStream(s)
          PROVE  CommandTypeOK' /\ TurnOver'
      BY <2>2 DEF CloseStream
    <2>3. CASE Exit
      BY <2>3 DEF Exit, All
    <2>4. CASE Expire
      BY <2>4 DEF Expire
    <2>5. QED BY <2>1, <2>2, <2>3, <2>4 DEF Environment
  <1>3. QED BY <1>1, <1>2 DEF Typed

LEMMA LoopTyped ==
  ASSUME Typed, Loop
  PROVE  Typed'
  <1>1. ThreadsOK' /\ ResultsOK'
    BY DEF Typed, ThreadsOK, ResultsOK, threadVars, Loop
  <1>2. CommandTypeOK' /\ TurnOver'
    <2> USE DEF Typed, CommandTypeOK, TurnOver, locals, clock, child
    <2>1. CASE Select
      <3>1. Readable \subseteq Stream
        BY DEF Readable
      <3>2. ready' \subseteq Stream /\ reading' \in Seq(ready')
        BY <2>1, <3>1, InTurnType DEF Select
      <3>3. signalled' \in BOOLEAN /\ timedOut' \in BOOLEAN
        BY <2>1 DEF Select, Terminate, OutOfTime
      <3>4. QED BY <2>1, <3>2, <3>3 DEF Select
    <2>2. CASE Fill
      <3>1. Head(reading) \in Stream
        BY <2>2 DEF Fill
      <3>2. buffer[Head(reading)] \o pipe[Head(reading)] \in Seq(Token)
        BY <3>1
      <3>3. QED BY <2>2, <3>1, <3>2 DEF Fill
    <2>3. CASE EndTurn
      BY <2>3 DEF EndTurn
    <2>4. QED BY <2>1, <2>2, <2>3 DEF Loop
  <1>3. QED BY <1>1, <1>2 DEF Typed

LEMMA ReadTyped ==
  ASSUME Typed, NEW s \in Stream, NEW n \in 0..Len(buffer[s]), ReadLine(s, n)
  PROVE  CommandTypeOK' /\ TurnOver'
  <1> USE DEF Typed, CommandTypeOK, TurnOver, clock, child
  <1>1. SubSeq(buffer[s], n + 1, Len(buffer[s])) \in Seq(Token)
    BY SubSeqProperties
  <1>2. reading' \in Seq(ready')
    BY DEF ReadLine
  <1>3. buffer' \in [Stream -> Seq(Token)]
    BY <1>1 DEF ReadLine
  <1>4. QED BY <1>2, <1>3 DEF ReadLine

LEMMA ParseTyped ==
  ASSUME Typed, NEW line, Parse(line)
  PROVE  ThreadsOK' /\ ResultsOK'
  <1> USE DEF Typed, ThreadsOK, ResultsOK
  <1>1. CASE UNCHANGED threadVars
    BY <1>1 DEF threadVars
  <1>2. CASE storing' = TRUE /\ UNCHANGED <<gen, worker, queue, current, lastRes, given>>
    BY <1>2
  <1>3. CASE /\ \A i \in DOMAIN current : current[i] = "body"
             /\ queue' = Append(queue, Intermediate(current))
             /\ current' = <<>>
             /\ storing' = FALSE
             /\ UNCHANGED <<gen, worker, lastRes, given>>
    <2>1. current \in Seq({"body"})
      BY <1>3
    <2>2. Intermediate(current) \in Results
      BY <2>1 DEF Intermediate, Result, Results, Plan
    <2>3. queue' \in Seq(Results) /\ current' \in Seq({"body", "bad"})
      BY <1>3, <2>2, AppendProperties, EmptySeq
    <2>4. QED BY <1>3, <2>3
  <1>4. CASE Die
    BY <1>4 DEF Die
  <1>5. CASE /\ Kind(line) \notin {"start", "end"}
             /\ current' = Append(current, Kind(line))
             /\ UNCHANGED <<gen, worker, queue, storing, lastRes, given>>
    <2>1. Kind(line) \in {"body", "bad"}
      BY <1>5 DEF Kind
    <2>2. QED BY <1>5, <2>1
  <1>6. QED BY <1>1, <1>2, <1>3, <1>4, <1>5 DEF Parse

LEMMA WorkerTyped ==
  ASSUME Typed, Worker
  PROVE  Typed'
  <1>1. CASE Loop
    BY <1>1, LoopTyped
  <1>2. ASSUME NEW s \in Stream, Deliver(s)
        PROVE  Typed'
    <2>1. PICK n \in 0..Len(buffer[s]) : ReadLine(s, n) /\ Parse(SubSeq(buffer[s], 1, n))
      BY <1>2 DEF Deliver
    <2>2. QED BY <2>1, ReadTyped, ParseTyped DEF Typed
  <1>3. CASE PutResult
    <2>1. PICK plan \in {"file", NoPlan}, status \in Final \ {"TIMEOUT"}, tooFine \in BOOLEAN, failed \in BOOLEAN :
            queue' = Append(queue, IF timedOut /\ failed THEN Result("TIMEOUT", plan)
                                   ELSE Corrected(Result(status, plan), tooFine))
      BY <1>3 DEF PutResult
    <2>2. Result("TIMEOUT", plan) \in Results /\ Result(status, plan) \in Results
      BY DEF Result, Results, Final, Plan
    <2>3. Corrected(Result(status, plan), tooFine) \in Results
      BY <2>2 DEF Corrected, Result, Results, Final, Positive, Unsolvable, Plan
    <2>4. queue' \in Seq(Results)
      BY <2>1, <2>2, <2>3, AppendProperties DEF Typed, ResultsOK
    <2>5. QED BY <1>3, <2>4 DEF PutResult, Typed, CommandTypeOK, ThreadsOK, ResultsOK, TurnOver, commandVars, child, locals, clock
  <1>4. CASE Begin \/ Finish
    <2>1. CommandTypeOK' /\ TurnOver'
      <3>1. ready' \subseteq Stream /\ reading' \in Seq(ready')
        BY <1>4, EmptySeq DEF Begin, Finish, Popen, Wait, Typed, CommandTypeOK, TurnOver
      <3>2. QED BY <1>4, <3>1 DEF Begin, Finish, Popen, Wait, All, Typed, CommandTypeOK, TurnOver, child, clock
    <2>2. QED BY <1>4, <2>1 DEF Begin, Finish, Typed, ThreadsOK, ResultsOK
  <1>5. CASE BeginRaise \/ ResultRaise
    BY <1>5 DEF BeginRaise, ResultRaise, Die, Typed, CommandTypeOK, ThreadsOK, ResultsOK, TurnOver, commandVars, child, locals, clock
  <1>6. QED BY <1>1, <1>2, <1>3, <1>4, <1>5 DEF Worker

LEMMA GeneratorTyped ==
  ASSUME Typed, GetSolutions \/ Generator \/ Resume \/ Abandon
  PROVE  Typed'
  <1>1. CASE Receive
    <2>1. Head(queue) \in Results /\ queue' \in Seq(Results)
      BY <1>1 DEF Receive, Typed, ResultsOK
    <2>2. LastResult(Head(queue)) \in Results
      BY <2>1 DEF LastResult, Result, Results, Final, Positive, Typed, ResultsOK
    <2>3. ResultsOK'
      BY <1>1, <2>1, <2>2 DEF Receive, Typed, ResultsOK
    <2>4. QED BY <1>1, <2>3 DEF Receive, Typed, CommandTypeOK, ThreadsOK, TurnOver, commandVars, child, locals, clock
  <1>2. CASE Kill
    <2>1. signalled' \in BOOLEAN
      BY <1>2 DEF Kill, Terminate, Typed, CommandTypeOK
    <2>2. QED BY <1>2, <2>1 DEF Kill, Typed, CommandTypeOK, ThreadsOK, ResultsOK, TurnOver, locals, clock
  <1>3. CASE GetSolutions \/ TestProcess \/ Join \/ Resume \/ Abandon
    BY <1>3 DEF GetSolutions, TestProcess, Join, Resume, Abandon, Typed, CommandTypeOK, ThreadsOK, ResultsOK, TurnOver,
                commandVars, child, locals, clock
  <1>4. QED BY <1>1, <1>2, <1>3 DEF Generator

LEMMA NextTyped == Typed /\ [Next]_vars => Typed'
  <1> SUFFICES ASSUME Typed, [Next]_vars PROVE Typed'
    OBVIOUS
  <1>1. CASE UNCHANGED vars
    BY <1>1 DEF vars, threadVars, commandVars, child, locals, clock, Typed, CommandTypeOK, ThreadsOK, ResultsOK, TurnOver
  <1>2. QED BY <1>1, EnvironmentTyped, WorkerTyped, GeneratorTyped DEF Next

\* The variables have their types: what is read, parsed, queued and given to
\* the caller are tokens, lines and results.
THEOREM TypeCorrect == Spec => []TypeOK
  <1>1. Spec => []Typed
    BY InitTyped, NextTyped, PTL DEF Spec
  <1>2. QED BY <1>1, TypedIsTypeOK, PTL
-----------------------------------------------------------------------------
(* Where the command, the worker and the generator are. *)

Phases ==
  /\ attached <=> pc \in {"select", "read", "wait"}
  /\ pc = "start" <=> process = "none"
  /\ pc = "done" => process = "exited"
  /\ worker \in {"none", "new"} => pc = "start"
  /\ worker = "command" => pc \in {"select", "read", "wait"}
  /\ worker \in {"result", "done"} => pc = "done"
  /\ gen = "new" <=> worker = "none"
  /\ pc = "start" => queue = <<>> /\ given = NoResult

LEMMA ParsePhases ==
  ASSUME NEW line, Parse(line)
  PROVE  /\ worker' \in {worker, "died"}
         /\ UNCHANGED <<gen, lastRes, given>>
  BY DEF Parse, Die, threadVars

LEMMA NextPhases == Typed /\ Phases /\ [Next]_vars => Phases'
  <1> SUFFICES ASSUME Typed, Phases, [Next]_vars PROVE Phases'
    OBVIOUS
  <1> USE DEF Phases, child, locals, clock
  <1>1. CASE Environment /\ UNCHANGED threadVars
    <2>1. UNCHANGED <<attached, pc, gen, worker, queue, given>>
      BY <1>1 DEF Environment, Write, CloseStream, Exit, Expire, threadVars
    <2>2. process' = process \/ (process = "running" /\ process' = "exited")
      BY <1>1 DEF Environment, Write, CloseStream, Exit, Expire
    <2>3. QED BY <2>1, <2>2
  <1>2. CASE Loop
    BY <1>2 DEF Loop, Select, Fill, EndTurn, threadVars, Typed, CommandTypeOK
  <1>3. ASSUME NEW s \in Stream, Deliver(s)
        PROVE  Phases'
    <2>1. PICK n \in 0..Len(buffer[s]) : ReadLine(s, n) /\ Parse(SubSeq(buffer[s], 1, n))
      BY <1>3 DEF Deliver
    <2>2. worker = "command" /\ pc = "read" /\ UNCHANGED <<attached, pc, process>>
      BY <1>3, <2>1 DEF Deliver, ReadLine
    <2>3. QED BY <2>1, <2>2, ParsePhases
  <1>4. CASE Begin \/ Finish
    BY <1>4 DEF Begin, Popen, Finish, Wait, Exited
  <1>5. CASE BeginRaise \/ PutResult \/ ResultRaise
    BY <1>5 DEF BeginRaise, PutResult, ResultRaise, Die, commandVars
  <1>6. CASE GetSolutions \/ Receive \/ Resume \/ Abandon \/ TestProcess \/ Join
    BY <1>6 DEF GetSolutions, Receive, Resume, Abandon, TestProcess, Join, commandVars, Typed, ThreadsOK
  <1>7. CASE Kill
    BY <1>7 DEF Kill
  <1>8. CASE UNCHANGED vars
    BY <1>8 DEF vars, commandVars, threadVars
  <1>9. QED BY <1>1, <1>2, <1>3, <1>4, <1>5, <1>6, <1>7, <1>8 DEF Next, Worker, Generator
-----------------------------------------------------------------------------
(* Delivery. *)

Drained(s) == buffer[s] = <<>> /\ pipe[s] = <<>> /\ ~open[s]

\* A stream from which the last read took nothing is at its end.
TurnDrained == pc = "read" => \A s \in ready \ Range(reading) : lastRed[s] \/ Drained(s)

Delivery == TurnDrained /\ AllDelivered

LEMMA TailRange ==
  ASSUME NEW S, NEW q \in Seq(S), q # <<>>
  PROVE  Range(q) \subseteq Range(Tail(q)) \union {Head(q)}
  <1>1. \A i \in 2..Len(q) : Tail(q)[i - 1] = q[i] /\ i - 1 \in DOMAIN Tail(q)
    OBVIOUS
  <1>2. \A i \in DOMAIN q : i = 1 \/ i \in 2..Len(q)
    OBVIOUS
  <1>3. SUFFICES ASSUME NEW i \in DOMAIN q
               PROVE  q[i] \in Range(Tail(q)) \union {Head(q)}
    BY DEF Range
  <1>4. CASE i = 1
    BY <1>4
  <1>5. CASE i \in 2..Len(q)
    BY <1>1, <1>5 DEF Range
  <1>6. QED BY <1>2, <1>4, <1>5

\* What nobody writes to stays drained.
LEMMA DrainedStays ==
  ASSUME Environment, NEW s \in Stream, Typed, Drained(s)
  PROVE  Drained(s)'
  BY DEF Environment, Write, CloseStream, Exit, Expire, All, Drained, child, locals, Typed, CommandTypeOK

LEMMA NextDelivery == Typed /\ Typed' /\ Phases /\ Delivery /\ [Next]_vars => Delivery'
  <1> SUFFICES ASSUME Typed, Typed', Phases, Delivery, [Next]_vars PROVE Delivery'
    OBVIOUS
  <1> USE DEF Delivery, TurnDrained, AllDelivered, child, locals, clock
  <1>1. CASE Environment /\ UNCHANGED threadVars
    <2>1. UNCHANGED <<pc, ready, reading, lastRed, timedOut>>
      BY <1>1 DEF Environment, Write, CloseStream, Exit, Expire
    <2>2. ready \subseteq Stream
      BY DEF Typed, CommandTypeOK
    <2>3. QED BY <1>1, <2>1, <2>2, DrainedStays DEF Drained
  <1>2. CASE Select
    <2>1. Range(reading') = ready'
      BY <1>2, InTurnType DEF Select, Readable
    <2>2. QED BY <1>2, <2>1 DEF Select
  <1>3. CASE Fill
    <2>1. \A s \in Stream : Drained(s) => Drained(s)'
      BY <1>3 DEF Fill, Drained, Typed, CommandTypeOK
    <2>2. QED BY <1>3, <2>1 DEF Fill, Typed, CommandTypeOK
  <1>4. CASE EndTurn
    <2>1. Range(reading) = {}
      BY <1>4 DEF EndTurn, Range
    <2>2. pc' = "wait" /\ ~timedOut => \A s \in Stream : Drained(s)
      BY <1>4, <2>1 DEF EndTurn, NothingLeft, Stream
    <2>3. pc' \in {"wait", "select"}
      BY <1>4 DEF EndTurn
    <2>4. QED BY <1>4, <2>2, <2>3 DEF EndTurn, Drained
  <1>5. ASSUME NEW s \in Stream, Deliver(s)
        PROVE  Delivery'
    <2>1. PICK n \in 0..Len(buffer[s]) : ReadLine(s, n)
      BY <1>5 DEF Deliver
    <2>2. n = 0 => Drained(s)
      <3>1. HasLine(buffer[s]) => n # 0
        BY <2>1 DEF ReadLine, IsNextLine, Typed, CommandTypeOK
      <3>2. ~HasLine(buffer[s]) => AtEnd(s) /\ n = Len(buffer[s])
        BY <2>1 DEF ReadLine, IsNextLine
      <3>3. QED BY <3>1, <3>2 DEF AtEnd, Drained, Typed, CommandTypeOK
    <2>3. Range(reading) \subseteq Range(reading') \union {s}
      BY <2>1, TailRange DEF ReadLine, Typed, CommandTypeOK
    <2>4. \A r \in Stream : Drained(r) => Drained(r)'
      <3> SUFFICES ASSUME NEW r \in Stream, Drained(r) PROVE Drained(r)'
        OBVIOUS
      <3>1. UNCHANGED <<pipe, open>>
        BY <2>1 DEF ReadLine
      <3>2. buffer' = [buffer EXCEPT ![s] = SubSeq(@, n + 1, Len(@))] /\ DOMAIN buffer = Stream
        BY <2>1 DEF ReadLine, Typed, CommandTypeOK
      <3>3. r = s => n = 0 /\ SubSeq(buffer[s], n + 1, Len(buffer[s])) = <<>>
        BY DEF Drained
      <3>4. QED BY <3>1, <3>2, <3>3 DEF Drained
    <2>5. \A r \in ready \ Range(reading') : lastRed'[r] \/ Drained(r)'
      BY <2>1, <2>2, <2>3, <2>4 DEF ReadLine, Typed, CommandTypeOK
    <2>6. QED BY <2>1, <2>5 DEF ReadLine
  <1>6. CASE Begin \/ Finish
    BY <1>6 DEF Begin, Popen, Finish, Wait
  <1>7. CASE BeginRaise \/ PutResult \/ ResultRaise \/ GetSolutions \/ Receive \/ Resume \/ Abandon \/ TestProcess \/ Join
    BY <1>7 DEF BeginRaise, PutResult, ResultRaise, GetSolutions, Receive, Resume, Abandon, TestProcess, Join, commandVars, Drained
  <1>8. CASE Kill
    BY <1>8 DEF Kill, Drained
  <1>9. CASE UNCHANGED vars
    BY <1>9 DEF vars, commandVars, Drained
  <1>10. QED BY <1>1, <1>2, <1>3, <1>4, <1>5, <1>6, <1>7, <1>8, <1>9 DEF Next, Worker, Generator, Loop

\* When the command returns without a timeout, all the planner printed was
\* handed to the Writer, whatever it printed and on which stream.
THEOREM Delivered == Spec => []AllDelivered
  <1>1. Init => Phases /\ Delivery
    BY DEF Init, CommandInit, Phases, Delivery, TurnDrained, AllDelivered
  <1>2. Typed /\ Typed' /\ Phases /\ Delivery /\ [Next]_vars => Phases' /\ Delivery'
    BY NextPhases, NextDelivery
  <1>3. Delivery => AllDelivered
    BY DEF Delivery
  <1>4. Spec => [](Phases /\ Delivery)
    BY InitTyped, NextTyped, <1>1, <1>2, PTL DEF Spec
  <1>5. QED BY <1>3, <1>4, PTL
-----------------------------------------------------------------------------
(* Leaving. *)

\* From the end of the finally block on, the planner was told to stop.
Stopping ==
  gen \in {"join", "closed", "raised"} /\ given # NoResult => process # "running" \/ signalled

LEMMA NextStopping == Typed /\ Phases /\ Stopping /\ [Next]_vars => Stopping'
  <1> SUFFICES ASSUME Typed, Phases, Stopping, [Next]_vars PROVE Stopping'
    OBVIOUS
  <1> USE DEF Stopping, child, locals, clock
  <1>1. CASE Environment /\ UNCHANGED threadVars
    BY <1>1 DEF Environment, Write, CloseStream, Exit, Expire, threadVars
  <1>2. CASE Loop
    BY <1>2 DEF Loop, Select, Terminate, Fill, EndTurn, threadVars
  <1>3. ASSUME NEW s \in Stream, Deliver(s)
        PROVE  Stopping'
    <2>1. PICK n \in 0..Len(buffer[s]) : ReadLine(s, n) /\ Parse(SubSeq(buffer[s], 1, n))
      BY <1>3 DEF Deliver
    <2>2. UNCHANGED <<process, signalled>>
      BY <2>1 DEF ReadLine
    <2>3. QED BY <2>1, <2>2, ParsePhases
  <1>4. CASE Begin \/ Finish
    BY <1>4 DEF Begin, Popen, Finish, Wait, Phases
  <1>5. CASE BeginRaise \/ PutResult \/ ResultRaise
    BY <1>5 DEF BeginRaise, PutResult, ResultRaise, Die, commandVars
  <1>6. CASE GetSolutions \/ Receive \/ Resume \/ Abandon \/ Join
    BY <1>6 DEF GetSolutions, Receive, Resume, Abandon, Join, commandVars
  <1>7. CASE TestProcess
    <2>1. ~attached /\ given # NoResult => process = "exited"
      BY DEF Phases, Typed, CommandTypeOK
    <2>2. QED BY <1>7, <2>1 DEF TestProcess, ShouldKill, commandVars
  <1>8. CASE Kill
    <2>1. ~attached /\ given # NoResult => process = "exited"
      BY DEF Phases, Typed, CommandTypeOK
    <2>2. QED BY <1>8, <2>1 DEF Kill, Terminate
  <1>9. CASE UNCHANGED vars
    BY <1>9 DEF vars, commandVars, threadVars
  <1>10. QED BY <1>1, <1>2, <1>3, <1>4, <1>5, <1>6, <1>7, <1>8, <1>9 DEF Next, Worker, Generator

\* A caller that leaves the generator after a first result leaves no planner
\* running that was not told to stop, at whatever point of the planner's run
\* and of the worker's the process attribute is read, once or twice.
THEOREM LeavesNoOrphan == Spec => []NoOrphan
  <1>1. Init => Phases /\ Stopping
    BY DEF Init, CommandInit, Phases, Stopping
  <1>2. Stopping => NoOrphan
    BY DEF Stopping, NoOrphan
  <1>3. Spec => [](Phases /\ Stopping)
    BY InitTyped, NextTyped, NextPhases, NextStopping, <1>1, PTL DEF Spec
  <1>4. QED BY <1>2, <1>3, PTL
-----------------------------------------------------------------------------
(* Plans. *)

QueuedPlans == \A i \in DOMAIN queue : queue[i].status = "INTERMEDIATE" => queue[i].plan # NoPlan
LastPlan == lastRes # NoResult => lastRes.plan # NoPlan

Plans == QueuedPlans /\ LastPlan /\ FinalKeepsPlan

\* What is put on the queue is final, or comes with a plan.
LEMMA AppendPlans ==
  ASSUME Typed, QueuedPlans, NEW res, queue' = Append(queue, res),
         res.status = "INTERMEDIATE" => res.plan # NoPlan
  PROVE  QueuedPlans'
  <1>1. queue \in Seq(Results)
    BY DEF Typed, ResultsOK
  <1>2. \A i \in DOMAIN queue' : queue'[i] = res \/ (i \in DOMAIN queue /\ queue'[i] = queue[i])
    BY <1>1
  <1>3. QED BY <1>2 DEF QueuedPlans

LEMMA NextPlans == Typed /\ Plans /\ [Next]_vars => Plans'
  <1> SUFFICES ASSUME Typed, Plans, [Next]_vars PROVE Plans'
    OBVIOUS
  <1> USE DEF Plans
  <1>1. CASE UNCHANGED threadVars
    BY <1>1 DEF threadVars, QueuedPlans, LastPlan, FinalKeepsPlan
  <1>2. ASSUME NEW s \in Stream, Deliver(s)
        PROVE  Plans'
    <2>1. PICK n \in 0..Len(buffer[s]) : Parse(SubSeq(buffer[s], 1, n))
      BY <1>2 DEF Deliver
    <2>2. UNCHANGED <<gen, lastRes, given>>
      BY <2>1, ParsePhases
    <2>3. QueuedPlans'
      <3>1. CASE UNCHANGED queue
        BY <3>1 DEF QueuedPlans
      <3>2. CASE /\ \A i \in DOMAIN current : current[i] = "body"
                 /\ queue' = Append(queue, Intermediate(current))
        <4>1. current \in Seq({"body"})
          BY <3>2 DEF Typed, ThreadsOK
        <4>2. current # NoPlan
          BY <4>1, NoPlanAssumption
        <4>3. QED BY <3>2, <4>2, AppendPlans DEF Intermediate, Result
      <3>3. QED BY <2>1, <3>1, <3>2 DEF Parse, Die, threadVars
    <2>4. QED BY <2>2, <2>3 DEF LastPlan, FinalKeepsPlan
  <1>3. CASE PutResult
    <2>1. PICK plan \in {"file", NoPlan}, status \in Final \ {"TIMEOUT"}, tooFine \in BOOLEAN, failed \in BOOLEAN :
            queue' = Append(queue, IF timedOut /\ failed THEN Result("TIMEOUT", plan)
                                   ELSE Corrected(Result(status, plan), tooFine))
      BY <1>3 DEF PutResult
    <2>2. Corrected(Result(status, plan), tooFine).status # "INTERMEDIATE"
      BY DEF Corrected, Result, Final, Positive, Unsolvable
    <2>3. QueuedPlans'
      BY <2>1, <2>2, AppendPlans DEF Result
    <2>4. QED BY <1>3, <2>3 DEF PutResult, LastPlan, FinalKeepsPlan
  <1>4. CASE Receive
    <2>1. Head(queue) = queue[1] /\ 1 \in DOMAIN queue
      BY <1>4 DEF Receive, Typed, ResultsOK
    <2>2. QueuedPlans'
      <3>1. \A i \in DOMAIN Tail(queue) : i + 1 \in DOMAIN queue /\ Tail(queue)[i] = queue[i + 1]
        BY <1>4 DEF Receive, Typed, ResultsOK
      <3>2. QED BY <1>4, <3>1 DEF Receive, QueuedPlans
    <2>3. LastPlan'
      BY <1>4, <2>1 DEF Receive, QueuedPlans, LastPlan
    <2>4. CASE Head(queue).status = "INTERMEDIATE"
      <3>1. given'.status \notin Final
        BY <1>4, <2>4 DEF Receive, Final, Positive, Unsolvable
      <3>2. QED BY <2>2, <2>3, <3>1 DEF FinalKeepsPlan
    <2>5. CASE Head(queue).status # "INTERMEDIATE"
      <3>1. lastRes # NoResult => LastResult(Head(queue)).plan # NoPlan
        BY DEF LastResult, Result, LastPlan
      <3>2. QED BY <1>4, <2>2, <2>3, <2>5, <3>1 DEF Receive, FinalKeepsPlan
    <2>6. QED BY <2>4, <2>5
  <1>5. CASE Begin \/ Finish \/ BeginRaise \/ ResultRaise
    BY <1>5 DEF Begin, Finish, BeginRaise, ResultRaise, Die, QueuedPlans, LastPlan, FinalKeepsPlan
  <1>6. CASE GetSolutions \/ Resume \/ Abandon \/ TestProcess \/ Kill \/ Join
    BY <1>6 DEF GetSolutions, Resume, Abandon, TestProcess, Kill, Join, QueuedPlans, LastPlan, FinalKeepsPlan, Typed, ThreadsOK
  <1>7. QED BY <1>1, <1>2, <1>3, <1>4, <1>5, <1>6 DEF Next, Worker, Generator, Loop, vars

\* A caller that was given a plan is given one with the final result too,
\* however the planner's last result is corrected or replaced.
THEOREM KeepsPlan == Spec => []FinalKeepsPlan
  <1>1. Init => Plans
    BY DEF Init, Plans, QueuedPlans, LastPlan, FinalKeepsPlan
  <1>2. Plans => FinalKeepsPlan
    BY DEF Plans
  <1>3. Spec => []Plans
    BY InitTyped, NextTyped, NextPlans, <1>1, PTL DEF Spec
  <1>4. QED BY <1>2, <1>3, PTL
=============================================================================
