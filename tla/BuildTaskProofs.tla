-------------------------- MODULE BuildTaskProofs --------------------------
(***************************************************************************)
(* What a browser gets of a build's log, for any number of connections that*)
(* stream and fetch it while the task goes on: no line twice, and the whole*)
(* log once the task has ended.                                            *)
(***************************************************************************)
EXTENDS BuildTask, TLAPS

Past     == {"storing", "storing done", "ended"}
Replayed == {"state", "subscribe", "check", "loop"}

\* How far the goroutine is: it logs before it stores the end.
Progress ==
  /\ work = "none" <=> state = "none"
  /\ work \in {"run", "logged"} => state = "running"
  /\ work \in {"storing", "storing done"} => state = "torn"
  /\ work \in {"none", "run"} => logs = 0
  /\ logs = 0 => fanout = {} /\ ch = {} /\ \A r \in Readers : lines[r] = 0

\* A line on its way to a stream is not yet in what the stream was sent, and
\* before it subscribes no line is on its way.
OnItsWay ==
  \A r \in Readers :
    /\ r \in subs => pc[r] \in {"check", "loop"}
    /\ pc[r] \in {"replay", "state", "subscribe"} => r \notin ch \cup fanout
    /\ pc[r] = "replay" => lines[r] = 0
    /\ pc[r] \in {"check", "loop"} =>
         /\ r \in ch => r \notin fanout /\ lines[r] = 0
         /\ r \in fanout => lines[r] = 0

\* A connection that began after the end is sent the log by the replay.
LateStreams ==
  \A r \in Readers :
    /\ pc[r] # "closed" => done[r] = "none"
    /\ r \in late => work = "ended" /\ r \notin ch
    /\ r \in late /\ (pc[r] \in Replayed \/ done[r] # "none") =>
         lines[r] = logs

\* A page whose state is not "running" was begun when the log was written.
Pages ==
  \A r \in Readers :
    /\ pc[r] \in {"logs", "page"} /\ shown[r] # "running" => work \in Past
    /\ pc[r] = "page" /\ shown[r] # "running" => lines[r] = logs

LogInv ==
  TypeOK /\ NoLineTwice /\ Progress /\ OnItsWay /\ LateStreams /\ Pages

----------------------------------------------------------------------------
LEMMA LogInit == Init => LogInv
  BY DEF Init, LogInv, TypeOK, NoLineTwice, Progress, OnItsWay, LateStreams,
         Pages, Past, Replayed, States, Final

\* The goroutine's own steps.
LEMMA WorkStep ==
  ASSUME LogInv, Register \/ FailTask \/ Append \/ SetResult
  PROVE  LogInv'
<1> USE DEF LogInv
<1>1. CASE Register \/ FailTask
  <2>1. TypeOK' /\ NoLineTwice'
    BY <1>1 DEF Register, FailTask, TypeOK, NoLineTwice, States, Final
  <2>2. Progress' /\ OnItsWay'
    BY <1>1 DEF Register, FailTask, Progress, OnItsWay
  <2>3. LateStreams' /\ Pages'
    BY <1>1 DEF Register, FailTask, LateStreams, Pages, Past
  <2> QED
    BY <2>1, <2>2, <2>3
<1>2. CASE Append
  <2>1. TypeOK' /\ NoLineTwice'
    BY <1>2 DEF Append, TypeOK, NoLineTwice
  <2>2. Progress' /\ OnItsWay'
    BY <1>2 DEF Append, TypeOK, Progress, OnItsWay
  <2>3. LateStreams' /\ Pages'
    BY <1>2 DEF Append, LateStreams, Pages, Past
  <2> QED
    BY <2>1, <2>2, <2>3
<1>3. CASE SetResult
  <2>1. TypeOK' /\ NoLineTwice'
    BY <1>3 DEF SetResult, TypeOK, NoLineTwice, States, Final
  <2>2. Progress' /\ OnItsWay'
    BY <1>3 DEF SetResult, TypeOK, Progress, OnItsWay, Final
  <2>3. LateStreams' /\ Pages'
    BY <1>3 DEF SetResult, LateStreams, Pages, Past
  <2> QED
    BY <2>1, <2>2, <2>3
<1> QED
  BY <1>1, <1>2, <1>3

\* The steps of a connection.
LEMMA ReaderStep ==
  ASSUME LogInv, NEW r \in Readers,
         Offer(r) \/ Open(r) \/ StreamStep(r) \/ Disconnect(r)
           \/ GetState(r) \/ GetLogs(r) \/ Leave(r)
  PROVE  LogInv'
<1> USE DEF LogInv
<1>0. lines \in [Readers -> Nat] /\ logs \in {0, 1} /\ NoLineTwice
  BY DEF TypeOK
<1>1. CASE Offer(r)
  BY <1>1
     DEF Offer, TypeOK, NoLineTwice, Progress, OnItsWay, LateStreams, Pages
<1>2. CASE Open(r)
  <2>1. lines' = [lines EXCEPT ![r] = 0]
    BY <1>2 DEF Open, Goto
  <2>2. lines' \in [Readers -> Nat] /\ NoLineTwice'
    BY <1>0, <2>1 DEF NoLineTwice
  <2>3. TypeOK'
    BY <1>2, <2>1, <2>2 DEF Open, Goto, TypeOK, States
  <2>4. Progress'
    BY <1>2, <2>1, <2>2 DEF Open, Goto, TypeOK, Progress
  <2>5. OnItsWay'
    BY <1>2, <2>1, <2>2 DEF Open, Goto, TypeOK, OnItsWay
  <2>6. LateStreams'
    BY <1>2, <2>1, <2>2
       DEF Open, Goto,
           TypeOK, LateStreams, Progress, Replayed, Final
  <2>7. Pages'
    BY <1>2, <2>1, <2>2
       DEF Open, Goto,
           TypeOK, Pages, Progress, Past, States, Final
  <2> QED
    BY <2>2, <2>3, <2>4, <2>5, <2>6, <2>7
<1>3. CASE Replay(r)
  <2>1. lines[r] = 0 /\ lines' = [lines EXCEPT ![r] = logs]
    <3>1. pc[r] = "replay" /\ lines' = [lines EXCEPT ![r] = @ + logs]
      BY <1>3 DEF Replay
    <3>2. lines[r] = 0
      BY <3>1 DEF OnItsWay
    <3> QED
      BY <1>0, <3>1, <3>2
  <2>2. lines' \in [Readers -> Nat] /\ NoLineTwice'
    BY <1>0, <2>1 DEF NoLineTwice
  <2>3. TypeOK'
    BY <1>3, <2>1, <2>2 DEF Replay, Goto, taskVars, TypeOK, States
  <2>4. Progress'
    BY <1>3, <2>1, <2>2 DEF Replay, Goto, taskVars, TypeOK, Progress
  <2>5. OnItsWay'
    BY <1>3, <2>1, <2>2 DEF Replay, Goto, taskVars, TypeOK, OnItsWay
  <2>6. LateStreams'
    BY <1>3, <2>1, <2>2
       DEF Replay, Goto, taskVars,
           TypeOK, LateStreams, Progress, Replayed, Final
  <2>7. Pages'
    BY <1>3, <2>1, <2>2
       DEF Replay, Goto, taskVars,
           TypeOK, Pages, Progress, Past, States, Final
  <2> QED
    BY <2>2, <2>3, <2>4, <2>5, <2>6, <2>7
<1>4. CASE SendState(r) \/ Subscribe(r)
  <2>1. lines' = lines
    BY <1>4 DEF SendState, Subscribe, Goto, taskVars
  <2>2. lines' \in [Readers -> Nat] /\ NoLineTwice'
    BY <1>0, <2>1 DEF NoLineTwice
  <2>3. TypeOK'
    BY <1>4, <2>1, <2>2 DEF SendState, Subscribe, Goto, taskVars, TypeOK, States
  <2>4. Progress'
    BY <1>4, <2>1, <2>2
       DEF SendState, Subscribe, Goto, taskVars,
           TypeOK, Progress
  <2>5. OnItsWay'
    BY <1>4, <2>1, <2>2
       DEF SendState, Subscribe, Goto, taskVars,
           TypeOK, OnItsWay
  <2>6. LateStreams'
    BY <1>4, <2>1, <2>2
       DEF SendState, Subscribe, Goto, taskVars,
           TypeOK, LateStreams, Progress, Replayed, Final
  <2>7. Pages'
    BY <1>4, <2>1, <2>2
       DEF SendState, Subscribe, Goto, taskVars,
           TypeOK, Pages, Progress, Past, States, Final
  <2> QED
    BY <2>2, <2>3, <2>4, <2>5, <2>6, <2>7
<1>5. CASE Check(r)
  <2>1. lines' = lines
    BY <1>5 DEF Check, SendDone, StayOpen, Goto, taskVars
  <2>2. lines' \in [Readers -> Nat] /\ NoLineTwice'
    BY <1>0, <2>1 DEF NoLineTwice
  <2>3. TypeOK'
    <3>1. CASE SendDone(r)
      BY <2>1, <2>2, <3>1 DEF SendDone, Goto, taskVars, TypeOK
    <3>2. CASE StayOpen(r)
      BY <2>1, <2>2, <3>2 DEF StayOpen, Goto, taskVars, TypeOK
    <3> QED
      BY <1>5, <3>1, <3>2 DEF Check
  <2>4. Progress'
    BY <1>5, <2>1, <2>2
       DEF Check, SendDone, StayOpen, Goto, taskVars,
           TypeOK, Progress
  <2>5. OnItsWay'
    BY <1>5, <2>1, <2>2
       DEF Check, SendDone, StayOpen, Goto, taskVars,
           TypeOK, OnItsWay
  <2>6. LateStreams'
    BY <1>5, <2>1, <2>2
       DEF Check, SendDone, StayOpen, Goto, taskVars,
           TypeOK, LateStreams, Progress, Replayed, Final
  <2>7. Pages'
    BY <1>5, <2>1, <2>2
       DEF Check, SendDone, StayOpen, Goto, taskVars,
           TypeOK, Pages, Progress, Past, States, Final
  <2> QED
    BY <2>2, <2>3, <2>4, <2>5, <2>6, <2>7
<1>6. CASE Take(r)
  <2>1. /\ lines[r] = 0 /\ logs = 1 /\ r \notin late /\ r \notin fanout
        /\ lines' = [lines EXCEPT ![r] = 1]
    <3>1. /\ pc[r] = "loop" /\ r \in ch
          /\ lines' = [lines EXCEPT ![r] = @ + 1]
      BY <1>6 DEF Take
    <3>2. lines[r] = 0 /\ r \notin fanout /\ r \notin late
      BY <3>1 DEF OnItsWay, LateStreams
    <3>3. logs = 1
      BY <1>0, <3>1 DEF Progress
    <3> QED
      BY <1>0, <3>1, <3>2, <3>3
  <2>2. lines' \in [Readers -> Nat] /\ NoLineTwice'
    BY <1>0, <2>1 DEF NoLineTwice
  <2>3. TypeOK'
    BY <1>6, <2>1, <2>2 DEF Take, Goto, taskVars, TypeOK, States
  <2>4. Progress'
    BY <1>6, <2>1, <2>2 DEF Take, Goto, taskVars, TypeOK, Progress
  <2>5. OnItsWay'
    BY <1>6, <2>1, <2>2 DEF Take, Goto, taskVars, TypeOK, OnItsWay
  <2>6. LateStreams'
    BY <1>6, <2>1, <2>2
       DEF Take, Goto, taskVars,
           TypeOK, LateStreams, Progress, Replayed, Final
  <2>7. Pages'
    BY <1>6, <2>1, <2>2
       DEF Take, Goto, taskVars,
           TypeOK, Pages, Progress, Past, States, Final
  <2> QED
    BY <2>2, <2>3, <2>4, <2>5, <2>6, <2>7
<1>7. CASE Disconnect(r) \/ Leave(r)
  <2>1. lines' = lines
    BY <1>7 DEF Disconnect, Leave, Goto, taskVars
  <2>2. lines' \in [Readers -> Nat] /\ NoLineTwice'
    BY <1>0, <2>1 DEF NoLineTwice
  <2>3. TypeOK'
    BY <1>7, <2>1, <2>2 DEF Disconnect, Leave, Goto, taskVars, TypeOK, States
  <2>4. Progress'
    BY <1>7, <2>1, <2>2 DEF Disconnect, Leave, Goto, taskVars, TypeOK, Progress
  <2>5. OnItsWay'
    BY <1>7, <2>1, <2>2 DEF Disconnect, Leave, Goto, taskVars, TypeOK, OnItsWay
  <2>6. LateStreams'
    BY <1>7, <2>1, <2>2
       DEF Disconnect, Leave, Goto, taskVars,
           TypeOK, LateStreams, Progress, Replayed, Final
  <2>7. Pages'
    BY <1>7, <2>1, <2>2
       DEF Disconnect, Leave, Goto, taskVars,
           TypeOK, Pages, Progress, Past, States, Final
  <2> QED
    BY <2>2, <2>3, <2>4, <2>5, <2>6, <2>7
<1>8. CASE GetState(r)
  <2>1. lines' = [lines EXCEPT ![r] = 0]
    BY <1>8 DEF GetState, Goto, taskVars
  <2>2. lines' \in [Readers -> Nat] /\ NoLineTwice'
    BY <1>0, <2>1 DEF NoLineTwice
  <2>3. TypeOK'
    BY <1>8, <2>1, <2>2 DEF GetState, Goto, taskVars, TypeOK, States
  <2>4. Progress'
    BY <1>8, <2>1, <2>2 DEF GetState, Goto, taskVars, TypeOK, Progress
  <2>5. OnItsWay'
    BY <1>8, <2>1, <2>2 DEF GetState, Goto, taskVars, TypeOK, OnItsWay
  <2>6. LateStreams'
    BY <1>8, <2>1, <2>2
       DEF GetState, Goto, taskVars,
           TypeOK, LateStreams, Progress, Replayed, Final
  <2>7. Pages'
    BY <1>8, <2>1, <2>2
       DEF GetState, Goto, taskVars,
           TypeOK, Pages, Progress, Past, States, Final
  <2> QED
    BY <2>2, <2>3, <2>4, <2>5, <2>6, <2>7
<1>9. CASE GetLogs(r)
  <2>1. lines' = [lines EXCEPT ![r] = logs]
    BY <1>9 DEF GetLogs, Goto, taskVars
  <2>2. lines' \in [Readers -> Nat] /\ NoLineTwice'
    BY <1>0, <2>1 DEF NoLineTwice
  <2>3. TypeOK'
    BY <1>9, <2>1, <2>2 DEF GetLogs, Goto, taskVars, TypeOK, States
  <2>4. Progress'
    BY <1>9, <2>1, <2>2 DEF GetLogs, Goto, taskVars, TypeOK, Progress
  <2>5. OnItsWay'
    BY <1>9, <2>1, <2>2 DEF GetLogs, Goto, taskVars, TypeOK, OnItsWay
  <2>6. LateStreams'
    BY <1>9, <2>1, <2>2
       DEF GetLogs, Goto, taskVars,
           TypeOK, LateStreams, Progress, Replayed, Final
  <2>7. Pages'
    BY <1>9, <2>1, <2>2
       DEF GetLogs, Goto, taskVars,
           TypeOK, Pages, Progress, Past, States, Final
  <2> QED
    BY <2>2, <2>3, <2>4, <2>5, <2>6, <2>7
<1> QED
  BY <1>1, <1>2, <1>3, <1>4, <1>5, <1>6, <1>7, <1>8, <1>9 DEF StreamStep

LEMMA LogStep == LogInv /\ [Next]_vars => LogInv'
<1>1. LogInv /\ UNCHANGED vars => LogInv'
  BY DEF vars, LogInv, TypeOK, NoLineTwice, Progress, OnItsWay, LateStreams,
         Pages
<1> QED
  BY <1>1, WorkStep, ReaderStep DEF Next

\* None of this needs the fairness.
LEMMA LogAlways == Init /\ [][Next]_vars => []LogInv
  BY LogInit, LogStep, PTL

LEMMA LogPromises ==
  LogInv => NoLineTwice /\ LateStreamComplete /\ PageIsComplete
  BY DEF LogInv, LateStreams, Pages, TypeOK, LateStreamComplete,
         PageIsComplete

----------------------------------------------------------------------------
\* The variables of a build task and its connections keep their types.
THEOREM LogTypeCorrect == Spec => []TypeOK
<1>1. LogInv => TypeOK
  BY DEF LogInv
<1> QED
  BY LogAlways, <1>1, PTL DEF Spec

\* The line of a task reaches a connection from the snapshot or from its
\* channel, never from both.
THEOREM NoLineComesTwice == Spec => []NoLineTwice
  BY LogAlways, LogPromises, PTL DEF Spec

\* A stream that was opened after the end has the whole log when it is done.
THEOREM LateStreamsAreComplete == Spec => []LateStreamComplete
  BY LogAlways, LogPromises, PTL DEF Spec

\* A page that shows an end shows the whole log.
THEOREM PagesAreComplete == Spec => []PageIsComplete
  BY LogAlways, LogPromises, PTL DEF Spec

----------------------------------------------------------------------------
(* What LateStreamEnds and StreamsEnd rest on, apart from fairness *)

\* A stream opened after the end never waits in the loop, where only a line or
\* the client could free it, and its last event names an end, not half of one.
GoesStraight ==
  \A r \in Readers :
    r \in late => pc[r] # "loop" /\ done[r] \in Final \cup {"none"}

\* What makes it so: what began after the end is after the end.
StraightInv == GoesStraight /\ (late # {} => state \in Final)

\* An end is never taken back, and nothing is logged after it.
EndStands == state \in Final => UNCHANGED <<state, logs>>

LEMMA EndedStep == LogInv /\ [Next]_vars => EndStands
<1> SUFFICES ASSUME LogInv, [Next]_vars, state \in Final
             PROVE  UNCHANGED <<state, logs>>
  BY DEF EndStands
<1>1. work = "ended"
  BY DEF LogInv, Progress, TypeOK, Final
<1> QED
  BY <1>1
     DEF Next, Register, FailTask, Append, SetResult, Offer, Open, StreamStep,
         Replay, SendState, Subscribe, Check, SendDone, StayOpen, Take,
         Disconnect, GetState, GetLogs, Leave, taskVars, vars

LEMMA StraightStep ==
  LogInv /\ StraightInv /\ [Next]_vars => StraightInv'
<1> SUFFICES ASSUME LogInv, StraightInv, [Next]_vars PROVE StraightInv'
  OBVIOUS
<1>1. TypeOK /\ GoesStraight /\ (late # {} => state \in Final)
  BY DEF LogInv, StraightInv
<1>2. state \in Final => state' = state
  BY EndedStep DEF EndStands
<1>3. CASE Register \/ FailTask \/ Append \/ SetResult \/ UNCHANGED vars
  BY <1>1, <1>2, <1>3
     DEF Register, FailTask, Append, SetResult, vars, StraightInv, GoesStraight
<1>4. ASSUME NEW r \in Readers, Open(r) PROVE StraightInv'
  BY <1>1, <1>2, <1>4 DEF Open, Goto, StraightInv, GoesStraight, TypeOK, Final
<1>5. ASSUME NEW r \in Readers, Check(r) PROVE StraightInv'
  BY <1>1, <1>2, <1>5
     DEF Check, SendDone, StayOpen, Goto, taskVars, StraightInv, GoesStraight,
         TypeOK, Final
<1>6. ASSUME NEW r \in Readers,
             \/ Offer(r) \/ Replay(r) \/ SendState(r) \/ Subscribe(r)
             \/ Take(r) \/ Disconnect(r)
      PROVE  StraightInv'
  BY <1>1, <1>2, <1>6
     DEF Offer, Replay, SendState, Subscribe, Take, Disconnect, Goto, taskVars,
         StraightInv, GoesStraight, TypeOK
<1>7. ASSUME NEW r \in Readers, GetState(r) \/ GetLogs(r) \/ Leave(r)
      PROVE  StraightInv'
  BY <1>1, <1>2, <1>7
     DEF GetState, GetLogs, Leave, Goto, taskVars, StraightInv, GoesStraight,
         TypeOK
<1> QED
  BY <1>3, <1>4, <1>5, <1>6, <1>7 DEF Next, StreamStep

\* Streams that begin after the end go from the replay to their done event
\* without a wait, and show an end there: what LateStreamEnds asks for once
\* the handler takes its steps.
THEOREM LateStreamsGoStraight == Spec => []GoesStraight
<1>1. Init => StraightInv
  BY DEF Init, StraightInv, GoesStraight
<1>2. StraightInv => GoesStraight
  BY DEF StraightInv
<1> QED
  BY LogAlways, StraightStep, <1>1, <1>2, PTL DEF Spec

\* A build task ends once: no later step changes its end or adds to its log.
THEOREM EndsStand == Spec => [][EndStands]_vars
  BY LogAlways, EndedStep, PTL DEF Spec
=============================================================================
