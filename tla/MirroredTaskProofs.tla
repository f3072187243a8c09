------------------------- MODULE MirroredTaskProofs -------------------------
(***************************************************************************)
(* The wait for a jjlab task and the build task it leaves behind, for any  *)
(* caller, any connections and under every fault: reports are true, and so *)
(* is what a browser is shown; step by step the build task does what       *)
(* BuildTask allows, and so keeps its promises.                            *)
(***************************************************************************)
EXTENDS MirroredTask, Naturals, TLAPS

LogProofs == INSTANCE BuildTaskProofs WITH pc <- reader

\* A final status that was polled is still the task's.
Polled ==
  \A c \in Callers :
    /\ seen[c] \in Ends => status[c] = seen[c]
    /\ pc[c] \in {"start", "submit"} => seen[c] = "none"

\* Until its caller has returned, the outcome of a task is open.
Open ==
  \A c \in Callers :
    pc[c] # "returned" =>
      report[c] \in {"none", "accepted"} /\ local[c] \in {"none", "running"}

WaitInv == TypeOK /\ Polled /\ Open /\ SuccessIsReal /\ FailureIsReal

\* The end of a build task is the one its goroutine decided on.
Told ==
  \A c \in Callers :
    /\ state = "done" => local[c] = "done"
    /\ \A r \in Readers : "done" \in {shown[r], done[r]} => local[c] = "done"

\* The safety part of MirrorSpec, and of BuildTask.
MirrorSafe == MirrorInit /\ [][MirrorNext]_allVars
LogSafe    == Log!Init /\ [][Log!Next]_logVars

----------------------------------------------------------------------------
(* The wait *)

LEMMA WaitInit == Init => WaitInv
  BY LoopAssumption
     DEF Init, WaitInv, TypeOK, Polled, Open, SuccessIsReal, FailureIsReal,
         Settled, Ends, DoneStatus

\* A caller that returns reports what it was shown.
LEMMA ReturnStep ==
  ASSUME WaitInv, NEW c \in Callers, NEW r, Returns(c, r),
         pc[c] \notin {"start", "submit", "returned"},
         r \in {"finished", "failed", "error", "interrupted"},
         r = "finished" => /\ status[c] \in DoneStatus
                           /\ loop[c] = "build" => status[c] = "done",
         r = "failed" =>
           status[c] = IF loop[c] = "build" THEN "doubtful" ELSE "failed",
         UNCHANGED <<loop, status, ctx, seen>>
  PROVE  WaitInv'
<1> USE DEF WaitInv
<1>1. TypeOK'
  BY DEF Returns, TypeOK, Settled, Ends, DoneStatus
<1>2. Polled' /\ Open'
  BY DEF Returns, TypeOK, Polled, Open
<1>3. SuccessIsReal' /\ FailureIsReal'
  BY DEF Returns, TypeOK, SuccessIsReal, FailureIsReal
<1> QED
  BY <1>1, <1>2, <1>3

LEMMA CallerKeeps ==
  ASSUME WaitInv, NEW c \in Callers, CallerStep(c)
  PROVE  WaitInv'
<1> USE DEF WaitInv
<1>1. CASE Start(c) \/ Wait(c) \/ Tick(c)
  BY <1>1
     DEF Start, Wait, Tick, TypeOK, Polled, Open, SuccessIsReal, FailureIsReal,
         Settled, Ends, DoneStatus
<1>2. CASE Submit(c)
  BY <1>2
     DEF Submit, TypeOK, Polled, Open, SuccessIsReal, FailureIsReal,
         Settled, Ends, DoneStatus
<1>3. CASE SubmitFails(c)
  BY <1>3
     DEF SubmitFails, TypeOK, Polled, Open, SuccessIsReal, FailureIsReal,
         Settled, Ends, DoneStatus
<1>4. CASE Poll(c)
  BY <1>4
     DEF Poll, TypeOK, Polled, Open, SuccessIsReal, FailureIsReal, Ends,
         DoneStatus
<1>5. CASE PollFails(c) \/ GiveUp(c)
  <2>1. Returns(c, ErrorOf(c)) /\ ErrorOf(c) \in {"error", "interrupted"}
        /\ pc[c] \in {"poll", "wait"}
        /\ UNCHANGED <<loop, status, ctx, seen>>
    BY <1>5 DEF PollFails, GiveUp, ErrorOf
  <2> QED
    BY <2>1, ReturnStep
<1>6. CASE Conclude(c)
  <2> DEFINE r == IF Succeeded(c) THEN "finished" ELSE "failed"
  <2>1. /\ Returns(c, r) /\ pc[c] = "react" /\ seen[c] \in Ends
        /\ seen[c] = "failed" => loop[c] # "build"
        /\ UNCHANGED <<loop, status, ctx, seen>>
    BY <1>6 DEF Conclude, Ends, DoneStatus
  <2>2. /\ r \in {"finished", "failed"}
        /\ r = "finished" => /\ status[c] \in DoneStatus
                             /\ loop[c] = "build" => status[c] = "done"
        /\ r = "failed" =>
             status[c] = IF loop[c] = "build" THEN "doubtful" ELSE "failed"
    BY <2>1 DEF Polled, Succeeded, Ends, DoneStatus
  <2> HIDE DEF r
  <2> QED
    BY <2>1, <2>2, ReturnStep
<1> QED
  BY <1>1, <1>2, <1>3, <1>4, <1>5, <1>6 DEF CallerStep

LEMMA WaitStep == WaitInv /\ [Next]_vars => WaitInv'
<1> SUFFICES ASSUME WaitInv, [Next]_vars PROVE WaitInv'
  OBVIOUS
<1>1. ASSUME NEW c \in Callers, Deadline(c) \/ Interrupt(c) PROVE WaitInv'
  BY <1>1
     DEF Deadline, Interrupt, WaitInv, TypeOK, Polled, Open, SuccessIsReal,
         FailureIsReal
<1>2. ASSUME NEW c \in Callers, TaskEnds(c) PROVE WaitInv'
  BY <1>2
     DEF TaskEnds, WaitInv, TypeOK, Polled, Open, SuccessIsReal,
         FailureIsReal,
         Settled, Ends, DoneStatus
<1>3. CASE UNCHANGED vars
  BY <1>3
     DEF vars, WaitInv, TypeOK, Polled, Open, SuccessIsReal, FailureIsReal
<1> QED
  BY <1>1, <1>2, <1>3, CallerKeeps DEF Next

LEMMA NextIsACall == [MirrorNext]_allVars => [Next]_vars
  BY DEF MirrorNext, Calls, Passes, Settles, Reads, Next, allVars

LEMMA WaitAlways == MirrorSafe => []WaitInv
  BY WaitInit, WaitStep, NextIsACall, PTL DEF MirrorSafe, MirrorInit

----------------------------------------------------------------------------
(* What EveryWaitEnds rests on, apart from fairness *)

\* "accepted" is the answer of a handler, which gives no other; before it
\* submits, only runPublishTask's has been given.
Accepted ==
  \A c \in Callers :
    /\ pc[c] = "start" => report[c] = "none" /\ loop[c] = "publish"
    /\ report[c] = "accepted" => loop[c] \notin Tools
    /\ report[c] = "accepted" /\ pc[c] = "submit" => loop[c] = "publish"

\* A call gives one answer, and a local task one end, and neither changes
\* afterwards; an interrupt or a ceiling is not taken back.
OutcomeStands ==
  \A c \in Callers :
    /\ report[c] # "none" => report'[c] = report[c]
    /\ local[c] \in Settled => local'[c] = local[c]
    /\ pc[c] = "returned" => pc'[c] = "returned"
    /\ ctx[c] # "live" => ctx'[c] = ctx[c]

\* The statements a wait has left once its context has ended.
Left ==
  [start |-> 5, submit |-> 4, react |-> 3, wait |-> 2, poll |-> 1,
   returned |-> 0]

\* From then on it never goes round its loop again: every statement is nearer
\* to the return than the last one.
EndedWaitLeaves ==
  \A c \in Callers :
    ctx[c] # "live" /\ pc'[c] # pc[c] => Left[pc'[c]] < Left[pc[c]]

LEMMA AcceptedInit == Init => Accepted
  BY DEF Init, Accepted

LEMMA AcceptedStep == WaitInv /\ Accepted /\ [Next]_vars => Accepted'
<1> SUFFICES ASSUME WaitInv, Accepted, [Next]_vars PROVE Accepted'
  OBVIOUS
<1>1. ASSUME NEW c \in Callers,
             NEW r \in {"finished", "failed", "error", "interrupted"},
             Returns(c, r), UNCHANGED loop
      PROVE  Accepted'
  BY <1>1 DEF Returns, WaitInv, TypeOK, Accepted
<1>2. ASSUME NEW c \in Callers, PollFails(c) \/ Conclude(c) \/ GiveUp(c)
      PROVE  Accepted'
  BY <1>1, <1>2 DEF PollFails, Conclude, GiveUp, ErrorOf
<1>3. ASSUME NEW c \in Callers, Start(c) \/ Submit(c) \/ SubmitFails(c)
      PROVE  Accepted'
  BY <1>3
     DEF Start, Submit, SubmitFails, WaitInv, TypeOK, Accepted, Tools, Faces
<1>4. ASSUME NEW c \in Callers, Poll(c) \/ Wait(c) \/ Tick(c) PROVE Accepted'
  BY <1>4 DEF Poll, Wait, Tick, WaitInv, TypeOK, Accepted
<1>5. ASSUME NEW c \in Callers, Deadline(c) \/ Interrupt(c) \/ TaskEnds(c)
      PROVE  Accepted'
  BY <1>5 DEF Deadline, Interrupt, TaskEnds, Accepted
<1>6. CASE UNCHANGED vars
  BY <1>6 DEF vars, Accepted
<1> QED
  BY <1>2, <1>3, <1>4, <1>5, <1>6 DEF Next, CallerStep

LEMMA OutcomeStep ==
  WaitInv /\ Accepted /\ [Next]_vars => OutcomeStands /\ EndedWaitLeaves
<1> SUFFICES ASSUME WaitInv, Accepted, [Next]_vars
             PROVE  OutcomeStands /\ EndedWaitLeaves
  OBVIOUS
<1>1. ASSUME NEW c \in Callers,
             NEW r \in {"finished", "failed", "error", "interrupted"},
             Returns(c, r), pc[c] \in {"poll", "react", "wait"},
             UNCHANGED <<loop, ctx>>
      PROVE  OutcomeStands /\ EndedWaitLeaves
  <2>1. /\ local[c] \in {"none", "running"}
        /\ loop[c] \in Tools => report[c] = "none"
    BY <1>1 DEF WaitInv, Open, Accepted
  <2>2. OutcomeStands
    BY <1>1, <2>1 DEF Returns, WaitInv, TypeOK, OutcomeStands, Settled
  <2>3. pc' = [pc EXCEPT ![c] = "returned"]
    BY <1>1 DEF Returns
  <2>4. EndedWaitLeaves
    BY <1>1, <2>3 DEF WaitInv, TypeOK, EndedWaitLeaves, Left
  <2> QED
    BY <2>2, <2>4
<1>2. ASSUME NEW c \in Callers, PollFails(c) \/ Conclude(c) \/ GiveUp(c)
      PROVE  OutcomeStands /\ EndedWaitLeaves
  BY <1>1, <1>2 DEF PollFails, Conclude, GiveUp, ErrorOf
<1>3. ASSUME NEW c \in Callers, Start(c) \/ Submit(c) \/ SubmitFails(c)
      PROVE  OutcomeStands /\ EndedWaitLeaves
  <2>1. /\ pc[c] \in {"start", "submit"} /\ local[c] \in {"none", "running"}
        /\ report[c] = "none" \/ (report[c] = "accepted" /\ loop[c] = "publish"
                                  /\ pc[c] = "submit")
    BY <1>3 DEF Start, Submit, SubmitFails, WaitInv, Open, Accepted
  <2>2. OutcomeStands
    BY <1>3, <2>1
       DEF Start, Submit, SubmitFails, WaitInv, TypeOK, OutcomeStands, Settled,
           Tools, Faces
  <2>3. EndedWaitLeaves
    BY <1>3 DEF Start, Submit, SubmitFails, WaitInv, TypeOK, EndedWaitLeaves,
                Left
  <2> QED
    BY <2>2, <2>3
<1>4. ASSUME NEW c \in Callers, Poll(c) \/ Wait(c) \/ Tick(c)
      PROVE  OutcomeStands /\ EndedWaitLeaves
  BY <1>4
     DEF Poll, Wait, Tick, WaitInv, TypeOK, OutcomeStands, EndedWaitLeaves, Left
<1>5. ASSUME NEW c \in Callers, Deadline(c) \/ Interrupt(c) \/ TaskEnds(c)
      PROVE  OutcomeStands /\ EndedWaitLeaves
  BY <1>5
     DEF Deadline, Interrupt, TaskEnds, WaitInv, TypeOK, OutcomeStands,
         EndedWaitLeaves
<1>6. CASE UNCHANGED vars
  BY <1>6 DEF vars, OutcomeStands, EndedWaitLeaves
<1> QED
  BY <1>2, <1>3, <1>4, <1>5, <1>6 DEF Next, CallerStep

----------------------------------------------------------------------------
(* The build task *)

\* Every step of the two together is one of BuildTask, or leaves it alone.
LEMMA NextIsALogStep == [MirrorNext]_allVars => [Log!Next]_logVars
  BY DEF MirrorNext, Calls, Passes, Registers, Settles, Reads, Log!Next,
         Log!StreamStep, allVars

\* The two together implement BuildTask's safety.
THEOREM MirrorImplementsLog == MirrorSpec => LogSafe
  BY NextIsALogStep, PTL DEF MirrorSpec, MirrorInit, LogSafe

LEMMA SameInit == Log!Init => LogProofs!Init
  BY DEF Log!Init, LogProofs!Init

LEMMA SameNext == Log!Next => LogProofs!Next
  BY
     DEF Log!Next, LogProofs!Next, Log!Register, LogProofs!Register,
         Log!FailTask, LogProofs!FailTask, Log!Append, LogProofs!Append,
         Log!SetResult, LogProofs!SetResult, Log!Offer, LogProofs!Offer,
         Log!Open, LogProofs!Open, Log!StreamStep, LogProofs!StreamStep,
         Log!Replay, LogProofs!Replay, Log!SendState, LogProofs!SendState,
         Log!Subscribe, LogProofs!Subscribe, Log!Check, LogProofs!Check,
         Log!SendDone, LogProofs!SendDone, Log!StayOpen, LogProofs!StayOpen,
         Log!Take, LogProofs!Take, Log!Disconnect, LogProofs!Disconnect,
         Log!GetState, LogProofs!GetState, Log!GetLogs, LogProofs!GetLogs,
         Log!Leave, LogProofs!Leave, Log!Goto, LogProofs!Goto, Log!taskVars,
         LogProofs!taskVars, Log!Final, LogProofs!Final

\* What BuildTaskProofs proves of BuildTask holds here.
LEMMA LogKeeps ==
  LogSafe => [](/\ Log!TypeOK /\ NoLineTwice
                /\ LateStreamComplete /\ PageIsComplete)
<1>1. [Log!Next]_logVars => [LogProofs!Next]_(LogProofs!vars)
  BY SameNext DEF logVars, LogProofs!vars
<1>2. LogProofs!LogInv => /\ Log!TypeOK /\ NoLineTwice
                          /\ LateStreamComplete /\ PageIsComplete
  BY LogProofs!LogPromises
     DEF LogProofs!LogInv, LogProofs!TypeOK, Log!TypeOK, NoLineTwice,
         Log!NoLineTwice, LogProofs!NoLineTwice, LateStreamComplete,
         Log!LateStreamComplete, LogProofs!LateStreamComplete, PageIsComplete,
         Log!PageIsComplete, LogProofs!PageIsComplete, Log!States,
         LogProofs!States, Log!Final, LogProofs!Final
<1> QED
  BY SameInit, <1>1, <1>2, LogProofs!LogAlways, PTL DEF LogSafe

----------------------------------------------------------------------------
(* What a browser is shown *)

LEMMA ToldInit == MirrorInit => Told
  BY DEF MirrorInit, Log!Init, Told

LEMMA ToldStep ==
  WaitInv /\ Log!TypeOK /\ Told /\ [MirrorNext]_allVars => Told'
<1> SUFFICES ASSUME WaitInv, Log!TypeOK, Told, [MirrorNext]_allVars
             PROVE  Told'
  OBVIOUS
<1>1. ASSUME NEW c \in Callers, Calls(c) PROVE Told'
  <2>1. local[c] = "done" => local'[c] = "done"
    BY <1>1
       DEF Calls, CallerStep, Start, Submit, SubmitFails, Poll, PollFails,
           Wait, Conclude, Tick, GiveUp, WaitInv, Open
  <2>2. state' = "done" => state = "done"
    BY <1>1 DEF Calls, Registers, Log!Register, Log!FailTask, logVars
  <2>3. UNCHANGED <<shown, done>>
    BY <1>1 DEF Calls, Registers, Log!Register, Log!FailTask, logVars
  <2> QED
    BY <2>1, <2>2, <2>3, CallerAssumption DEF Told
<1>2. ASSUME NEW c \in Callers, Passes(c) PROVE Told'
  BY <1>2 DEF Passes, Deadline, Interrupt, TaskEnds, logVars, Told
<1>3. ASSUME NEW c \in Callers, Settles(c) PROVE Told'
  <2>1. UNCHANGED <<local, shown, done>>
    BY <1>3 DEF Settles, Log!Append, Log!Offer, Log!SetResult, vars
  <2>2. state' = "done" => state = "done" \/ local[c] = "done"
    BY <1>3 DEF Settles, Log!Append, Log!Offer
  <2> QED
    BY <2>1, <2>2, CallerAssumption DEF Told
<1>4. ASSUME NEW r \in Readers, Reads(r) PROVE Told'
  <2>1. UNCHANGED <<local, state>>
    BY <1>4
       DEF Reads, Log!Open, Log!StreamStep, Log!Replay, Log!SendState,
           Log!Subscribe, Log!Check, Log!SendDone, Log!StayOpen, Log!Take,
           Log!Disconnect, Log!GetState, Log!GetLogs, Log!Leave, Log!taskVars,
           vars
  <2>2. \A q \in Readers : /\ shown'[q] \in {shown[q], state, "none"}
                           /\ done'[q] \in {done[q], state, "none"}
    BY <1>4
       DEF Reads, Log!Open, Log!StreamStep, Log!Replay, Log!SendState,
           Log!Subscribe, Log!Check, Log!SendDone, Log!StayOpen, Log!Take,
           Log!Disconnect, Log!GetState, Log!GetLogs, Log!Leave, Log!TypeOK
  <2> QED
    BY <2>1, <2>2 DEF Told
<1>5. CASE UNCHANGED allVars
  BY <1>5 DEF allVars, vars, logVars, Told
<1> QED
  BY <1>1, <1>2, <1>3, <1>4, <1>5 DEF MirrorNext

LEMMA MirrorAlways ==
  MirrorSpec => [](/\ WaitInv /\ Told /\ NoLineTwice
                   /\ LateStreamComplete /\ PageIsComplete)
<1>1. MirrorSpec => []WaitInv
  BY WaitAlways, PTL DEF MirrorSpec, MirrorSafe
<1>2. MirrorSpec => LogSafe
  BY MirrorImplementsLog
<1> QED
  BY <1>1, <1>2, LogKeeps, ToldInit, ToldStep, PTL DEF MirrorSpec

----------------------------------------------------------------------------
\* The callers' variables keep their types.
THEOREM WaitTypeCorrect == MirrorSpec => []TypeOK
<1>1. WaitInv => TypeOK
  BY DEF WaitInv
<1> QED
  BY MirrorAlways, <1>1, PTL

\* A reported success is the task's, whatever was lost or cancelled, and
\* container-build reports none of a task with an error text.
THEOREM SuccessesAreReal == MirrorSpec => []SuccessIsReal
<1>1. WaitInv => SuccessIsReal
  BY DEF WaitInv
<1> QED
  BY MirrorAlways, <1>1, PTL

\* A failure that a tool reports is one jjlab named: the status of the task,
\* or, for container-build, the error text beside the status done.
THEOREM FailuresAreReal == MirrorSpec => []FailureIsReal
<1>1. WaitInv => FailureIsReal
  BY DEF WaitInv
<1> QED
  BY MirrorAlways, <1>1, PTL

\* No browser is shown a success that the jjlab task did not have.
THEOREM EventsAreReal == MirrorSpec => []EventIsReal
<1>1. WaitInv /\ Told => EventIsReal
  BY DEF WaitInv, SuccessIsReal, Told, EventIsReal
<1> QED
  BY MirrorAlways, <1>1, PTL

\* The tasks that are really started keep the promises of BuildTask.
THEOREM MirroredLinesComeOnce == MirrorSpec => []NoLineTwice
  BY MirrorAlways, PTL

THEOREM MirroredStreamsAreComplete == MirrorSpec => []LateStreamComplete
  BY MirrorAlways, PTL

THEOREM MirroredPagesAreComplete == MirrorSpec => []PageIsComplete
  BY MirrorAlways, PTL

\* Every call is answered once and every build task ends once, although a lost
\* reply, an interrupt and a ceiling race with the end of the task.
THEOREM OutcomesStand == MirrorSpec => [][OutcomeStands]_vars
<1>1. MirrorSpec => [](WaitInv /\ Accepted)
  BY AcceptedInit, AcceptedStep, NextIsACall, MirrorAlways, PTL
     DEF MirrorSpec, MirrorInit
<1> QED
  BY <1>1, OutcomeStep, NextIsACall, PTL DEF MirrorSpec

\* A wait whose ceiling passed or whose agent left goes straight to its return:
\* what EveryWaitEnds asks for once its caller takes its steps.
THEOREM EndedWaitsLeave == MirrorSpec => [][EndedWaitLeaves]_vars
<1>1. MirrorSpec => [](WaitInv /\ Accepted)
  BY AcceptedInit, AcceptedStep, NextIsACall, MirrorAlways, PTL
     DEF MirrorSpec, MirrorInit
<1> QED
  BY <1>1, OutcomeStep, NextIsACall, PTL DEF MirrorSpec
=============================================================================
