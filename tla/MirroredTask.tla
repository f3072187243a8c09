--------------------------- MODULE MirroredTask ----------------------------
(***************************************************************************)
(* The task API and the build registry together: the caller of OpsTask     *)
(* that answers with an id leaves a build task behind (BuildTask), which   *)
(* its goroutine ends once it knows how the jjlab task ended, and which    *)
(* browsers stream and fetch all the while.  "so /builds/{id} (status +    *)
(* SSE log) keeps working unchanged; the poller folds jjlab state in"      *)
(* (builder.go:119-120).                                                   *)
(*                                                                         *)
(* OpsTask's local[c] is the end its goroutine has decided on; BuildTask's *)
(* state follows it, statement by statement.                               *)
(***************************************************************************)
EXTENDS OpsTask

CONSTANTS
  Readers    \* connections of browsers

VARIABLES
  state, logs, subs, fanout, work, ch, reader, lines, shown, done, late

Log == INSTANCE BuildTask WITH pc <- reader

\* One caller: tasks share nothing.
ASSUME CallerAssumption == \A c, d \in Callers : c = d

logVars ==
  <<state, logs, subs, fanout, work, ch, reader, lines, shown, done, late>>
allVars == <<vars, logVars>>

MirrorInit == Init /\ Log!Init

----------------------------------------------------------------------------
\* What a step of the caller does to the registry: mirrorOpsTask and
\* startPublishTask store a running task, failTask one that has failed.
Registers(c) ==
  \/ local[c] = "none" /\ local'[c] = "running" /\ Log!Register
  \/ local[c] = "none" /\ local'[c] = "failed" /\ Log!FailTask
  \/ (local[c] # "none" \/ local'[c] = "none") /\ UNCHANGED logVars

Calls(c) == CallerStep(c) /\ Registers(c)

Passes(c) ==
  /\ Deadline(c) \/ Interrupt(c) \/ TaskEnds(c)
  /\ UNCHANGED logVars

\* Mutant: the goroutine does not look at the status it got.
Settles_AnyEnd(c) ==
  /\ local[c] \in Settled
  /\ Log!Append \/ (\E r \in Readers : Log!Offer(r)) \/ Log!SetResult
  /\ UNCHANGED vars

\* The goroutine logs the result or the error, and sets the end.  A failed
\* task always has an error to log.
Settles(c) ==
  /\ local[c] \in Settled
  /\ \/ Log!Append
     \/ \E r \in Readers : Log!Offer(r)
     \/ /\ Log!SetResult
        /\ state' \in {"torn", local[c]}
        /\ work = "run" => local[c] = "done"
  /\ UNCHANGED vars

Reads(r) ==
  /\ \/ Log!Open(r) \/ Log!StreamStep(r) \/ Log!Disconnect(r)
     \/ Log!GetState(r) \/ Log!GetLogs(r) \/ Log!Leave(r)
  /\ UNCHANGED vars

MirrorNext ==
  \/ \E c \in Callers : Calls(c) \/ Passes(c) \/ Settles(c)
  \/ \E r \in Readers : Reads(r)

\* Callers, goroutines and handlers take their steps; the ceilings expire.
MirrorFairness ==
  /\ \A c \in Callers :
       /\ WF_allVars(Calls(c))
       /\ WF_allVars(Deadline(c) /\ UNCHANGED logVars)
       /\ WF_allVars(Settles(c))
  /\ \A r \in Readers :
       /\ WF_allVars(Log!StreamStep(r) /\ UNCHANGED vars)
       /\ WF_allVars(Log!GetLogs(r) /\ UNCHANGED vars)

MirrorSpec == MirrorInit /\ [][MirrorNext]_allVars /\ MirrorFairness

----------------------------------------------------------------------------
(* Properties *)

\* The build task behaves as BuildTask says, its fairness included: whatever
\* becomes of the jjlab task, its goroutine ends it (builder.go:137-157,
\* buildtask.go:347-387).
FollowsBuildTask == Log!Spec

\* What a browser is shown as the success of a build is the success of the
\* jjlab task: no step between the poll and the event makes it up.
EventIsReal ==
  \A c \in Callers, r \in Readers :
    "done" \in {shown[r], done[r]} => status[c] \in DoneStatus

\* The promises of BuildTask, kept by the tasks that are really started.
NoLineTwice        == Log!NoLineTwice
LateStreamComplete == Log!LateStreamComplete
PageIsComplete     == Log!PageIsComplete
LateStreamEnds     == Log!LateStreamEnds
============================================================================
