------------------------------ MODULE OpsTask ------------------------------
(***************************************************************************)
(* Waiting for a task that jjlab executes (ops.go).  Six callers submit a  *)
(* build, an install or a publish.  Three are tools, which answer the agent*)
(* when the task settles:                                                  *)
(*   helm     helm-install, awaitOpsTask over opsTask                      *)
(*   build    container-build, awaitOpsTaskProgress over opsTaskOnce       *)
(*   package  package-publish, publishPackage over opsTask                 *)
(* and three are HTTP handlers, which answer at once with an id and leave  *)
(* the outcome in the local build registry:                                *)
(*   mirror   POST /images/build, mirrorOpsTask over opsTask               *)
(*   publish  POST /packages/publish, runPublishTask over publishPackage   *)
(*   install  POST /helm/install, startHelmInstall, which follows nothing  *)
(*                                                                         *)
(* External: the task in jjlab.                                            *)
(***************************************************************************)
CONSTANTS
  Callers,   \* one task each
  Loops,     \* which of the six the callers may be
  Faults     \* "net": a request or its reply is lost

Tools == {"helm", "build", "package"}
Faces == {"mirror", "publish", "install"}

ASSUME LoopAssumption == Loops \subseteq Tools \cup Faces

VARIABLES
  loop,      \* loop[c]: which of the six c is
  status,    \* status[c]: c's task in jjlab
  ctx,       \* ctx[c]: "live", or the error of the caller's context
  pc,        \* pc[c]: the caller's next statement
  seen,      \* seen[c]: the status the last poll returned
  report,    \* report[c]: the answer of the tool or the handler
  local      \* local[c]: the task's entry in the local registry

vars == <<loop, status, ctx, pc, seen, report, local>>

Settled == {"done", "failed"}

\* How jjlab's task ends.  "doubtful" is the status done with an error text
\* beside it; "failed" is every status that is neither running nor done.
DoneStatus == {"done", "doubtful"}
Ends       == DoneStatus \cup {"failed"}

Init ==
  /\ loop \in [Callers -> Loops]
  /\ status = [c \in Callers |-> "none"]
  /\ ctx = [c \in Callers |-> "live"]
  /\ pc = [c \in Callers |-> IF loop[c] = "publish" THEN "start" ELSE "submit"]
  /\ seen = [c \in Callers |-> "none"]
  /\ report = [c \in Callers |-> "none"]
  /\ local = [c \in Callers |-> "none"]

----------------------------------------------------------------------------
\* The caller is done: a tool answers r, a handler's goroutine settles the
\* local task (its handler has answered long ago).
Returns(c, r) ==
  /\ pc' = [pc EXCEPT ![c] = "returned"]
  /\ IF loop[c] \in Tools
       THEN report' = [report EXCEPT ![c] = r] /\ UNCHANGED local
       ELSE /\ local' = [local EXCEPT ![c] =
                 IF r = "finished" THEN "done" ELSE "failed"]
            /\ UNCHANGED report

\* helm and build call an error an interruption when the agent cancelled.
ErrorOf(c) ==
  IF loop[c] \in {"helm", "build"} /\ ctx[c] = "canceled"
  THEN "interrupted" ELSE "error"

\* startPublishTask: the task is registered and its id returned; the
\* goroutine submits it.
Start(c) ==
  /\ pc[c] = "start"
  /\ local' = [local EXCEPT ![c] = "running"]
  /\ report' = [report EXCEPT ![c] = "accepted"]
  /\ pc' = [pc EXCEPT ![c] = "submit"]
  /\ UNCHANGED <<loop, status, ctx, seen>>

\* opsSubmitBuild, opsSubmitHelm: jjlab enqueues the task.  A handler then
\* answers with the id; mirrorOpsTask registers it, startHelmInstall does not.
Submit(c) ==
  /\ pc[c] = "submit"
  /\ ctx[c] = "live"
  /\ status' = [status EXCEPT ![c] = "running"]
  /\ pc' = [pc EXCEPT ![c] = IF loop[c] = "install" THEN "returned" ELSE "poll"]
  /\ report' = [report EXCEPT ![c] =
       IF loop[c] \in Faces THEN "accepted" ELSE @]
  /\ local' = [local EXCEPT ![c] = IF loop[c] = "mirror" THEN "running" ELSE @]
  /\ UNCHANGED <<loop, ctx, seen>>

\* The submission fails, or only its reply is lost and the task runs.  The
\* build handler answers 502; the install handler registers a failed task and
\* answers with its id (failTask).
SubmitFails(c) ==
  /\ pc[c] = "submit"
  /\ "net" \in Faults \/ ctx[c] # "live"
  /\ \E s \in {"none", "running"} : status' = [status EXCEPT ![c] = s]
  /\ pc' = [pc EXCEPT ![c] = "returned"]
  /\ report' = [report EXCEPT ![c] =
       IF loop[c] \in {"install", "publish"} THEN "accepted" ELSE "error"]
  /\ local' = [local EXCEPT ![c] =
       IF loop[c] \in {"install", "publish"} THEN "failed" ELSE @]
  /\ UNCHANGED <<loop, ctx, seen>>

\* One GET of the task.
Poll(c) ==
  /\ pc[c] = "poll"
  /\ ctx[c] = "live"
  /\ seen' = [seen EXCEPT ![c] = status[c]]
  /\ pc' = [pc EXCEPT ![c] = "react"]
  /\ UNCHANGED <<loop, status, ctx, report, local>>

PollFails(c) ==
  /\ pc[c] = "poll"
  /\ "net" \in Faults \/ ctx[c] # "live"
  /\ Returns(c, ErrorOf(c))
  /\ UNCHANGED <<loop, status, ctx, seen>>

\* opsTask sleeps while the task is running; awaitOpsTaskProgress sleeps
\* unless it is done.
Wait(c) ==
  /\ pc[c] = "react"
  /\ seen[c] = "running" \/ (loop[c] = "build" /\ seen[c] = "failed")
  /\ pc' = [pc EXCEPT ![c] = "wait"]
  /\ UNCHANGED <<loop, status, ctx, seen, report, local>>

\* The callers of opsTask look at the status only; awaitOpsTaskProgress takes
\* an error text for a failure even then.
Succeeded(c) ==
  IF loop[c] = "build" THEN seen[c] = "done" ELSE seen[c] \in DoneStatus

\* Mutant: anything but "done" counts as failure.
Conclude_RunningFails(c) ==
  /\ pc[c] = "react"
  /\ Returns(c, IF Succeeded(c) THEN "finished" ELSE "failed")
  /\ UNCHANGED <<loop, status, ctx, seen>>

\* Mutant: container-build does not look at the error text either.
Conclude_TextIgnored(c) ==
  /\ pc[c] = "react"
  /\ seen[c] \in DoneStatus \/ (seen[c] = "failed" /\ loop[c] # "build")
  /\ Returns(c, IF seen[c] \in DoneStatus THEN "finished" ELSE "failed")
  /\ UNCHANGED <<loop, status, ctx, seen>>

\* The loop ends with the task's status.
Conclude(c) ==
  /\ pc[c] = "react"
  /\ seen[c] \in DoneStatus \/ (seen[c] = "failed" /\ loop[c] # "build")
  /\ Returns(c, IF Succeeded(c) THEN "finished" ELSE "failed")
  /\ UNCHANGED <<loop, status, ctx, seen>>

\* The ticker fires: poll again.
Tick(c) ==
  /\ pc[c] = "wait"
  /\ pc' = [pc EXCEPT ![c] = "poll"]
  /\ UNCHANGED <<loop, status, ctx, seen, report, local>>

\* The context ends the wait.
GiveUp(c) ==
  /\ pc[c] = "wait"
  /\ ctx[c] # "live"
  /\ Returns(c, ErrorOf(c))
  /\ UNCHANGED <<loop, status, ctx, seen>>

----------------------------------------------------------------------------
\* Mutant: only runPublishTask has a ceiling.
Deadline_PublishOnly(c) ==
  /\ pc[c] \in {"submit", "poll", "react", "wait"}
  /\ loop[c] = "publish"
  /\ ctx[c] = "live"
  /\ ctx' = [ctx EXCEPT ![c] = "deadline"]
  /\ UNCHANGED <<loop, status, pc, seen, report, local>>

\* A ceiling of 30 minutes: on the wait of helm, build and mirror, on the
\* whole of runPublishTask, on nothing in package-publish.
Deadline(c) ==
  /\ \/ loop[c] \in {"helm", "build", "mirror"}
        /\ pc[c] \in {"poll", "react", "wait"}
     \/ loop[c] = "publish" /\ pc[c] \in {"submit", "poll", "react", "wait"}
  /\ ctx[c] = "live"
  /\ ctx' = [ctx EXCEPT ![c] = "deadline"]
  /\ UNCHANGED <<loop, status, pc, seen, report, local>>

\* The agent interrupts a tool call.
Interrupt(c) ==
  /\ loop[c] \in Tools
  /\ pc[c] # "returned"
  /\ ctx[c] = "live"
  /\ ctx' = [ctx EXCEPT ![c] = "canceled"]
  /\ UNCHANGED <<loop, status, pc, seen, report, local>>

\* jjlab's task ends; nothing a caller does stops it.
TaskEnds(c) ==
  /\ status[c] = "running"
  /\ \E s \in Ends : status' = [status EXCEPT ![c] = s]
  /\ UNCHANGED <<loop, ctx, pc, seen, report, local>>

CallerStep(c) ==
  \/ Start(c) \/ Submit(c) \/ SubmitFails(c) \/ Poll(c) \/ PollFails(c)
  \/ Wait(c) \/ Conclude(c) \/ Tick(c) \/ GiveUp(c)

Next ==
  \E c \in Callers :
    CallerStep(c) \/ Deadline(c) \/ Interrupt(c) \/ TaskEnds(c)

\* A caller takes its next step, whichever it is (a request is answered, or
\* its own timeout of 60 s ends it); its ceiling, if it has one, expires.  A
\* task may run for ever, and the agent need not interrupt anything.
Fairness ==
  \A c \in Callers :
    /\ WF_vars(CallerStep(c))
    /\ WF_vars(Deadline(c))

Spec == Init /\ [][Next]_vars /\ Fairness

----------------------------------------------------------------------------
(* Properties *)

TypeOK ==
  /\ loop \in [Callers -> Loops]
  /\ status \in [Callers -> Ends \cup {"none", "running"}]
  /\ ctx \in [Callers -> {"live", "deadline", "canceled"}]
  /\ pc \in
       [Callers -> {"start", "submit", "poll", "react", "wait", "returned"}]
  /\ seen \in [Callers -> Ends \cup {"none", "running"}]
  /\ report \in [Callers -> {"none", "finished", "failed", "error",
                             "interrupted", "accepted"}]
  /\ local \in [Callers -> Settled \cup {"none", "running"}]

\* What is reported as the task's success is its success, although the report
\* comes from an earlier poll (ops.go:109, 149; builder.go:144-149): the task
\* is done, and container-build has seen no error text beside that.
SuccessIsReal ==
  \A c \in Callers :
    report[c] = "finished" \/ local[c] = "done" =>
      /\ status[c] \in DoneStatus
      /\ loop[c] = "build" => status[c] = "done"

\* What a tool reports as the task's failure is one jjlab names: the tools
\* keep an error of their own apart from it (ops.go:96-108, 146-148).  It is
\* the status for helm-install and package-publish, the error text of a task
\* that is done for container-build, which never reports the status.  A local
\* task cannot keep the two apart: it has no third outcome (builder.go:140-143,
\* buildtask.go:380-384).
FailureIsReal ==
  \A c \in Callers :
    report[c] = "failed" =>
      status[c] = IF loop[c] = "build" THEN "doubtful" ELSE "failed"

\* "awaitOpsTaskProgress is awaitOpsTask with progress telemetry"
\* (ops.go:112), so container-build sleeps, as helm-install does, only on a
\* task that was running when it asked.
ProgressWaitsAlike ==
  \A c \in Callers :
    loop[c] = "build" /\ pc[c] = "wait" => seen[c] = "running"

\* A wait always ends: "a stuck build can never hang a tool call forever"
\* (ops.go:91-92), nor a local task stay running (builder.go:137).  Only
\* package-publish waits for as long as its task runs.
EveryWaitEnds ==
  \A c \in Callers :
    \/ <>(pc[c] = "returned")
    \/ loop[c] = "package" /\ <>[](status[c] = "running")
============================================================================
