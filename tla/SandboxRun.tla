----------------------------- MODULE SandboxRun ----------------------------
(***************************************************************************)
(* sandbox-run after the worker accepted the command (tools.go): the       *)
(* foreground wait on the job's event stream, the hand-over to a background*)
(* watcher when the wait times out, and the mailbox notice.  The handler,  *)
(* the goroutine that reads the stream for it and the watcher run          *)
(* concurrently; each stream is one call of StreamJobOutput (channel.go).  *)
(*                                                                         *)
(* External: the job in the worker, its event stream, the session mailbox. *)
(***************************************************************************)
EXTENDS Integers

CONSTANTS
  Calls,    \* sandbox-run calls whose execute was accepted
  Codes,    \* exit codes a command can end with
  Faults    \* which environment faults may happen

AllFaults == {"net", "eof", "cancel", "crash", "mail"}

ASSUME CodeAssumption == Codes \subseteq Nat
ASSUME FaultAssumption == Faults \subseteq AllFaults

VARIABLES
  job,      \* job[c]: -1 while the command runs, then its exit code
  ctx,      \* ctx[c][k]: "live", or the error of the stream's context
  stream,   \* stream[c][k]: where StreamJobOutput is
  code,     \* code[c][k]: the exit code it returns
  err,      \* err[c][k]: the error it returns
  sent,     \* sent[c]: resultCh holds the foreground result
  handler,  \* handler[c]: the tool handler
  answer,   \* answer[c]: what the tool call returned
  notice,   \* notice[c]: what was published to the session mailbox
  lost      \* lost[c]: the mailbox took no notice; history only

vars == <<job, ctx, stream, code, err, sent, handler, answer, notice, lost>>

----------------------------------------------------------------------------
Kinds   == {"fg", "bg"}       \* the handler's stream, the watcher's stream
Running == -1

Completed(n) == [kind |-> "completed", code |-> n]
Failed       == [kind |-> "failed", code |-> 0]
Background   == [kind |-> "background", code |-> 0]
None         == [kind |-> "none", code |-> 0]
Finished(n)  == [kind |-> "finished", code |-> n]
Broken       == [kind |-> "broken", code |-> 0]

\* What StreamJobOutput can return as ExitCode: besides a real exit code, the
\* zero value and the preset -1.
Reported == Codes \cup {0, -1}
Answers  == {Completed(n) : n \in Reported} \cup {Failed, Background}
Notices  == {Finished(n) : n \in Reported} \cup {Broken}

Init ==
  /\ job = [c \in Calls |-> Running]
  /\ ctx = [c \in Calls |-> [k \in Kinds |-> "live"]]
  /\ stream = [c \in Calls |->
                 [k \in Kinds |-> IF k = "fg" THEN "connect" ELSE "off"]]
  /\ code = [c \in Calls |-> [k \in Kinds |-> 0]]
  /\ err = [c \in Calls |-> [k \in Kinds |-> "nil"]]
  /\ sent = [c \in Calls |-> FALSE]
  /\ handler = [c \in Calls |-> "select"]
  /\ answer = [c \in Calls |-> None]
  /\ notice = [c \in Calls |-> None]
  /\ lost = [c \in Calls |-> FALSE]

----------------------------------------------------------------------------
(* StreamJobOutput *)

Ends(c, k, n, e) ==
  /\ stream' = [stream EXCEPT ![c][k] = "send"]
  /\ code' = [code EXCEPT ![c][k] = n]
  /\ err' = [err EXCEPT ![c][k] = e]
  /\ UNCHANGED <<job, ctx, sent, handler, answer, notice, lost>>

\* The response headers arrived; the worker replays the job's history.
Connect(c, k) ==
  /\ stream[c][k] = "connect"
  /\ ctx[c][k] = "live"
  /\ stream' = [stream EXCEPT ![c][k] = "read"]
  /\ UNCHANGED <<job, ctx, code, err, sent, handler, answer, notice, lost>>

\* The error a failing request or read reports: the context's, or the net's.
StreamErrors(c, k) ==
  (IF ctx[c][k] = "live" THEN {} ELSE {ctx[c][k]})
    \cup (IF "net" \in Faults THEN {"net"} ELSE {})

\* A dial that times out on its own (30 s in the default transport) is to
\* errors.Is a DeadlineExceeded as well, although the context still lives.
DialErrors(c, k) ==
  StreamErrors(c, k) \cup (IF "net" \in Faults THEN {"deadline"} ELSE {})

\* client.Do fails: JobDone{} is returned, whose ExitCode is 0.
ConnectFails(c, k) ==
  /\ stream[c][k] = "connect"
  /\ \E e \in DialErrors(c, k) : Ends(c, k, 0, e)

\* job.completed arrives; it may be in the buffer when the context ends.
JobCompleted(c, k) ==
  /\ stream[c][k] = "read"
  /\ job[c] # Running
  /\ Ends(c, k, job[c], "nil")

\* The read fails: ExitCode is still the -1 it was preset to.
ReadFails(c, k) ==
  /\ stream[c][k] = "read"
  /\ \E e \in StreamErrors(c, k) : Ends(c, k, -1, e)

\* The stream ends without job.completed: ctx.Err() is the error, if any.
Eof(c, k) ==
  /\ "eof" \in Faults
  /\ stream[c][k] = "read"
  /\ Ends(c, k, -1, IF ctx[c][k] = "live" THEN "nil" ELSE ctx[c][k])

----------------------------------------------------------------------------
(* The handler, its reader goroutine and the watcher *)

\* Mutant: resultCh has no buffer, so the send waits for the handler.
Send_Unbuffered(c) ==
  /\ stream[c]["fg"] = "send"
  /\ handler[c] = "select"
  /\ sent' = [sent EXCEPT ![c] = TRUE]
  /\ stream' = [stream EXCEPT ![c]["fg"] = "ended"]
  /\ UNCHANGED <<job, ctx, code, err, handler, answer, notice, lost>>

\* The reader goroutine puts its result into resultCh, which holds one.
Send(c) ==
  /\ stream[c]["fg"] = "send"
  /\ sent' = [sent EXCEPT ![c] = TRUE]
  /\ stream' = [stream EXCEPT ![c]["fg"] = "ended"]
  /\ UNCHANGED <<job, ctx, code, err, handler, answer, notice, lost>>

\* The handler returns a; its deferred cancel ends the stream's context.
Returns(c, a) ==
  /\ answer' = [answer EXCEPT ![c] = a]
  /\ handler' = [handler EXCEPT ![c] = "returned"]
  /\ ctx' = [ctx EXCEPT ![c]["fg"] = IF @ = "live" THEN "canceled" ELSE @]

\* Mutant: the watcher is started whatever the wait ended with.
TakeResult_Watched(c) ==
  /\ handler[c] = "select"
  /\ sent[c]
  /\ Returns(c, IF err[c]["fg"] \in {"nil", "deadline"}
                  THEN Completed(code[c]["fg"]) ELSE Failed)
  /\ stream' = [stream EXCEPT ![c]["bg"] = "connect"]
  /\ UNCHANGED <<job, code, err, sent, notice, lost>>

\* select takes the result: DeadlineExceeded passes for a completion.
TakeResult(c) ==
  /\ handler[c] = "select"
  /\ sent[c]
  /\ Returns(c, IF err[c]["fg"] \in {"nil", "deadline"}
                  THEN Completed(code[c]["fg"]) ELSE Failed)
  /\ UNCHANGED <<job, stream, code, err, sent, notice, lost>>

\* Mutant: nobody watches the job after the wait timed out.
TakeDone_Unwatched(c) ==
  /\ handler[c] = "select"
  /\ ctx[c]["fg"] # "live"
  /\ Returns(c, Background)
  /\ UNCHANGED <<job, stream, code, err, sent, notice, lost>>

\* select takes the end of the context (the timeout, or a cancelled call):
\* the job goes to a watcher with a context of its own.
TakeDone(c) ==
  /\ handler[c] = "select"
  /\ ctx[c]["fg"] # "live"
  /\ Returns(c, Background)
  /\ stream' = [stream EXCEPT ![c]["bg"] = "connect"]
  /\ UNCHANGED <<job, code, err, sent, notice, lost>>

\* Mutant: the watcher reports what it has without looking at the error.
Notify_ErrorIgnored(c) ==
  /\ stream[c]["bg"] = "send"
  /\ notice' = [notice EXCEPT ![c] = Finished(code[c]["bg"])]
  /\ stream' = [stream EXCEPT ![c]["bg"] = "ended"]
  /\ UNCHANGED <<job, ctx, code, err, sent, handler, answer, lost>>

\* The watcher publishes how the job, or its stream, ended.
Notify(c) ==
  /\ stream[c]["bg"] = "send"
  /\ notice' = [notice EXCEPT ![c] =
       IF err[c]["bg"] = "nil" THEN Finished(code[c]["bg"]) ELSE Broken]
  /\ stream' = [stream EXCEPT ![c]["bg"] = "ended"]
  /\ UNCHANGED <<job, ctx, code, err, sent, handler, answer, lost>>

\* PublishMailboxEvent fails.  Its error is ignored: the watcher ends and the
\* session hears nothing.
NotifyFails(c) ==
  /\ "mail" \in Faults
  /\ stream[c]["bg"] = "send"
  /\ lost' = [lost EXCEPT ![c] = TRUE]
  /\ stream' = [stream EXCEPT ![c]["bg"] = "ended"]
  /\ UNCHANGED <<job, ctx, code, err, sent, handler, answer, notice>>

----------------------------------------------------------------------------
(* Timers and the environment *)

Streaming(c, k) == stream[c][k] \in {"connect", "read"}

\* Mutant: only the watcher's context has a deadline.
Deadline_BgOnly(c, k) ==
  /\ k = "bg"
  /\ Streaming(c, k)
  /\ ctx[c][k] = "live"
  /\ ctx' = [ctx EXCEPT ![c][k] = "deadline"]
  /\ UNCHANGED <<job, stream, code, err, sent, handler, answer, notice, lost>>

\* timeout-ms (10 s by default) for the handler, 30 minutes for the watcher.
Deadline(c, k) ==
  /\ Streaming(c, k)
  /\ ctx[c][k] = "live"
  /\ ctx' = [ctx EXCEPT ![c][k] = "deadline"]
  /\ UNCHANGED <<job, stream, code, err, sent, handler, answer, notice, lost>>

\* The agent gives up on the call.
Cancel(c) ==
  /\ "cancel" \in Faults
  /\ handler[c] = "select"
  /\ ctx[c]["fg"] = "live"
  /\ ctx' = [ctx EXCEPT ![c]["fg"] = "canceled"]
  /\ UNCHANGED <<job, stream, code, err, sent, handler, answer, notice, lost>>

\* The command ends, by itself or killed.
JobExit(c) ==
  /\ job[c] = Running
  /\ \E n \in Codes : job' = [job EXCEPT ![c] = n]
  /\ UNCHANGED <<ctx, stream, code, err, sent, handler, answer, notice, lost>>

\* ops-extension dies with its goroutines; the jobs live in their pods.
Crash ==
  /\ "crash" \in Faults
  /\ stream' = [c \in Calls |-> [k \in Kinds |-> "ended"]]
  /\ handler' = [c \in Calls |-> "dead"]
  /\ UNCHANGED <<job, ctx, code, err, sent, answer, notice, lost>>

StreamStep(c, k) ==
  \/ Connect(c, k) \/ ConnectFails(c, k) \/ JobCompleted(c, k)
  \/ ReadFails(c, k) \/ Eof(c, k)

Next ==
  \/ \E c \in Calls, k \in Kinds : StreamStep(c, k) \/ Deadline(c, k)
  \/ \E c \in Calls : \/ Send(c) \/ TakeResult(c) \/ TakeDone(c) \/ Notify(c)
                      \/ NotifyFails(c) \/ Cancel(c) \/ JobExit(c)
  \/ Crash

\* What a stream does when nothing goes wrong, and when its context ends: a
\* read that waits for the network returns then.
StreamSettles(c, k) ==
  \/ Connect(c, k) \/ JobCompleted(c, k)
  \/ /\ ctx[c][k] # "live"
     /\ ConnectFails(c, k) \/ ReadFails(c, k)

\* The Go runtime runs every goroutine that can run, and timers fire.  No
\* fault has to happen, and a command may run for ever.
Fairness ==
  \A c \in Calls :
    /\ \A k \in Kinds : WF_vars(StreamSettles(c, k)) /\ WF_vars(Deadline(c, k))
    /\ WF_vars(Send(c)) /\ WF_vars(Notify(c) \/ NotifyFails(c))
    /\ WF_vars(TakeResult(c) \/ TakeDone(c))

Spec == Init /\ [][Next]_vars /\ Fairness

----------------------------------------------------------------------------
(* Properties *)

TypeOK ==
  /\ job \in [Calls -> Codes \cup {Running}]
  /\ ctx \in [Calls -> [Kinds -> {"live", "deadline", "canceled"}]]
  /\ stream \in
       [Calls -> [Kinds -> {"off", "connect", "read", "send", "ended"}]]
  /\ code \in [Calls -> [Kinds -> Reported]]
  /\ err \in [Calls -> [Kinds -> {"nil", "net", "deadline", "canceled"}]]
  /\ sent \in [Calls -> BOOLEAN]
  /\ handler \in [Calls -> {"select", "returned", "dead"}]
  /\ answer \in [Calls -> Answers \cup {None}]
  /\ notice \in [Calls -> Notices \cup {None}]
  /\ lost \in [Calls -> BOOLEAN]

\* The call is answered once, and a notice follows a backgrounded command
\* only, once: the answer and the notice never both report an outcome.
Report == INSTANCE RunReport
ReportedOnce == Report!ReportSpec

\* A "Background command finished" notice that names an exit code names the
\* one the command ended with: a stream that broke before that leads to no
\* "fabricated" finish (tools.go:139-141).
HonestNotice ==
  \A c \in Calls :
    notice[c].kind = "finished" /\ notice[c].code \in Codes =>
      job[c] = notice[c].code

\* A "Command completed" answer names the exit code of a command that ended.
HonestCompletion ==
  \A c \in Calls : answer[c].kind = "completed" => job[c] = answer[c].code

\* Every accepted command is answered, however long it runs, unless
\* ops-extension dies first.
EveryRunAnswers == \A c \in Calls : <>(handler[c] # "select")

\* No goroutine waits for ever: the reader and the watcher both end.
NoGoroutineLeaks ==
  \A c \in Calls, k \in Kinds : <>[](stream[c][k] \in {"off", "ended"})

\* A call told "you will be notified" gets a notice of some kind, whatever
\* becomes of the stream.  Two things can take it away, and nothing else: the
\* watch is kept in memory only and ends with ops-extension, and a publish
\* that the mailbox does not take is not tried again (tools.go:142, 155).
BackgroundIsNoticed ==
  \A c \in Calls :
    answer[c] = Background ~>
      (notice[c] # None \/ handler[c] = "dead" \/ lost[c])
============================================================================
