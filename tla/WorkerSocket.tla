---------------------------- MODULE WorkerSocket ----------------------------
(***************************************************************************)
(* One command to the sandbox worker (internal/worker/channel.go): a socket*)
(* of its own, one request, and a loop over what arrives until the reply   *)
(* with the request's id, skipping the events the worker broadcasts on the *)
(* same socket.  The deadline of the read is set once, after the request   *)
(* was sent; the caller's context is looked at while dialling only.        *)
(*                                                                         *)
(* The callers are the job and file handlers of the HTTP face              *)
(* (handlers.go) and the job tools (tools.go), which have found the sandbox*)
(* before they come here.  Time runs in ticks.                             *)
(*                                                                         *)
(* External: the worker.  It answers job_wait when the job ends, or when   *)
(* the wait asked for, capped at WaitCap, is over ("the worker caps        *)
(* job_wait at 60s", handlers.go:91-92).                                   *)
(***************************************************************************)
EXTENDS Naturals, Sequences

CONSTANTS
  WaitCap,       \* the longest wait the worker grants (60 s)
  ReadTimeout,   \* wsReadTimeout (65 s)
  Lag,           \* a request and its reply take at most this long
  MaxWait,       \* the longest wait a caller asks for
  WireRoom       \* events on the wire at a time

\* What the constants are, assumed where the module is used.
SocketAssumption ==
  /\ WaitCap \in Nat \ {0} /\ ReadTimeout \in Nat /\ Lag \in Nat
  /\ MaxWait \in Nat /\ WireRoom \in Nat
  /\ WaitCap + Lag < ReadTimeout   \* "by enough margin", channel.go:17-19

VARIABLES
  rpc,       \* the next statement of the command
  method,    \* the method asked for
  wait,      \* the timeout-ms it carries
  ctx,       \* whether the caller's context is live
  left,      \* ticks to the read deadline
  wire,      \* what has arrived and was not read
  worker,    \* "free", "busy", "hung" (answers nothing), "full" (does not
             \* even read: the buffers are full), "replied", "gone"
  held,      \* ticks until a busy worker replies
  answer     \* what the command returned

socketVars == <<rpc, method, wait, ctx, left, wire, worker, held, answer>>

Methods ==
  {"execute", "jobs", "job_output", "job_wait", "job_stdin", "kill",
   "file_read", "file_write"}

\* Requests of any length: a command, its input, the content of a file.
Long == {"execute", "job_stdin", "file_write"}

AtMost(n, limit) == IF n <= limit THEN n ELSE limit

Init ==
  /\ rpc = "idle" /\ method = "none" /\ wait = 0 /\ ctx = TRUE
  /\ left = 0 /\ wire = <<>> /\ worker = "free" /\ held = 0
  /\ answer = "none"

----------------------------------------------------------------------------
(* The handlers *)

\* jobWait clamps what it is asked to [1s, 60s]; jobArgs passes it on as it is.
Waits(face, t) ==
  IF face = "http" THEN (IF t < 1 THEN 1 ELSE AtMost(t, WaitCap)) ELSE t

Ask(face, m, t) ==
  /\ rpc = "idle"
  /\ rpc' = "resolve"
  /\ method' = m
  /\ wait' = IF m = "job_wait" THEN Waits(face, t) ELSE 0
  /\ UNCHANGED <<ctx, left, wire, worker, held, answer>>

\* exec without a command is not sent.
NoCommand ==
  /\ rpc = "idle"
  /\ rpc' = "returned"
  /\ method' = "execute"
  /\ answer' = "bad request"
  /\ UNCHANGED <<wait, ctx, left, wire, worker, held>>

Return(a) == rpc' = "returned" /\ answer' = a

----------------------------------------------------------------------------
(* resolveWorkerURL, CommandOnce *)

Resolve ==
  /\ rpc = "resolve" /\ ctx
  /\ rpc' = "dial"
  /\ UNCHANGED <<method, wait, ctx, left, wire, worker, held, answer>>

\* jjlab does not know the sandbox, or its pod has no address yet.
ResolveFails ==
  /\ rpc = "resolve"
  /\ Return("no worker")
  /\ UNCHANGED <<method, wait, ctx, left, wire, worker, held>>

Dial ==
  /\ rpc = "dial" /\ ctx /\ worker # "gone"
  /\ rpc' = "send"
  /\ UNCHANGED <<method, wait, ctx, left, wire, worker, held, answer>>

\* Refused, not answered within the handshake's 10 s, or cancelled.
DialFails ==
  /\ rpc = "dial"
  /\ Return("not connected")
  /\ UNCHANGED <<method, wait, ctx, left, wire, worker, held>>

\* Mutant: a deadline no longer than what the worker may hold the request.
ReadDeadline_Cap == WaitCap

ReadDeadline == ReadTimeout

\* The request is written, and only then the read deadline set: a write that
\* does not fit the buffers waits for the worker to read, without a deadline.
\* The worker gets the request some time later, if at all.
Send(lag) ==
  /\ rpc = "send" /\ worker \notin {"gone", "full"}
  /\ rpc' = "recv"
  /\ left' = ReadDeadline
  /\ worker' \in {"busy", "hung"}
  /\ held' = lag + AtMost(wait, WaitCap)
  /\ UNCHANGED <<method, wait, ctx, wire, answer>>

SendFails ==
  /\ rpc = "send" /\ worker = "gone"
  /\ Return("not sent")
  /\ UNCHANGED <<method, wait, ctx, left, wire, worker, held>>

\* Mutant: every message sets the deadline again.
Recv_Rearms ==
  /\ rpc = "recv" /\ wire # <<>>
  /\ wire' = Tail(wire)
  /\ IF Head(wire) = "event"
       THEN left' = ReadDeadline /\ UNCHANGED <<rpc, answer>>
       ELSE Return(Head(wire)) /\ UNCHANGED left
  /\ UNCHANGED <<method, wait, ctx, worker, held>>

\* Events are skipped; the reply with our id, result or error, is returned.
Recv ==
  /\ rpc = "recv" /\ wire # <<>>
  /\ wire' = Tail(wire)
  /\ IF Head(wire) = "event"
       THEN UNCHANGED <<rpc, answer>>
       ELSE Return(Head(wire))
  /\ UNCHANGED <<method, wait, ctx, left, worker, held>>

Expire ==
  /\ rpc = "recv" /\ left = 0
  /\ Return("timeout")
  /\ UNCHANGED <<method, wait, ctx, left, wire, worker, held>>

\* The connection is reset under the read.
Reset ==
  /\ rpc = "recv" /\ worker = "gone"
  /\ Return("lost")
  /\ UNCHANGED <<method, wait, ctx, left, wire, worker, held>>

----------------------------------------------------------------------------
(* The worker, the clock, the agent *)

\* job.output, job.completed of any job of the sandbox.  What comes after the
\* deadline is not read any more.
Event ==
  /\ rpc = "recv" /\ left > 0 /\ worker # "gone" /\ Len(wire) < WireRoom
  /\ wire' = Append(wire, "event")
  /\ UNCHANGED <<rpc, method, wait, ctx, left, worker, held, answer>>

\* The job that is waited for ends.
JobEnds ==
  /\ worker = "busy" /\ method = "job_wait" /\ held > 0
  /\ held' = 0
  /\ UNCHANGED <<rpc, method, wait, ctx, left, wire, worker, answer>>

Reply ==
  /\ rpc = "recv" /\ worker = "busy" /\ held = 0
  /\ \E a \in {"ok", "refused"} : wire' = Append(wire, a)
  /\ worker' = "replied"
  /\ UNCHANGED <<rpc, method, wait, ctx, left, held, answer>>

\* The worker stops reading before it has taken a request that is longer than
\* the buffers between them.
Stall ==
  /\ rpc \in {"dial", "send"} /\ method \in Long /\ worker = "free"
  /\ worker' = "full"
  /\ UNCHANGED <<rpc, method, wait, ctx, left, wire, held, answer>>

\* The worker goes away: restart, delete, a lost node.
Drop ==
  /\ rpc \in {"resolve", "dial", "send", "recv"} /\ worker # "gone"
  /\ worker' = "gone"
  /\ UNCHANGED <<rpc, method, wait, ctx, left, wire, held, answer>>

\* The agent interrupts its call, or the browser leaves.
Interrupt ==
  /\ rpc \in {"resolve", "dial", "send", "recv"} /\ ctx
  /\ ctx' = FALSE
  /\ UNCHANGED <<rpc, method, wait, left, wire, worker, held, answer>>

\* A reply that is due is sent, and one that was sent is read, at once: Lag
\* stands for what they take.
Tick ==
  /\ rpc = "recv" /\ left > 0
  /\ worker # "replied"
  /\ worker = "busy" => held > 0
  /\ left' = left - 1
  /\ held' = IF worker = "busy" THEN held - 1 ELSE held
  /\ UNCHANGED <<rpc, method, wait, ctx, wire, worker, answer>>

CommandStep ==
  \/ Resolve \/ ResolveFails \/ Dial \/ DialFails \/ SendFails
  \/ \E lag \in 0..Lag : Send(lag)
  \/ Recv \/ Expire

Next ==
  \/ \E face \in {"http", "tool"}, m \in Methods, t \in 0..MaxWait :
       Ask(face, m, t)
  \/ NoCommand \/ CommandStep \/ Reset
  \/ Event \/ JobEnds \/ Reply \/ Stall \/ Drop \/ Interrupt \/ Tick

\* The command goes on, time passes, and a worker that holds no request back
\* replies to it.
Fairness ==
  WF_socketVars(CommandStep) /\ WF_socketVars(Reply) /\ WF_socketVars(Tick)

Spec == Init /\ [][Next]_socketVars /\ Fairness

----------------------------------------------------------------------------
(* Properties *)

TypeOK ==
  /\ rpc \in {"idle", "resolve", "dial", "send", "recv", "returned"}
  /\ method \in Methods \cup {"none"}
  /\ wait \in Nat /\ left \in Nat /\ held \in Nat
  /\ ctx \in BOOLEAN
  /\ wire \in Seq({"event", "ok", "refused"})
  /\ worker \in {"free", "busy", "hung", "full", "replied", "gone"}
  /\ answer \in {"none", "bad request", "no worker", "not connected",
                 "not sent", "timeout", "lost", "ok", "refused"}

\* "a job_wait response always arrives before this deadline"
\* (channel.go:17-19): whatever wait was asked for, through either face, the
\* read times out only on a worker that went away or does not answer at all.
WaitInTime == answer = "timeout" => worker \in {"hung", "gone"}

\* A command returns, although the worker may never reply, may go on sending
\* events for ever, and the caller's interrupt is not looked at; but one that
\* still writes to a worker which does not read waits for as long as that
\* worker stays: the write has no deadline (channel.go:34).
CommandReturns ==
  rpc # "idle" ~> rpc = "returned" \/ (rpc = "send" /\ worker = "full")
=============================================================================
