----------------------------- MODULE BuildTask -----------------------------
(***************************************************************************)
(* One local build task (buildtask.go): the goroutine that follows the     *)
(* jjlab task appends its one log line and sets the result, while browsers *)
(* stream the log (buildStream) or fetch it (buildGet).                    *)
(*                                                                         *)
(* A task logs one line at most (builder.go:141-156, buildtask.go:359-386),*)
(* so neither the 100000-line cap of the log nor the 256-line channel fills*)
(* up.  The readers read t.State without t.mu: while                       *)
(* setResult stores its two words they may see neither value ("torn").     *)
(***************************************************************************)
EXTENDS Naturals

CONSTANTS
  Readers    \* connections of browsers

VARIABLES
  state,     \* t.State, as a reader without the lock sees it; "none" while
             \* s.builds has no such task
  logs,      \* how many lines t.logs holds
  subs,      \* t.subs
  fanout,    \* channels append has yet to offer the line to
  work,      \* where the goroutine that owns the task is
  ch,        \* the connections whose channel holds the line
  pc,        \* pc[r]: r's next statement
  lines,     \* lines[r]: times this connection was sent the line
  shown,     \* shown[r]: the state it was last sent
  done,      \* done[r]: the state in its "done" event
  late       \* the connections that began after the task had ended

taskVars == <<state, logs, fanout, work>>
vars == <<state, logs, subs, fanout, work, ch, pc, lines, shown, done, late>>

Final  == {"done", "failed"}
States == Final \cup {"none", "running", "torn"}

Init ==
  /\ state = "none"
  /\ work = "none"
  /\ logs = 0
  /\ subs = {}
  /\ fanout = {}
  /\ ch = {}
  /\ pc = [r \in Readers |-> "closed"]
  /\ lines = [r \in Readers |-> 0]
  /\ shown = [r \in Readers |-> "none"]
  /\ done = [r \in Readers |-> "none"]
  /\ late = {}

----------------------------------------------------------------------------
(* The goroutine that owns the task *)

\* mirrorOpsTask, startPublishTask: a running task is stored in s.builds.
Register ==
  /\ work = "none"
  /\ state' = "running"
  /\ work' = "run"
  /\ UNCHANGED <<logs, subs, fanout, ch, pc, lines, shown, done, late>>

\* failTask: a task that nobody will work on is stored.
FailTask ==
  /\ work = "none"
  /\ state' = "failed"
  /\ work' = "ended"
  /\ UNCHANGED <<logs, subs, fanout, ch, pc, lines, shown, done, late>>

\* append, under the lock: the line is kept and the subscribers are copied.
Append ==
  /\ work = "run"
  /\ logs' = 1
  /\ fanout' = subs
  /\ work' = "logged"
  /\ UNCHANGED <<state, subs, ch, pc, lines, shown, done, late>>

\* append, without the lock: the line goes to one more channel of the copy.
Offer(r) ==
  /\ work = "logged"
  /\ r \in fanout
  /\ fanout' = fanout \ {r}
  /\ ch' = ch \cup {r}
  /\ UNCHANGED <<state, logs, subs, work, pc, lines, shown, done, late>>

\* Mutant: the result is set before the line is logged.
SetResult_First ==
  /\ \/ work = "run" /\ state' = "torn" /\ UNCHANGED work
     \/ state = "torn" /\ state' \in Final /\ UNCHANGED work
     \/ work = "logged" /\ fanout = {} /\ work' = "ended" /\ UNCHANGED state
  /\ UNCHANGED <<logs, subs, fanout, ch, pc, lines, shown, done, late>>

\* setResult, whose store a reader may see half of.  A task that fails has
\* logged its error; one that is done may have had nothing to log.
SetResult ==
  /\ \/ work = "logged" /\ fanout = {} /\ state' = "torn"
        /\ work' = "storing"
     \/ work = "run" /\ state' = "torn" /\ work' = "storing done"
     \/ work = "storing" /\ state' \in Final /\ work' = "ended"
     \/ work = "storing done" /\ state' = "done" /\ work' = "ended"
  /\ UNCHANGED <<logs, subs, fanout, ch, pc, lines, shown, done, late>>

----------------------------------------------------------------------------
(* buildStream *)

Goto(r, label) == pc' = [pc EXCEPT ![r] = label]

\* A browser connects; an EventSource reconnects when it lost its stream.  It
\* gets a channel of its own, which append has not copied.
Open(r) ==
  /\ state # "none"
  /\ pc[r] = "closed"
  /\ Goto(r, "replay")
  /\ lines' = [lines EXCEPT ![r] = 0]
  /\ ch' = ch \ {r}
  /\ shown' = [shown EXCEPT ![r] = "none"]
  /\ done' = [done EXCEPT ![r] = "none"]
  /\ late' = IF state \in Final THEN late \cup {r} ELSE late \ {r}
  /\ fanout' = fanout \ {r}
  /\ UNCHANGED <<state, logs, work, subs>>

\* Mutant: the handler subscribes before it takes the snapshot.
Replay_Subscribed(r) ==
  /\ pc[r] = "replay"
  /\ IF r \in subs
       THEN /\ lines' = [lines EXCEPT ![r] = @ + logs]
            /\ Goto(r, "state")
            /\ UNCHANGED subs
       ELSE subs' = subs \cup {r} /\ UNCHANGED <<lines, pc>>
  /\ UNCHANGED <<taskVars, ch, shown, done, late>>

\* The snapshot of the log is sent.
Replay(r) ==
  /\ pc[r] = "replay"
  /\ lines' = [lines EXCEPT ![r] = @ + logs]
  /\ Goto(r, "state")
  /\ UNCHANGED <<taskVars, subs, ch, shown, done, late>>

SendState(r) ==
  /\ pc[r] = "state"
  /\ shown' = [shown EXCEPT ![r] = state]
  /\ Goto(r, "subscribe")
  /\ UNCHANGED <<taskVars, subs, ch, lines, done, late>>

Subscribe(r) ==
  /\ pc[r] = "subscribe"
  /\ subs' = subs \cup {r}
  /\ Goto(r, "check")
  /\ UNCHANGED <<taskVars, ch, lines, shown, done, late>>

\* The final event, and the deferred unsub.
SendDone(r) ==
  /\ state # "running"
  /\ done' = [done EXCEPT ![r] = state]
  /\ subs' = subs \ {r}
  /\ Goto(r, "closed")
  /\ UNCHANGED <<taskVars, ch, lines, shown, late>>

StayOpen(r) ==
  /\ state = "running"
  /\ Goto(r, "loop")
  /\ UNCHANGED <<taskVars, subs, ch, lines, shown, done, late>>

\* Mutant: a finished task is not looked for before the loop.
Check_Loops(r) ==
  /\ pc[r] = "check"
  /\ Goto(r, "loop")
  /\ UNCHANGED <<taskVars, subs, ch, lines, shown, done, late>>

\* After subscribing, and after each line: is the task still running?
Check(r) ==
  /\ pc[r] = "check"
  /\ SendDone(r) \/ StayOpen(r)

\* A line arrives: it is sent, and the state is looked at again.
Take(r) ==
  /\ pc[r] = "loop"
  /\ r \in ch
  /\ ch' = ch \ {r}
  /\ lines' = [lines EXCEPT ![r] = @ + 1]
  /\ Goto(r, "check")
  /\ UNCHANGED <<taskVars, subs, shown, done, late>>

\* The client is gone; the handler sees it in its select only.
Disconnect(r) ==
  /\ pc[r] = "loop"
  /\ subs' = subs \ {r}
  /\ Goto(r, "closed")
  /\ UNCHANGED <<taskVars, ch, lines, shown, done, late>>

----------------------------------------------------------------------------
(* buildGet *)

\* Mutant: the log is read before the state.
GetState_LogsFirst(r) ==
  /\ state # "none"
  /\ pc[r] = "closed"
  /\ lines' = [lines EXCEPT ![r] = logs]
  /\ shown' = [shown EXCEPT ![r] = "none"]
  /\ done' = [done EXCEPT ![r] = "none"]
  /\ Goto(r, "logs")
  /\ UNCHANGED <<taskVars, subs, ch, late>>

\* summary() reads the state ...
GetState(r) ==
  /\ state # "none"
  /\ pc[r] = "closed"
  /\ shown' = [shown EXCEPT ![r] = state]
  /\ lines' = [lines EXCEPT ![r] = 0]
  /\ done' = [done EXCEPT ![r] = "none"]
  /\ Goto(r, "logs")
  /\ UNCHANGED <<taskVars, subs, ch, late>>

\* ... and snapshotLogs the log, for one page.
GetLogs(r) ==
  /\ pc[r] = "logs"
  /\ lines' = [lines EXCEPT ![r] = logs]
  /\ Goto(r, "page")
  /\ UNCHANGED <<taskVars, subs, ch, shown, done, late>>

\* The page was shown.
Leave(r) ==
  /\ pc[r] = "page"
  /\ Goto(r, "closed")
  /\ UNCHANGED <<taskVars, subs, ch, lines, shown, done, late>>

StreamStep(r) ==
  \/ Replay(r) \/ SendState(r) \/ Subscribe(r) \/ Check(r) \/ Take(r)

Next ==
  \/ Register \/ FailTask \/ Append \/ SetResult
  \/ \E r \in Readers :
       \/ Offer(r) \/ Open(r) \/ StreamStep(r) \/ Disconnect(r)
       \/ GetState(r) \/ GetLogs(r) \/ Leave(r)

\* The task ends (every wait has a ceiling), and a handler takes its steps;
\* nobody has to connect, disconnect or leave.
Fairness ==
  /\ WF_vars(SetResult)
  /\ \A r \in Readers :
       WF_vars(Offer(r)) /\ WF_vars(StreamStep(r)) /\ WF_vars(GetLogs(r))

Spec == Init /\ [][Next]_vars /\ Fairness

----------------------------------------------------------------------------
(* Properties *)

TypeOK ==
  /\ state \in States
  /\ logs \in {0, 1}
  /\ subs \subseteq Readers
  /\ fanout \subseteq Readers
  /\ work \in {"none", "run", "logged", "storing", "storing done", "ended"}
  /\ ch \subseteq Readers
  /\ pc \in [Readers -> {"closed", "replay", "state", "subscribe", "check",
                         "loop", "logs", "page"}]
  /\ lines \in [Readers -> Nat]
  /\ shown \in [Readers -> States]
  /\ done \in [Readers -> States]
  /\ late \subseteq Readers

\* One connection never gets the line twice, from the snapshot and from its
\* channel.
NoLineTwice == \A r \in Readers : lines[r] <= 1

\* A stream opened after the task ended carries the whole log before its
\* "done": "a page refresh can recover the full log" (buildtask.go:20-21).
LateStreamComplete ==
  \A r \in Readers :
    r \in late /\ done[r] # "none" => lines[r] = logs

\* A fetched page that shows the task ended shows its whole log, although the
\* state and the log are read at two moments.
PageIsComplete ==
  \A r \in Readers :
    pc[r] = "page" /\ shown[r] # "running" => lines[r] = logs

\* A stream opened after the task ended is closed with a "done" event.
LateStreamEnds ==
  \A r \in Readers : (pc[r] = "replay" /\ r \in late) ~> (done[r] \in Final)

\* "the server closed after completion" (Builds.svelte:81-82): no stream
\* stays open on a task that ended.
StreamsEnd ==
  \A r \in Readers :
    (pc[r] = "loop" /\ work = "ended") ~> (pc[r] # "loop")
============================================================================
