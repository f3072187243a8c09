---------------------------- MODULE SandboxSync ----------------------------
(***************************************************************************)
(* How one tool call of ops-extension finds its workspace revision, brings *)
(* the session's worker pod to that revision and uses it: the workspace    *)
(* cache (sessions.go), the synced-revision map (sessions.go), the         *)
(* need_sync retry of sandbox-run and the cache invalidation of            *)
(* sandbox-port (tools.go).  Tool calls run concurrently, and every remote *)
(* call is a separate step between which other calls, bookmark moves, pod  *)
(* restarts and a crash of ops-extension itself may fall.                  *)
(*                                                                         *)
(* External: the bookmark store and sync endpoint of jjlab, the worker pod *)
(* and its rev gate.  They are modelled from the requests src/ sends, the  *)
(* replies it decodes, and what its comments rely on.                      *)
(***************************************************************************)
EXTENDS Naturals

CONSTANTS
  Sessions,   \* session names "org:repo:bookmark"; labelKey(session) is 1-1
  Calls,      \* tool calls; each runs once
  Tools,      \* which tools the calls may be
  Revs,       \* commit ids a bookmark may point to
  NoRev,      \* "no revision": an absent map entry, rev "", an unsynced pod
  Faults,     \* which environment faults may happen
  MaxMoves,   \* bound: moves of a bookmark
  MaxPods     \* bound: pods ever created for a session

AllTools == {"create", "run", "read", "write", "port", "build"}
AllFaults == {"restart", "delete", "crash", "timeout"}

ASSUME RevAssumption == NoRev \notin Revs
ASSUME ToolAssumption == Tools \subseteq AllTools /\ Faults \subseteq AllFaults
ASSUME BoundAssumption == MaxMoves \in Nat /\ MaxPods \in Nat

VARIABLES
  head,     \* head[s]: the bookmark target, and how many moves produced it
  cached,   \* cached[s]: server.wsCache (NoHead when absent or past its TTL)
  synced,   \* synced[s]: server.synced, keyed by labelKey(s)
  jjSynced, \* jjSynced[s]: jjlab's own synced-rev cache
  pod,      \* pod[s]: the incarnation (the IP) of the worker pod, 0 for none
  made,     \* made[s]: how many pods were created so far
  gate,     \* gate[s]: the rev the worker checks execute requests against
  tree,     \* tree[s]: the rev whose files the worker holds
  late,     \* late[s]: syncs abandoned by their caller, not yet applied
  pc,       \* pc[c]: the next statement of call c
  tool,     \* tool[c]: what call c is
  sess,     \* sess[c]: the session it is issued for
  ws,       \* ws[c]: the workspace the call resolved
  url,      \* url[c]: the worker URL of sandbox-run, as a pod incarnation
  retry,    \* retry[c]: TRUE once sandbox-run handles a need_sync
  jobs,     \* history: the commands workers accepted
  acked,    \* history: acked[s], revisions whose Sync jjlab acknowledged
  ported,   \* history: ported[s], the newest head a returned port produced
  floor,    \* history: floor[c], ported[sess[c]] when call c began
  stamp,    \* history: stamp[c], the head that port call c produced
  crossed,  \* history: calls whose stale fill an invalidation overtook
  doubt     \* history: sessions whose tree may not be what a call relies on

serverVars == <<cached, synced>>
envVars    == <<head, jjSynced, pod, made, gate, tree, late>>
callVars   == <<pc, tool, sess, ws, url, retry>>
history    == <<jobs, acked, ported, floor, stamp, crossed, doubt>>
vars       == <<serverVars, envVars, callVars, history>>

----------------------------------------------------------------------------
(* Null values, types and state predicates *)

Rev    == Revs \cup {NoRev}
Head   == [rev : Rev, at : Nat]
NoHead == [rev |-> NoRev, at |-> 0]

Labels == {"idle", "fetch", "store", "create", "info", "check", "sync",
           "record", "read", "write", "commit", "invalidate", "url",
           "run1", "run2", "run3", "unmark", "done"}
Attempts == {"run1", "run2", "run3"}

\* Statements that wait for a remote reply, and so can fail with an error.
Remote == {"fetch", "create", "info", "sync", "read", "write", "commit",
           "url"} \cup Attempts

Job == [call : Calls, attempt : Attempts, rev : Rev, tree : Rev]

Active(c) == pc[c] \notin {"idle", "done"}

\* ops-extension starts with empty maps; the pods of its sessions may exist
\* already, with the tree an earlier instance synced.
Init ==
  /\ head \in [Sessions -> {[rev |-> r, at |-> 0] : r \in Revs}]
  /\ cached = [s \in Sessions |-> NoHead]
  /\ synced = [s \in Sessions |-> NoRev]
  /\ pod \in [Sessions -> {0, 1}]
  /\ made = pod
  /\ tree \in [Sessions -> Rev]
  /\ gate = tree
  /\ jjSynced \in [Sessions -> Rev]
  /\ \A s \in Sessions : /\ jjSynced[s] \in {NoRev, tree[s]}
                         /\ pod[s] = 0 => tree[s] = NoRev
  /\ late = [s \in Sessions |-> {}]
  /\ pc = [c \in Calls |-> "idle"]
  /\ tool \in [Calls -> Tools]
  /\ sess \in [Calls -> Sessions]
  /\ ws = [c \in Calls |-> NoHead]
  /\ url = [c \in Calls |-> 0]
  /\ retry = [c \in Calls |-> FALSE]
  /\ jobs = {}
  /\ acked = [s \in Sessions |-> {}]
  /\ ported = [s \in Sessions |-> 0]
  /\ floor = [c \in Calls |-> 0]
  /\ stamp = [c \in Calls |-> 0]
  /\ crossed = {}
  /\ doubt = {}

Goto(c, label) == pc' = [pc EXCEPT ![c] = label]

----------------------------------------------------------------------------
(* resolveWorkspace, lookupWorkspace *)

\* What the handler does once its workspace is resolved: container-build and
\* the other repository tools leave this module, sandbox-create creates the
\* pod, the rest inspect it.
AfterResolve(c) ==
  IF tool[c] = "build" THEN "done"
  ELSE IF tool[c] = "create" THEN "create" ELSE "info"

\* The agent sends call c.  lookupWorkspace finds an unexpired entry: the
\* cached workspace is returned.
BeginHit(c) ==
  /\ pc[c] = "idle"
  /\ cached[sess[c]] # NoHead
  /\ ws' = [ws EXCEPT ![c] = cached[sess[c]]]
  /\ floor' = [floor EXCEPT ![c] = ported[sess[c]]]
  /\ Goto(c, AfterResolve(c))
  /\ UNCHANGED <<serverVars, envVars, tool, sess, url, retry,
                 jobs, acked, ported, stamp, crossed, doubt>>

\* A miss: the lock is released and the head is requested from jjlab.
BeginMiss(c) ==
  /\ pc[c] = "idle"
  /\ cached[sess[c]] = NoHead
  /\ floor' = [floor EXCEPT ![c] = ported[sess[c]]]
  /\ Goto(c, "fetch")
  /\ UNCHANGED <<serverVars, envVars, tool, sess, ws, url, retry,
                 jobs, acked, ported, stamp, crossed, doubt>>

\* jjBookmarkHead: the head as jjlab answers; the reply is not stored yet.
Fetch(c) ==
  /\ pc[c] = "fetch"
  /\ ws' = [ws EXCEPT ![c] = head[sess[c]]]
  /\ Goto(c, "store")
  /\ UNCHANGED <<serverVars, envVars, tool, sess, url, retry, history>>

\* The lock is taken again and the fetched head cached for 30 s.
Store(c) ==
  /\ pc[c] = "store"
  /\ cached' = [cached EXCEPT ![sess[c]] = ws[c]]
  /\ Goto(c, AfterResolve(c))
  /\ UNCHANGED <<synced, envVars, tool, sess, ws, url, retry, history>>

----------------------------------------------------------------------------
(* createWorker, ensureSandbox *)

\* EnsureService: a pod that exists is reused as it is, otherwise a new one is
\* created from the base image and awaited.
Create(c) ==
  LET s == sess[c] IN
  /\ pc[c] = "create"
  /\ \/ /\ pod[s] # 0
        /\ UNCHANGED <<pod, made, gate, tree, jjSynced>>
     \/ /\ pod[s] = 0
        /\ made[s] < MaxPods
        /\ pod' = [pod EXCEPT ![s] = made[s] + 1]
        /\ made' = [made EXCEPT ![s] = @ + 1]
        /\ gate' = [gate EXCEPT ![s] = NoRev]
        /\ tree' = [tree EXCEPT ![s] = NoRev]
        /\ jjSynced' = [jjSynced EXCEPT ![s] = NoRev]
  /\ Goto(c, "done")
  /\ UNCHANGED <<serverVars, head, late, tool, sess, ws, url, retry, history>>

\* ensureSandbox after the pod was found: sandbox-run, -read and -edit sync
\* first; the others (write, download, the job tools, port) do not.
AfterInfo(c) ==
  IF tool[c] \in {"run", "read"} THEN "check"
  ELSE IF tool[c] = "port" THEN "commit" ELSE "write"

\* workerInfo: the pod must exist; a missing one is an error (see Fail).
Info(c) ==
  /\ pc[c] = "info"
  /\ pod[sess[c]] # 0
  /\ Goto(c, AfterInfo(c))
  /\ UNCHANGED <<serverVars, envVars, tool, sess, ws, url, retry, history>>

----------------------------------------------------------------------------
(* ensureSynced, markUnsynced *)

AfterSync(c) ==
  IF tool[c] = "read" THEN "read"
  ELSE IF retry[c] THEN "run2" ELSE "url"

\* A call that is past its sync counts on the tree, until it returns or is
\* told need_sync; Rival: another one counts on the tree of another revision.
Relies(c) == pc[c] \in {"record", "read", "url"} \cup Attempts

Rival(c) ==
  \E d \in Calls : sess[d] = sess[c] /\ Relies(d) /\ ws[d].rev # ws[c].rev

\* Mutant: a worker that was synced once is taken as synced to anything.
Check_AnyRev(c) ==
  /\ pc[c] = "check"
  /\ \/ /\ synced[sess[c]] # NoRev
        /\ doubt' = IF Rival(c) THEN doubt \cup {sess[c]} ELSE doubt
        /\ Goto(c, AfterSync(c))
     \/ /\ synced[sess[c]] = NoRev
        /\ Goto(c, "sync")
        /\ UNCHANGED doubt
  /\ UNCHANGED <<serverVars, envVars, tool, sess, ws, url, retry,
                 jobs, acked, ported, floor, stamp, crossed>>

\* ensureSynced trusts the recorded revision.
Check(c) ==
  /\ pc[c] = "check"
  /\ \/ /\ synced[sess[c]] = ws[c].rev
        /\ doubt' = IF Rival(c) THEN doubt \cup {sess[c]} ELSE doubt
        /\ Goto(c, AfterSync(c))
     \/ /\ synced[sess[c]] # ws[c].rev
        /\ Goto(c, "sync")
        /\ UNCHANGED doubt
  /\ UNCHANGED <<serverVars, envVars, tool, sess, ws, url, retry,
                 jobs, acked, ported, floor, stamp, crossed>>

\* jjlab's side of POST /ops/services/{key}/sync without force: skipped when
\* jjlab believes the worker holds r, else the tree is extracted into the
\* worker, which remembers r.  After an extraction the tree is in doubt only
\* as far as unsure says.
JjSync(s, r, unsure) ==
  \/ /\ jjSynced[s] = r
     /\ UNCHANGED <<gate, tree, jjSynced, doubt>>
  \/ /\ jjSynced[s] # r
     /\ pod[s] # 0
     /\ gate' = [gate EXCEPT ![s] = r]
     /\ tree' = [tree EXCEPT ![s] = r]
     /\ jjSynced' = [jjSynced EXCEPT ![s] = r]
     /\ doubt' = IF unsure THEN doubt \cup {s} ELSE doubt \ {s}

\* Mutant: the request names the bookmark, not the commit that was resolved.
Sync_Bookmark(c) ==
  /\ pc[c] = "sync"
  /\ JjSync(sess[c], head[sess[c]].rev, Rival(c))
  /\ acked' = [acked EXCEPT ![sess[c]] = @ \cup {ws[c].rev}]
  /\ Goto(c, "record")
  /\ UNCHANGED <<serverVars, head, pod, made, late, tool, sess, ws, url, retry,
                 jobs, ported, floor, stamp, crossed>>

\* The Sync request and its acknowledgement.
Sync(c) ==
  /\ pc[c] = "sync"
  /\ JjSync(sess[c], ws[c].rev, Rival(c))
  /\ acked' = [acked EXCEPT ![sess[c]] = @ \cup {ws[c].rev}]
  /\ Goto(c, "record")
  /\ UNCHANGED <<serverVars, head, pod, made, late, tool, sess, ws, url, retry,
                 jobs, ported, floor, stamp, crossed>>

\* Mutant: the error of Sync is ignored and the revision recorded.
SyncTimeout_Recorded(c) ==
  /\ "timeout" \in Faults
  /\ pc[c] = "sync"
  /\ late' = [late EXCEPT ![sess[c]] = @ \cup {ws[c].rev}]
  /\ Goto(c, "record")
  /\ UNCHANGED <<serverVars, head, jjSynced, pod, made, gate, tree,
                 tool, sess, ws, url, retry, history>>

\* The 60 s client deadline passes: the call fails, jjlab may still finish.
SyncTimeout(c) ==
  /\ "timeout" \in Faults
  /\ pc[c] = "sync"
  /\ late' = [late EXCEPT ![sess[c]] = @ \cup {ws[c].rev}]
  /\ Goto(c, "done")
  /\ UNCHANGED <<serverVars, head, jjSynced, pod, made, gate, tree,
                 tool, sess, ws, url, retry, history>>

\* setSyncedRev, after the acknowledgement.
Record(c) ==
  /\ pc[c] = "record"
  /\ synced' = [synced EXCEPT ![sess[c]] = ws[c].rev]
  /\ Goto(c, AfterSync(c))
  /\ UNCHANGED <<cached, envVars, tool, sess, ws, url, retry, history>>

\* sandbox-run was told need_sync: forget the recorded revision, sync again.
Unmark(c) ==
  /\ pc[c] = "unmark"
  /\ synced' = [synced EXCEPT ![sess[c]] = NoRev]
  /\ retry' = [retry EXCEPT ![c] = TRUE]
  /\ Goto(c, "check")
  /\ UNCHANGED <<cached, envVars, tool, sess, ws, url, history>>

----------------------------------------------------------------------------
(* What the tools do with the pod *)

\* sandbox-read, and the read of sandbox-edit: the tree as the worker has it.
ReadFile(c) ==
  /\ pc[c] = "read"
  /\ pod[sess[c]] # 0
  /\ Goto(c, "done")
  /\ UNCHANGED <<serverVars, envVars, tool, sess, ws, url, retry, history>>

\* sandbox-write, sandbox-download, sandbox-job-*: an RPC on the pod as it is.
UsePod(c) ==
  /\ pc[c] = "write"
  /\ pod[sess[c]] # 0
  /\ Goto(c, "done")
  /\ UNCHANGED <<serverVars, envVars, tool, sess, ws, url, retry, history>>

\* portFile: the commit moves the bookmark to a new revision.
Commit(c) ==
  LET s == sess[c] IN
  /\ pc[c] = "commit"
  /\ head[s].at < MaxMoves
  /\ \E r \in Revs \ {head[s].rev} :
       head' = [head EXCEPT ![s] = [rev |-> r, at |-> @.at + 1]]
  /\ stamp' = [stamp EXCEPT ![c] = head[s].at + 1]
  /\ Goto(c, "invalidate")
  /\ UNCHANGED <<serverVars, jjSynced, pod, made, gate, tree, late, tool, sess,
                 ws, url, retry, jobs, acked, ported, floor, crossed, doubt>>

\* The calls about to cache a head older than the one port call c produced.
Overtaken(c) ==
  {d \in Calls :
     sess[d] = sess[c] /\ pc[d] = "store" /\ ws[d].at < stamp[c]}

\* Mutant: sandbox-port returns without dropping the cached workspace.
Invalidate_Kept(c) ==
  LET s == sess[c] IN
  /\ pc[c] = "invalidate"
  /\ ported' = [ported EXCEPT ![s] = IF stamp[c] > @ THEN stamp[c] ELSE @]
  /\ crossed' = crossed \cup Overtaken(c)
  /\ Goto(c, "done")
  /\ UNCHANGED <<serverVars, envVars, tool, sess, ws, url, retry,
                 jobs, acked, floor, stamp, doubt>>

\* invalidateWorkspace, and the successful return of sandbox-port.
Invalidate(c) ==
  LET s == sess[c] IN
  /\ pc[c] = "invalidate"
  /\ cached' = [cached EXCEPT ![s] = NoHead]
  /\ ported' = [ported EXCEPT ![s] = IF stamp[c] > @ THEN stamp[c] ELSE @]
  /\ crossed' = crossed \cup Overtaken(c)
  /\ Goto(c, "done")
  /\ UNCHANGED <<synced, envVars, tool, sess, ws, url, retry,
                 jobs, acked, floor, stamp, doubt>>

\* resolveWorkerURL: the URL is fixed here, once, for all attempts.
ResolveURL(c) ==
  /\ pc[c] = "url"
  /\ pod[sess[c]] # 0
  /\ url' = [url EXCEPT ![c] = pod[sess[c]]]
  /\ Goto(c, "run1")
  /\ UNCHANGED <<serverVars, envVars, tool, sess, ws, retry, history>>

----------------------------------------------------------------------------
(* sandbox-run: up to three execute requests *)

\* Mutant: the retry after the re-sync already drops the rev.
Gate_FirstOnly(c) == IF pc[c] = "run1" THEN ws[c].rev ELSE NoRev

\* The rev that run(rev) passes; the third request carries none.
Gate(c) == IF pc[c] = "run3" THEN NoRev ELSE ws[c].rev

Reachable(c) == pod[sess[c]] = url[c]

GateOpen(c) == Gate(c) = NoRev \/ gate[sess[c]] = Gate(c)

\* Mutant: every error of the first request is taken for need_sync.
AfterError_AnyError(c) ==
  IF pc[c] = "run1" THEN "unmark" ELSE IF pc[c] = "run2" THEN "run3" ELSE "done"

\* Where an execute that ends in an error other than need_sync leaves the
\* handler: only the second attempt has a fallback.
AfterError(c) == IF pc[c] = "run2" THEN "run3" ELSE "done"

\* Mutant: the second request handles need_sync as the first one does.
AfterRefusal_Loop(c) == IF pc[c] = "run3" THEN "done" ELSE "unmark"

\* Where need_sync leaves it: only the first attempt looks for it.
AfterRefusal(c) == IF pc[c] = "run1" THEN "unmark" ELSE "run3"

\* The worker starts the command; its reply arrives, or is lost and the
\* handler sees a connection error.
ExecAccept(c) ==
  LET s == sess[c] IN
  /\ pc[c] \in Attempts
  /\ Reachable(c)
  /\ GateOpen(c)
  /\ jobs' = jobs \cup {[call |-> c, attempt |-> pc[c], rev |-> ws[c].rev,
                         tree |-> tree[s]]}
  /\ \/ Goto(c, "done")
     \/ "timeout" \in Faults /\ Goto(c, AfterError(c))
  /\ UNCHANGED <<serverVars, envVars, tool, sess, ws, url, retry,
                 acked, ported, floor, stamp, crossed, doubt>>

\* The worker answers need_sync: its revision is not the one requested.
ExecRefuse(c) ==
  /\ pc[c] \in Attempts
  /\ Reachable(c)
  /\ ~GateOpen(c)
  /\ Goto(c, AfterRefusal(c))
  /\ UNCHANGED <<serverVars, envVars, tool, sess, ws, url, retry, history>>

\* Any remote call may fail without effect: not found, refused, timed out.
Fail(c) ==
  /\ pc[c] \in Remote
  /\ Goto(c, AfterError(c))
  /\ UNCHANGED <<serverVars, envVars, tool, sess, ws, url, retry, history>>

CallStep(c) ==
  \/ Fetch(c) \/ Store(c) \/ Create(c) \/ Info(c)
  \/ Check(c) \/ Sync(c) \/ SyncTimeout(c) \/ Record(c) \/ Unmark(c)
  \/ ReadFile(c) \/ UsePod(c) \/ Commit(c) \/ Invalidate(c)
  \/ ResolveURL(c) \/ ExecAccept(c) \/ ExecRefuse(c) \/ Fail(c)

----------------------------------------------------------------------------
(* The environment *)

\* Someone else moves the bookmark (a push, another session's port, or a port
\* commit whose reply was lost).
Move(s) ==
  /\ head[s].at < MaxMoves
  /\ \E r \in Revs \ {head[s].rev} :
       head' = [head EXCEPT ![s] = [rev |-> r, at |-> @.at + 1]]
  /\ UNCHANGED <<serverVars, jjSynced, pod, made, gate, tree, late, callVars,
                 history>>

\* The 30 s TTL of a cache entry passes: every later lookup misses.
Expire(s) ==
  /\ cached[s] # NoHead
  /\ cached' = [cached EXCEPT ![s] = NoHead]
  /\ UNCHANGED <<synced, envVars, callVars, history>>

\* The worker process restarts in its pod: it forgets its revision, and loses
\* the tree when the container's file system goes with it.
Restart(s) ==
  /\ "restart" \in Faults
  /\ pod[s] # 0
  /\ gate' = [gate EXCEPT ![s] = NoRev]
  /\ \E t \in {tree[s], NoRev} : tree' = [tree EXCEPT ![s] = t]
  /\ doubt' = doubt \cup {s}
  /\ UNCHANGED <<serverVars, head, jjSynced, pod, made, late, callVars,
                 jobs, acked, ported, floor, stamp, crossed>>

\* DELETE /sandboxes/{session} (deleteContainer, destroyWorker): the service
\* is deleted through jjlab; the server's own maps are left alone.
Delete(s) ==
  /\ "delete" \in Faults
  /\ pod[s] # 0
  /\ pod' = [pod EXCEPT ![s] = 0]
  /\ gate' = [gate EXCEPT ![s] = NoRev]
  /\ tree' = [tree EXCEPT ![s] = NoRev]
  /\ jjSynced' = [jjSynced EXCEPT ![s] = NoRev]
  /\ doubt' = doubt \cup {s}
  /\ UNCHANGED <<serverVars, head, made, late, callVars,
                 jobs, acked, ported, floor, stamp, crossed>>

\* jjlab drops its synced-rev cache (it restarts, or the entry ages out).
JjForget(s) ==
  /\ jjSynced[s] # NoRev
  /\ jjSynced' = [jjSynced EXCEPT ![s] = NoRev]
  /\ UNCHANGED <<serverVars, head, pod, made, gate, tree, late, callVars,
                 history>>

\* jjlab finishes a sync whose caller has gone.
LateSync(s) ==
  \E r \in late[s] :
    /\ late' = [late EXCEPT ![s] = @ \ {r}]
    /\ IF pod[s] # 0
         THEN JjSync(s, r, TRUE) ELSE UNCHANGED <<gate, tree, jjSynced, doubt>>
    /\ UNCHANGED <<serverVars, head, pod, made, callVars,
                   jobs, acked, ported, floor, stamp, crossed>>

\* ops-extension dies and starts again: both maps are empty, its calls are
\* gone, and a sync it had requested may still be applied.
Crash ==
  /\ "crash" \in Faults
  /\ \E c \in Calls : Active(c)
  /\ cached' = [s \in Sessions |-> NoHead]
  /\ synced' = [s \in Sessions |-> NoRev]
  /\ late' = [s \in Sessions |-> late[s] \cup
       {ws[c].rev : c \in {d \in Calls : sess[d] = s /\ pc[d] = "sync"}}]
  /\ pc' = [c \in Calls |-> IF Active(c) THEN "done" ELSE pc[c]]
  /\ UNCHANGED <<head, jjSynced, pod, made, gate, tree,
                 tool, sess, ws, url, retry, history>>

EnvStep(s) ==
  Move(s) \/ Expire(s) \/ Restart(s) \/ Delete(s) \/ JjForget(s) \/ LateSync(s)

Next ==
  \/ \E c \in Calls : BeginHit(c) \/ BeginMiss(c) \/ CallStep(c)
  \/ \E s \in Sessions : EnvStep(s)
  \/ Crash

\* Goroutines are scheduled, and every remote call has a client deadline (60 s
\* HTTP, 10 s handshake and 65 s read on the worker socket): a call that has
\* begun always has a step and eventually takes it.  The agent and the
\* environment owe nothing.
Spec == Init /\ [][Next]_vars /\ \A c \in Calls : WF_vars(CallStep(c))

----------------------------------------------------------------------------
(* Properties *)

TypeOK ==
  /\ head \in [Sessions -> Head]
  /\ cached \in [Sessions -> Head]
  /\ synced \in [Sessions -> Rev]
  /\ jjSynced \in [Sessions -> Rev]
  /\ pod \in [Sessions -> Nat] /\ made \in [Sessions -> Nat]
  /\ gate \in [Sessions -> Rev] /\ tree \in [Sessions -> Rev]
  /\ late \in [Sessions -> SUBSET Rev]
  /\ pc \in [Calls -> Labels]
  /\ tool \in [Calls -> Tools]
  /\ sess \in [Calls -> Sessions]
  /\ ws \in [Calls -> Head]
  /\ url \in [Calls -> Nat]
  /\ retry \in [Calls -> BOOLEAN]
  /\ jobs \subseteq Job
  /\ acked \in [Sessions -> SUBSET Rev]
  /\ ported \in [Sessions -> Nat]
  /\ floor \in [Calls -> Nat]
  /\ stamp \in [Calls -> Nat]
  /\ crossed \subseteq Calls
  /\ doubt \subseteq Sessions

\* A command that was sent with a rev ran on the tree of that rev, whatever
\* restarts, deletes, concurrent syncs and late syncs came in between: the
\* rev gate of the first two execute requests of sandbox-run works.
GatedJobsSeeTheirRev ==
  \A j \in jobs : j.attempt # "run3" => j.tree = j.rev

\* A command accepted at the first request is never started again, and no
\* request starts its command twice, so no command starts more than twice: the
\* retry ladder of sandbox-run goes on only after a refusal, and ends.
FirstStartIsFinal ==
  \A j, k \in jobs :
    j.call = k.call /\ (j.attempt = "run1" \/ j.attempt = k.attempt) => j = k

\* The server only ever records a revision whose Sync jjlab acknowledged for
\* that session ("rev must not be recorded on failure", sessions_test.go:193).
RecordedRevWasAcked ==
  \A s \in Sessions : synced[s] # NoRev => synced[s] \in acked[s]

\* A call that begins after a sandbox-port of its session returned resolves
\* the head that port produced, or a newer one ("the next call observes the
\* new head", sessions.go:96-97), whatever else runs, moves or crashes.  There
\* is one way round: the fill of a concurrent call, fetched before the port's
\* commit and stored after its invalidation, is what the later call is served.
PortVisible ==
  \A c \in Calls :
    ws[c] # NoHead /\ ws[c].at < floor[c] =>
      \E d \in crossed : sess[d] = sess[c] /\ ws[d] = ws[c]

\* sandbox-read and the read of sandbox-edit see the tree of the revision the
\* call resolved ("synced to repo first", manifest.yaml:56), whether the call
\* synced or relied on the record, and among any number of other calls.  The
\* exceptions are what the server does not learn of: since the tree was last
\* extracted the worker restarted or was deleted, an abandoned sync came
\* through, or a call with another revision overlapped this one.
SyncedReadsSeeTheirRev ==
  \A c \in Calls :
    pc[c] = "read" /\ pod[sess[c]] # 0 /\ sess[c] \notin doubt =>
      tree[sess[c]] = ws[c].rev

\* The third execute request of sandbox-run, sent without a rev, finds the
\* tree it is meant for ("content is verified synced on our side",
\* tools.go:71), with the same exceptions: a worker that lost its tree, was
\* told need_sync and extracted it again is one on which it does.
UngatedRunsSeeTheirRev ==
  \A c \in Calls :
    pc[c] = "run3" /\ Reachable(c) /\ sess[c] \notin doubt =>
      tree[sess[c]] = ws[c].rev

\* Every call that begins returns: no retry loop, no wait without a deadline.
EveryCallReturns == \A c \in Calls : Active(c) ~> pc[c] = "done"
============================================================================
