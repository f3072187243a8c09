# A TLA+ model of ops-extension

ops-extension is a Go service between an agent platform and two back ends:
*jjlab* (repositories, bookmarks, builds, services, pods) and the *sandbox
worker* that runs in a pod per session.  It keeps almost no state of its own;
what makes it hard is that every tool call is a chain of remote requests, that
several calls and browsers run at once, and that everything it remembers about
the pods and the bookmarks (two maps) can be stale.

The modules here are translated from the Go sources.  TLC checks them on small
instances; TLAPS proves the safety results of the stateful components for every
value of the constants.

    tlc -config SyncSafety.cfg MCSandboxSync.tla      (each run: see "Runs")
    tlapm SandboxSyncProofs.tla

## 1. Inventory of the system

| Component | State | Operations | Interacts with |
| --- | --- | --- | --- |
| Workspace resolution (`sessions.go`) | `wsCache`: session -> head, 30 s TTL | `resolveWorkspace`, `lookupWorkspace`, `invalidateWorkspace`, sweep | jjlab bookmarks |
| Sandbox life cycle (`sessions.go`, `handlers.go`) | none here: jjlab has the service, k8s the pod | `ensureSandbox`, `createWorker`, `workerInfo`, `destroyWorker` | jjlab services |
| Sync (`sessions.go`) | `synced`: sandbox -> revision | `ensureSynced`, `markUnsynced`, `setSyncedRev` | jjlab's sync, the worker's tree |
| Execute gate and jobs (`tools.go`, `internal/worker/channel.go`) | none | `sandbox-run` with its three requests, `sandbox-job-*` | the worker's socket and its event stream |
| Waiting for a job (`tools.go`) | two goroutines, a channel of one | foreground wait, background watcher, mailbox notice | event stream, mailbox |
| Sandbox files (`tools.go`, `util.go`) | none | read, write, download, edit, port of a file or a directory | the worker's files, jjlab's commits |
| Waiting for jjlab tasks (`ops.go`, `builder.go`, `helm.go`, `publish.go`) | contexts | `opsTask`, `awaitOpsTask`, `awaitOpsTaskProgress`, `mirrorOpsTask`, `publishPackage`, `runPublishTask` | jjlab's task queue |
| Build tasks (`buildtask.go`) | log, subscribers, state per task; registry `builds` | `append`, `subscribe`, `setResult`, `buildStream`, `buildGet`, `evictBuilds` | browsers (SSE) |
| Services (`tools.go`, `handlers.go`, `status.go`) | none | deploy (tool and HTTP), delete, restart, scale, rollback, lists | jjlab's services |
| Names (`naming.go`, `util.go`) | none | session keys, label keys, service names, image names | everything |
| Session variables (`variables.go`) | none | projections of the sandbox to key/value pairs | the agent |
| Publishing templates (`publish.go`) | none | one containerfile per protocol | jjlab's builds |
| Worker commands (`internal/worker/channel.go`, `handlers.go`) | a socket per command | `CommandOnce`, the job handlers | worker |
| Proxies (`wsproxy.go`) | two connections | `proxyWS`, its two pumps, `wsProxyJob` | worker, browser |
| Pass-through handlers (`status.go`, `handlers.go`, `helm.go`, `builder.go`) | none | lists, reads, changes of one request | jjlab, registry |
| HTTP helpers, clients (`httpclient.go`, `internal/jjlab`) | none | requests with a deadline, each with its own idea of an answer | jjlab |
| Wiring, locales, static files, frontend | none | - | - |

What is hard in it: a lock that is released around a fetch (`sessions.go:73`);
a map that describes a pod somebody may replace (`sessions.go:233`); a retry
that cannot tell a refusal from a lost reply (`tools.go:77`); a `select` whose
two cases become ready together (`tools.go:110`); four different loops around
one task API, two of which must also end a build task that browsers watch;
snapshot-then-subscribe (`buildtask.go:238-244`); eviction without a lock over
its passes, over tasks whose end is stored in two halves
(`buildtask.go:107-113`, `132-179`); look-then-post
(`tools.go:379`); read-then-look-up-the-sha-then-commit (`tools.go:893`); a read
deadline that races the longest wait the worker grants
(`internal/worker/channel.go:38`), and a write that has none (34); errors that
are ignored (`tools.go:155`) or read off a text (`tools.go:970`, `ops.go:146`);
two pumps and a channel that only one of them is heard on (`wsproxy.go:77-85`);
an image name that is derived twice (`tools.go:329`, `347`).  `PROJECT.json`
lists these hazards one by one, each at its line, with the properties aimed at
it.

What makes the components correct, in a sentence each: a command or a read sees
the tree of the revision its call resolved; the maps hold only what was
acknowledged; no command is started again after it was accepted; a call after a
port sees the port; every call, wait, stream and goroutine ends; what is
reported about a job or a task is true of it; a file tool touches only what it
names and is atomic when nothing overlaps it; no line of a log comes twice to a
reader and a stream opened after the end has the whole log; a running task is
never evicted; a service does not pass to another session behind the guard's
back; a worker that answers at all answers in time; a proxy leaves nothing open;
"ok" means done; workspaces do not share a sandbox, and what was built is what
is deployed.  Some of these hold with exceptions only; section 3 names them.

## 2. The modules

Each module names its external actors in its header.  They are modelled from
the requests the code sends, the replies it decodes and what its comments rely
on: jjlab's bookmarks, sync endpoint, tasks, services and commits, and the
worker with its tree, its rev gate and its event stream.

**SandboxSync** - resolution, sandbox, sync and execute gate.  `cached` is
`wsCache`, `synced` is `synced`; both die in `Crash`.  A call's `pc` is the
statement it waits in, and every remote request is a step of its own: `BeginHit`
/ `BeginMiss`, `Fetch`, `Store` (the lock is free between them, as in
`lookupWorkspace`), `Create`, `Info`, `Check`, `Sync`, `Record` (`ensureSynced`
without a lock over its request), `Gate` with the requests `run1`, `run2`,
`run3`, `Unmark`, and `ReadFile`, `UsePod`, `Commit`, `Invalidate` for the other
tools.  `ExecAccept` / `ExecRefuse` are the worker's answers, `AfterRefusal` and
`AfterError` what `sandbox-run` does with them.  The environment moves bookmarks,
lets cache entries expire, restarts and deletes pods, forgets jjlab's own sync
cache, finishes syncs whose caller left (`LateSync`), and crashes the service.
Two histories say where the code promises nothing: `crossed` holds the calls
whose cache fill was fetched before a port's commit and stored after its
invalidation, `doubt` the sessions whose tree may have changed behind the
server's back since it was last extracted - a restart, a delete, an abandoned
sync that arrived, or (`Rival`) a second call with another revision.

**SandboxFiles / AtomicFiles** - the file tools on one session.  A content is
the set of calls and pushes whose changes it holds, so that a lost update is
visible.  `ReadFile`, `WriteFile`, `Stat`, `BlobSha`, `Commit` are one request
each; the request for a directory is answered by a walk, file by file (`Walk`,
then `List`).  `Locked` says which files of a commit go with a sha (the ones that
were found); `base` is the head when the call began.  AtomicFiles is the promise, in which a whole call is one step;
`IsAtomic` is the refinement (with `alone` as the shared notion of "nothing
overlapped it").  Any revision may be resolved here: SandboxSync is about which.

**SandboxRun / RunReport** - `sandbox-run` after its command was accepted.
`stream[c]["fg"]` is the handler's reader goroutine, `stream[c]["bg"]` the
watcher; `Send` puts the result into `resultCh`, `TakeResult` and `TakeDone` are
the cases of the `select` (both may be enabled), `Notify` publishes and ignores
the error if that fails (`NotifyFails`; `lost` keeps the calls it happened to).
`StreamJobOutput` is `Connect`, `ConnectFails`, `JobCompleted`, `ReadFails`,
`Eof` with the exit codes it returns (0 before the connection, -1 after it).
RunReport is the promise: one answer, and one notice for a backgrounded command.

**OpsTask** - the six callers that submit a jjlab task; `loop[c]` says which.
`Start` is what `startPublishTask` registers before it submits; `Submit` /
`SubmitFails`, `Poll` / `PollFails`, `Wait`, `Tick`, `Conclude`, `GiveUp` follow
`opsTask` and the loop of `awaitOpsTaskProgress`; `Deadline` is each caller's
ceiling, where it has one.  `local[c]` is the end its goroutine has decided on.
A task may end "done", "failed", or "doubtful": done with an error text, which
container-build alone looks at (`ops.go:146`).

**BuildTask** - what a build task promises its readers.  `Register` and
`FailTask` put it into the registry, `Append` (under the lock) and `Offer` (the
fan-out after it) log its line, `SetResult` ends it in two halves (readers look
at `t.State` without the lock); then the statements of `buildStream`, and the
two reads of `buildGet`.  A task logs at most one line in this code base
(`builder.go`, `buildtask.go:359-386`), so the log is a flag.

**MirroredTask** - OpsTask and BuildTask together.  The step of a caller that
answers with an id is the step that registers a task (`Registers`); `Settles`
is the rest of its goroutine, which logs and stores the end that the wait came
to.  `FollowsBuildTask` says that the composition implements BuildTask, its
fairness included: what BuildTask assumes of the owner of a task (`SetResult`
happens, a failure is logged first) is what the six loops really do.

**BuildRegistry** - `evictBuilds` by concurrent starts: `Snapshot`, `Sweep`,
`Trim` are its passes over a map that others change.  A task ends in two stores,
`SetState` and `SetFinished`, which the passes read one by one (`Finished`); a
task caught between them leaves the sort without an order (`First`).

**ServiceOwnership** - `service-deploy` (`Look`, `Guard`, `Post`), the HTTP face
that posts without looking, lost replies and deletes.  `told` is history: the
calls whose lookup was answered and not overtaken.

**Faces** - the router and tool bridge in front of the parts that keep nothing
between requests; `Dispatch` sends a request to one of them:

* *WorkerSocket* - one worker command.  `Ask` is the handler or tool (they clamp
  the wait differently), `Resolve`, `Dial`, `Send`, `Recv`, `Expire` are the
  statements of `CommandOnce`.  Time runs in ticks; the read deadline is set
  once, and the loop skips the events that arrive on the same socket.  The
  requests in `Long` may be longer than the buffers on their way: a worker that
  stops reading (`Stall`) then holds up the write, which has no deadline.
* *WsProxy* - `proxyWS` with a pump per direction (`ReadMessage`,
  `WriteMessage`, `Fail`), `errCh` with its two places, and the deferred closes;
  `Forward` is the reverse proxy of `wsProxyJob`.
* *Routes* - every handler and tool that passes its request on.  `Requests(r)`
  lists the requests of a route by the helper it uses, `Accepts` says which
  replies that helper takes for an answer, `Shown` what the lists show:
  service-list shows everything when the list does not decode (`odd`), and an
  unparsable session counts as none (`Own`).
* *Publishing* - the target of a publish by tool and by HTTP (`ToolTarget`,
  `FaceTarget`), and for all fourteen protocols the variables that the stages of
  the containerfile declare and the build is given (`Stages`, `BuildArgs`), next
  to those that the text of the publishing step reads (`Uses`, `MustHave`).
* *LineEdit* - the line arithmetic of `sandbox-edit`, edit after edit.
* *Naming* - session names and keys, service names, and the image references of
  `container-build` (`Built`, with its `image-tag`) and `service-deploy`
  (`Qualified`).

`MC*` modules add symmetry sets and function-valued constants for TLC;
`*Proofs` modules hold the theorems.

## 3. Runs

| Run | Instance | What it shows |
| --- | --- | --- |
| SyncSafety | one session, two calls of any tool, all faults, 2 moves, 2 pods | `GatedJobsSeeTheirRev`: a command sent with a rev runs on that tree. `FirstStartIsFinal`: the ladder goes on only after a refusal. `RecordedRevWasAcked`. `PortVisible`. `SyncedReadsSeeTheirRev`, `UngatedRunsSeeTheirRev`: so do reads and the request without a rev, when the session is not in `doubt`. |
| SyncReturns | two `sandbox-run` calls, restarts, crash, timeouts | `EveryCallReturns`: the `need_sync` retry ends. |
| FileCalls | two overlapping calls, two files, a push, restarts, late syncs | `IsAtomic`: the calls implement AtomicFiles. |
| RunReported | one call, exit codes 0 and 3, all faults | `HonestNotice`, `ReportedOnce` (refinement of RunReport), `EveryRunAnswers`, `NoGoroutineLeaks`, `BackgroundIsNoticed` (unless the notice is lost). |
| BuildsFollowed | one caller of any of the six kinds, its build task, two browsers, lost requests | `SuccessIsReal`, `FailureIsReal`, `EventIsReal` (what a browser is shown as done is done in jjlab), `NoLineTwice`, `LateStreamComplete` and `PageIsComplete` (the whole log, for a stream opened after the end and a page that shows it), `FollowsBuildTask` (refinement), `EveryWaitEnds`, `LateStreamEnds`. |
| RegistryOrder | four tasks, cap 2, two evictions at a time | `RunningIsKept`, `OldestGoFirst`, `CapIsReached`. |
| OwnerGuard | two names, two sessions and an anonymous caller, both faces | `OwnerIsAsked`. |
| Faces | one request to each part: waits up to 3 (cap 2, lag 1, deadline 4), every route, every protocol, two edits of a file of up to three lines, names of up to three tokens | `WaitInTime`, `CommandReturns`, `ProxyEnds`, `AnswersAreReal`, `ArgsArrive`, `EditKeepsOthers`, `NamesAreUnique`, `BuiltIsDeployed`. |
| PortOverwrites | violation: one port of one file, one push | `ConcurrentChangeIsRejected`: see below. |
| RunFabricated | violation: one call, no fault | `HonestCompletion`: see below. |
| OpsFailedBuild | violation: one container-build | `ProgressWaitsAlike`: see below. |
| BuildHangs | violation: one task, one browser | `StreamsEnd`: see below. |

**Bounds.**  One session is enough in SandboxSync: the maps are keyed by
session, and no statement reads another session's entry.  Two calls cover the
races of the code for two (two syncs, a sync against an execute, a port against
a fill); a call that is *served* an overtaken fill is a third one, and that case
is covered by the theorem `PortIsVisible`, for any number of calls.
`MaxMoves` = 2 lets a bookmark move away and back,
`MaxPods` = 2 lets a pod be deleted and made again.  Two files make a directory,
three revisions allow a push and a port in either order, and `Named404` = {g}
puts one of the two under the lookup rule of `tools.go:970`.  Four tasks with a
cap of two give evictions an excess of two; `TwoEvictions` is a state constraint
that keeps the third handler out of `evictBuilds`.  One caller is enough in
BuildsFollowed, because tasks share nothing (`CallerAssumption`); two browsers
make a fan-out that is served one by one.  In Faces, `WaitCap` 2 and `Lag` 1
leave `ReadTimeout` 4 the narrowest margin that the code's 60 s and 65 s stand
for, and `MaxWait` 3 asks for more than is granted; `WireRoom` 2 bounds the
events on the wire, of which there may be any number over time.  `MaxLen` 3 and
edits of up to two lines put a range before, inside, across and beyond the end
of a file; the second edit finds what the first one left.  `MCWorkspaces` and
`MCTags` are the names that could collide: equal up to case or separators, with a
colon in a component, or looking like a host or a lock file; `MaxLabel` 7 makes
some of them too long for a label.  The other bounds are the number of
actors; each actor's own state is finite.  `CHECK_DEADLOCK FALSE` is set
everywhere because a system whose calls have all returned stops.

**Fairness.**  A goroutine that can run runs; a remote request is answered or
ended by a client deadline (60 s for HTTP, 10 s for the worker's handshake, 65 s
for a read on its socket, `internal/jjlab/client.go:33`,
`internal/worker/channel.go`); timers fire (`timeout-ms`, the watcher's 30
minutes, the ceilings of 30 minutes of `ops.go`).  A fault never has to happen,
the agent never has to call, cancel or disconnect, and neither a command nor a
jjlab task has to end.  `SandboxRun` therefore has fairness for a stream's
regular progress and for the end of its context only, `OpsTask` for the caller's
steps and for its ceiling.  In `BuildTask` the owner of the task does end;
`FollowsBuildTask` checks that OpsTask's fairness brings this about.  In Faces a
worker that holds a request replies when the wait it granted is over, but it may
be hung or gone instead, and send events without end; nobody's context has to be
cancelled.  A command's write ends unless the worker stops reading while a long
request is on its way.  A pump's write ends because the peer reads what it is
sent or is gone: the code sets no write deadline there either.  Publishing a
notice (`SandboxRun`) returns, with or without an error: it goes through the
platform's SDK, under a context without a deadline.

**Where the code disagrees with what it says.**

* `PortOverwrites` (`tools.go:893`): the sha that is to lock a port is looked up
  right before the commit, so a push between the beginning of the port and the
  lookup is overwritten, where the comment says "a concurrent change is
  rejected" (`tools.go:864-865`).
* `RunFabricated` (`tools.go:112`): when the wait times out, the reader's
  DeadlineExceeded result and the end of the context are both ready; the case
  that takes the result passes the deadline for a completion, and a running
  command is answered "Command completed", and is never watched.
* `OpsFailedBuild` (`ops.go:129`): `awaitOpsTaskProgress` leaves its loop on
  "done" only, so a failed container build is polled until its ceiling.
* `BuildHangs` (`buildtask.go:103`): `setResult` wakes no stream; one that took
  the last line before it stays open without its "done" event.

**What the properties do not promise.**  Each property is as strong as the code
allows; these are the scenarios its hypotheses leave out.

* `UngatedRunsSeeTheirRev` leaves out sessions in `doubt`: a worker restarts
  with an empty tree, the re-sync is skipped by jjlab's own cache
  (`sessions.go:241` sends no force), and the third request goes without a rev
  (`tools.go:78`), although its comment relies on "content is verified synced on
  our side".
* So does `SyncedReadsSeeTheirRev`.  `destroyWorker` (`sessions.go:224`) leaves
  `synced` alone, so a re-created pod is not synced; and two calls of a session
  with different revisions may leave the worker on the one and the record on the
  other (`sessions.go:236`).  The doubt ends with the next extraction that has no
  rival.
* `PortVisible` lets a later call be served an older head in one case: a fill
  that was fetched before the port's commit and stored after its invalidation
  (`sessions.go:75-82`).
* A lost reply to the second request makes `sandbox-run` start its command
  again (`tools.go:77`); `FirstStartIsFinal` speaks of the first request.
* `HonestNotice` speaks of real exit codes: a stream that ends early without an
  error is announced as "exit -1" (`internal/worker/channel.go:155`).  A job
  that outlives the watcher's 30 minutes is given up (`tools.go:135`).
* `BackgroundIsNoticed` leaves out a notice whose publishing failed
  (`tools.go:142`, `155`) and a crash: then the promise "will be notified"
  (`tools.go:160`) is not kept, and nothing remembers that it was made.
* `IsAtomic` promises atomicity to calls that nothing overlaps.  An overlapped
  edit undoes what was written since it read (`tools.go:811-846`), an overlapped
  directory port may hold files of different moments (`tools.go:866`: the worker
  walks), and a port commits over whatever the head held before its lookup.  A
  file that was not there, or whose lookup failed with a text that contains
  "404" - the path is part of the text - is committed without a sha at all
  (`tools.go:893`, `970`).
* A read or an edit refreshes tracked files to the resolved revision, also those
  somebody wrote and has not ported (AtomicFiles' `Refresh`).
* `EveryWaitEnds` exempts package-publish, which has no ceiling
  (`publish.go:364`); `FailureIsReal` and `EventIsReal` say nothing of failed
  local tasks: one lost poll marks them as failed (`builder.go:140`).  For
  container-build, which never sees "failed", a failure is an error text beside
  "done" (`ops.go:146`); the other waiters report such a task as finished.
  helm-install's HTTP face answers with an id that no registry entry mirrors
  (`helm.go:43-56`), so `/builds/{id}` does not know it.
* A task that failed at submission is the newest finished one: when fifty tasks
  run it is evicted at once, although its callers "still get a pollable id"
  (`helm.go:61-62`).
* A line appended between snapshot and subscription is not streamed
  (`buildtask.go:238-244`); `LateStreamComplete` is about streams opened later.
* `OldestGoFirst` leaves out an eviction that catches a task between the stores
  of its State and its FinishedAt (`buildtask.go:107-113`): the comparator then
  answers false both ways (`170-172`), and the just-finished task may go before
  an older one.
* `CapIsReached` lets the cap be missed by as many tasks as the first pass
  deleted: the excess is taken from a list that still has them
  (`buildtask.go:163`).
* `OwnerIsAsked` leaves out calls overtaken between look and post
  (`tools.go:379`), failed lookups (`tools.go:380`) and the HTTP face
  (`handlers.go:198`), all of which take services over.  Restart, scale and
  rollback have no guard in either face.
* `AnswersAreReal` allows a change to zeros: deploy, scale, rollback and helm
  rollback ignore the error of decoding their body (`handlers.go:190`,
  `status.go:218`, `231`, `helm.go:144`).  It says nothing about what jjlab makes
  of a request: `RestartService` posts to the service itself, without
  `/restart` (`internal/jjlab/client.go:255-261`).  service-list shows a session
  only its own services as long as jjlab's list decodes; if it does not, or the
  session does not parse, everything is shown (`tools.go:485`,
  `sessions.go:312-330`).
* `CommandReturns` leaves out one wait: a request too long for the buffers is
  written to a worker that does not read.  The write has no deadline
  (`internal/worker/channel.go:34`), and the read deadline is set only after it.
* `WaitInTime` is about the deadline only.  An interrupted tool call waits on,
  up to 65 s, because the context is looked at while dialling only
  (`internal/worker/channel.go`).  The tools send `job_id` and `timeout_ms`, the
  HTTP face `job-id` and `timeout-ms` (`tools.go:624`, `handlers.go:71`); which
  of them the worker reads is not in this repository.
* `ArgsArrive` leaves out go, hex and composer without a configured token:
  their step looks the variable up by subscript and ends (`publish.go:142`,
  `166`, `190`), on its way to an `if tok:`.  The tool takes org and repo from
  the session together and the HTTP face each on its own, so the same arguments
  may name different targets.
* `EditKeepsOthers` is about `start-line` from 1 on.  Below it, the default
  among them (`tools.go:219-220`), the slice is out of range and the handler
  panics before it writes (`Panic`).
* Service names do collide, against "never collide" (`tools.go:364-366`,
  `648-651`): hyphens are kept (`tools.go:658`), so that a-b/c and a/b-c share
  one, and names that differ by case or separators only are changed to the same.
  `NamesAreUnique` states what is left: unchanged names differ within one
  repository, and across repositories when they have no hyphen.  Session keys
  never collide.  A sandbox key shorter than eight bytes makes `key[:8]` panic
  (`sessions.go:186`, `214`).
* `BuiltIsDeployed` says exactly when a deploy runs what was built: an
  `image-tag` other than the bookmark must be spelled out in the reference.  It
  exempts names with a tag of their own and references that look like a
  registry's - `name:1` among them, whose tag is read as a port
  (`tools.go:755`).

## 4. Proofs

| Theorem | Says | Assumes |
| --- | --- | --- |
| SandboxSyncProofs!TypeCorrect | `TypeOK` | - |
| GateWorks, RetryLadder, RecordsAreAcked | `GatedJobsSeeTheirRev`, `FirstStartIsFinal`, `RecordedRevWasAcked` | - |
| PortIsVisible | `PortVisible` | - |
| ReadsSeeTheirRev, LastRunSeesItsRev | `SyncedReadsSeeTheirRev`, `UngatedRunsSeeTheirRev` | - |
| CallsDescend | `LadderDescends`: a call executes fifteen statements at most | - |
| SandboxRunProofs!RunTypeCorrect | `TypeOK` | - |
| RunImplementsReport | SandboxRun implements RunReport | - |
| NoticesAreHonest | `HonestNotice` | - |
| EveryoneIsAnswered | `NobodyIsForgotten`: whoever waits has something to wait for | - |
| StreamsEndOnce | `StreamsDescend`: no stream starts again | - |
| SandboxFilesProofs!FilesTypeCorrect | `TypeOK` | - |
| FilesAreAtomic | SandboxFiles implements AtomicFiles | - |
| ServiceOwnershipProofs!OwnershipTypeCorrect | `TypeOK` | - |
| GuardKeepsOwners | `OwnerIsAsked` | - |
| BuildRegistryProofs!RegistryTypeCorrect | `TypeOK` | `MaxTasks` is a natural number |
| RunningTasksAreKept, OldestAreEvicted, EvictionReachesCap | the properties of RegistryOrder | the same |
| BuildTaskProofs!LogTypeCorrect | `TypeOK` | - |
| NoLineComesTwice, LateStreamsAreComplete, PagesAreComplete | BuildTask's safety properties | - |
| LateStreamsGoStraight | `GoesStraight`: a late stream never waits | - |
| EndsStand | `EndStands`: a task ends once | - |
| MirroredTaskProofs!WaitTypeCorrect | OpsTask's `TypeOK` | - |
| MirrorImplementsLog | the safety part of `FollowsBuildTask` | one caller |
| SuccessesAreReal, FailuresAreReal, EventsAreReal | the properties of the waiters and of what browsers see | one caller |
| MirroredLinesComeOnce, MirroredStreamsAreComplete, MirroredPagesAreComplete | BuildTask's properties, of the tasks that are started | one caller |
| OutcomesStand | `OutcomeStands`: an answer, a local end, a return are final | one caller |
| EndedWaitsLeave | `EndedWaitLeaves`: an ended wait goes to its return | one caller |
| FacesProofs!SocketTypeCorrect | WorkerSocket's `TypeOK` | - |
| WaitsAreInTime | `WaitInTime` | `WaitCap + Lag < ReadTimeout` |
| PumpsAreFree | `NoPumpIsStuck`: no pump of the proxy is left waiting | - |
| AnswersAreTrue | `AnswersAreReal` | - |
| ArgumentsReachRun | `ArgsArrive` | - |
| EditsKeepTheRest | `EditKeepsOthers` | a blank is a line |
| NamesStayUnique | `NamesAreUnique` | names are sequences of strings |
| DeploysWhatWasBuilt | `BuiltIsDeployed` | - |

The type invariants are proved here and checked by no run.  The only other
assumptions are the named ones of the modules (`NoRev` is not a revision, the
sets of faults and tools, exit codes are natural numbers).

*SandboxSync.*  `SafeInv` strengthens the first three safety properties: a gate names
the tree that is there (`GateNamesTree`), a call past its sync has a real
revision (`RevsReal`), a revision is acknowledged before it is recorded
(`AckedBeforeRecord`), a start that is on record belongs to a request already
left (`StartedUsesRequest`).  The first is what makes the gate work: jjlab sets
gate and tree together, and a restart or a delete clears the gate with the tree
or leaves it with its tree.  `PortInv` says of everything cached or about to be
that it is as new as any returned port or such a fill (`Stale`): a port either
invalidates or has not returned, and the invalidation puts every older fill into
`crossed`.  `Settled`, of a session not in `doubt`, says that jjlab's record is
the tree, that the server's record is too or a call is about to write it, and
that every call that counts on the tree (`Relies`) finds its own revision there.
Nothing but the four events of `doubt` ends this, and the next extraction
restores it.

*SandboxRun.*  `Phases` relates the handler, the two streams, the answer and the
notice: the watcher's stream exists only under the answer "background", and a
notice only once that stream has ended; from it each step maps to a step of
RunReport or a stutter.  `Honest` follows the exit code from the job through
`StreamJobOutput`'s result to the notice.  `Waiting` adds to `NobodyIsForgotten`
that the watcher starts after the select only and that a result was sent by a
reader that has ended.

*SandboxFiles.*  `Stages` says which tool can be at which statement and what it
holds there (an edit that writes has read its file, a port that commits holds
something and has looked all of it up).  The refinement needs `Current`: while
nothing overlaps a call, no other call runs, and the files it holds, in a walk
as far as it has come, are those of the pod; that is what makes its late write
or commit the atomic one.

*ServiceOwnership.*  `GuardInv` has `Fresh`: between the answer of its lookup and
its post, a call in `told` still sees the owner it was told, because every
touch of the service takes it out of `told`.

*BuildRegistry.*  `RegistryInv` says that only finitely many tasks are stored
(`Finite`), that `ended` lists each finished task once (`Listed`) and that the
second pass goes over tasks of the first, where what was finished still is
(`Counted`).  Running tasks are kept because both passes look at each task again
before they delete it; `CapIsReached` needs that the n oldest of a finite set of
finished tasks are n, and counts what the first pass deleted (`RestCount`).

*BuildTask.*  `LogInv` ties the line to the goroutine (`Progress`), follows it to
a connection by exactly one of two ways, snapshot or channel (`OnItsWay`), and
says what a stream that began after the end (`LateStreams`) and a page that has
read its state (`Pages`) may still see.

*MirroredTask.*  `WaitInv` keeps what the last poll saw a step behind jjlab
(`Polled`: a settled status never changes), and that what is not yet told is
open (`Open`).  Each step of the composition is a step of BuildTask or leaves it
alone (`NextIsALogStep`), so the theorems about BuildTask are used as they are,
instantiated (`LogProofs`).  `Told` follows the end from the poll over the local
task to the event.

*Faces.*  The parts share no variable, so each has an invariant of its own and
`FacesStep` needs only that a step of one leaves the others alone.

* `SocketInv` has `InTime`: while a request is read for, a busy worker has less
  time left than the deadline, a worker that replied leaves some, and a worker
  that stopped reading never gets that far.  The
  margin of the code is the assumption; without it the proof fails where the
  `ReadDeadline_Cap` mutant does.
* `ProxyInv` counts: an error is pending or was taken for each pump that ended
  (`ErrorsAreOfPumps`), so a pump that fails finds at most the other's in
  `errCh`; `Connections` says which connections a statement of the handler
  finds, so that the two closes reach all there are.
* `RouteInv` rests on `ChangesAsk`: each handler that changes something makes
  one request for it, by a helper that takes a refusal for an error
  (`RouteAsks`, `RouteAnswers`).
* `PublishInv` holds for any protocol: what a step reads is an argument of its
  protocol or a standard one (`UsesListed`), declared in its stage
  (`LastStageDeclares`), and the build arguments give what it cannot do without
  a value (`RequiredHaveValues`).
* `EditInv` rests on `SplicedLines`: what the spliced file holds at each place,
  for a range that may be empty or reach beyond the end; a reversed range
  inserts, and a start below one panics and changes nothing (`EditPanics`).
* `NamesInv` needs no state, but lemmas on sequences of any length.  A name that
  joins three parts without the separator can be cut at it in one way only
  (`SplitsOnce`, `JoinedOnce`), so a session parses back (`ParsedBack`); a
  session's key is always a hash, taken to be 1-1 (`KeyIsHash`); and a service
  name spells its parts when none of them has to be changed (`ServiceSpells`),
  so that bookmarks of one repository (`BookmarksDiffer`) and workspaces without
  hyphens (`ServicesDiffer`) differ in it.

**The safety halves of the liveness properties.**  That something is eventually
done needs fairness, and stays with TLC.  What the code contributes is that the
step is never blocked and never undone, and that is proved:

| Liveness (TLC) | What it rests on (TLAPS) |
| --- | --- |
| `EveryCallReturns` | `LadderDescends`: each statement of a call is nearer to its return, and a `need_sync` restarts the sync once; `run3` carries no rev and is not refused |
| `EveryRunAnswers`, `BackgroundIsNoticed`, `NoGoroutineLeaks` | `NobodyIsForgotten` and `StreamsDescend`: the select has a result or a reader, the reader's send finds `resultCh` empty, a backgrounded call has a watcher, a notice, or one that was lost |
| `EveryWaitEnds` | `EndedWaitLeaves`, `OutcomeStands` |
| `LateStreamEnds` | `GoesStraight`, `EndStands` |
| `ProxyEnds` | `NoPumpIsStuck` |

**Model-checked only:** the liveness itself (the properties on the left,
`CommandReturns`, the fairness in `FollowsBuildTask`), which is out of the
prover's reach with its ENABLED.  Every invariant and every other action
property of a passing run is a theorem.

## 5. Not modelled, and the plan

Left out for good: wording, locales, JSON and base64 encoding, the shell
commands of the publishing templates, static files, agent files, the manifest,
the frontend's presentation, authentication headers, reading the environment and
the connection to the platform.  `awaitBuild` (`buildtask.go:273-309`),
`httpPut*` (`httpclient.go`) and the jjlab client's `Run`, `Task` and
`RegisterNamespace` are called by nothing.
The copies of the session variables in the platform (`variables.go:13-19`,
`49-54`) are written by calls whose errors are ignored and are read by nothing
here; their resolvers are routes of Routes.  The length limit of a name's
component (128) is left out of Naming.

Next:

1. A composition of SandboxSync and SandboxFiles, with the resolved revision
   and the contents in one model.
