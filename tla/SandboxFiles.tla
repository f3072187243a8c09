---------------------------- MODULE SandboxFiles ---------------------------
(***************************************************************************)
(* The file tools of one session: sandbox-read, -write (and -download),    *)
(* -edit and -port, call by call and request by request (tools.go,         *)
(* util.go).  Which revision a call resolves is SandboxSync's subject:     *)
(* here it may be any the bookmark has had.  A file's content is the set   *)
(* of calls and pushes whose changes it holds.                             *)
(*                                                                         *)
(* External: the worker's files and jjlab's repository, which rejects a    *)
(* commit whose blob sha is not the head's.                                *)
(***************************************************************************)
EXTENDS Naturals, Sequences

CONSTANTS
  Files, Calls, Pushes,  \* as in AtomicFiles
  Named404,  \* files whose path contains "404"
  Faults,    \* "restart": the pod is replaced; "timeout": syncs given up
  MaxRevs    \* bound: revisions of the bookmark

ASSUME FilesAssumption == Named404 \subseteq Files
ASSUME FaultAssumption == Faults \subseteq {"restart", "timeout"}
ASSUME MaxRevsAssumption == MaxRevs \in Nat

VARIABLES
  repo,     \* the trees of the bookmark's revisions, oldest first
  pod,      \* the tree in the worker
  synced,   \* server.synced: the revision recorded as synced, 0 for none
  late,     \* revisions of syncs given up by their caller, still to arrive
  op,       \* op[c]: the call's tool and files
  pc,       \* pc[c]: its next statement
  ws,       \* ws[c]: the revision it resolved
  data,     \* data[c]: the files it holds, Absent where it holds none
  asked,    \* asked[c]: the files it has walked over, in its directory, and
            \* then those whose repository sha it looked up
  sha,      \* sha[c][f]: the head when it was looked up, 0 if that failed
  answer,   \* answer[c]: "ok" or "error", "none" so far
  alone,    \* history: nothing overlapped c (see AtomicFiles)
  base      \* history: base[c], the head of the bookmark when c began

callVars == <<op, pc, ws, base, data, asked, sha>>
vars == <<repo, pod, synced, late, callVars, answer, alone>>

\* The promise, with the vocabulary of files, trees and operations.
Atomic == INSTANCE AtomicFiles
Absent == Atomic!Absent
Newest == Atomic!Newest

Labels == {"idle", "check", "sync", "record", "read", "write", "stat", "list",
           "sha", "commit", "done"}

Init ==
  /\ Atomic!Init
  /\ synced = 0
  /\ late = {}
  /\ pc = [c \in Calls |-> "idle"]
  /\ ws = [c \in Calls |-> 0]
  /\ data = [c \in Calls |-> Atomic!Missing]
  /\ asked = [c \in Calls |-> {}]
  /\ sha = [c \in Calls |-> [f \in Files |-> 0]]
  /\ base = [c \in Calls |-> 0]

Goto(c, label) == pc' = [pc EXCEPT ![c] = label]

\* The handler returns with answer a.
Return(c, a) == Goto(c, "done") /\ Atomic!Reply(c, a)

----------------------------------------------------------------------------
(* ensureSandbox *)

\* The call begins; a read or an edit needs the sync, a write and a port do
\* not ask for one.
Begin(c) ==
  /\ Atomic!Begin(c)
  /\ \E i \in DOMAIN repo : ws' = [ws EXCEPT ![c] = i]
  /\ Goto(c, CASE op'[c].tool \in {"read", "edit"}    -> "check"
               [] op'[c].tool = "write"               -> "write"
               [] op'[c].tool \in {"port", "portdir"} -> "stat")
  /\ base' = [base EXCEPT ![c] = Len(repo)]
  /\ UNCHANGED <<synced, late, data, asked, sha>>

\* ensureSynced: nothing to do for the recorded revision.
Check(c) ==
  /\ pc[c] = "check"
  /\ Goto(c, IF synced = ws[c] THEN "read" ELSE "sync")
  /\ UNCHANGED <<repo, pod, synced, late, op, ws, base, data, asked, sha,
                answer, alone>>

Sync(c) ==
  /\ pc[c] = "sync"
  /\ pod' = Atomic!Overlay(repo[ws[c]])
  /\ Goto(c, "record")
  /\ UNCHANGED <<repo, synced, late, op, ws, base, data, asked, sha, answer,
                alone>>

Record(c) ==
  /\ pc[c] = "record"
  /\ synced' = ws[c]
  /\ Goto(c, "read")
  /\ UNCHANGED <<repo, pod, late, op, ws, base, data, asked, sha, answer,
                alone>>

\* The 60 s client timeout: jjlab may finish the sync later.
SyncTimeout(c) ==
  /\ "timeout" \in Faults
  /\ pc[c] = "sync"
  /\ late' = late \cup {ws[c]}
  /\ Return(c, "error")
  /\ UNCHANGED <<repo, pod, synced, op, ws, base, data, asked, sha, alone>>

----------------------------------------------------------------------------
(* sandbox-read, -write, -edit *)

\* sandboxFileRead, for the read, the edit and the port of one file.  A file
\* that is not there is the worker's error.
ReadFile(c) ==
  /\ pc[c] = "read"
  /\ \E f \in op[c].on :
       IF pod[f] = Absent
       THEN Return(c, "error") /\ UNCHANGED data
       ELSE /\ data' = [data EXCEPT ![c] = [@ EXCEPT ![f] = pod[f]]]
            /\ IF op[c].tool = "read" THEN Return(c, "ok")
               ELSE /\ Goto(c, IF op[c].tool = "edit" THEN "write" ELSE "sha")
                    /\ UNCHANGED answer
  /\ UNCHANGED <<repo, pod, synced, late, op, ws, base, asked, sha, alone>>

\* The bytes written: the given content, or the spliced lines of the file as
\* it was read.
Content(c, f) ==
  IF op[c].tool = "edit" THEN data[c][f] \cup {c} ELSE {c}

\* sandboxFileWrite; its reply may be lost.
WriteFile(c) ==
  /\ pc[c] = "write"
  /\ \E f \in op[c].on : pod' = [pod EXCEPT ![f] = Content(c, f)]
  /\ \E a \in {"ok", "error"} : Return(c, a)
  /\ UNCHANGED <<repo, synced, late, op, ws, base, data, asked, sha, alone>>

----------------------------------------------------------------------------
(* sandbox-port *)

\* sandboxFileStat: a file is read, a directory is listed.
Stat(c) ==
  /\ pc[c] = "stat"
  /\ Goto(c, IF op[c].tool = "port" THEN "read" ELSE "list")
  /\ UNCHANGED <<repo, pod, synced, late, op, ws, base, data, asked, sha,
                answer, alone>>

\* sandboxFileList: one request, which the worker answers by walking the
\* directory, file by file, while others write into it.
Walk(c) ==
  /\ pc[c] = "list"
  /\ \E f \in Files \ asked[c] :
       /\ asked' = [asked EXCEPT ![c] = @ \cup {f}]
       /\ data' = [data EXCEPT ![c] = [@ EXCEPT ![f] = pod[f]]]
  /\ UNCHANGED <<repo, pod, synced, late, op, pc, ws, base, sha, answer, alone>>

\* The listing has arrived; an empty directory is an error.
List(c) ==
  /\ pc[c] = "list"
  /\ asked[c] = Files
  /\ asked' = [asked EXCEPT ![c] = {}]
  /\ IF data[c] = Atomic!Missing THEN Return(c, "error")
     ELSE Goto(c, "sha") /\ UNCHANGED answer
  /\ UNCHANGED <<repo, pod, synced, late, op, ws, base, data, sha, alone>>

\* The files a port commits.
Held(c) == {f \in Files : data[c][f] # Absent}

\* repoBlobSha of the next file: what the head holds now.
BlobSha(c) ==
  /\ pc[c] = "sha"
  /\ \E f \in Held(c) \ asked[c] :
       /\ asked' = [asked EXCEPT ![c] = @ \cup {f}]
       /\ sha' = [sha EXCEPT ![c] = [@ EXCEPT ![f] = Len(repo)]]
  /\ Goto(c, IF asked'[c] = Held(c) THEN "commit" ELSE "sha")
  /\ UNCHANGED <<repo, pod, synced, late, op, ws, base, data, answer, alone>>

\* Any error whose text contains "404" counts as "no such file", and the text
\* contains the path.
BlobShaFails(c) ==
  /\ pc[c] = "sha"
  /\ \E f \in Named404 \cap (Held(c) \ asked[c]) :
       asked' = [asked EXCEPT ![c] = @ \cup {f}]
  /\ Goto(c, IF asked'[c] = Held(c) THEN "commit" ELSE "sha")
  /\ UNCHANGED <<repo, pod, synced, late, op, ws, base, data, sha, answer,
                alone>>

\* The files whose sha goes with the commit: those that were there when c
\* looked.  A file that was not found, or whose lookup failed, goes without.
Locked(c) ==
  {f \in Held(c) : sha[c][f] # 0 /\ repo[sha[c][f]][f] # Absent}

\* Mutant: a directory is committed file by file.
Commit_FileByFile(c) ==
  /\ pc[c] = "commit"
  /\ Len(repo) < MaxRevs
  /\ \E f \in Held(c) :
       /\ repo' = Append(repo, [Newest EXCEPT ![f] = data[c][f]])
       /\ data' = [data EXCEPT ![c] = [@ EXCEPT ![f] = Absent]]
  /\ IF data'[c] = Atomic!Missing THEN \E a \in {"ok", "error"} : Return(c, a)
     ELSE UNCHANGED <<pc, answer>>
  /\ UNCHANGED <<pod, synced, late, op, ws, base, asked, sha, alone>>

\* POST commits: if every sha that was sent is the head's, one revision on top
\* of it.  The reply may be lost.
Commit(c) ==
  /\ pc[c] = "commit"
  /\ \A f \in Locked(c) : Newest[f] = repo[sha[c][f]][f]
  /\ Len(repo) < MaxRevs
  /\ repo' = Append(repo,
       [f \in Files |-> IF f \in Held(c) THEN data[c][f] ELSE Newest[f]])
  /\ \E a \in {"ok", "error"} : Return(c, a)
  /\ UNCHANGED <<pod, synced, late, op, ws, base, data, asked, sha, alone>>

----------------------------------------------------------------------------
(* Failures and the environment *)

\* A request fails without an effect, a commit is rejected.
Fail(c) ==
  /\ pc[c] \in Labels \ {"idle", "check", "record", "done"}
  /\ Return(c, "error")
  /\ UNCHANGED <<repo, pod, synced, late, op, ws, base, data, asked, sha,
                alone>>

\* Somebody else changes a file of the bookmark.
Push(p) ==
  /\ Len(repo) < MaxRevs
  /\ \A i \in DOMAIN repo, f \in Files : p \notin repo[i][f]
  /\ \E f \in Files : repo' = Append(repo, [Newest EXCEPT ![f] = {p}])
  /\ UNCHANGED <<pod, synced, late, callVars, answer, alone>>

Overlap ==
  alone' = [c \in Calls |-> alone[c] /\ ~Atomic!Running(c)]

\* The pod is replaced by an empty one; server.synced does not learn of it.
Restart ==
  /\ "restart" \in Faults
  /\ pod' = Atomic!Missing
  /\ Overlap
  /\ UNCHANGED <<repo, synced, late, callVars, answer>>

LateSync(i) ==
  /\ i \in late
  /\ late' = late \ {i}
  /\ pod' = Atomic!Overlay(repo[i])
  /\ Overlap
  /\ UNCHANGED <<repo, synced, callVars, answer>>

Next ==
  \/ \E c \in Calls :
       \/ Begin(c) \/ Check(c) \/ Sync(c) \/ Record(c) \/ SyncTimeout(c)
       \/ ReadFile(c) \/ WriteFile(c) \/ Stat(c) \/ Walk(c) \/ List(c)
       \/ BlobSha(c) \/ BlobShaFails(c) \/ Commit(c) \/ Fail(c)
  \/ \E p \in Pushes : Push(p)
  \/ Restart
  \/ \E i \in late : LateSync(i)

Spec == Init /\ [][Next]_vars

----------------------------------------------------------------------------
(* Properties *)

\* A call has an answer exactly when it has returned, and commits only what it
\* has looked up.
Orderly(c) ==
  /\ answer[c] = "none" <=> pc[c] # "done"
  /\ pc[c] # "list" /\ pc[c] # "done" => asked[c] \subseteq Held(c)
  /\ pc[c] = "commit" => asked[c] = Held(c) /\ Held(c) \subseteq op[c].on

Types ==
  /\ repo \in Seq(Atomic!Tree) /\ Len(repo) > 0
  /\ pod \in Atomic!Tree
  /\ synced \in 0..Len(repo)
  /\ late \subseteq DOMAIN repo
  /\ op \in [Calls -> Atomic!Op \cup {Atomic!None}]
  /\ pc \in [Calls -> Labels]
  /\ ws \in [Calls -> 0..Len(repo)]
  /\ base \in [Calls -> 0..Len(repo)]
  /\ data \in [Calls -> Atomic!Tree]
  /\ asked \in [Calls -> SUBSET Files]
  /\ sha \in [Calls -> [Files -> 0..Len(repo)]]
  /\ answer \in [Calls -> {"none", "ok", "error"}]
  /\ alone \in [Calls -> BOOLEAN]

TypeOK == Types /\ \A c \in Calls : Orderly(c)

\* The tools keep AtomicFiles' promise: a call changes only what it names, an
\* answer "ok" is earned, a port is one revision, and a call that nothing
\* overlapped is atomic (tools.go:805-850, 860-961).
IsAtomic == Atomic!Spec

\* "With an optimistic-lock base blob sha (a concurrent change is rejected)"
\* (tools.go:864-865): what a port's commit replaces is what the head held when
\* the port began.
ConcurrentChangeIsRejected ==
  [][\A c \in Calls :
       pc[c] = "commit" /\ pc'[c] = "done" /\ repo' # repo =>
         \A f \in Held(c) : Newest[f] = repo[base[c]][f]]_vars
=============================================================================
