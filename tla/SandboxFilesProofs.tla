------------------------- MODULE SandboxFilesProofs ------------------------
(* SandboxFiles keeps the promise of AtomicFiles, for any files, calls and *)
(* pushes: types and stages first, then what a call that nothing overlaps  *)
(* knows of the pod, then the refinement.                                  *)
EXTENDS SandboxFiles, TLAPS

\* Where a call can be, by its tool, and what it holds there.
Stage(c) ==
  /\ pc[c] = "idle" <=> op[c] = Atomic!None
  /\ pc[c] # "idle" => ws[c] \in DOMAIN repo
  /\ pc[c] \in {"check", "sync", "record"} => op[c].tool \in {"read", "edit"}
  /\ pc[c] = "read" => op[c].tool \in {"read", "edit", "port"}
  /\ pc[c] = "write" => op[c].tool \in {"write", "edit"}
  /\ pc[c] = "stat" => op[c].tool \in {"port", "portdir"} /\ Held(c) = {}
  /\ pc[c] = "list" => op[c].tool = "portdir"
  /\ pc[c] \in {"sha", "commit"} => /\ op[c].tool \in {"port", "portdir"}
                                    /\ Held(c) # {}
  /\ pc[c] = "write" /\ op[c].tool = "edit" => Held(c) = op[c].on
  /\ pc[c] \notin {"list", "sha", "commit", "done"} => asked[c] = {}
  /\ pc[c] = "list" => Held(c) \subseteq asked[c]
  /\ Held(c) \subseteq op[c].on

Stages == Types /\ \A c \in Calls : Orderly(c) /\ Stage(c)

\* What a call nothing overlapped knows: it runs alone, and the files it holds
\* are those of the pod.
Current(c) ==
  alone[c] /\ Atomic!Running(c) =>
    /\ \A d \in Calls : Atomic!Running(d) => d = c
    /\ pc[c] = "write" /\ op[c].tool = "edit"
         => \A f \in op[c].on : data[c][f] = pod[f]
    /\ pc[c] = "list" => \A f \in asked[c] : data[c][f] = pod[f]
    /\ pc[c] \in {"sha", "commit"} => \A f \in op[c].on : data[c][f] = pod[f]

----------------------------------------------------------------------------
(* The vocabulary *)

LEMMA OpFields ==
  /\ \A o \in Atomic!Op : /\ o # Atomic!None
                          /\ o.on \subseteq Files
                          /\ o.tool \in {"read", "write", "edit", "port",
                                         "portdir"}
                          /\ o.tool = "portdir" => o.on = Files
                          /\ o.tool # "portdir" => \E f \in Files : o.on = {f}
  /\ Atomic!None.on = {} /\ Atomic!None.tool = "none"
<1>1. ASSUME NEW o \in Atomic!Op
      PROVE  /\ o.on \subseteq Files
             /\ o.tool \in {"read", "write", "edit", "port", "portdir"}
             /\ o.tool = "portdir" => o.on = Files
             /\ o.tool # "portdir" => \E f \in Files : o.on = {f}
  BY DEF Atomic!Op
<1>2. Atomic!None.on = {} /\ Atomic!None.tool = "none" BY DEF Atomic!None
<1> QED BY <1>1, <1>2

LEMMA Trees ==
  /\ Atomic!Missing \in Atomic!Tree
  /\ Absent \in Atomic!Content
  /\ \A t \in Atomic!Tree :
       pod \in Atomic!Tree => Atomic!Overlay(t) \in Atomic!Tree
<1>1. Absent \in Atomic!Content BY DEF Absent, Atomic!Content, Atomic!Absent
<1> QED BY <1>1 DEF Atomic!Missing, Atomic!Tree, Atomic!Overlay, Absent,
           Atomic!Absent

----------------------------------------------------------------------------
(* Types and stages *)

LEMMA StagesInit == Init => Stages
<1> SUFFICES ASSUME Init PROVE Stages OBVIOUS
<1> USE DEF Init, Atomic!Init
<1>1. repo \in Seq(Atomic!Tree) /\ Len(repo) = 1 /\ pod \in Atomic!Tree
  <2>1. PICK t \in [Files -> {{}, Absent}] :
          repo = <<t>> /\ pod \in {t, Atomic!Missing}
    BY DEF Absent
  <2>2. t \in Atomic!Tree
    BY <2>1, Trees DEF Atomic!Tree, Atomic!Content
  <2> QED BY <2>1, <2>2, Trees
<1>2. \A c \in Calls : Held(c) = {}
  BY Trees DEF Held, Atomic!Missing, Absent
<1>3. Types BY <1>1, <1>2, Trees DEF Types, Labels
<1>4. \A c \in Calls : Orderly(c) /\ Stage(c)
  BY <1>2 DEF Orderly, Stage
<1> QED BY <1>3, <1>4 DEF Stages

\* A revision is added: what was known of the old ones stays.
LEMMA Grows ==
  ASSUME Types, NEW t \in Atomic!Tree, repo' = Append(repo, t)
  PROVE  /\ repo' \in Seq(Atomic!Tree)
         /\ Len(repo') = Len(repo) + 1
         /\ DOMAIN repo \subseteq DOMAIN repo'
         /\ 0..Len(repo) \subseteq 0..Len(repo')
  BY DEF Types

\* A call at rest: nothing the stages speak of changes for it.
LEMMA Rests ==
  ASSUME Stages, NEW c \in Calls, DOMAIN repo \subseteq DOMAIN repo',
         UNCHANGED <<op[c], pc[c], ws[c], data[c], asked[c], answer[c]>>
  PROVE  Orderly(c)' /\ Stage(c)'
<1>1. Held(c)' = Held(c) BY DEF Held
<1> QED BY <1>1 DEF Stages, Stage, Orderly

\* Begin
LEMMA BeginStages ==
  ASSUME Stages, NEW c \in Calls, Begin(c) PROVE Stages'
<1> USE DEF Stages
<1>1. PICK o \in Atomic!Op : op' = [op EXCEPT ![c] = o]
  BY DEF Begin, Atomic!Begin
<1>2. /\ op'[c] = o /\ o # Atomic!None
      /\ pc[c] = "idle" /\ Held(c) = {} /\ asked[c] = {}
      /\ answer[c] = "none"
  BY <1>1, OpFields DEF Types, Stage, Orderly, Begin, Atomic!Begin
<1>3. PICK i \in DOMAIN repo : ws' = [ws EXCEPT ![c] = i] BY DEF Begin
<1>4. PICK l \in {"check", "write", "stat"} :
        /\ pc' = [pc EXCEPT ![c] = l]
        /\ l = "check" <=> o.tool \in {"read", "edit"}
        /\ l = "write" <=> o.tool = "write"
  BY <1>1, <1>2, OpFields DEF Types, Begin, Goto
<1>5. UNCHANGED <<repo, pod, synced, late, data, asked, sha, answer>>
  BY DEF Begin, Atomic!Begin
<1>6. Types'
  <2>1. alone' \in [Calls -> BOOLEAN] BY DEF Begin, Atomic!Begin, Types
  <2>2. base' \in [Calls -> 0..Len(repo)] BY DEF Begin, Types
  <2>3. i \in 0..Len(repo) BY DEF Types
  <2> QED BY <1>1, <1>3, <1>4, <1>5, <2>1, <2>2, <2>3 DEF Types, Labels
<1>7. Orderly(c)' /\ Stage(c)'
  <2>1. pc'[c] = l /\ ws'[c] = i BY <1>3, <1>4 DEF Types
  <2>2. Held(c)' = {} BY <1>2, <1>5 DEF Held
  <2> QED BY <1>2, <1>4, <1>5, <2>1, <2>2, OpFields DEF Orderly, Stage
<1>8. ASSUME NEW d \in Calls, d # c PROVE Orderly(d)' /\ Stage(d)'
  BY <1>1, <1>3, <1>4, <1>5, <1>8, Rests DEF Types
<1> QED BY <1>6, <1>7, <1>8

\* The statements of a call that change neither sandbox nor repository.
LEMMA LocalStages ==
  ASSUME Stages, NEW c \in Calls,
         \/ Check(c) \/ Record(c) \/ Stat(c) \/ SyncTimeout(c) \/ Fail(c)
  PROVE  Stages'
<1> USE DEF Stages
<1>1. UNCHANGED <<repo, pod, op, ws, data, asked, base, sha, alone>>
  BY DEF Check, Record, Stat, SyncTimeout, Fail
<1>2. PICK l \in {"read", "sync", "list", "done"} :
        /\ pc' = [pc EXCEPT ![c] = l]
        /\ pc[c] \notin {"idle", "done"}
        /\ l # "done" => /\ answer' = answer
                         /\ pc[c] \in {"check", "record", "stat"}
                         /\ l = "sync" => pc[c] = "check"
                         /\ l = "read" /\ pc[c] = "stat"
                              => op[c].tool = "port"
                         /\ l = "list" => pc[c] = "stat" /\ op[c].tool # "port"
        /\ l = "done" => answer' = [answer EXCEPT ![c] = "error"]
  BY DEF Check, Record, Stat, SyncTimeout, Fail, Goto, Return, Atomic!Reply
<1>3. Types'
  <2>1. late' \subseteq DOMAIN repo /\ synced' \in 0..Len(repo)
    BY DEF Types, Stage, Check, Record, Stat, SyncTimeout, Fail
  <2> QED BY <1>1, <1>2, <2>1 DEF Types, Labels
<1>4. Orderly(c)' /\ Stage(c)'
  <2>1. pc'[c] = l BY <1>2 DEF Types
  <2>2. answer'[c] = "none" <=> l # "done" BY <1>2 DEF Types, Orderly
  <2>3. Held(c)' = Held(c) BY <1>1 DEF Held
  <2> QED BY <1>1, <1>2, <2>1, <2>2, <2>3 DEF Orderly, Stage
<1>5. ASSUME NEW d \in Calls, d # c PROVE Orderly(d)' /\ Stage(d)'
  BY <1>1, <1>2, <1>5, Rests DEF Types
<1> QED BY <1>3, <1>4, <1>5

\* The sync, and the write at the end of a write or an edit.
LEMMA PodStages ==
  ASSUME Stages, NEW c \in Calls, Sync(c) \/ WriteFile(c)
  PROVE  Stages'
<1> USE DEF Stages
<1>1. UNCHANGED <<repo, synced, late, op, ws, base, data, asked, sha, alone>>
  BY DEF Sync, WriteFile
<1>2. PICK l \in {"record", "done"} :
        /\ pc' = [pc EXCEPT ![c] = l]
        /\ pc[c] \notin {"idle", "done"}
        /\ l = "record" => answer' = answer /\ pc[c] = "sync"
        /\ l = "done" => \E a \in {"ok", "error"} :
                           answer' = [answer EXCEPT ![c] = a]
  BY DEF Sync, WriteFile, Goto, Return, Atomic!Reply
<1>3. pod' \in Atomic!Tree
  <2>1. CASE Sync(c)
    <3>1. repo[ws[c]] \in Atomic!Tree BY <2>1 DEF Types, Stage, Sync
    <3> QED BY <2>1, <3>1, Trees DEF Sync, Types
  <2>2. CASE WriteFile(c)
    <3>1. PICK f \in op[c].on : pod' = [pod EXCEPT ![f] = Content(c, f)]
      BY <2>2 DEF WriteFile
    <3>2. op[c] \in Atomic!Op /\ f \in Files /\ op[c].tool \in {"write", "edit"}
      BY <2>2, OpFields DEF Types, Stage, WriteFile
    <3>3. Content(c, f) \in Atomic!Content
      <4>1. CASE op[c].tool = "write"
        BY <4>1 DEF Content, Atomic!Content
      <4>2. CASE op[c].tool = "edit"
        <5>1. f \in Held(c) BY <2>2, <4>2 DEF WriteFile, Stage
        <5>2. data[c][f] \in SUBSET (Calls \cup Pushes)
          BY <3>2, <5>1 DEF Held, Types, Atomic!Tree, Atomic!Content, Absent
        <5> QED BY <4>2, <5>2 DEF Content, Atomic!Content
      <4> QED BY <3>2, <4>1, <4>2
    <3> QED BY <3>1, <3>3 DEF Types, Atomic!Tree
  <2> QED BY <2>1, <2>2
<1>4. Types' BY <1>1, <1>2, <1>3 DEF Types, Labels
<1>5. Orderly(c)' /\ Stage(c)'
  <2>1. pc'[c] = l BY <1>2 DEF Types
  <2>2. answer'[c] = "none" <=> l # "done" BY <1>2 DEF Types, Orderly
  <2>3. Held(c)' = Held(c) BY <1>1 DEF Held
  <2> QED BY <1>1, <1>2, <2>1, <2>2, <2>3 DEF Orderly, Stage
<1>6. ASSUME NEW d \in Calls, d # c PROVE Orderly(d)' /\ Stage(d)'
  BY <1>1, <1>2, <1>6, Rests DEF Types
<1> QED BY <1>4, <1>5, <1>6

\* The read of a file.
LEMMA ReadStages ==
  ASSUME Stages, NEW c \in Calls, ReadFile(c)
  PROVE  Stages'
<1> USE DEF Stages
<1>1. UNCHANGED <<repo, pod, synced, late, op, ws, base, asked, sha, alone>>
  BY DEF ReadFile
<1>2. op[c] \in Atomic!Op /\ pc[c] = "read" /\ asked[c] = {}
  BY DEF Types, Stage, ReadFile
<1>3. PICK f \in op[c].on :
        IF pod[f] = Absent
        THEN Return(c, "error") /\ UNCHANGED data
        ELSE /\ data' = [data EXCEPT ![c] = [@ EXCEPT ![f] = pod[f]]]
             /\ IF op[c].tool = "read" THEN Return(c, "ok")
                ELSE /\ Goto(c, IF op[c].tool = "edit" THEN "write" ELSE "sha")
                     /\ UNCHANGED answer
  BY DEF ReadFile
<1>4. op[c].on = {f} /\ f \in Files /\ op[c].tool \in {"read", "edit", "port"}
  BY <1>2, OpFields DEF ReadFile, Stage
<1>5. PICK l \in {"write", "sha", "done"} :
        /\ pc' = [pc EXCEPT ![c] = l]
        /\ l # "done" => answer' = answer /\ pod[f] # Absent
        /\ l = "done" => \E a \in {"ok", "error"} :
                           answer' = [answer EXCEPT ![c] = a]
        /\ l = "write" => op[c].tool = "edit"
        /\ l = "sha" => op[c].tool = "port"
  BY <1>3, <1>4 DEF Goto, Return, Atomic!Reply
<1>6. /\ data' \in [Calls -> Atomic!Tree]
      /\ \A d \in Calls : d # c => data'[d] = data[d]
      /\ Held(c)' \subseteq op[c].on
      /\ l # "done" => Held(c)' = op[c].on
  <2>1. CASE pod[f] = Absent
    <3>1. data' = data /\ l = "done" BY <1>3, <1>5, <2>1
    <3>2. Held(c)' = Held(c) BY <3>1 DEF Held
    <3> QED BY <3>1, <3>2 DEF Stage, Types
  <2>2. CASE pod[f] # Absent
    <3>1. data' = [data EXCEPT ![c] = [@ EXCEPT ![f] = pod[f]]]
      BY <1>3, <2>2
    <3>2. [data[c] EXCEPT ![f] = pod[f]] \in Atomic!Tree
      BY <1>4 DEF Types, Atomic!Tree
    <3>3. Held(c)' = Held(c) \cup {f}
      BY <1>4, <2>2, <3>1 DEF Held, Types, Atomic!Tree
    <3> QED BY <1>4, <3>1, <3>2, <3>3 DEF Stage, Types
  <2> QED BY <2>1, <2>2
<1>7. Types' BY <1>1, <1>5, <1>6 DEF Types, Labels
<1>8. Orderly(c)' /\ Stage(c)'
  <2>1. pc'[c] = l BY <1>5 DEF Types
  <2>2. answer'[c] = "none" <=> l # "done" BY <1>2, <1>5 DEF Types, Orderly
  <2> QED BY <1>1, <1>2, <1>4, <1>5, <1>6, <2>1, <2>2 DEF Orderly, Stage
<1>9. ASSUME NEW d \in Calls, d # c PROVE Orderly(d)' /\ Stage(d)'
  BY <1>1, <1>5, <1>6, <1>9, Rests DEF Types
<1> QED BY <1>7, <1>8, <1>9

\* A step of the walk over a directory, and the listing's end.
LEMMA WalkStages ==
  ASSUME Stages, NEW c \in Calls, Walk(c) PROVE Stages'
<1> USE DEF Stages
<1>1. /\ UNCHANGED <<repo, pod, synced, late, op, pc, ws, base, sha>>
      /\ UNCHANGED <<answer, alone>>
      /\ pc[c] = "list"
  BY DEF Walk
<1>2. op[c].on = Files /\ op[c].tool = "portdir" /\ op[c] # Atomic!None
  BY <1>1, OpFields DEF Types, Stage
<1>3. PICK f \in Files :
        /\ asked' = [asked EXCEPT ![c] = @ \cup {f}]
        /\ data' = [data EXCEPT ![c] = [@ EXCEPT ![f] = pod[f]]]
  BY DEF Walk
<1>4. [data[c] EXCEPT ![f] = pod[f]] \in Atomic!Tree
  BY DEF Types, Atomic!Tree
<1>5. Types' BY <1>1, <1>3, <1>4 DEF Types
<1>6. Orderly(c)' /\ Stage(c)'
  <2>1. asked'[c] = asked[c] \cup {f} BY <1>3 DEF Types
  <2>2. Held(c)' \subseteq Held(c) \cup {f}
    BY <1>3 DEF Held, Types, Atomic!Tree
  <2>3. Held(c)' \subseteq asked'[c] BY <1>1, <2>1, <2>2 DEF Stage
  <2> QED BY <1>1, <1>2, <2>1, <2>2, <2>3 DEF Orderly, Stage, Held
<1>7. ASSUME NEW d \in Calls, d # c PROVE Orderly(d)' /\ Stage(d)'
  BY <1>1, <1>3, <1>7, Rests DEF Types
<1> QED BY <1>5, <1>6, <1>7

LEMMA ListStages ==
  ASSUME Stages, NEW c \in Calls, List(c) PROVE Stages'
<1> USE DEF Stages
<1>1. /\ UNCHANGED <<repo, pod, synced, late, op, ws, base, data, sha, alone>>
      /\ pc[c] = "list"
      /\ asked' = [asked EXCEPT ![c] = {}]
  BY DEF List
<1>2. op[c].on = Files /\ op[c].tool = "portdir" /\ op[c] # Atomic!None
  BY <1>1, OpFields DEF Types, Stage
<1>3. PICK l \in {"sha", "done"} :
        /\ pc' = [pc EXCEPT ![c] = l]
        /\ l = "sha" => answer' = answer /\ data[c] # Atomic!Missing
        /\ l = "done" => answer' = [answer EXCEPT ![c] = "error"]
  BY DEF List, Goto, Return, Atomic!Reply
<1>4. Types' BY <1>1, <1>3 DEF Types, Labels
<1>5. Orderly(c)' /\ Stage(c)'
  <2>1. pc'[c] = l /\ asked'[c] = {} BY <1>1, <1>3 DEF Types
  <2>2. answer'[c] = "none" <=> l # "done" BY <1>1, <1>3 DEF Types, Orderly
  <2>3. Held(c)' = Held(c) BY <1>1 DEF Held
  <2>4. l = "sha" => Held(c) # {}
    BY <1>3 DEF Types, Atomic!Tree, Atomic!Missing, Absent, Held
  <2> QED BY <1>1, <1>2, <2>1, <2>2, <2>3, <2>4 DEF Orderly, Stage
<1>6. ASSUME NEW d \in Calls, d # c PROVE Orderly(d)' /\ Stage(d)'
  BY <1>1, <1>3, <1>6, Rests DEF Types
<1> QED BY <1>4, <1>5, <1>6

\* The lookups of shas.
LEMMA ShaStages ==
  ASSUME Stages, NEW c \in Calls, BlobSha(c) \/ BlobShaFails(c)
  PROVE  Stages'
<1> USE DEF Stages
<1>1. UNCHANGED <<repo, pod, synced, late, op, ws, base, data, answer, alone>>
  BY DEF BlobSha, BlobShaFails
<1>2. PICK f \in Held(c) : asked' = [asked EXCEPT ![c] = @ \cup {f}]
  BY DEF BlobSha, BlobShaFails
<1>3. f \in Files BY DEF Held
<1>4. sha' \in [Calls -> [Files -> 0..Len(repo)]]
  <2>1. CASE BlobSha(c)
    <3>1. PICK g \in Held(c) :
            sha' = [sha EXCEPT ![c] = [@ EXCEPT ![g] = Len(repo)]]
      BY <2>1 DEF BlobSha
    <3>2. g \in Files BY DEF Held
    <3>3. Len(repo) \in 0..Len(repo) BY DEF Types
    <3>4. [sha[c] EXCEPT ![g] = Len(repo)] \in [Files -> 0..Len(repo)]
      BY <3>2, <3>3 DEF Types
    <3> QED BY <3>1, <3>4 DEF Types
  <2>2. CASE BlobShaFails(c) BY <2>2 DEF BlobShaFails, Types
  <2> QED BY <2>1, <2>2
<1>5. PICK l \in {"sha", "commit"} :
        /\ pc' = [pc EXCEPT ![c] = l]
        /\ l = "commit" => asked'[c] = Held(c)
        /\ pc[c] = "sha"
  BY DEF BlobSha, BlobShaFails, Goto
<1>6. Types' BY <1>1, <1>2, <1>3, <1>4, <1>5 DEF Types, Labels
<1>7. Orderly(c)' /\ Stage(c)'
  <2>1. pc'[c] = l /\ asked'[c] = asked[c] \cup {f}
    BY <1>2, <1>5 DEF Types
  <2>2. Held(c)' = Held(c) BY <1>1 DEF Held
  <2> QED BY <1>1, <1>5, <2>1, <2>2 DEF Orderly, Stage
<1>8. ASSUME NEW d \in Calls, d # c PROVE Orderly(d)' /\ Stage(d)'
  BY <1>1, <1>2, <1>5, <1>8, Rests DEF Types
<1> QED BY <1>6, <1>7, <1>8

\* The commit's revision.
LEMMA CommitGrows ==
  ASSUME Stages, NEW c \in Calls, Commit(c)
  PROVE  \E t \in Atomic!Tree : repo' = Append(repo, t)
<1> DEFINE t == [f \in Files |-> IF f \in Held(c) THEN data[c][f]
                                                  ELSE Newest[f]]
<1>1. Len(repo) \in DOMAIN repo
  BY DEF Stages, Types, Stage, Commit
<1>2. Newest \in Atomic!Tree
  BY <1>1 DEF Stages, Types, Newest, Atomic!Newest
<1>3. t \in Atomic!Tree BY <1>2 DEF Stages, Types, Atomic!Tree, Held
<1> QED BY <1>3 DEF Commit

LEMMA CommitStages ==
  ASSUME Stages, NEW c \in Calls, Commit(c) PROVE Stages'
<1> USE DEF Stages
<1>1. UNCHANGED <<pod, synced, late, op, ws, base, data, asked, sha, alone>>
  BY DEF Commit
<1>2. PICK a \in {"ok", "error"} :
        pc' = [pc EXCEPT ![c] = "done"] /\ answer' = [answer EXCEPT ![c] = a]
  BY DEF Commit, Return, Goto, Atomic!Reply
<1>3. PICK t \in Atomic!Tree : repo' = Append(repo, t) BY CommitGrows
<1>4. /\ repo' \in Seq(Atomic!Tree) /\ Len(repo') = Len(repo) + 1
      /\ DOMAIN repo \subseteq DOMAIN repo'
      /\ 0..Len(repo) \subseteq 0..Len(repo')
  BY <1>3, Grows
<1>5. /\ sha' \in [Calls -> [Files -> 0..Len(repo')]]
      /\ base' \in [Calls -> 0..Len(repo')]
  BY <1>1, <1>4 DEF Types
<1>6. Types' BY <1>1, <1>2, <1>4, <1>5 DEF Types, Labels
<1>7. Orderly(c)' /\ Stage(c)'
  <2>1. pc'[c] = "done" /\ answer'[c] # "none" BY <1>2 DEF Types
  <2>2. Held(c)' = Held(c) BY <1>1 DEF Held
  <2> QED BY <1>1, <1>4, <2>1, <2>2 DEF Orderly, Stage, Commit
<1>8. ASSUME NEW d \in Calls, d # c PROVE Orderly(d)' /\ Stage(d)'
  BY <1>1, <1>2, <1>4, <1>8, Rests DEF Types
<1> QED BY <1>6, <1>7, <1>8

\* The environment.
LEMMA EnvStages ==
  ASSUME Stages,
         \/ \E p \in Pushes : Push(p)
         \/ Restart
         \/ \E i \in late : LateSync(i)
  PROVE  Stages'
<1> USE DEF Stages
<1>1. UNCHANGED <<synced, op, pc, ws, base, data, asked, sha, answer>>
  BY DEF Push, Restart, LateSync, callVars
<1>2. DOMAIN repo \subseteq DOMAIN repo' /\ Types'
  <2>1. ASSUME NEW p \in Pushes, Push(p)
        PROVE  DOMAIN repo \subseteq DOMAIN repo' /\ Types'
    <3>1. PICK f \in Files : repo' = Append(repo, [Newest EXCEPT ![f] = {p}])
      BY <2>1 DEF Push
    <3>2. [Newest EXCEPT ![f] = {p}] \in Atomic!Tree
      <4>1. Newest \in Atomic!Tree BY DEF Types, Newest, Atomic!Newest
      <4>2. {p} \in Atomic!Content BY DEF Atomic!Content
      <4> QED BY <4>1, <4>2 DEF Atomic!Tree
    <3>3. /\ repo' \in Seq(Atomic!Tree) /\ Len(repo') = Len(repo) + 1
          /\ DOMAIN repo \subseteq DOMAIN repo'
          /\ 0..Len(repo) \subseteq 0..Len(repo')
      BY <3>1, <3>2, Grows
    <3>4. UNCHANGED <<pod, late, alone>> BY <2>1 DEF Push
    <3>5. /\ sha' \in [Calls -> [Files -> 0..Len(repo')]]
          /\ base' \in [Calls -> 0..Len(repo')]
      BY <1>1, <3>3 DEF Types
    <3> QED BY <1>1, <3>3, <3>4, <3>5 DEF Types
  <2>2. ASSUME Restart \/ \E i \in late : LateSync(i)
        PROVE  DOMAIN repo \subseteq DOMAIN repo' /\ Types'
    <3>1. pod' \in Atomic!Tree
      <4>1. CASE Restart BY <4>1, Trees DEF Restart
      <4>2. ASSUME NEW i \in late, LateSync(i)
            PROVE  pod' \in Atomic!Tree
        <5>1. repo[i] \in Atomic!Tree BY DEF Types
        <5> QED BY <4>2, <5>1, Trees DEF LateSync, Types
      <4> QED BY <2>2, <4>1, <4>2
    <3>2. alone' \in [Calls -> BOOLEAN] /\ repo' = repo /\ late' \subseteq late
      BY <2>2 DEF Restart, LateSync, Overlap, Types
    <3> QED BY <1>1, <3>1, <3>2 DEF Types
  <2> QED BY <2>1, <2>2
<1>3. ASSUME NEW c \in Calls PROVE Orderly(c)' /\ Stage(c)'
  BY <1>1, <1>2, Rests
<1> QED BY <1>2, <1>3

LEMMA Steps == Stages /\ [Next]_vars => Stages'
<1> SUFFICES ASSUME Stages, [Next]_vars PROVE Stages' OBVIOUS
<1>1. ASSUME NEW c \in Calls,
             \/ Begin(c) \/ Check(c) \/ Sync(c) \/ Record(c)
             \/ SyncTimeout(c) \/ ReadFile(c) \/ WriteFile(c) \/ Stat(c)
             \/ Walk(c) \/ List(c) \/ BlobSha(c) \/ BlobShaFails(c) \/ Commit(c)
             \/ Fail(c)
      PROVE  Stages'
  BY <1>1, BeginStages, LocalStages, PodStages, ReadStages, WalkStages,
     ListStages, ShaStages, CommitStages
<1>2. ASSUME \/ \E p \in Pushes : Push(p)
             \/ Restart
             \/ \E i \in late : LateSync(i)
      PROVE  Stages'
  BY <1>2, EnvStages
<1>3. CASE UNCHANGED vars
  <2>1. Types' BY <1>3 DEF vars, callVars, Stages, Types
  <2>2. ASSUME NEW c \in Calls PROVE Orderly(c)' /\ Stage(c)'
    BY <1>3, Rests DEF vars, callVars
  <2> QED BY <2>1, <2>2 DEF Stages
<1> QED BY <1>1, <1>2, <1>3 DEF Next

LEMMA StagesAlways == Spec => []Stages
BY StagesInit, Steps, PTL DEF Spec

\* The state of every call is well formed, and a call has an answer exactly
\* when it has returned (tools.go:790-961).
THEOREM FilesTypeCorrect == Spec => []TypeOK
<1>1. Stages => TypeOK BY DEF Stages, TypeOK
<1> QED BY <1>1, StagesAlways, PTL

----------------------------------------------------------------------------
(* What one call does *)

\* A statement of a call after its first: it runs, and only its own program
\* counter, data and answer change.
LEMMA Acts ==
  ASSUME Stages, NEW c \in Calls,
         \/ Check(c) \/ Sync(c) \/ Record(c) \/ SyncTimeout(c) \/ ReadFile(c)
         \/ WriteFile(c) \/ Stat(c) \/ Walk(c) \/ List(c) \/ BlobSha(c)
         \/ BlobShaFails(c) \/ Commit(c) \/ Fail(c)
  PROVE  /\ Atomic!Running(c)
         /\ UNCHANGED <<op, alone>>
         /\ \E l \in Labels \ {"idle"} : pc' = [pc EXCEPT ![c] = l]
         /\ \A d \in Calls : d # c => UNCHANGED <<pc[d], data[d], answer[d]>>
         /\ pc'[c] = "done" <=> answer'[c] # "none"
<1>1. pc[c] \notin {"idle", "done"} /\ UNCHANGED <<op, alone>>
  BY DEF Check, Sync, Record, SyncTimeout, ReadFile, WriteFile, Stat, Walk,
         List, BlobSha, BlobShaFails, Commit, Fail
<1>2. Atomic!Running(c)
  BY <1>1 DEF Stages, Stage, Orderly, Atomic!Running
<1>3. \E l \in Labels \ {"idle"} : pc' = [pc EXCEPT ![c] = l]
  <2>1. Walk(c) => pc[c] = "list" /\ pc' = [pc EXCEPT ![c] = "list"]
    BY DEF Walk, Stages, Types
  <2> QED
    BY <2>1
       DEF Check, Sync, Record, SyncTimeout, ReadFile, WriteFile, Stat, List,
           BlobSha, BlobShaFails, Commit, Fail, Goto, Return, Labels
<1>4. data' = data \/ \E t : data' = [data EXCEPT ![c] = t]
  BY DEF Check, Sync, Record, SyncTimeout, ReadFile, WriteFile, Stat, Walk,
         List, BlobSha, BlobShaFails, Commit, Fail
<1>5. answer' = answer \/ \E a : answer' = [answer EXCEPT ![c] = a]
  BY DEF Check, Sync, Record, SyncTimeout, ReadFile, WriteFile, Stat, Walk,
         List, BlobSha, BlobShaFails, Commit, Fail, Return, Atomic!Reply
<1>6. Orderly(c)'
  BY BeginStages, LocalStages, PodStages, ReadStages, WalkStages,
     ListStages, ShaStages, CommitStages
     DEF Stages
<1> QED BY <1>1, <1>2, <1>3, <1>4, <1>5, <1>6 DEF Stages, Types, Orderly

----------------------------------------------------------------------------
(* The promise of AtomicFiles *)

Know == Stages /\ \A c \in Calls : Current(c)

LEMMA KnowSteps == Know /\ [Next]_vars => Know'
<1> SUFFICES ASSUME Know, [Next]_vars PROVE Know' OBVIOUS
<1> USE DEF Know
<1>1. Stages' BY Steps
<1> SUFFICES ASSUME NEW c \in Calls, alone'[c], Atomic!Running(c)'
             PROVE  /\ \A e \in Calls : Atomic!Running(e)' => e = c
                    /\ \/ pc'[c] = "write" /\ op'[c].tool = "edit"
                       \/ pc'[c] \in {"sha", "commit"}
                       => \A f \in op'[c].on : data'[c][f] = pod'[f]
                    /\ pc'[c] = "list"
                       => \A f \in asked'[c] : data'[c][f] = pod'[f]
  BY <1>1 DEF Current
<1>2. ASSUME NEW d \in Calls, Begin(d) PROVE d = c
  <2>1. alone' = [e \in Calls |->
           IF e = d THEN \A x \in Calls : ~Atomic!Running(x)
           ELSE alone[e] /\ ~Atomic!Running(e)]
    BY <1>2 DEF Begin, Atomic!Begin
  <2>2. d # c => (Atomic!Running(c)' <=> Atomic!Running(c))
    BY <1>2 DEF Begin, Atomic!Begin, Atomic!Running, Stages, Types
  <2> QED BY <2>1, <2>2
<1>3. CASE Begin(c)
  <2>1. PICK o \in Atomic!Op : op' = [op EXCEPT ![c] = o]
    BY <1>3 DEF Begin, Atomic!Begin
  <2>2. op'[c] = o /\ UNCHANGED answer
    BY <1>3, <2>1 DEF Begin, Atomic!Begin, Stages, Types
  <2>3. \A e \in Calls : ~Atomic!Running(e)
    BY <1>3 DEF Begin, Atomic!Begin
  <2>4. \A e \in Calls : e # c => op'[e] = op[e]
    BY <2>1 DEF Stages, Types
  <2>5. /\ pc'[c] \notin {"list", "sha", "commit"}
        /\ pc'[c] = "write" => o.tool = "write"
    BY <1>3, <2>2, OpFields DEF Begin, Goto, Stages, Types
  <2> QED BY <2>2, <2>3, <2>4, <2>5 DEF Atomic!Running
<1>4. ASSUME NEW d \in Calls,
             \/ Check(d) \/ Sync(d) \/ Record(d) \/ SyncTimeout(d)
             \/ ReadFile(d) \/ WriteFile(d) \/ Stat(d) \/ Walk(d) \/ List(d)
             \/ BlobSha(d) \/ BlobShaFails(d) \/ Commit(d) \/ Fail(d)
      PROVE  /\ \A e \in Calls : Atomic!Running(e)' => e = c
             /\ \/ pc'[c] = "write" /\ op'[c].tool = "edit"
                \/ pc'[c] \in {"sha", "commit"}
                => \A f \in op'[c].on : data'[c][f] = pod'[f]
             /\ pc'[c] = "list"
                => \A f \in asked'[c] : data'[c][f] = pod'[f]
  <2>1. /\ UNCHANGED <<op, alone>>
        /\ \A e \in Calls : Atomic!Running(e)' => Atomic!Running(e)
        /\ Atomic!Running(d)
    BY <1>4, Acts DEF Atomic!Running
  <2>2. d = c /\ \A e \in Calls : Atomic!Running(e) => e = c
    BY <2>1 DEF Current
  <2>3. pc'[c] # "done" BY <1>4, <2>2, Acts DEF Atomic!Running
  <2>4. CASE Check(c) \/ Record(c) \/ Stat(c) \/ Sync(c)
    BY <2>1, <2>2, <2>4
       DEF Check, Record, Stat, Sync, Goto, Stages, Types, Stage
  <2>5. CASE BlobSha(c) \/ BlobShaFails(c)
    BY <2>1, <2>2, <2>5 DEF BlobSha, BlobShaFails, Current, Goto,
                           Stages, Types
  <2>6. CASE List(c)
    <3>1. asked[c] = Files /\ \A f \in Files : data[c][f] = pod[f]
      BY <2>1, <2>2, <2>6 DEF List, Current
    <3>2. UNCHANGED <<op, data, pod>> /\ pc'[c] \in {"sha", "done"}
      BY <2>6 DEF List, Return, Goto, Stages, Types
    <3>3. op[c].on = Files
      BY <2>6, OpFields DEF List, Stages, Types, Stage
    <3> QED BY <2>1, <2>2, <3>1, <3>2, <3>3
  <2>9. CASE Walk(c)
    <3>1. PICK f \in Files :
            /\ asked' = [asked EXCEPT ![c] = @ \cup {f}]
            /\ data' = [data EXCEPT ![c] = [@ EXCEPT ![f] = pod[f]]]
      BY <2>9 DEF Walk
    <3>2. UNCHANGED <<pc, pod>> /\ pc[c] = "list" BY <2>9 DEF Walk
    <3>3. /\ asked'[c] = asked[c] \cup {f}
          /\ \A g \in Files :
               data'[c][g] = IF g = f THEN pod[f] ELSE data[c][g]
      BY <3>1 DEF Stages, Types, Atomic!Tree
    <3>4. \A g \in asked[c] : data[c][g] = pod[g] /\ g \in Files
      BY <2>1, <2>2, <3>2 DEF Current, Stages, Types
    <3> QED BY <2>1, <2>2, <3>2, <3>3, <3>4
  <2>7. CASE ReadFile(c)
    <3>1. PICK f \in op[c].on :
            \/ pc' = [pc EXCEPT ![c] = "done"]
            \/ data' = [data EXCEPT ![c] = [@ EXCEPT ![f] = pod[f]]]
      BY <2>7 DEF ReadFile, Return, Goto
    <3>2. op[c] \in Atomic!Op /\ op[c].tool # "portdir"
      BY <2>7 DEF ReadFile, Stages, Types, Stage
    <3>3. op[c].on = {f} /\ f \in Files BY <3>1, <3>2, OpFields
    <3>4. data'[c][f] = pod[f]
      BY <2>3, <3>1, <3>3 DEF Stages, Types, Atomic!Tree
    <3>5. pod' = pod /\ pc'[c] # "list"
      BY <2>7 DEF ReadFile, Return, Goto, Stages, Types
    <3> QED BY <2>1, <2>2, <3>3, <3>4, <3>5
  <2>8. CASE SyncTimeout(c) \/ WriteFile(c) \/ Commit(c) \/ Fail(c)
    <3>1. pc'[c] = "done"
      BY <2>8 DEF SyncTimeout, WriteFile, Commit, Fail, Return, Goto, Stages,
                  Types
    <3> QED BY <2>3, <3>1
  <2> QED BY <1>4, <2>2, <2>4, <2>5, <2>6, <2>7, <2>8, <2>9
<1>5. CASE (\E p \in Pushes : Push(p)) \/ UNCHANGED vars
  BY <1>5 DEF Push, vars, callVars, Atomic!Running, Current
<1>6. ~Restart /\ ~\E i \in late : LateSync(i)
  BY DEF Restart, LateSync, Overlap, callVars, Atomic!Running
<1> QED BY <1>2, <1>3, <1>4, <1>5, <1>6 DEF Next

LEMMA KnowAlways == Spec => []Know
<1>1. Init => Know
  BY StagesInit DEF Know, Current, Init, Atomic!Init, Atomic!Running
<1> QED BY <1>1, KnowSteps, PTL DEF Spec

LEMMA Implements == Know /\ [Next]_vars => [Atomic!Next]_(Atomic!vars)
<1> SUFFICES ASSUME Know, [Next]_vars
             PROVE  Atomic!Next \/ UNCHANGED Atomic!vars
  OBVIOUS
<1> USE DEF Know
<1>1. ASSUME NEW c \in Calls, Begin(c) PROVE Atomic!Next
  BY <1>1 DEF Begin, Atomic!Next
<1>2. ASSUME NEW c \in Calls,
             \/ Check(c) \/ Record(c) \/ Stat(c) \/ Walk(c) \/ BlobSha(c)
             \/ BlobShaFails(c)
      PROVE  UNCHANGED Atomic!vars
  BY <1>2 DEF Check, Record, Stat, Walk, BlobSha, BlobShaFails, Atomic!vars
<1>3. ASSUME NEW c \in Calls, Sync(c) PROVE Atomic!Refresh
  <2>1. ws[c] \in DOMAIN repo BY <1>3 DEF Sync, Stages, Stage
  <2> QED BY <1>3, <2>1 DEF Sync, Atomic!Refresh
<1>4. ASSUME NEW c \in Calls,
             SyncTimeout(c) \/ Fail(c) \/ ReadFile(c) \/ List(c)
      PROVE  Atomic!End(c) \/ UNCHANGED Atomic!vars
  <2>1. Atomic!Running(c) BY <1>4, Acts
  <2>2. UNCHANGED <<repo, pod, op, alone>>
    BY <1>4 DEF SyncTimeout, Fail, ReadFile, List
  <2>3. \/ UNCHANGED answer
        \/ Atomic!Reply(c, "error")
        \/ op[c].tool = "read" /\ Atomic!Reply(c, "ok")
    BY <1>4 DEF SyncTimeout, Fail, ReadFile, List, Return
  <2> QED BY <2>1, <2>2, <2>3 DEF Atomic!End, Atomic!vars
<1>5. ASSUME NEW c \in Calls, WriteFile(c) PROVE Atomic!Change(c)
  <2>1. Atomic!Running(c) BY <1>5, Acts
  <2>2. op[c] \in Atomic!Op /\ op[c].tool \in {"write", "edit"}
    BY <1>5 DEF WriteFile, Stages, Types, Stage
  <2>3. PICK f \in op[c].on : pod' = [pod EXCEPT ![f] = Content(c, f)]
    BY <1>5 DEF WriteFile
  <2>4. f \in Files BY <2>2, OpFields
  <2>5. op[c].tool = "edit" =>
          /\ data[c][f] \in SUBSET (Calls \cup Pushes)
          /\ data[c][f] # Absent
    BY <1>5, <2>3, <2>4
       DEF WriteFile, Stages, Stage, Types, Held, Atomic!Tree,
           Atomic!Content, Absent
  <2>6. /\ Content(c, f) \in Atomic!Content
        /\ op[c].tool = "write" => Content(c, f) = {c}
        /\ op[c].tool = "edit" => Content(c, f) = data[c][f] \cup {c}
    BY <2>2, <2>5 DEF Content, Atomic!Content
  <2>7. op[c].tool = "edit" /\ alone[c] => data[c][f] = pod[f]
    BY <1>5, <2>1, <2>3 DEF WriteFile, Current
  <2>8. UNCHANGED <<repo, op, alone>>
        /\ \E a \in {"ok", "error"} : Atomic!Reply(c, a)
    BY <1>5 DEF WriteFile, Return
  <2> QED
    BY <2>1, <2>2, <2>3, <2>5, <2>6, <2>7, <2>8 DEF Atomic!Change, Absent
<1>6. ASSUME NEW c \in Calls, Commit(c) PROVE Atomic!Port(c)
  <2>1. Atomic!Running(c) BY <1>6, Acts
  <2>2. /\ op[c] \in Atomic!Op /\ op[c].tool \in {"port", "portdir"}
        /\ Held(c) \in (SUBSET op[c].on) \ {{}}
        /\ op[c].on \subseteq Files
    BY <1>6, OpFields DEF Commit, Stages, Types, Stage
  <2>3. data[c] \in Atomic!Tree BY DEF Stages, Types
  <2>4. \A f \in Held(c) : data[c][f] # Atomic!Absent BY DEF Held, Absent
  <2>5. alone[c] => \A f \in op[c].on : IF f \in Held(c)
                                        THEN data[c][f] = pod[f]
                                        ELSE pod[f] = Atomic!Absent
    <3>1. alone[c] => \A f \in op[c].on : data[c][f] = pod[f]
      BY <1>6, <2>1 DEF Current, Commit
    <3> QED BY <2>2, <3>1 DEF Held, Absent
  <2>6. UNCHANGED <<pod, op, alone>>
        /\ \E a \in {"ok", "error"} : Atomic!Reply(c, a)
    BY <1>6 DEF Commit, Return
  <2>7. repo' = Append(repo, [f \in Files |->
                  IF f \in Held(c) THEN data[c][f] ELSE Atomic!Newest[f]])
    BY <1>6 DEF Commit, Newest
  <2> QED BY <2>1, <2>2, <2>3, <2>4, <2>5, <2>6, <2>7 DEF Atomic!Port
<1>7. ASSUME NEW p \in Pushes, Push(p) PROVE Atomic!Push
  BY <1>7 DEF Push, callVars, Atomic!Push, Newest
<1>8. ASSUME Restart \/ \E i \in late : LateSync(i) PROVE Atomic!Accident
  BY <1>8 DEF Restart, LateSync, Overlap, callVars, Atomic!Accident,
              Stages, Types
<1>9. CASE UNCHANGED vars BY <1>9 DEF vars, callVars, Atomic!vars
<1> QED
  BY <1>1, <1>2, <1>3, <1>4, <1>5, <1>6, <1>7, <1>8, <1>9
     DEF Next, Atomic!Next

\* The file tools, request by request, keep the promise of AtomicFiles
\* (tools.go:790-961).
THEOREM FilesAreAtomic == Spec => IsAtomic
<1>1. Init => Atomic!Init BY DEF Init
<1> QED BY <1>1, KnowAlways, Implements, PTL
        DEF Spec, IsAtomic, Atomic!Spec
=============================================================================
