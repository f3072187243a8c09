------------------------- MODULE SandboxSyncProofs -------------------------
(***************************************************************************)
(* Machine-checked theorems about SandboxSync, for every set of sessions,  *)
(* calls, tools and revisions and every combination of faults.             *)
(***************************************************************************)
EXTENDS SandboxSync, TLAPS

----------------------------------------------------------------------------
(* Type correctness *)

LEMMA Records ==
  /\ NoRev \in Rev /\ Revs \subseteq Rev
  /\ NoHead \in Head
  /\ \A h \in Head : h.rev \in Rev /\ h.at \in Nat
  /\ \A r \in Revs, n \in Nat : [rev |-> r, at |-> n + 1] \in Head
  BY DEF NoHead, Head, Rev

LEMMA TypeInit == Init => TypeOK
<1> SUFFICES ASSUME Init PROVE TypeOK OBVIOUS
<1> USE RevAssumption, ToolAssumption, BoundAssumption
    DEF Init
<1>1. head \in [Sessions -> Head] BY DEF Head, Rev
<1>2. cached \in [Sessions -> Head] /\ ws \in [Calls -> Head] BY Records
<1>3. jobs \subseteq Job /\ crossed \subseteq Calls /\ doubt \subseteq Sessions
  OBVIOUS
<1>4. /\ synced \in [Sessions -> Rev] /\ jjSynced \in [Sessions -> Rev]
      /\ gate \in [Sessions -> Rev] /\ tree \in [Sessions -> Rev]
      /\ late \in [Sessions -> SUBSET Rev]
      /\ acked \in [Sessions -> SUBSET Rev]
  BY DEF Rev
<1>5. /\ pod \in [Sessions -> Nat] /\ made \in [Sessions -> Nat]
      /\ ported \in [Sessions -> Nat]
  <2>1. \A s \in Sessions : pod[s] \in {0, 1} OBVIOUS
  <2>2. pod \in [Sessions -> Nat] BY <2>1
  <2> QED BY <2>2
<1>6. /\ url \in [Calls -> Nat] /\ floor \in [Calls -> Nat]
      /\ stamp \in [Calls -> Nat]
  OBVIOUS
<1>7. /\ pc \in [Calls -> Labels] /\ retry \in [Calls -> BOOLEAN]
      /\ tool \in [Calls -> Tools] /\ sess \in [Calls -> Sessions]
  BY DEF Labels
<1> HIDE DEF Init
<1> QED BY <1>1, <1>2, <1>3, <1>4, <1>5, <1>6, <1>7 DEF TypeOK

\* Beginning a call, or one of its statements, keeps the types.
LEMMA TypeCall ==
  ASSUME TypeOK, NEW c \in Calls, BeginHit(c) \/ BeginMiss(c) \/ CallStep(c)
  PROVE  TypeOK'
<1> USE Records, RevAssumption, ToolAssumption, BoundAssumption
    DEF TypeOK, Labels, Goto,
        serverVars, envVars, callVars, history
<1>1. CASE Fetch(c)       BY <1>1 DEF Fetch
<1>2. CASE Store(c)       BY <1>2 DEF Store, AfterResolve
<1>3. CASE Create(c)
  <2>1. sess[c] \in Sessions /\ made[sess[c]] + 1 \in Nat OBVIOUS
  <2>2. pod' \in [Sessions -> Nat] /\ made' \in [Sessions -> Nat]
    <3>1. CASE UNCHANGED <<pod, made>> BY <3>1
    <3>2. CASE /\ pod' = [pod EXCEPT ![sess[c]] = made[sess[c]] + 1]
               /\ made' = [made EXCEPT ![sess[c]] = made[sess[c]] + 1]
      BY <2>1, <3>2
    <3> QED BY <1>3, <3>1, <3>2 DEF Create
  <2>3. gate' \in [Sessions -> Rev] BY <1>3, <2>1 DEF Create
  <2>4. tree' \in [Sessions -> Rev] BY <1>3, <2>1 DEF Create
  <2>5. jjSynced' \in [Sessions -> Rev] BY <1>3, <2>1 DEF Create
  <2> QED BY <1>3, <2>2, <2>3, <2>4, <2>5 DEF Create
<1>4. CASE Info(c)        BY <1>4 DEF Info, AfterInfo
<1>5. CASE Check(c)       BY <1>5 DEF Check, AfterSync
<1>6. CASE Sync(c)
  <2>1. ws[c].rev \in Rev OBVIOUS
  <2>2. /\ gate' \in [Sessions -> Rev]
        /\ tree' \in [Sessions -> Rev]
    BY <1>6, <2>1 DEF Sync, JjSync
  <2>3. jjSynced' \in [Sessions -> Rev] BY <1>6, <2>1 DEF Sync, JjSync
  <2>4. acked' \in [Sessions -> SUBSET Rev] BY <1>6, <2>1 DEF Sync
  <2>5. doubt' \subseteq Sessions
    <3>1. sess[c] \in Sessions OBVIOUS
    <3> QED BY <1>6, <3>1 DEF Sync, JjSync
  <2> QED BY <1>6, <2>2, <2>3, <2>4, <2>5 DEF Sync
<1>7. CASE SyncTimeout(c) BY <1>7 DEF SyncTimeout
<1>8. CASE Record(c)      BY <1>8 DEF Record, AfterSync
<1>9. CASE Unmark(c)      BY <1>9 DEF Unmark
<1>10. CASE ReadFile(c)   BY <1>10 DEF ReadFile
<1>11. CASE UsePod(c)     BY <1>11 DEF UsePod
<1>12. CASE Commit(c)     BY <1>12 DEF Commit
<1>13. CASE Invalidate(c)
  <2>1. crossed' \subseteq Calls BY <1>13 DEF Invalidate, Overtaken
  <2> QED BY <1>13, <2>1 DEF Invalidate
<1>14. CASE ResolveURL(c) BY <1>14 DEF ResolveURL
<1>15. CASE ExecAccept(c)
  <2>1. [call |-> c, attempt |-> pc[c], rev |-> ws[c].rev,
         tree |-> tree[sess[c]]] \in Job
    BY <1>15 DEF ExecAccept, Job, Attempts
  <2>2. jobs' \subseteq Job BY <1>15, <2>1 DEF ExecAccept
  <2>3. pc' \in [Calls -> Labels] BY <1>15 DEF ExecAccept, AfterError
  <2> QED BY <1>15, <2>2, <2>3 DEF ExecAccept
<1>16. CASE ExecRefuse(c) BY <1>16 DEF ExecRefuse, AfterRefusal
<1>17. CASE Fail(c)       BY <1>17 DEF Fail, AfterError
<1>18. CASE BeginHit(c)   BY <1>18 DEF BeginHit, AfterResolve
<1>19. CASE BeginMiss(c)  BY <1>19 DEF BeginMiss
<1> QED BY <1>1, <1>2, <1>3, <1>4, <1>5, <1>6, <1>7, <1>8, <1>9, <1>10, <1>11,
     <1>12, <1>13, <1>14, <1>15, <1>16, <1>17, <1>18, <1>19 DEF CallStep

\* So does every step of the environment.
LEMMA TypeEnv ==
  ASSUME TypeOK, (\E s \in Sessions : EnvStep(s)) \/ Crash
  PROVE  TypeOK'
<1> USE Records, RevAssumption, ToolAssumption, BoundAssumption
    DEF TypeOK, Labels,
        serverVars, envVars, callVars, history
<1>1. ASSUME NEW s \in Sessions, EnvStep(s) PROVE TypeOK'
  <2>1. CASE Move(s)     BY <2>1 DEF Move
  <2>2. CASE Expire(s)   BY <2>2 DEF Expire
  <2>3. CASE Restart(s)  BY <2>3 DEF Restart
  <2>4. CASE Delete(s)   BY <2>4 DEF Delete
  <2>5. CASE JjForget(s) BY <2>5 DEF JjForget
  <2>6. CASE LateSync(s)
    <3>1. PICK r \in late[s] :
            /\ late' = [late EXCEPT ![s] = @ \ {r}]
            /\ IF pod[s] # 0
                 THEN JjSync(s, r, TRUE)
                 ELSE UNCHANGED <<gate, tree, jjSynced, doubt>>
            /\ UNCHANGED <<serverVars, head, pod, made, callVars,
                           jobs, acked, ported, floor, stamp, crossed>>
      BY <2>6 DEF LateSync
    <3>2. r \in Rev OBVIOUS
    <3>3. /\ gate' \in [Sessions -> Rev]
          /\ tree' \in [Sessions -> Rev]
          /\ jjSynced' \in [Sessions -> Rev]
      BY <3>1, <3>2 DEF JjSync
    <3>4. doubt' \subseteq Sessions BY <3>1 DEF JjSync
    <3> QED BY <3>1, <3>3, <3>4
  <2> QED BY <1>1, <2>1, <2>2, <2>3, <2>4, <2>5, <2>6 DEF EnvStep
<1>2. CASE Crash BY <1>2 DEF Crash, Active
<1> QED BY <1>1, <1>2

LEMMA TypeNext == TypeOK /\ [Next]_vars => TypeOK'
<1> SUFFICES ASSUME TypeOK, [Next]_vars PROVE TypeOK' OBVIOUS
<1>1. CASE Next BY <1>1, TypeCall, TypeEnv DEF Next
<1>2. CASE UNCHANGED vars
  BY <1>2 DEF vars, TypeOK, serverVars, envVars, callVars, history
<1> QED BY <1>1, <1>2

\* Every variable keeps its type in every execution of the server.
THEOREM TypeCorrect == Spec => []TypeOK
  BY TypeInit, TypeNext, PTL DEF Spec

----------------------------------------------------------------------------
(* What holds whatever the agent and the environment do.  SafeInv adds to  *)
(* the checked invariants what makes them inductive: a call past           *)
(* lookupWorkspace has a real revision (so its first two requests really   *)
(* carry a gate), the gate names the tree, an acknowledgement is on record *)
(* before setSyncedRev, and a started command has used up its request.     *)

RevsReal ==
  /\ \A s \in Sessions : /\ head[s].rev \in Revs
                         /\ cached[s] # NoHead => cached[s].rev \in Revs
  /\ \A c \in Calls :
       pc[c] \notin {"idle", "fetch", "done"} => ws[c].rev \in Revs

GateNamesTree == \A s \in Sessions : gate[s] # NoRev => tree[s] = gate[s]

AckedBeforeRecord ==
  \A c \in Calls : pc[c] = "record" => ws[c].rev \in acked[sess[c]]

StartedUsesRequest ==
  \A j \in jobs : \/ pc[j.call] = "done"
                  \/ pc[j.call] = "run3" /\ j.attempt = "run2"

SafeInv ==
  /\ RevsReal
  /\ GateNamesTree /\ GatedJobsSeeTheirRev
  /\ AckedBeforeRecord /\ RecordedRevWasAcked
  /\ StartedUsesRequest /\ FirstStartIsFinal

LEMMA SafeInit == Init => SafeInv
  BY DEF Init, SafeInv, RevsReal, GateNamesTree, GatedJobsSeeTheirRev, NoHead,
     AckedBeforeRecord, RecordedRevWasAcked, StartedUsesRequest,
     FirstStartIsFinal

LEMMA RevsRealCall ==
  ASSUME TypeOK, RevsReal,
         NEW c \in Calls, BeginHit(c) \/ BeginMiss(c) \/ CallStep(c)
  PROVE  RevsReal'
<1> USE DEF TypeOK, RevsReal, Goto, serverVars, envVars, callVars, history
<1>1. CASE BeginHit(c)   BY <1>1 DEF BeginHit
<1>2. CASE BeginMiss(c)  BY <1>2 DEF BeginMiss
<1>3. CASE Fetch(c)      BY <1>3 DEF Fetch
<1>4. CASE Store(c)      BY <1>4 DEF Store
<1>5. CASE Commit(c)     BY <1>5 DEF Commit
<1>6. CASE Invalidate(c) BY <1>6 DEF Invalidate
<1>7. CASE Create(c) \/ Info(c) \/ Check(c) \/ Sync(c) \/ SyncTimeout(c)
  BY <1>7 DEF Create, Info, Check, Sync, SyncTimeout
<1>8. CASE Record(c) \/ Unmark(c) \/ ReadFile(c) \/ UsePod(c) \/ ResolveURL(c)
  BY <1>8 DEF Record, Unmark, ReadFile, UsePod, ResolveURL
<1>9. CASE ExecAccept(c) BY <1>9 DEF ExecAccept, AfterError, Attempts
<1>10. CASE ExecRefuse(c) BY <1>10 DEF ExecRefuse, AfterRefusal, Attempts
<1>11. CASE Fail(c)      BY <1>11 DEF Fail, AfterError, Remote, Attempts
<1> QED BY <1>1, <1>2, <1>3, <1>4, <1>5, <1>6, <1>7, <1>8, <1>9, <1>10, <1>11
        DEF CallStep

LEMMA GateCall ==
  ASSUME TypeOK, RevsReal, GateNamesTree, GatedJobsSeeTheirRev,
         NEW c \in Calls, BeginHit(c) \/ BeginMiss(c) \/ CallStep(c)
  PROVE  GateNamesTree' /\ GatedJobsSeeTheirRev'
<1> USE DEF TypeOK, GateNamesTree, GatedJobsSeeTheirRev,
            serverVars, envVars, callVars, history
<1>1. CASE Create(c) BY <1>1 DEF Create
<1>2. CASE Sync(c)   BY <1>2 DEF Sync, JjSync
<1>3. CASE ExecAccept(c)
  <2>1. UNCHANGED <<gate, tree>> BY <1>3 DEF ExecAccept
  <2>2. pc[c] # "run3" => tree[sess[c]] = ws[c].rev
    <3>1. SUFFICES ASSUME pc[c] # "run3" PROVE tree[sess[c]] = ws[c].rev
      OBVIOUS
    <3>2. ws[c].rev \in Revs BY <1>3 DEF ExecAccept, RevsReal, Attempts
    <3>3. gate[sess[c]] = ws[c].rev
      BY <1>3, <3>1, <3>2, RevAssumption DEF ExecAccept, GateOpen, Gate
    <3> QED BY <3>2, <3>3, RevAssumption
  <2>3. \A j \in jobs' : j \in jobs \/
          (j.attempt = pc[c] /\ j.rev = ws[c].rev /\ j.tree = tree[sess[c]])
    BY <1>3 DEF ExecAccept
  <2> QED BY <2>1, <2>2, <2>3
<1>4. CASE BeginHit(c) \/ BeginMiss(c) \/ Fetch(c) \/ Store(c) \/ Info(c)
  BY <1>4 DEF BeginHit, BeginMiss, Fetch, Store, Info
<1>5. CASE Check(c) \/ SyncTimeout(c) \/ Record(c) \/ Unmark(c) \/ ReadFile(c)
  BY <1>5 DEF Check, SyncTimeout, Record, Unmark, ReadFile
<1>6. CASE UsePod(c) \/ Commit(c) \/ Invalidate(c) \/ ResolveURL(c)
           \/ ExecRefuse(c) \/ Fail(c)
  BY <1>6 DEF UsePod, Commit, Invalidate, ResolveURL, ExecRefuse, Fail
<1> QED BY <1>1, <1>2, <1>3, <1>4, <1>5, <1>6 DEF CallStep

LEMMA AckCall ==
  ASSUME TypeOK, AckedBeforeRecord, RecordedRevWasAcked,
         NEW c \in Calls, BeginHit(c) \/ BeginMiss(c) \/ CallStep(c)
  PROVE  AckedBeforeRecord' /\ RecordedRevWasAcked'
<1> USE DEF TypeOK, AckedBeforeRecord, RecordedRevWasAcked, Goto,
            serverVars, envVars, callVars, history
<1>1. CASE BeginHit(c) BY <1>1 DEF BeginHit, AfterResolve
<1>2. CASE BeginMiss(c) \/ Fetch(c) BY <1>2 DEF BeginMiss, Fetch
<1>3. CASE Store(c) \/ Info(c) BY <1>3 DEF Store, AfterResolve, Info, AfterInfo
<1>4. CASE Check(c)  BY <1>4 DEF Check, AfterSync
<1>5. CASE Sync(c)   BY <1>5 DEF Sync
<1>6. CASE Record(c) BY <1>6 DEF Record, AfterSync
<1>7. CASE Unmark(c) BY <1>7 DEF Unmark
<1>8. CASE Create(c) \/ SyncTimeout(c) \/ ReadFile(c) \/ UsePod(c)
  BY <1>8 DEF Create, SyncTimeout, ReadFile, UsePod
<1>9. CASE Commit(c) \/ Invalidate(c) \/ ResolveURL(c)
  BY <1>9 DEF Commit, Invalidate, ResolveURL
<1>10. CASE ExecAccept(c) BY <1>10 DEF ExecAccept, AfterError
<1>11. CASE ExecRefuse(c) \/ Fail(c)
  BY <1>11 DEF ExecRefuse, AfterRefusal, Fail, AfterError
<1> QED BY <1>1, <1>2, <1>3, <1>4, <1>5, <1>6, <1>7, <1>8, <1>9, <1>10, <1>11
        DEF CallStep

LEMMA StartCall ==
  ASSUME TypeOK, StartedUsesRequest, FirstStartIsFinal,
         NEW c \in Calls, BeginHit(c) \/ BeginMiss(c) \/ CallStep(c)
  PROVE  StartedUsesRequest' /\ FirstStartIsFinal'
<1> USE DEF TypeOK, StartedUsesRequest, FirstStartIsFinal, Goto, Job,
            serverVars, envVars, callVars, history
<1>1. CASE ExecAccept(c)
  <2> DEFINE j0 == [call |-> c, attempt |-> pc[c], rev |-> ws[c].rev,
                    tree |-> tree[sess[c]]]
  <2>1. jobs' = jobs \cup {j0} BY <1>1 DEF ExecAccept
  <2>2. \A j \in jobs : j.call = c => pc[c] = "run3" /\ j.attempt = "run2"
    BY <1>1 DEF ExecAccept, Attempts
  <2>3. \/ pc' = [pc EXCEPT ![c] = "done"]
        \/ pc[c] = "run2" /\ pc' = [pc EXCEPT ![c] = "run3"]
    BY <1>1 DEF ExecAccept, AfterError
  <2>4. j0.call = c /\ j0.attempt = pc[c] OBVIOUS
  <2> HIDE DEF j0
  <2> QED BY <2>1, <2>2, <2>3, <2>4
<1>2. CASE BeginHit(c) \/ BeginMiss(c) \/ Fetch(c) \/ Store(c) \/ Info(c)
  BY <1>2 DEF BeginHit, BeginMiss, Fetch, Store, Info
<1>3. CASE Create(c) \/ Check(c) \/ Sync(c) \/ SyncTimeout(c) \/ Record(c)
  BY <1>3 DEF Create, Check, Sync, SyncTimeout, Record
<1>4. CASE Unmark(c) \/ ReadFile(c) \/ UsePod(c) \/ Commit(c) \/ Invalidate(c)
           \/ ResolveURL(c)
  BY <1>4 DEF Unmark, ReadFile, UsePod, Commit, Invalidate, ResolveURL
<1>5. CASE ExecRefuse(c) BY <1>5 DEF ExecRefuse, AfterRefusal, Attempts
<1>6. CASE Fail(c) BY <1>6 DEF Fail, AfterError, Remote, Attempts
<1> QED BY <1>1, <1>2, <1>3, <1>4, <1>5, <1>6 DEF CallStep

\* The environment keeps SafeInv: a restart and a delete clear the gate, a
\* late sync sets gate and tree together, a crash only drops records.
LEMMA SafeEnv ==
  ASSUME TypeOK, SafeInv, (\E s \in Sessions : EnvStep(s)) \/ Crash
  PROVE  SafeInv'
<1> USE DEF TypeOK, SafeInv, serverVars, envVars, callVars, history
<1>1. ASSUME NEW s \in Sessions, EnvStep(s) PROVE SafeInv'
  <2>1. UNCHANGED <<pc, sess, ws, jobs, acked>>
    BY <1>1 DEF EnvStep, Move, Expire, Restart, Delete, JjForget, LateSync
  <2>2. RevsReal'
    <3>1. CASE Move(s) BY <3>1 DEF Move, RevsReal
    <3>2. CASE Expire(s) BY <3>2 DEF Expire, RevsReal
    <3>3. CASE Restart(s) \/ Delete(s) \/ JjForget(s) \/ LateSync(s)
      BY <3>3 DEF Restart, Delete, JjForget, LateSync, RevsReal
    <3> QED BY <1>1, <3>1, <3>2, <3>3 DEF EnvStep
  <2>3. GateNamesTree'
    BY <1>1 DEF GateNamesTree, JjSync,
       EnvStep, Move, Expire, Restart, Delete, JjForget, LateSync
  <2>4. UNCHANGED synced
    BY <1>1 DEF EnvStep, Move, Expire, Restart, Delete, JjForget, LateSync
  <2> QED BY <2>1, <2>2, <2>3, <2>4 DEF GatedJobsSeeTheirRev,
       AckedBeforeRecord, RecordedRevWasAcked, StartedUsesRequest,
       FirstStartIsFinal
<1>2. CASE Crash
  <2>1. \A c \in Calls : pc'[c] = IF Active(c) THEN "done" ELSE pc[c]
    BY <1>2 DEF Crash
  <2>2. RevsReal' BY <1>2, <2>1 DEF Crash, RevsReal, Active
  <2>3. StartedUsesRequest'
    BY <1>2, <2>1 DEF Crash, StartedUsesRequest, Active, Job
  <2>4. AckedBeforeRecord'
    BY <1>2, <2>1 DEF Crash, AckedBeforeRecord, Active
  <2>5. RecordedRevWasAcked' BY <1>2 DEF Crash, RecordedRevWasAcked
  <2> QED BY <1>2, <2>2, <2>3, <2>4, <2>5 DEF Crash, GateNamesTree,
       GatedJobsSeeTheirRev, FirstStartIsFinal
<1> QED BY <1>1, <1>2

LEMMA SafeNext == TypeOK /\ SafeInv /\ [Next]_vars => SafeInv'
<1> SUFFICES ASSUME TypeOK, SafeInv, [Next]_vars PROVE SafeInv' OBVIOUS
<1>1. ASSUME NEW c \in Calls, BeginHit(c) \/ BeginMiss(c) \/ CallStep(c)
      PROVE  SafeInv'
  BY <1>1, RevsRealCall, GateCall, AckCall, StartCall DEF SafeInv
<1>2. CASE (\E s \in Sessions : EnvStep(s)) \/ Crash BY <1>2, SafeEnv
<1>3. CASE UNCHANGED vars
  BY <1>3 DEF vars, serverVars, envVars, callVars, history, SafeInv, RevsReal,
     GateNamesTree, GatedJobsSeeTheirRev, AckedBeforeRecord,
     RecordedRevWasAcked, StartedUsesRequest, FirstStartIsFinal
<1> QED BY <1>1, <1>2, <1>3 DEF Next

LEMMA SafeAlways == Spec => [](TypeOK /\ SafeInv)
<1>1. Init => TypeOK /\ SafeInv BY TypeInit, SafeInit
<1>2. (TypeOK /\ SafeInv) /\ [Next]_vars => (TypeOK /\ SafeInv)'
  BY TypeNext, SafeNext
<1> QED BY <1>1, <1>2, PTL DEF Spec

\* A command sent with a rev runs on the tree of that rev, for any number of
\* sessions, calls and pods and under every fault.
THEOREM GateWorks == Spec => []GatedJobsSeeTheirRev
<1>1. TypeOK /\ SafeInv => GatedJobsSeeTheirRev BY DEF SafeInv
<1> QED BY <1>1, SafeAlways, PTL

\* The retry ladder of sandbox-run starts a command again only after a request
\* other than the first one, and never twice for one request.
THEOREM RetryLadder == Spec => []FirstStartIsFinal
<1>1. TypeOK /\ SafeInv => FirstStartIsFinal BY DEF SafeInv
<1> QED BY <1>1, SafeAlways, PTL

\* server.synced never names a revision jjlab did not acknowledge.
THEOREM RecordsAreAcked == Spec => []RecordedRevWasAcked
<1>1. TypeOK /\ SafeInv => RecordedRevWasAcked BY DEF SafeInv
<1> QED BY <1>1, SafeAlways, PTL

----------------------------------------------------------------------------
(* What a port promises.  An entry older than the newest port that         *)
(* returned can only be a fill that the port's invalidation overtook; so   *)
(* whatever is cached, or about to be, is as new as that port, or is such  *)
(* a fill.                                                                 *)

\* Workspace w of session s comes from an overtaken fill.
Stale(w, s) == \E d \in crossed : sess[d] = s /\ ws[d] = w

PortInv ==
  /\ \A s \in Sessions :
       /\ ported[s] <= head[s].at
       /\ \/ cached[s] = NoHead
          \/ ported[s] <= cached[s].at
          \/ Stale(cached[s], s)
  /\ \A c \in Calls :
       /\ floor[c] <= ported[sess[c]]
       /\ pc[c] = "idle" => ws[c] = NoHead
       /\ \/ ws[c] = NoHead
          \/ floor[c] <= ws[c].at
          \/ Stale(ws[c], sess[c])
       /\ pc[c] = "store" => \/ ported[sess[c]] <= ws[c].at
                             \/ Stale(ws[c], sess[c])
       /\ pc[c] = "invalidate" => stamp[c] <= head[sess[c]].at
  /\ \A d \in crossed : pc[d] \notin {"idle", "fetch"}

LEMMA PortInit == Init => PortInv
  BY DEF Init, PortInv, NoHead

\* A workspace that is resolved stays with its call, so a stale one stays so.
LEMMA StaleStays ==
  ASSUME TypeOK, PortInv, NEW c \in Calls,
         BeginHit(c) \/ BeginMiss(c) \/ CallStep(c)
  PROVE  /\ sess' = sess /\ crossed \subseteq crossed'
         /\ \A d \in Calls : ws'[d] = ws[d] \/ pc[d] \in {"idle", "fetch"}
         /\ \A d \in Calls : pc'[d] \in {"idle", "fetch"} =>
              pc[d] \in {"idle", "fetch"}
         /\ \A w \in Head, s \in Sessions : Stale(w, s) => Stale(w, s)'
<1> USE DEF TypeOK, Goto, serverVars, envVars, callVars, history
<1>1. /\ sess' = sess /\ crossed \subseteq crossed'
      /\ \A d \in Calls : ws'[d] = ws[d] \/ pc[d] \in {"idle", "fetch"}
  BY DEF CallStep, BeginHit, BeginMiss, Fetch, Store, Create, Info, Check,
     Sync, SyncTimeout, Record, Unmark, ReadFile, UsePod, Commit, Invalidate,
     ResolveURL, ExecAccept, ExecRefuse, Fail
<1>2. \A d \in Calls : pc'[d] \in {"idle", "fetch"} =>
        pc[d] \in {"idle", "fetch"}
  BY DEF CallStep, BeginHit, BeginMiss, Fetch, Store, Create, Info, Check,
     Sync, SyncTimeout, Record, Unmark, ReadFile, UsePod, Commit, Invalidate,
     ResolveURL, ExecAccept, ExecRefuse, Fail, AfterResolve, AfterInfo,
     AfterSync, AfterError, AfterRefusal
<1>3. \A w \in Head, s \in Sessions : Stale(w, s) => Stale(w, s)'
  BY <1>1 DEF Stale, PortInv
<1> QED BY <1>1, <1>2, <1>3

\* The statements that neither fill nor invalidate nor move the bookmark.
LEMMA PortLocal ==
  ASSUME TypeOK, PortInv, NEW c \in Calls,
         UNCHANGED <<head, cached, ported, floor, stamp, ws, sess, crossed>>,
         \A d \in Calls : pc'[d] = pc[d] \/
           pc'[d] \notin {"idle", "fetch", "store", "invalidate"}
  PROVE  PortInv'
<1>1. \A w, s : Stale(w, s)' <=> Stale(w, s) BY DEF Stale
<1> QED BY <1>1 DEF PortInv, TypeOK

LEMMA PortCall ==
  ASSUME TypeOK, PortInv,
         NEW c \in Calls, BeginHit(c) \/ BeginMiss(c) \/ CallStep(c)
  PROVE  PortInv'
<1> USE DEF TypeOK, Goto, Head, serverVars, envVars, callVars, history
<1>1. /\ sess' = sess /\ crossed \subseteq crossed'
      /\ \A d \in Calls : ws'[d] = ws[d] \/ pc[d] \in {"idle", "fetch"}
      /\ \A d \in Calls : pc'[d] \in {"idle", "fetch"} =>
           pc[d] \in {"idle", "fetch"}
      /\ \A w \in Head, s \in Sessions : Stale(w, s) => Stale(w, s)'
  BY StaleStays
<1>2. CASE BeginHit(c)
  <2>1. /\ UNCHANGED <<head, cached, ported, stamp, crossed>>
        /\ ws' = [ws EXCEPT ![c] = cached[sess[c]]]
        /\ floor' = [floor EXCEPT ![c] = ported[sess[c]]]
        /\ pc'[c] \notin {"idle", "fetch", "store", "invalidate"}
        /\ \A d \in Calls \ {c} : pc'[d] = pc[d]
    BY <1>2 DEF BeginHit, AfterResolve
  <2> QED BY <1>1, <2>1 DEF PortInv
<1>3. CASE BeginMiss(c)
  <2>1. /\ UNCHANGED <<head, cached, ported, stamp, crossed, ws>>
        /\ floor' = [floor EXCEPT ![c] = ported[sess[c]]]
        /\ pc[c] = "idle" /\ pc'[c] = "fetch"
        /\ \A d \in Calls \ {c} : pc'[d] = pc[d]
    BY <1>3 DEF BeginMiss
  <2>2. c \notin crossed BY <2>1 DEF PortInv
  <2> QED BY <1>1, <2>1, <2>2 DEF PortInv
<1>4. CASE Fetch(c)
  <2>1. /\ UNCHANGED <<head, cached, ported, stamp, crossed, floor>>
        /\ ws' = [ws EXCEPT ![c] = head[sess[c]]]
        /\ pc[c] = "fetch" /\ pc'[c] = "store"
        /\ \A d \in Calls \ {c} : pc'[d] = pc[d]
    BY <1>4 DEF Fetch
  <2>2. floor[c] <= ported[sess[c]] /\ ported[sess[c]] <= head[sess[c]].at
    BY DEF PortInv
  <2>3. floor[c] <= ws'[c].at /\ ported[sess[c]] <= ws'[c].at
    BY <2>1, <2>2
  <2> QED BY <1>1, <2>1, <2>3 DEF PortInv
<1>5. CASE Store(c)
  <2>1. /\ UNCHANGED <<head, ported, stamp, crossed, floor, ws>>
        /\ cached' = [cached EXCEPT ![sess[c]] = ws[c]]
        /\ pc[c] = "store"
        /\ pc'[c] \notin {"idle", "fetch", "store", "invalidate"}
        /\ \A d \in Calls \ {c} : pc'[d] = pc[d]
    BY <1>5 DEF Store, AfterResolve
  <2> QED BY <1>1, <2>1 DEF PortInv
<1>6. CASE Commit(c)
  <2>1. /\ UNCHANGED <<cached, ported, crossed, floor, ws>>
        /\ stamp' = [stamp EXCEPT ![c] = head[sess[c]].at + 1]
        /\ \A s \in Sessions : head[s].at <= head'[s].at
        /\ head'[sess[c]].at = head[sess[c]].at + 1
        /\ head' \in [Sessions -> Head]
        /\ pc'[c] = "invalidate"
        /\ \A d \in Calls \ {c} : pc'[d] = pc[d]
    BY <1>6, TypeCall DEF Commit
  <2>2. \A s \in Sessions : ported[s] <= head'[s].at BY <2>1 DEF PortInv
  <2>3. \A d \in Calls : pc'[d] = "invalidate" =>
          stamp'[d] <= head'[sess[d]].at
    BY <2>1 DEF PortInv
  <2> QED BY <1>1, <2>1, <2>2, <2>3 DEF PortInv
<1>7. CASE Invalidate(c)
  <2>1. /\ UNCHANGED <<head, stamp, floor, ws>>
        /\ cached' = [cached EXCEPT ![sess[c]] = NoHead]
        /\ crossed' = crossed \cup Overtaken(c)
        /\ pc[c] = "invalidate" /\ pc'[c] = "done"
        /\ \A d \in Calls \ {c} : pc'[d] = pc[d]
    BY <1>7 DEF Invalidate
  <2>2. \A s \in Sessions : /\ ported'[s] \in Nat
                            /\ ported[s] <= ported'[s]
                            /\ ported'[s] <= head[s].at
                            /\ s # sess[c] => ported'[s] = ported[s]
                            /\ ported'[s] \in {ported[s], stamp[c]}
    BY <1>7 DEF Invalidate, PortInv
  <2>3. ASSUME NEW d \in Calls, pc'[d] = "store"
        PROVE  ported'[sess[d]] <= ws[d].at \/ Stale(ws[d], sess[d])'
    <3>1. pc[d] = "store" BY <2>1, <2>3
    <3>2. ported[sess[d]] <= ws[d].at \/ Stale(ws[d], sess[d])
      BY <3>1 DEF PortInv
    <3>3. CASE sess[d] = sess[c] /\ ws[d].at < stamp[c]
      BY <1>1, <2>1, <3>1, <3>3 DEF Overtaken, Stale
    <3>4. /\ ws[d].at \in Nat /\ stamp[c] \in Nat
          /\ sess[d] \in Sessions /\ ws[d] \in Head
      OBVIOUS
    <3>5. CASE sess[d] # sess[c]
      BY <1>1, <2>1, <2>2, <3>2, <3>4, <3>5
    <3>6. CASE sess[d] = sess[c] /\ ~(ws[d].at < stamp[c])
      <4>1. stamp[c] <= ws[d].at BY <3>4, <3>6
      <4>2. CASE ported'[sess[d]] = stamp[c] BY <4>1, <4>2
      <4>3. CASE ported'[sess[d]] = ported[sess[d]]
        BY <1>1, <2>1, <3>2, <3>4, <4>3
      <4> QED BY <2>2, <3>4, <3>6, <4>2, <4>3
    <3> QED BY <3>3, <3>5, <3>6
  <2>4. \A d \in crossed' : pc'[d] \notin {"idle", "fetch"}
    BY <2>1 DEF PortInv, Overtaken
  <2>5. \A d \in Calls : floor'[d] <= ported'[sess'[d]]
    BY <1>1, <2>1, <2>2 DEF PortInv
  <2>6. \A d \in Calls : \/ ws'[d] = NoHead
                         \/ floor'[d] <= ws'[d].at
                         \/ Stale(ws[d], sess[d])'
    BY <1>1, <2>1 DEF PortInv
  <2>7. ASSUME NEW s \in Sessions
        PROVE  \/ cached'[s] = NoHead
               \/ ported'[s] <= cached'[s].at
               \/ Stale(cached[s], s)'
    <3>1. CASE s = sess[c] BY <2>1, <3>1
    <3>2. CASE s # sess[c]
      <4>1. cached'[s] = cached[s] /\ ported'[s] = ported[s]
        BY <2>1, <2>2, <3>2
      <4>2. cached[s] \in Head OBVIOUS
      <4> QED BY <1>1, <4>1, <4>2 DEF PortInv
    <3> QED BY <3>1, <3>2
  <2> QED BY <1>1, <2>1, <2>2, <2>3, <2>4, <2>5, <2>6, <2>7 DEF PortInv
<1>8. CASE Create(c) \/ Info(c) \/ Check(c) \/ Sync(c) \/ SyncTimeout(c)
  BY <1>8, PortLocal
     DEF Create, Info, AfterInfo, Check, AfterSync, Sync, SyncTimeout
<1>9. CASE Record(c) \/ Unmark(c) \/ ReadFile(c) \/ UsePod(c) \/ ResolveURL(c)
  BY <1>9, PortLocal
     DEF Record, AfterSync, Unmark, ReadFile, UsePod, ResolveURL
<1>10. CASE ExecAccept(c) \/ ExecRefuse(c) \/ Fail(c)
  BY <1>10, PortLocal
     DEF ExecAccept, AfterError, ExecRefuse, AfterRefusal, Fail
<1> QED BY <1>2, <1>3, <1>4, <1>5, <1>6, <1>7, <1>8, <1>9, <1>10 DEF CallStep

LEMMA PortEnv ==
  ASSUME TypeOK, PortInv, (\E s \in Sessions : EnvStep(s)) \/ Crash
  PROVE  PortInv'
<1> USE DEF TypeOK, serverVars, envVars, callVars, history
<1>1. UNCHANGED <<ported, floor, stamp, ws, sess, crossed>>
  BY DEF EnvStep, Move, Expire, Restart, Delete, JjForget, LateSync, Crash
<1>2. \A w, s : Stale(w, s)' <=> Stale(w, s) BY <1>1 DEF Stale
<1>3. \A d \in Calls : pc'[d] = pc[d] \/ pc'[d] = "done"
  BY DEF EnvStep, Move, Expire, Restart, Delete, JjForget, LateSync, Crash
<1>4. \A s \in Sessions : cached'[s] \in {cached[s], NoHead}
  BY DEF EnvStep, Move, Expire, Restart, Delete, JjForget, LateSync, Crash
<1>5. \A s \in Sessions : head'[s].at \in Nat /\ head[s].at <= head'[s].at
  <2>1. CASE \E x \in Sessions : Move(x) BY <2>1 DEF Move, Head
  <2>2. CASE head' = head BY <2>2 DEF Head
  <2> QED BY <2>1, <2>2 DEF EnvStep, Expire, Restart, Delete, JjForget,
             LateSync, Crash
<1>6. \A s \in Sessions : ported'[s] <= head'[s].at
  BY <1>1, <1>5 DEF PortInv, Head
<1>7. ASSUME NEW d \in Calls, pc'[d] = "invalidate"
      PROVE  stamp'[d] <= head'[sess'[d]].at
  <2>1. pc[d] = "invalidate" BY <1>3, <1>7
  <2>2. stamp[d] <= head[sess[d]].at BY <2>1 DEF PortInv
  <2>3. stamp[d] \in Nat /\ sess[d] \in Sessions /\ head[sess[d]].at \in Nat
    BY DEF Head
  <2> QED BY <1>1, <1>5, <2>2, <2>3
<1> QED BY <1>1, <1>2, <1>3, <1>4, <1>6, <1>7 DEF PortInv

LEMMA PortNext == TypeOK /\ PortInv /\ [Next]_vars => PortInv'
<1> SUFFICES ASSUME TypeOK, PortInv, [Next]_vars PROVE PortInv'
  OBVIOUS
<1>1. CASE Next BY <1>1, PortCall, PortEnv DEF Next
<1>2. CASE UNCHANGED vars
  <2>1. \A w, s : Stale(w, s)' <=> Stale(w, s)
    BY <1>2 DEF Stale, vars, callVars, history
  <2> QED BY <1>2, <2>1
          DEF vars, serverVars, envVars, callVars, history, PortInv
<1> QED BY <1>1, <1>2

\* Whatever overlaps, moves, expires or crashes, a call that begins after a
\* sandbox-port of its session returned resolves that port's head or a newer
\* one, unless it is served a fill which that invalidation overtook.
THEOREM PortIsVisible == Spec => []PortVisible
<1>1. Init => PortInv BY PortInit
<1>2. TypeOK /\ PortInv /\ [Next]_vars => PortInv' BY PortNext
<1>3. TypeOK /\ PortInv => PortVisible
  <2> SUFFICES ASSUME TypeOK, PortInv, NEW c \in Calls,
                      ws[c] # NoHead, ws[c].at < floor[c]
               PROVE  \E d \in crossed : sess[d] = sess[c] /\ ws[d] = ws[c]
    BY DEF PortVisible
  <2>1. ~(floor[c] <= ws[c].at) BY DEF TypeOK, Head
  <2> QED BY <2>1 DEF PortInv, Stale
<1> QED BY <1>1, <1>2, <1>3, TypeCorrect, PTL DEF Spec

----------------------------------------------------------------------------
(* What the record is worth.  While a session is not in doubt, jjlab's     *)
(* record and the tree agree, the server's record and the tree agree or a  *)
(* call is about to write it, and every call that counts on the tree finds *)
(* its own revision there.  A restart, a delete, a late sync and a rival   *)
(* end this; the next extraction restores it.                              *)

Settled(s) ==
  s \in doubt \/
  /\ jjSynced[s] # NoRev => tree[s] = jjSynced[s]
  /\ pod[s] = 0 => synced[s] = NoRev
  /\ synced[s] # NoRev => \/ tree[s] = synced[s]
                          \/ \E c \in Calls : sess[c] = s /\ pc[c] = "record"
  /\ \A c \in Calls : sess[c] = s /\ Relies(c) =>
       pod[s] # 0 /\ tree[s] = ws[c].rev

SettledInv ==
  \A s \in Sessions : Settled(s) /\ (pod[s] = 0 => jjSynced[s] = NoRev)

LEMMA SettledInit == Init => SettledInv
  BY DEF Init, SettledInv, Settled, Relies, Attempts

\* Statements that touch neither the pod nor the records, and after which the
\* call relies on the tree only if it did before.
LEMMA SettledLocal ==
  ASSUME TypeOK, SettledInv, NEW c \in Calls,
         UNCHANGED <<synced, jjSynced, pod, tree, sess, doubt>>,
         \A d \in Calls \ {c} : pc'[d] = pc[d] /\ ws'[d] = ws[d],
         pc[c] # "record",
         Relies(c)' => Relies(c) /\ ws'[c] = ws[c]
  PROVE  SettledInv'
<1>1. \A d \in Calls : Relies(d)' => Relies(d) /\ ws'[d] = ws[d]
  BY DEF Relies
<1>2. \A d \in Calls : pc[d] = "record" => pc'[d] = "record" OBVIOUS
<1> QED BY <1>1, <1>2 DEF SettledInv, Settled, TypeOK

LEMMA SettledCall ==
  ASSUME TypeOK, RevsReal, SettledInv,
         NEW c \in Calls, BeginHit(c) \/ BeginMiss(c) \/ CallStep(c)
  PROVE  SettledInv'
<1> USE DEF TypeOK, Goto, serverVars, envVars, callVars, history
<1> DEFINE s == sess[c]
<1>1. CASE BeginHit(c) \/ BeginMiss(c) \/ Fetch(c) \/ Store(c) \/ Info(c)
  BY <1>1, SettledLocal DEF BeginHit, BeginMiss, Fetch, Store, Info,
     AfterResolve, AfterInfo, Relies, Attempts
<1>2. CASE SyncTimeout(c) \/ UsePod(c) \/ Commit(c) \/ Invalidate(c)
  BY <1>2, SettledLocal DEF SyncTimeout, UsePod, Commit, Invalidate, Relies,
     Attempts
<1>3. CASE ReadFile(c) \/ ResolveURL(c)
  BY <1>3, SettledLocal DEF ReadFile, ResolveURL, Relies, Attempts
<1>4. CASE ExecAccept(c)
  <2>1. /\ UNCHANGED <<synced, jjSynced, pod, tree, sess, doubt, ws>>
        /\ \A d \in Calls \ {c} : pc'[d] = pc[d]
        /\ pc[c] \in Attempts
    BY <1>4 DEF ExecAccept
  <2> QED BY <2>1, SettledLocal DEF Relies, Attempts
<1>5. CASE ExecRefuse(c)
  BY <1>5, SettledLocal DEF ExecRefuse, AfterRefusal, Relies, Attempts
<1>6. CASE Fail(c)
  BY <1>6, SettledLocal DEF Fail, AfterError, Remote, Relies, Attempts
<1>7. CASE Create(c)
  <2>1. /\ UNCHANGED <<synced, sess, doubt, ws>>
        /\ \A d \in Calls \ {c} : pc'[d] = pc[d]
        /\ pc[c] = "create" /\ pc'[c] = "done"
    BY <1>7 DEF Create
  <2>2. CASE UNCHANGED <<pod, tree, jjSynced>>
    BY <2>1, <2>2, SettledLocal DEF Relies, Attempts
  <2>3. CASE /\ pod[s] = 0
             /\ pod' = [pod EXCEPT ![s] = made[s] + 1]
             /\ tree' = [tree EXCEPT ![s] = NoRev]
             /\ jjSynced' = [jjSynced EXCEPT ![s] = NoRev]
    <3>1. Settled(s)'
      BY <2>1, <2>3 DEF SettledInv, Settled, Relies, Attempts
    <3>2. \A x \in Sessions \ {s} : Settled(x)'
      BY <2>1, <2>3 DEF SettledInv, Settled, Relies, Attempts
    <3>3. pod'[s] # 0 /\ made[s] + 1 # 0 BY <2>3
    <3> QED BY <2>1, <2>3, <3>1, <3>2, <3>3 DEF SettledInv
  <2> QED BY <1>7, <2>2, <2>3 DEF Create
<1>8. CASE Check(c)
  <2>1. /\ UNCHANGED <<synced, jjSynced, pod, tree, sess, ws>>
        /\ \A d \in Calls \ {c} : pc'[d] = pc[d]
        /\ pc[c] = "check"
    BY <1>8 DEF Check
  <2>2. ws[c].rev \in Revs BY <2>1 DEF RevsReal
  <2>3. CASE synced[s] # ws[c].rev
    BY <1>8, <2>1, <2>3, SettledLocal DEF Check, Relies, Attempts
  <2>4. CASE synced[s] = ws[c].rev
    <3>1. doubt' = IF Rival(c) THEN doubt \cup {s} ELSE doubt
      BY <1>8, <2>4 DEF Check
    <3>2. ASSUME s \notin doubt, ~Rival(c)
          PROVE  pod[s] # 0 /\ tree[s] = ws[c].rev
      <4>1. synced[s] # NoRev BY <2>2, <2>4, RevAssumption
      <4>2. Settled(s) BY DEF SettledInv
      <4>3. CASE tree[s] = synced[s] BY <2>4, <3>2, <4>1, <4>2, <4>3 DEF Settled
      <4>4. CASE \E d \in Calls : sess[d] = s /\ pc[d] = "record"
        <5>1. PICK d \in Calls : sess[d] = s /\ pc[d] = "record" BY <4>4
        <5>2. Relies(d) BY <5>1 DEF Relies
        <5>3. ws[d].rev = ws[c].rev BY <3>2, <5>1, <5>2 DEF Rival
        <5> QED BY <3>2, <4>2, <5>1, <5>2, <5>3 DEF Settled
      <4> QED BY <3>2, <4>1, <4>2, <4>3, <4>4 DEF Settled
    <3>3. Settled(s)'
      <4>1. s \in doubt' <=> s \in doubt \/ Rival(c) BY <3>1
      <4>2. CASE s \in doubt \/ Rival(c)
        <5>1. s \in doubt' BY <4>1, <4>2
        <5> QED BY <2>1, <5>1 DEF Settled
      <4>3. CASE s \notin doubt /\ ~Rival(c)
        BY <2>1, <3>2, <4>3 DEF SettledInv, Settled, Relies, Attempts
      <4> QED BY <4>2, <4>3
    <3>4. \A x \in Sessions \ {s} : Settled(x)'
      BY <2>1, <3>1 DEF SettledInv, Settled, Relies, Attempts
    <3> QED BY <2>1, <3>3, <3>4 DEF SettledInv
  <2> QED BY <2>3, <2>4
<1>9. CASE Sync(c)
  <2>1. /\ UNCHANGED <<synced, pod, sess, ws>>
        /\ \A d \in Calls \ {c} : pc'[d] = pc[d]
        /\ pc[c] = "sync" /\ pc'[c] = "record"
        /\ JjSync(s, ws[c].rev, Rival(c))
    BY <1>9 DEF Sync
  <2>2. ws[c].rev \in Revs /\ ws[c].rev # NoRev
    BY <2>1, RevAssumption DEF RevsReal
  <2>3. CASE jjSynced[s] = ws[c].rev
    <3>1. UNCHANGED <<tree, jjSynced, doubt>> BY <2>1, <2>3 DEF JjSync
    <3>2. s \notin doubt => pod[s] # 0 /\ tree[s] = ws[c].rev
      BY <2>2, <2>3 DEF SettledInv, Settled
    <3>3. \A x \in Sessions : Settled(x)'
      BY <2>1, <3>1, <3>2 DEF SettledInv, Settled, Relies, Attempts
    <3> QED BY <2>1, <3>1, <3>3 DEF SettledInv
  <2>4. CASE jjSynced[s] # ws[c].rev
    <3>1. /\ pod[s] # 0
          /\ tree' = [tree EXCEPT ![s] = ws[c].rev]
          /\ jjSynced' = [jjSynced EXCEPT ![s] = ws[c].rev]
          /\ doubt' = IF Rival(c) THEN doubt \cup {s} ELSE doubt \ {s}
      BY <2>1, <2>4 DEF JjSync
    <3>2. Settled(s)'
      <4>1. CASE Rival(c)
        <5>1. s \in doubt' BY <3>1, <4>1
        <5> QED BY <2>1, <5>1 DEF Settled
      <4>2. CASE ~Rival(c)
        <5>1. \A d \in Calls : sess[d] = s /\ Relies(d)' =>
                ws[d].rev = ws[c].rev
          BY <2>1, <4>2 DEF Rival, Relies
        <5> QED BY <2>1, <3>1, <5>1 DEF Settled
      <4> QED BY <4>1, <4>2
    <3>3. \A x \in Sessions \ {s} : Settled(x)'
      BY <2>1, <3>1 DEF SettledInv, Settled, Relies, Attempts
    <3> QED BY <2>1, <3>1, <3>2, <3>3 DEF SettledInv
  <2> QED BY <2>3, <2>4
<1>10. CASE Record(c)
  <2>1. /\ UNCHANGED <<jjSynced, pod, tree, sess, ws, doubt>>
        /\ \A d \in Calls \ {c} : pc'[d] = pc[d]
        /\ pc[c] = "record" /\ pc'[c] # "record"
        /\ synced' = [synced EXCEPT ![s] = ws[c].rev]
    BY <1>10 DEF Record, AfterSync
  <2>2. s \notin doubt => pod[s] # 0 /\ tree[s] = ws[c].rev
    BY <2>1 DEF SettledInv, Settled, Relies
  <2>3. \A d \in Calls : Relies(d)' => Relies(d) BY <2>1 DEF Relies
  <2>4. Settled(s)'
    BY <2>1, <2>2, <2>3 DEF SettledInv, Settled
  <2>5. \A x \in Sessions \ {s} : Settled(x)'
    BY <2>1, <2>3 DEF SettledInv, Settled
  <2> QED BY <2>1, <2>4, <2>5 DEF SettledInv
<1>11. CASE Unmark(c)
  <2>1. /\ UNCHANGED <<jjSynced, pod, tree, sess, ws, doubt>>
        /\ \A d \in Calls \ {c} : pc'[d] = pc[d]
        /\ pc[c] = "unmark" /\ pc'[c] = "check"
        /\ synced' = [synced EXCEPT ![s] = NoRev]
    BY <1>11 DEF Unmark
  <2> QED BY <2>1 DEF SettledInv, Settled, Relies, Attempts
<1> QED BY <1>1, <1>2, <1>3, <1>4, <1>5, <1>6, <1>7, <1>8, <1>9, <1>10, <1>11
        DEF CallStep

LEMMA SettledEnv ==
  ASSUME TypeOK, SettledInv, (\E s \in Sessions : EnvStep(s)) \/ Crash
  PROVE  SettledInv'
<1> USE DEF TypeOK, serverVars, envVars, callVars, history
<1>1. ASSUME NEW s \in Sessions, EnvStep(s) PROVE SettledInv'
  <2>1. UNCHANGED <<synced, pc, sess, ws>>
    BY <1>1 DEF EnvStep, Move, Expire, Restart, Delete, JjForget, LateSync
  <2>2. \A d \in Calls : Relies(d)' <=> Relies(d) BY <2>1 DEF Relies
  <2>3. CASE Move(s) \/ Expire(s)
    BY <2>1, <2>2, <2>3 DEF Move, Expire, SettledInv, Settled
  <2>4. CASE Restart(s)
    BY <2>1, <2>2, <2>4 DEF Restart, SettledInv, Settled
  <2>5. CASE Delete(s)
    BY <2>1, <2>2, <2>5 DEF Delete, SettledInv, Settled
  <2>6. CASE JjForget(s)
    BY <2>1, <2>2, <2>6 DEF JjForget, SettledInv, Settled
  <2>7. CASE LateSync(s)
    <3>1. /\ pod' = pod
          /\ \/ UNCHANGED <<tree, jjSynced, doubt>>
             \/ /\ pod[s] # 0
                /\ \E r \in Rev :
                     /\ tree' = [tree EXCEPT ![s] = r]
                     /\ jjSynced' = [jjSynced EXCEPT ![s] = r]
                /\ doubt' = doubt \cup {s}
      BY <2>7 DEF LateSync, JjSync
    <3> QED BY <2>1, <2>2, <3>1 DEF SettledInv, Settled
  <2> QED BY <1>1, <2>3, <2>4, <2>5, <2>6, <2>7 DEF EnvStep
<1>2. CASE Crash
  <2>1. /\ UNCHANGED <<jjSynced, pod, tree, sess, ws, doubt>>
        /\ \A s \in Sessions : synced'[s] = NoRev
        /\ \A d \in Calls : pc'[d] \in {pc[d], "done"}
    BY <1>2 DEF Crash
  <2>2. \A d \in Calls : Relies(d)' => Relies(d)
    BY <2>1 DEF Relies, Attempts
  <2> QED BY <2>1, <2>2 DEF SettledInv, Settled
<1> QED BY <1>1, <1>2

LEMMA SettledAlways == Spec => []SettledInv
<1>1. Init => SettledInv BY SettledInit
<1>2. TypeOK /\ SafeInv /\ SettledInv /\ [Next]_vars => SettledInv'
  <2> SUFFICES ASSUME TypeOK, SafeInv, SettledInv, [Next]_vars
               PROVE  SettledInv'
    OBVIOUS
  <2>1. CASE Next BY <2>1, SettledCall, SettledEnv DEF Next, SafeInv
  <2>2. CASE UNCHANGED vars
    BY <2>2 DEF vars, serverVars, envVars, callVars, history, SettledInv,
       Settled, Relies
  <2> QED BY <2>1, <2>2
<1> QED BY <1>1, <1>2, SafeAlways, PTL DEF Spec

\* With any number of concurrent calls and under every fault, sandbox-read and
\* sandbox-edit see the tree they asked for, except while a restart, a delete,
\* a late sync or a rival has come since the tree was last extracted.
THEOREM ReadsSeeTheirRev == Spec => []SyncedReadsSeeTheirRev
<1>1. TypeOK /\ SettledInv => SyncedReadsSeeTheirRev
  BY DEF TypeOK, SettledInv, Settled, Relies, SyncedReadsSeeTheirRev
<1> QED BY <1>1, TypeCorrect, SettledAlways, PTL

\* And so does the request that sandbox-run sends without a rev, when it comes
\* to that: after need_sync, a second sync and a second error.
THEOREM LastRunSeesItsRev == Spec => []UngatedRunsSeeTheirRev
<1>1. TypeOK /\ SettledInv => UngatedRunsSeeTheirRev
  BY DEF TypeOK, SettledInv, Settled, Relies, Attempts, UngatedRunsSeeTheirRev
<1> QED BY <1>1, TypeCorrect, SettledAlways, PTL

----------------------------------------------------------------------------
(* The safety half of EveryCallReturns: the ladder only descends.          *)

\* The statements a call still has to execute, at most: after need_sync the
\* sync is gone through once more, from "unmark" down, and never again.
StepsLeft(c) ==
  CASE pc[c] = "idle"       -> 15
    [] pc[c] = "fetch"      -> 14
    [] pc[c] = "store"      -> 13
    [] pc[c] = "info"       -> 12
    [] pc[c] = "check"      -> IF retry[c] THEN 5 ELSE 11
    [] pc[c] = "sync"       -> IF retry[c] THEN 4 ELSE 10
    [] pc[c] = "record"     -> IF retry[c] THEN 3 ELSE 9
    [] pc[c] = "url"        -> 8
    [] pc[c] = "run1"       -> 7
    [] pc[c] = "unmark"     -> 6
    [] pc[c] \in {"run2", "commit"}                        -> 2
    [] pc[c] \in {"run3", "invalidate", "read", "write", "create"} -> 1
    [] pc[c] = "done"       -> 0

\* Every statement of a call brings it nearer to its return, and nothing that
\* another call or the environment does takes it further away.
LadderDescends ==
  \A c \in Calls :
    /\ StepsLeft(c)' <= StepsLeft(c)
    /\ CallStep(c) => StepsLeft(c)' < StepsLeft(c)

LEMMA StepsLeftType ==
  ASSUME TypeOK, NEW c \in Calls PROVE StepsLeft(c) \in 0 .. 15
  BY DEF TypeOK, Labels, StepsLeft

\* The statement that c executes next is a lower one.
LEMMA CallDescends ==
  ASSUME TypeOK, NEW c \in Calls, BeginHit(c) \/ BeginMiss(c) \/ CallStep(c)
  PROVE  StepsLeft(c)' < StepsLeft(c)
<1> USE DEF TypeOK, Goto, StepsLeft, callVars
<1>1. CASE BeginHit(c) \/ BeginMiss(c)
  BY <1>1 DEF BeginHit, BeginMiss, AfterResolve
<1>2. CASE Fetch(c) \/ Store(c) BY <1>2 DEF Fetch, Store, AfterResolve
<1>3. CASE Create(c)     BY <1>3 DEF Create
<1>4. CASE Info(c)       BY <1>4 DEF Info, AfterInfo
<1>5. CASE Check(c)      BY <1>5 DEF Check, AfterSync
<1>6. CASE Sync(c) \/ SyncTimeout(c) BY <1>6 DEF Sync, SyncTimeout
<1>7. CASE Record(c)     BY <1>7 DEF Record, AfterSync
<1>8. CASE Unmark(c)     BY <1>8 DEF Unmark
<1>9. CASE ReadFile(c) \/ UsePod(c) BY <1>9 DEF ReadFile, UsePod
<1>10. CASE Commit(c) \/ Invalidate(c) BY <1>10 DEF Commit, Invalidate
<1>11. CASE ResolveURL(c) BY <1>11 DEF ResolveURL
<1>12. CASE ExecAccept(c) BY <1>12 DEF ExecAccept, AfterError, Attempts
\* A request without a rev is never refused, so run3 is the last one.
<1>13. CASE ExecRefuse(c)
  <2>1. pc[c] \in {"run1", "run2"}
    BY <1>13 DEF ExecRefuse, Attempts, GateOpen, Gate
  <2> QED BY <1>13, <2>1 DEF ExecRefuse, AfterRefusal
<1>14. CASE Fail(c) BY <1>14 DEF Fail, AfterError, Remote, Attempts
<1> QED BY <1>1, <1>2, <1>3, <1>4, <1>5, <1>6, <1>7, <1>8, <1>9, <1>10, <1>11,
     <1>12, <1>13, <1>14 DEF CallStep

\* A step of c leaves the other calls where they are.
LEMMA OthersWait ==
  ASSUME TypeOK, NEW c \in Calls, NEW d \in Calls \ {c},
         BeginHit(c) \/ BeginMiss(c) \/ CallStep(c)
  PROVE  pc'[d] = pc[d] /\ retry'[d] = retry[d]
<1> USE DEF TypeOK, Goto, callVars
<1>1. CASE BeginHit(c) \/ BeginMiss(c) \/ Fetch(c) \/ Store(c) \/ Create(c)
  BY <1>1 DEF BeginHit, BeginMiss, Fetch, Store, Create
<1>2. CASE Info(c) \/ Check(c) \/ Sync(c) \/ SyncTimeout(c) \/ Record(c)
  BY <1>2 DEF Info, Check, Sync, SyncTimeout, Record
<1>3. CASE Unmark(c) \/ ReadFile(c) \/ UsePod(c) \/ Commit(c) \/ Invalidate(c)
  BY <1>3 DEF Unmark, ReadFile, UsePod, Commit, Invalidate
<1>4. CASE ResolveURL(c) \/ ExecAccept(c) \/ ExecRefuse(c) \/ Fail(c)
  BY <1>4 DEF ResolveURL, ExecAccept, ExecRefuse, Fail
<1> QED BY <1>1, <1>2, <1>3, <1>4 DEF CallStep

LEMMA LadderStep ==
  ASSUME TypeOK, TypeOK', [Next]_vars PROVE [LadderDescends]_vars
<1>1. ASSUME NEW c \in Calls, BeginHit(c) \/ BeginMiss(c) \/ CallStep(c)
      PROVE  LadderDescends
  <2>1. StepsLeft(c)' < StepsLeft(c) BY <1>1, CallDescends
  <2>2. ASSUME NEW d \in Calls \ {c} PROVE StepsLeft(d)' = StepsLeft(d)
    BY <1>1, <2>2, OthersWait DEF StepsLeft
  <2>3. \A d \in Calls : CallStep(d) => StepsLeft(d)' < StepsLeft(d)
    BY CallDescends
  <2>4. \A d \in Calls : StepsLeft(d) \in 0 .. 15 /\ StepsLeft(d)' \in 0 .. 15
    <3>1. \A d \in Calls : StepsLeft(d) \in 0 .. 15 BY StepsLeftType
    <3>2. \A d \in Calls : StepsLeft(d)' \in 0 .. 15
      BY DEF TypeOK, Labels, StepsLeft
    <3> QED BY <3>1, <3>2
  <2>5. ASSUME NEW d \in Calls PROVE StepsLeft(d)' <= StepsLeft(d)
    BY <2>1, <2>2, <2>4
  <2> QED BY <2>3, <2>5 DEF LadderDescends
<1>2. ASSUME NEW s \in Sessions, EnvStep(s) PROVE UNCHANGED <<pc, retry>>
  BY <1>2 DEF EnvStep, Move, Expire, Restart, Delete, JjForget, LateSync,
     callVars
<1>3. CASE Crash
  <2>1. \A d \in Calls : /\ pc'[d] \in {pc[d], "done"}
                         /\ retry'[d] = retry[d]
    BY <1>3 DEF Crash
  <2>2. \A d \in Calls : StepsLeft(d) \in 0 .. 15 BY StepsLeftType
  <2>3. ASSUME NEW d \in Calls PROVE StepsLeft(d)' <= StepsLeft(d)
    <3>1. CASE pc'[d] = pc[d]
      <4>1. StepsLeft(d)' = StepsLeft(d) BY <2>1, <3>1 DEF StepsLeft
      <4> QED BY <4>1, <2>2
    <3>2. CASE pc'[d] = "done"
      <4>1. StepsLeft(d)' = 0 BY <3>2 DEF StepsLeft
      <4> QED BY <4>1, <2>2
    <3> QED BY <2>1, <3>1, <3>2
  <2>4. \A d \in Calls : CallStep(d) => StepsLeft(d)' < StepsLeft(d)
    BY CallDescends
  <2> QED BY <2>3, <2>4 DEF LadderDescends
<1>4. CASE \E s \in Sessions : EnvStep(s)
  <2>1. UNCHANGED <<pc, retry>> BY <1>2, <1>4
  <2>2. \A d \in Calls : StepsLeft(d)' = StepsLeft(d) BY <2>1 DEF StepsLeft
  <2>3. \A d \in Calls : StepsLeft(d) \in 0 .. 15 BY StepsLeftType
  <2>4. \A d \in Calls : CallStep(d) => StepsLeft(d)' < StepsLeft(d)
    BY CallDescends
  <2> QED BY <2>2, <2>3, <2>4 DEF LadderDescends
<1> QED BY <1>1, <1>3, <1>4 DEF Next

\* Under every fault and interleaving a call executes fifteen statements at
\* most: the need_sync retry of sandbox-run cannot go round twice.  What is
\* left of EveryCallReturns is that each statement is eventually executed.
THEOREM CallsDescend == Spec => [][LadderDescends]_vars
  BY TypeInit, TypeNext, LadderStep, PTL DEF Spec
============================================================================
