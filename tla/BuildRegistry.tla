--------------------------- MODULE BuildRegistry ---------------------------
(***************************************************************************)
(* The registry of build tasks (buildtask.go): every start of a task stores*)
(* it and then evicts.  Starts run in concurrent request handlers, and     *)
(* evictBuilds takes no lock over its passes: tasks are stored, end and are*)
(* evicted by others between them.                                         *)
(***************************************************************************)
EXTENDS Naturals, FiniteSets, Sequences

CONSTANTS
  Tasks,     \* each is started once
  MaxTasks   \* buildMaxTasks (50)

ASSUME MaxAssumption == MaxTasks \in Nat

VARIABLES
  phase,     \* phase[t]: "none", "running", "half", "ended"
  ended,     \* the tasks with a FinishedAt, in its order
  expired,   \* how many of them are past the TTL: the first ones
  builds,    \* the tasks in s.builds
  pc,        \* pc[t]: where the handler that started t is
  all,       \* all[t]: what its Range saw
  kept,      \* kept[t]: those of them its first pass kept
  seen       \* seen[t]: those that were not running then

vars == <<phase, ended, expired, builds, pc, all, kept, seen>>

\* setResult stores State, then FinishedAt; evictBuilds reads both without
\* the task's lock and may come between the two stores.
Half(t)    == phase[t] = "half"
Ended(t)   == phase[t] = "ended"
Over(t)    == Half(t) \/ Ended(t)
Expired(t) == \E i \in 1..expired : ended[i] = t
Rank(t)    == CHOOSE i \in DOMAIN ended : ended[i] = t
Before(t, u) == Rank(t) < Rank(u)

Init ==
  /\ phase = [t \in Tasks |-> "none"]
  /\ ended = <<>>
  /\ expired = 0
  /\ builds = {}
  /\ pc = [t \in Tasks |-> "off"]
  /\ all = [t \in Tasks |-> {}]
  /\ kept = [t \in Tasks |-> {}]
  /\ seen = [t \in Tasks |-> {}]

Goto(t, label) == pc' = [pc EXCEPT ![t] = label]

\* evictBuilds returns, and its variables with it.
Return(t) ==
  /\ Goto(t, "off")
  /\ all' = [all EXCEPT ![t] = {}]
  /\ kept' = [kept EXCEPT ![t] = {}]
  /\ seen' = [seen EXCEPT ![t] = {}]

----------------------------------------------------------------------------
\* mirrorOpsTask, startPublishTask: a running task is stored.
Start(t) ==
  /\ phase[t] = "none"
  /\ phase' = [phase EXCEPT ![t] = "running"]
  /\ builds' = builds \cup {t}
  /\ Goto(t, "range")
  /\ UNCHANGED <<ended, expired, all, kept, seen>>

\* failTask: a task that has already failed is stored.
FailTask(t) ==
  /\ phase[t] = "none"
  /\ phase' = [phase EXCEPT ![t] = "ended"]
  /\ ended' = Append(ended, t)
  /\ builds' = builds \cup {t}
  /\ Goto(t, "range")
  /\ UNCHANGED <<expired, all, kept, seen>>

\* setResult stores the state ...
SetState(t) ==
  /\ phase[t] = "running"
  /\ phase' = [phase EXCEPT ![t] = "half"]
  /\ UNCHANGED <<ended, expired, builds, pc, all, kept, seen>>

\* ... and then FinishedAt.
SetFinished(t) ==
  /\ Half(t)
  /\ phase' = [phase EXCEPT ![t] = "ended"]
  /\ ended' = Append(ended, t)
  /\ UNCHANGED <<expired, builds, pc, all, kept, seen>>

\* The TTL of the task that ended first passes, then of the next one.
Age ==
  /\ expired < Len(ended)
  /\ expired' = expired + 1
  /\ UNCHANGED <<phase, ended, builds, pc, all, kept, seen>>

----------------------------------------------------------------------------
(* evictBuilds *)

\* The map is copied.
Snapshot(t) ==
  /\ pc[t] = "range"
  /\ all' = [all EXCEPT ![t] = builds]
  /\ Goto(t, "sweep")
  /\ UNCHANGED <<phase, ended, expired, builds, kept, seen>>

\* First pass: the tasks past the TTL are deleted, the others counted.
Sweep(t) ==
  /\ pc[t] = "sweep"
  /\ LET left == all[t] \ {u \in all[t] : Ended(u) /\ Expired(u)}
     IN  /\ builds' = builds \ (all[t] \ left)
         /\ IF Cardinality(left) <= MaxTasks
              THEN Return(t)
              ELSE /\ kept' = [kept EXCEPT ![t] = left]
                   /\ seen' = [seen EXCEPT ![t] = {u \in all[t] : Over(u)}]
                   /\ Goto(t, "trim")
                   /\ UNCHANGED all
  /\ UNCHANGED <<phase, ended, expired>>

\* The n of S that ended first, or all of S.
Oldest(S, n) == {t \in S : Cardinality({u \in S : Before(u, t)}) < n}

\* What the sort can put first.  With a FinishedAt missing, its comparator
\* orders nothing across that task, and any n may come first.
First(S, n) ==
  IF \A t \in S : Ended(t) THEN {Oldest(S, n)}
  ELSE {G \in SUBSET S :
          Cardinality(G) = n \/ (G = S /\ Cardinality(S) < n)}

\* The tasks the second pass finds finished: those the first one found, and
\* any that ended since.
Finished(t) ==
  {S \in SUBSET all[t] : seen[t] \subseteq S /\ \A u \in S : Over(u)}

Excess(t) == Cardinality(kept[t]) - MaxTasks

\* Mutant: any task may go.
Trim_Running(t) ==
  /\ pc[t] = "trim"
  /\ \E gone \in SUBSET all[t] :
       /\ Cardinality(gone) = Excess(t)
       /\ builds' = builds \ gone
  /\ Return(t)
  /\ UNCHANGED <<phase, ended, expired>>

\* Mutant: the sort is the other way round.
Trim_Newest(t) ==
  /\ pc[t] = "trim"
  /\ \E S \in Finished(t) :
       \E stay \in First(S, Cardinality(S) - Excess(t)) :
         builds' = builds \ (S \ stay)
  /\ Return(t)
  /\ UNCHANGED <<phase, ended, expired>>

\* Mutant: one task too few is evicted.
Trim_OneLess(t) ==
  /\ pc[t] = "trim"
  /\ \E S \in Finished(t) : \E gone \in First(S, Excess(t) - 1) :
       builds' = builds \ gone
  /\ Return(t)
  /\ UNCHANGED <<phase, ended, expired>>

\* Second pass, over the same copy: the excess is deleted, oldest first.  The
\* tasks that the first pass deleted are still among the finished ones.
Trim(t) ==
  /\ pc[t] = "trim"
  /\ \E S \in Finished(t) : \E gone \in First(S, Excess(t)) :
       builds' = builds \ gone
  /\ Return(t)
  /\ UNCHANGED <<phase, ended, expired>>

Next ==
  \/ Age
  \/ \E t \in Tasks :
       \/ Start(t) \/ FailTask(t) \/ SetState(t) \/ SetFinished(t)
       \/ Snapshot(t) \/ Sweep(t) \/ Trim(t)

Spec == Init /\ [][Next]_vars

----------------------------------------------------------------------------
(* Properties *)

\* Types; the second pass runs only on an excess.
TypeOK ==
  /\ phase \in [Tasks -> {"none", "running", "half", "ended"}]
  /\ ended \in Seq(Tasks)
  /\ expired \in 0..Len(ended)
  /\ builds \subseteq Tasks
  /\ pc \in [Tasks -> {"off", "range", "sweep", "trim"}]
  /\ all \in [Tasks -> SUBSET Tasks]
  /\ kept \in [Tasks -> SUBSET Tasks]
  /\ seen \in [Tasks -> SUBSET Tasks]
  /\ \A t \in Tasks : pc[t] = "trim" => Excess(t) > 0

\* A running task stays in the registry, whoever evicts: its log and state
\* can always be looked up (buildtask.go:25-26).
RunningIsKept ==
  \A t \in Tasks : phase[t] = "running" => t \in builds

\* Of the tasks an eviction found finished, those that ended first go first,
\* even when tasks end or are evicted by others meanwhile.  The one thing that
\* can put another first is a task it catches between the stores of State and
\* FinishedAt: the sort then has no order (buildtask.go:107-113, 170-172).
OldestGoFirst ==
  [][\A t, u, v \in Tasks :
       /\ pc[t] \in {"sweep", "trim"} /\ pc'[t] # pc[t]
       /\ {u, v} \subseteq all[t] \cap builds /\ u \notin builds'
       /\ v \in builds' /\ Ended(v)
       /\ pc[t] = "trim" => v \in seen[t] /\ \A w \in all[t] : ~Half(w)
       => Before(u, v)]_vars

\* "The oldest finished tasks are evicted beyond the cap" (buildtask.go:25-26):
\* an eviction leaves at most MaxTasks of the tasks it has seen, or none that
\* it found finished.  The cap may be missed by as many as its first pass
\* deleted, and by no more: the second pass counts those once again.
CapIsReached ==
  [][\A t \in Tasks :
       LET left == all[t] \cap builds'
       IN  /\ pc[t] = "sweep" /\ pc'[t] = "off" =>
                Cardinality(left) <= MaxTasks
           /\ pc[t] = "trim" /\ pc'[t] = "off" =>
                \/ Cardinality(left) <=
                     MaxTasks + Cardinality(all[t] \ kept[t])
                \/ left \cap seen[t] = {}]_vars
============================================================================
