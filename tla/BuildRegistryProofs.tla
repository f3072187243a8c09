------------------------ MODULE BuildRegistryProofs ------------------------
(***************************************************************************)
(* The eviction of build tasks, for any number of tasks and any cap: who is*)
(* kept, in which order the others go, and how near it comes to the cap,   *)
(* however many evictions overlap.                                         *)
(***************************************************************************)
EXTENDS BuildRegistry, FiniteSetTheorems, WellFoundedInduction, TLAPS

\* Only finitely many tasks have been stored.
Finite ==
  /\ IsFiniteSet(builds)
  /\ \A t \in Tasks : IsFiniteSet(all[t])

\* ended lists the tasks that ended, once each.
Listed ==
  /\ \A i \in DOMAIN ended : Ended(ended[i])
  /\ \A t \in Tasks : Ended(t) => \E i \in DOMAIN ended : ended[i] = t
  /\ \A i, j \in DOMAIN ended : ended[i] = ended[j] => i = j

\* The second pass goes over tasks the first pass went over, and what was
\* finished then still is.
Counted ==
  \A t \in Tasks :
    pc[t] = "trim" => /\ kept[t] \subseteq all[t] /\ seen[t] \subseteq all[t]
                      /\ \A u \in seen[t] : Over(u)

RegistryInv == TypeOK /\ RunningIsKept /\ Finite /\ Listed /\ Counted

----------------------------------------------------------------------------
LEMMA RegistryInit == Init => RegistryInv
  BY FS_EmptySet, MaxAssumption
     DEF Init, RegistryInv, TypeOK, RunningIsKept, Finite, Listed, Counted,
         Ended

\* A task ends: it is the last of the list.
LEMMA EndedStep ==
  ASSUME RegistryInv, NEW t \in Tasks, phase[t] # "ended",
         phase' = [phase EXCEPT ![t] = "ended"], ended' = Append(ended, t)
  PROVE  ended' \in Seq(Tasks) /\ Len(ended') = Len(ended) + 1 /\ Listed'
<1> USE DEF RegistryInv
<1>1. /\ ended \in Seq(Tasks)
      /\ phase \in [Tasks -> {"none", "running", "half", "ended"}]
  BY DEF TypeOK
<1>2. /\ ended' \in Seq(Tasks)
      /\ Len(ended') = Len(ended) + 1
      /\ DOMAIN ended' = DOMAIN ended \cup {Len(ended) + 1}
      /\ \A i \in DOMAIN ended : ended'[i] = ended[i]
      /\ ended'[Len(ended) + 1] = t
      /\ DOMAIN ended = 1..Len(ended) /\ Len(ended) \in Nat
  BY <1>1
<1>3. \A i \in DOMAIN ended : ended[i] # t
  BY DEF Listed, Ended
<1>4. Listed'
  <2>2. \A i \in DOMAIN ended' : phase'[ended'[i]] = "ended"
    BY <1>1, <1>2 DEF Listed, Ended
  <2>3. \A u \in Tasks : Ended(u)' => \E i \in DOMAIN ended' : ended'[i] = u
    BY <1>1, <1>2 DEF Listed, Ended
  <2>4. \A i, j \in DOMAIN ended' : ended'[i] = ended'[j] => i = j
    BY <1>2, <1>3 DEF Listed
  <2> QED
    BY <2>2, <2>3, <2>4 DEF Listed, Ended
<1> QED
  BY <1>2, <1>4

\* A pass of an eviction: it deletes tasks that have ended.
LEMMA DeleteStep ==
  ASSUME RegistryInv, NEW t \in Tasks, NEW gone,
         \A u \in gone : Over(u),
         builds' = builds \ gone, UNCHANGED phase
  PROVE  RunningIsKept' /\ builds' \subseteq Tasks /\ IsFiniteSet(builds')
<1>1. RunningIsKept' /\ builds' \subseteq Tasks
  BY DEF RegistryInv, TypeOK, RunningIsKept, Over, Half, Ended
<1>2. IsFiniteSet(builds)
  BY DEF RegistryInv, Finite
<1> QED
  BY <1>1, <1>2, FS_Subset

\* The tasks a pass has left of those it saw can be counted.
LEMMA LeftIsFinite ==
  ASSUME RegistryInv, NEW t \in Tasks, NEW left \in SUBSET all[t]
  PROVE  IsFiniteSet(left) /\ Cardinality(left) \in Nat
<1>1. IsFiniteSet(all[t])
  BY DEF RegistryInv, Finite
<1> QED
  BY <1>1, FS_Subset, FS_CardinalityType

LEMMA SweepStep ==
  ASSUME RegistryInv, NEW t \in Tasks, Sweep(t)
  PROVE  RegistryInv'
<1> USE DEF RegistryInv
<1> DEFINE left == all[t] \ {u \in all[t] : Ended(u) /\ Expired(u)}
           over == {u \in all[t] : Over(u)}
<1>1. /\ builds' = builds \ (all[t] \ left)
      /\ pc[t] = "sweep" /\ UNCHANGED <<phase, ended, expired>>
      /\ \/ Cardinality(left) <= MaxTasks /\ Return(t)
         \/ /\ ~(Cardinality(left) <= MaxTasks)
            /\ kept' = [kept EXCEPT ![t] = left]
            /\ seen' = [seen EXCEPT ![t] = over]
            /\ Goto(t, "trim") /\ UNCHANGED all
  BY DEF Sweep
<1>2. RunningIsKept' /\ builds' \subseteq Tasks /\ IsFiniteSet(builds')
  <2>1. \A u \in all[t] \ left : Over(u)
    BY DEF Over
  <2> HIDE DEF left, over, RegistryInv
  <2> QED
    BY <1>1, <2>1, DeleteStep
<1>3. Cardinality(left) \in Nat
  BY LeftIsFinite
<1>4. left \subseteq all[t] /\ over \subseteq all[t] /\ all[t] \subseteq Tasks
      /\ \A u \in over : Over(u)
  BY DEF TypeOK
<1> HIDE DEF left, over
<1>5. CASE Return(t)
  <2>1. TypeOK'
    BY <1>1, <1>2, <1>5 DEF TypeOK, Return, Goto, Excess
  <2>2. Finite'
    BY <1>1, <1>2, <1>5, FS_EmptySet DEF TypeOK, Finite, Return
  <2>3. Listed' /\ Counted'
    BY <1>1, <1>5
       DEF TypeOK, Listed, Ended, Half, Over, Counted, Return, Goto
  <2> QED
    BY <1>2, <2>1, <2>2, <2>3
<1>6. CASE /\ ~(Cardinality(left) <= MaxTasks)
           /\ kept' = [kept EXCEPT ![t] = left]
           /\ seen' = [seen EXCEPT ![t] = over]
           /\ Goto(t, "trim") /\ UNCHANGED all
  <2>1. TypeOK'
    <3>1. /\ \A u \in Tasks : pc'[u] = "trim" => u = t \/ pc[u] = "trim"
          /\ kept'[t] = left /\ \A u \in Tasks : u # t => kept'[u] = kept[u]
      BY <1>6 DEF TypeOK, Goto
    <3>2. \A u \in Tasks : pc'[u] = "trim" => Excess(u)' > 0
      BY <1>3, <1>6, <3>1, MaxAssumption DEF TypeOK, Excess
    <3>3. /\ kept' \in [Tasks -> SUBSET Tasks]
          /\ seen' \in [Tasks -> SUBSET Tasks]
          /\ pc' \in [Tasks -> {"off", "range", "sweep", "trim"}]
      BY <1>4, <1>6 DEF TypeOK, Goto
    <3> QED
      BY <1>1, <1>2, <1>6, <3>2, <3>3 DEF TypeOK
  <2>2. Finite'
    BY <1>2, <1>6 DEF Finite
  <2>3. Listed' /\ Counted'
    BY <1>1, <1>4, <1>6
       DEF TypeOK, Listed, Ended, Half, Over, Counted, Goto
  <2> QED
    BY <1>2, <2>1, <2>2, <2>3
<1> QED
  BY <1>1, <1>5, <1>6

\* What the second pass deletes, it found finished.
LEMMA FirstOfFinished ==
  ASSUME NEW t \in Tasks, NEW S \in Finished(t), NEW n, NEW gone \in First(S, n)
  PROVE  gone \subseteq S /\ \A u \in S : Over(u) /\ u \in all[t]
  BY DEF Finished, First, Oldest

LEMMA TrimStep ==
  ASSUME RegistryInv, NEW t \in Tasks, Trim(t)
  PROVE  RegistryInv'
<1> USE DEF RegistryInv
<1>1. RunningIsKept' /\ builds' \subseteq Tasks /\ IsFiniteSet(builds')
  <2>1. PICK S \in Finished(t) : \E gone \in First(S, Excess(t)) :
          builds' = builds \ gone
    BY DEF Trim
  <2>2. PICK gone \in First(S, Excess(t)) : builds' = builds \ gone
    BY <2>1
  <2>3. UNCHANGED phase /\ \A u \in gone : Over(u)
    BY FirstOfFinished DEF Trim
  <2> HIDE DEF RegistryInv
  <2> QED
    BY <2>2, <2>3, DeleteStep
<1>2. TypeOK'
  BY <1>1 DEF TypeOK, Trim, Return, Goto, Excess
<1>3. Finite'
  BY <1>1, FS_EmptySet DEF TypeOK, Finite, Trim, Return
<1>4. Listed' /\ Counted'
  BY DEF TypeOK, Listed, Ended, Half, Over, Counted, Trim, Return, Goto
<1> QED
  BY <1>1, <1>2, <1>3, <1>4

\* The two ways a task is stored.
LEMMA StoreStep ==
  ASSUME RegistryInv, NEW t \in Tasks, Start(t) \/ FailTask(t)
  PROVE  RegistryInv'
<1> USE DEF RegistryInv
<1>1. /\ builds' = builds \cup {t} /\ Goto(t, "range")
      /\ UNCHANGED <<expired, all, kept, seen>> /\ phase[t] = "none"
  BY DEF Start, FailTask
<1>2. Listed' /\ ended' \in Seq(Tasks) /\ expired' \in 0..Len(ended')
  <2>1. CASE Start(t)
    BY <2>1 DEF Start, TypeOK, Listed, Ended
  <2>2. CASE FailTask(t)
    <3>1. /\ phase[t] # "ended" /\ phase' = [phase EXCEPT ![t] = "ended"]
          /\ ended' = Append(ended, t) /\ expired' = expired
      BY <2>2 DEF FailTask
    <3>2. ended' \in Seq(Tasks) /\ Len(ended') = Len(ended) + 1 /\ Listed'
      BY <3>1, EndedStep
    <3> QED
      BY <3>1, <3>2 DEF TypeOK
  <2> QED
    BY <2>1, <2>2
<1>3. TypeOK'
  BY <1>1, <1>2 DEF TypeOK, Start, FailTask, Goto, Excess
<1>4. RunningIsKept'
  BY <1>1 DEF TypeOK, RunningIsKept, Start, FailTask
<1>5. Finite'
  BY <1>1, FS_AddElement DEF Finite
<1>6. Counted'
  BY <1>1 DEF TypeOK, Counted, Goto, Start, FailTask, Over, Half, Ended
<1> QED
  BY <1>2, <1>3, <1>4, <1>5, <1>6

LEMMA RegistryStep == RegistryInv /\ [Next]_vars => RegistryInv'
<1> SUFFICES ASSUME RegistryInv, [Next]_vars PROVE RegistryInv'
  OBVIOUS
<1> USE DEF RegistryInv
<1>1. CASE Age
  BY <1>1
     DEF Age, TypeOK, RunningIsKept, Finite, Listed, Counted, Ended, Half, Over,
         Excess
<1>2. ASSUME NEW t \in Tasks, SetFinished(t) PROVE RegistryInv'
  <2>1. ended' \in Seq(Tasks) /\ expired' \in 0..Len(ended') /\ Listed'
    <3>1. /\ phase[t] # "ended" /\ phase' = [phase EXCEPT ![t] = "ended"]
          /\ ended' = Append(ended, t) /\ expired' = expired
      BY <1>2 DEF SetFinished, Half
    <3>2. ended' \in Seq(Tasks) /\ Len(ended') = Len(ended) + 1 /\ Listed'
      BY <3>1, EndedStep
    <3> QED
      BY <3>1, <3>2 DEF TypeOK
  <2>2. TypeOK'
    BY <1>2, <2>1 DEF SetFinished, TypeOK, Excess
  <2>3. RunningIsKept' /\ Finite' /\ Counted'
    BY <1>2
       DEF SetFinished, TypeOK, RunningIsKept, Finite, Counted, Over, Half,
           Ended
  <2> QED
    BY <2>1, <2>2, <2>3
<1>6. ASSUME NEW t \in Tasks, SetState(t) PROVE RegistryInv'
  <2>1. TypeOK' /\ Listed'
    BY <1>6 DEF SetState, TypeOK, Excess, Listed, Ended
  <2>2. RunningIsKept' /\ Finite' /\ Counted'
    BY <1>6
       DEF SetState, TypeOK, RunningIsKept, Finite, Counted, Over, Half, Ended
  <2> QED
    BY <2>1, <2>2
<1>3. ASSUME NEW t \in Tasks, Snapshot(t) PROVE RegistryInv'
  <2>1. TypeOK' /\ Finite'
    BY <1>3 DEF Snapshot, Goto, TypeOK, Finite, Excess
  <2>2. RunningIsKept' /\ Listed'
    BY <1>3 DEF Snapshot, RunningIsKept, Listed, Ended
  <2>3. Counted'
    BY <1>3 DEF Snapshot, Goto, TypeOK, Counted, Over, Half, Ended
  <2> QED
    BY <2>1, <2>2, <2>3
<1>4. CASE UNCHANGED vars
  BY <1>4
     DEF vars, TypeOK, RunningIsKept, Finite, Listed, Counted, Ended, Half,
         Over, Excess
<1>5. ASSUME NEW t \in Tasks, Start(t) \/ FailTask(t) \/ Sweep(t) \/ Trim(t)
      PROVE  RegistryInv'
  BY <1>5, StoreStep, SweepStep, TrimStep
<1> HIDE DEF RegistryInv
<1> QED
  BY <1>1, <1>2, <1>3, <1>4, <1>5, <1>6 DEF Next

LEMMA RegistryAlways == Spec => []RegistryInv
  BY RegistryInit, RegistryStep, PTL DEF Spec

----------------------------------------------------------------------------
\* The variables keep their types; the second pass runs only on an excess.
THEOREM RegistryTypeCorrect == Spec => []TypeOK
<1>1. RegistryInv => TypeOK
  BY DEF RegistryInv
<1> QED
  BY RegistryAlways, <1>1, PTL

\* No eviction, alone or with others, drops a task that is running.
THEOREM RunningTasksAreKept == Spec => []RunningIsKept
<1>1. RegistryInv => RunningIsKept
  BY DEF RegistryInv
<1> QED
  BY RegistryAlways, <1>1, PTL

----------------------------------------------------------------------------
(* The order *)

\* The rank of a task that ended is its place in the list.
LEMMA RankOf ==
  ASSUME RegistryInv, NEW t \in Tasks, Ended(t)
  PROVE  /\ Rank(t) \in DOMAIN ended /\ Rank(t) \in Nat \ {0}
         /\ \A i \in DOMAIN ended : ended[i] = t => i = Rank(t)
<1>1. Rank(t) \in DOMAIN ended /\ ended[Rank(t)] = t
  BY DEF RegistryInv, Listed, Rank
<1>2. DOMAIN ended = 1..Len(ended) /\ Len(ended) \in Nat
  BY DEF RegistryInv, TypeOK
<1> QED
  BY <1>1, <1>2 DEF RegistryInv, Listed

LEMMA SweepKeepsOrder ==
  ASSUME RegistryInv, NEW t \in Tasks, Sweep(t),
         NEW u \in all[t], NEW v \in all[t], u \in builds, u \notin builds',
         v \in builds', Ended(v)
  PROVE  Before(u, v)
<1>1. Ended(u) /\ Expired(u) /\ ~Expired(v)
  BY DEF Sweep
<1>2. all[t] \subseteq Tasks /\ expired \in 0..Len(ended)
      /\ DOMAIN ended = 1..Len(ended) /\ Len(ended) \in Nat
  BY DEF RegistryInv, TypeOK
<1>3. Rank(u) \in 1..expired
  BY <1>1, <1>2, RankOf DEF Expired
<1>4. Rank(v) \in DOMAIN ended /\ ended[Rank(v)] = v
  BY <1>2 DEF RegistryInv, Listed, Rank
<1>5. ~(Rank(v) \in 1..expired)
  BY <1>1, <1>2, <1>4 DEF Expired
<1> QED
  BY <1>2, <1>3, <1>4, <1>5 DEF Before

\* Of tasks with a FinishedAt, the n oldest are older than the others.
LEMMA OldestAreOlder ==
  ASSUME RegistryInv, NEW t \in Tasks, NEW S \in SUBSET all[t],
         \A u \in S : Ended(u), NEW n \in Int,
         NEW u \in Oldest(S, n), NEW v \in S \ Oldest(S, n)
  PROVE  Before(u, v)
<1> DEFINE Below(x) == {w \in S : Before(w, x)}
<1>1. u \in S /\ Cardinality(Below(u)) < n /\ ~(Cardinality(Below(v)) < n)
  BY DEF Oldest
<1>2. /\ IsFiniteSet(Below(u)) /\ Cardinality(Below(u)) \in Nat
      /\ Cardinality(Below(v)) \in Nat
  BY LeftIsFinite
<1>3. \A w \in S : w \in Tasks /\ Rank(w) \in Nat
  BY RankOf DEF RegistryInv, TypeOK
<1>4. SUFFICES ASSUME ~Before(u, v) PROVE FALSE
  OBVIOUS
<1>5. Below(v) \subseteq Below(u)
  BY <1>1, <1>3, <1>4 DEF Before
<1>6. Cardinality(Below(v)) <= Cardinality(Below(u))
  BY <1>2, <1>5, FS_Subset
<1> QED
  BY <1>1, <1>2, <1>6

LEMMA TrimKeepsOrder ==
  ASSUME RegistryInv, NEW t \in Tasks, Trim(t), \A w \in all[t] : ~Half(w),
         NEW u \in builds, NEW v \in seen[t], u \notin builds', v \in builds'
  PROVE  Before(u, v)
<1>1. PICK S \in Finished(t) : \E gone \in First(S, Excess(t)) :
        builds' = builds \ gone
  BY DEF Trim
<1>2. PICK gone \in First(S, Excess(t)) : builds' = builds \ gone
  BY <1>1
<1>3. S \subseteq all[t] /\ v \in S /\ \A w \in S : Ended(w)
  BY DEF Finished, Over
<1>4. gone = Oldest(S, Excess(t))
  BY <1>3 DEF First
<1>5. Excess(t) \in Int
  <2>1. kept[t] \subseteq all[t]
    BY DEF Trim, RegistryInv, Counted
  <2> QED
    BY <2>1, LeftIsFinite, MaxAssumption DEF Excess
<1>6. u \in gone /\ v \notin gone
  <2>1. v \in all[t] /\ u \in gone
    BY <1>2, <1>3
  <2> QED
    BY <1>2, <2>1
<1> QED
  BY <1>3, <1>4, <1>5, <1>6, OldestAreOlder

\* Of the tasks it found finished an eviction takes those that ended first,
\* whatever else goes on; only a task caught between the two stores of
\* setResult lifts that.
THEOREM OldestAreEvicted == Spec => OldestGoFirst
<1> DEFINE Ordered ==
      \A t, u, v \in Tasks :
        /\ pc[t] \in {"sweep", "trim"} /\ pc'[t] # pc[t]
        /\ {u, v} \subseteq all[t] \cap builds /\ u \notin builds'
        /\ v \in builds' /\ Ended(v)
        /\ pc[t] = "trim" => v \in seen[t] /\ \A w \in all[t] : ~Half(w)
        => Before(u, v)
<1>1. RegistryInv /\ [Next]_vars => [Ordered]_vars
  <2> SUFFICES ASSUME RegistryInv, Next,
                      NEW t \in Tasks, NEW u \in Tasks, NEW v \in Tasks,
                      pc[t] \in {"sweep", "trim"}, pc'[t] # pc[t],
                      {u, v} \subseteq all[t] \cap builds, u \notin builds',
                      v \in builds', Ended(v),
                      pc[t] = "trim" =>
                        v \in seen[t] /\ \A w \in all[t] : ~Half(w)
               PROVE  Before(u, v)
    OBVIOUS
  <2>1. \/ Sweep(t) \/ Trim(t) \/ builds \subseteq builds'
    BY DEF Next, Age, Start, FailTask, SetState, SetFinished, Snapshot, Sweep,
           Trim, Goto, Return, RegistryInv, TypeOK
  <2>2. CASE Sweep(t)
    BY <2>2, SweepKeepsOrder
  <2>3. CASE Trim(t)
    <3>1. pc[t] = "trim"
      BY <2>3 DEF Trim
    <3> QED
      BY <2>3, <3>1, TrimKeepsOrder
  <2> QED
    BY <2>1, <2>2, <2>3
<1> QED
  BY RegistryAlways, <1>1, PTL DEF Spec, OldestGoFirst

----------------------------------------------------------------------------
(* The cap *)

Less == {p \in Nat \X Nat : p[1] < p[2]}

LEMMA LessIsWellFounded == IsWellFoundedOn(Less, Nat)
<1>1. Less = OpToRel(<, Nat)
  BY Zenon DEF Less, OpToRel
<1> QED
  BY <1>1, NatLessThanWellFounded, Zenon

\* Some task of a set ended first.
LEMMA FirstOf ==
  ASSUME RegistryInv, NEW T, T # {}, \A u \in T : u \in Tasks /\ Ended(u)
  PROVE  \E v \in T : \A u \in T : ~Before(u, v)
<1> DEFINE R == {Rank(u) : u \in T}
<1>1. R \subseteq Nat /\ R # {}
  BY RankOf
<1>2. PICK r \in R : \A q \in R : <<q, r>> \notin Less
  <2> HIDE DEF R
  <2> QED
    BY <1>1, LessIsWellFounded, WFMin
<1>3. PICK v \in T : r = Rank(v)
  OBVIOUS
<1>4. ASSUME NEW u \in T PROVE ~Before(u, v)
  <2>1. Rank(u) \in Nat /\ Rank(v) \in Nat
    BY RankOf
  <2>2. <<Rank(u), Rank(v)>> \notin Less
    BY <1>2, <1>3
  <2>3. ~(Rank(u) < Rank(v))
    BY <2>1, <2>2 DEF Less
  <2> QED
    BY <2>3 DEF Before
<1> QED
  BY <1>4

\* The n oldest are n, if there are that many.
LEMMA OldestAreMany ==
  ASSUME RegistryInv, NEW t \in Tasks, NEW n \in Nat,
         NEW S \in SUBSET all[t], \A u \in S : Ended(u)
  PROVE  Cardinality(Oldest(S, n)) >= n \/ Oldest(S, n) = S
<1> DEFINE O == Oldest(S, n)
           Below(u) == {w \in S : Before(w, u)}
<1>1. all[t] \subseteq Tasks
  BY DEF RegistryInv, TypeOK
<1>2. O \subseteq S /\ IsFiniteSet(O) /\ Cardinality(O) \in Nat
  BY LeftIsFinite DEF Oldest
<1>3. SUFFICES ASSUME Cardinality(O) < n, O # S PROVE FALSE
  BY <1>2
<1>4. PICK v \in S \ O : \A u \in S \ O : ~Before(u, v)
  <2>1. S \ O # {} /\ \A u \in S \ O : u \in Tasks /\ Ended(u)
    BY <1>1, <1>2, <1>3
  <2> QED
    BY <2>1, FirstOf
<1>5. Below(v) \subseteq O
  BY <1>4
<1>6. Cardinality(Below(v)) <= Cardinality(O) /\ Cardinality(Below(v)) \in Nat
  BY <1>2, <1>5, FS_Subset, LeftIsFinite
<1>7. v \in O
  BY <1>2, <1>3, <1>4, <1>6 DEF Oldest
<1> QED
  BY <1>4, <1>7

\* The second pass takes the excess, or all it found finished.
LEMMA TrimTakesEnough ==
  ASSUME RegistryInv, NEW t \in Tasks, Trim(t)
  PROVE  \E gone \in SUBSET all[t] :
           /\ builds' = builds \ gone
           /\ seen[t] \subseteq gone \/ Cardinality(gone) >= Excess(t)
<1>1. PICK S \in Finished(t) : \E gone \in First(S, Excess(t)) :
        builds' = builds \ gone
  BY DEF Trim
<1>2. PICK gone \in First(S, Excess(t)) : builds' = builds \ gone
  BY <1>1
<1>3. S \subseteq all[t] /\ seen[t] \subseteq S /\ gone \subseteq S
  BY FirstOfFinished DEF Finished
<1>4. Excess(t) \in Nat
  <2>1. Excess(t) \in Int
    <3>1. kept[t] \subseteq all[t]
      BY DEF Trim, RegistryInv, Counted
    <3> QED
      BY <3>1, LeftIsFinite, MaxAssumption DEF Excess
  <2> QED
    BY <2>1 DEF Trim, RegistryInv, TypeOK
<1>5. gone = S \/ Cardinality(gone) >= Excess(t)
  <2>1. CASE \A u \in S : Ended(u)
    <3>1. gone = Oldest(S, Excess(t))
      BY <2>1 DEF First
    <3> QED
      BY <1>3, <1>4, <2>1, <3>1, OldestAreMany
  <2>2. CASE ~(\A u \in S : Ended(u))
    BY <1>4, <2>2 DEF First
  <2> QED
    BY <2>1, <2>2
<1> QED
  BY <1>2, <1>3, <1>5

LEMMA RestCount ==
  ASSUME NEW A, IsFiniteSet(A), NEW B \in SUBSET A
  PROVE  /\ IsFiniteSet(A \ B)
         /\ Cardinality(A \ B) = Cardinality(A) - Cardinality(B)
<1>1. A \cap B = B
  OBVIOUS
<1> QED
  BY <1>1, FS_Difference

\* However many evictions overlap, one leaves MaxTasks of the tasks it saw and
\* no more than its first pass deleted beside them, or none it found finished.
THEOREM EvictionReachesCap == Spec => CapIsReached
<1> DEFINE Reached ==
      \A t \in Tasks :
        LET left == all[t] \cap builds'
        IN  /\ pc[t] = "sweep" /\ pc'[t] = "off" =>
                 Cardinality(left) <= MaxTasks
            /\ pc[t] = "trim" /\ pc'[t] = "off" =>
                 \/ Cardinality(left) <=
                      MaxTasks + Cardinality(all[t] \ kept[t])
                 \/ left \cap seen[t] = {}
<1>1. RegistryInv /\ [Next]_vars => [Reached]_vars
  <2> SUFFICES ASSUME RegistryInv, Next, NEW t \in Tasks,
                      pc[t] \in {"sweep", "trim"}, pc'[t] = "off"
               PROVE  LET left == all[t] \cap builds'
                      IN  /\ pc[t] = "sweep" => Cardinality(left) <= MaxTasks
                          /\ pc[t] = "trim" =>
                               \/ Cardinality(left) <=
                                    MaxTasks + Cardinality(all[t] \ kept[t])
                               \/ left \cap seen[t] = {}
    OBVIOUS
  <2> DEFINE left == all[t] \cap builds'
  <2>1. Sweep(t) \/ Trim(t)
    BY DEF Next, Age, Start, FailTask, SetState, SetFinished, Snapshot, Sweep,
           Trim, Goto, Return, RegistryInv, TypeOK
  <2>2. IsFiniteSet(all[t]) /\ Cardinality(all[t]) \in Nat
    BY LeftIsFinite
  <2>3. CASE Sweep(t)
    <3> DEFINE stay == all[t] \ {u \in all[t] : Ended(u) /\ Expired(u)}
    <3>1. left \subseteq stay
      BY <2>3 DEF Sweep
    <3>2. Cardinality(stay) <= MaxTasks
      <4>1. pc' # [pc EXCEPT ![t] = "trim"]
        BY DEF RegistryInv, TypeOK
      <4> QED
        BY <2>3, <4>1 DEF Sweep, Goto
    <3>3. IsFiniteSet(stay) /\ Cardinality(stay) \in Nat
      BY LeftIsFinite
    <3> HIDE DEF stay, left
    <3>4. Cardinality(left) <= Cardinality(stay) /\ Cardinality(left) \in Nat
      BY <3>1, <3>3, FS_Subset, FS_CardinalityType
    <3>5. Cardinality(left) <= MaxTasks
      BY <3>2, <3>3, <3>4, MaxAssumption
    <3> QED
      BY <2>3, <3>5 DEF left, Sweep
  <2>4. CASE Trim(t)
    <3>1. PICK gone \in SUBSET all[t] :
            /\ builds' = builds \ gone
            /\ seen[t] \subseteq gone \/ Cardinality(gone) >= Excess(t)
      BY <2>4, TrimTakesEnough
    <3>2. left \subseteq all[t] \ gone /\ kept[t] \subseteq all[t]
      BY <2>4, <3>1 DEF Trim, RegistryInv, Counted
    <3>3. CASE seen[t] \subseteq gone
      BY <2>4, <3>2, <3>3 DEF Trim
    <3>4. CASE Cardinality(gone) >= Excess(t)
      <4> DEFINE rest == all[t] \ gone
                 swept == all[t] \ kept[t]
      <4>1. /\ Cardinality(gone) \in Nat /\ Cardinality(kept[t]) \in Nat
        BY <3>2, LeftIsFinite
      <4>2. /\ Cardinality(rest) = Cardinality(all[t]) - Cardinality(gone)
            /\ IsFiniteSet(rest)
        BY <2>2, RestCount
      <4>3. Cardinality(swept) = Cardinality(all[t]) - Cardinality(kept[t])
        BY <2>2, <3>2, RestCount
      <4>4. Cardinality(left) \in Nat /\ left \subseteq rest
        BY <3>2, LeftIsFinite
      <4> HIDE DEF rest, left, swept
      <4>5. Cardinality(left) <= Cardinality(rest)
        BY <4>2, <4>4, FS_Subset
      <4>6. Cardinality(left) <= MaxTasks + Cardinality(swept)
        BY <2>2, <3>4, <4>1, <4>2, <4>3, <4>4, <4>5, MaxAssumption DEF Excess
      <4> QED
        BY <2>4, <4>6 DEF left, swept, Trim
    <3> QED
      BY <3>1, <3>3, <3>4
  <2> QED
    BY <2>1, <2>3, <2>4
<1> QED
  BY RegistryAlways, <1>1, PTL DEF Spec, CapIsReached
=============================================================================
