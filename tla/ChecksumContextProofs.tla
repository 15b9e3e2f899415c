----------------------- MODULE ChecksumContextProofs -----------------------
(***************************************************************************)
(* Proofs about ChecksumContext for every set of algorithms, every buffer  *)
(* content and any number of updates, for callers that never pass a buffer *)
(* of length 0 (Empty \notin Block).                                       *)
(***************************************************************************)
EXTENDS ChecksumContext, FiniteSetTheorems, TLAPS

InUpdate == main \in {"update", "wait", "asleep"}
InFree == main \in {"free", "free_join", "freed", "crashed"}

\* A worker with nothing to do.
Resting(a) == worker[a] \in {"test", "asleep"} /\ buf[a] = "null"

\* A worker that was handed the buffer: it has not consumed it yet, or it has.
Taking(a) ==
  \/ /\ buf[a] = "data" /\ len[a] = 1 /\ worker[a] \in {"test", "got"}
     /\ digest[a] = log
  \/ /\ buf[a] = "data" /\ worker[a] = "summed"
     /\ digest[a] = Append(log, data)
  \/ /\ buf[a] = "null" /\ worker[a] \in {"count", "test", "asleep"}
     /\ digest[a] = Append(log, data)

\* A worker that was told to end.
Stopping(a) == /\ buf[a] = "end" /\ len[a] = 0
               /\ worker[a] \in {"test", "got", "exit"}

\* The algorithms whose worker still has to count down.
Pending == {a \in Enabled : \/ main = "update" /\ a >= i
                            \/ buf[a] = "data"
                            \/ worker[a] = "count"}

AlgoInv(a) ==
  /\ main = "new" => worker[a] = "none" /\ buf[a] = "null" /\ digest[a] = log
  /\ main = "create" =>
       /\ digest[a] = log
       /\ IF a < i THEN Resting(a) ELSE worker[a] = "none" /\ buf[a] = "null"
  /\ main = "idle" => Resting(a) /\ digest[a] = log
  /\ main = "update" =>
       IF a < i THEN Taking(a) ELSE Resting(a) /\ digest[a] = log
  /\ main \in {"wait", "asleep"} => Taking(a)
  /\ main = "final" =>
       /\ digest[a] = log
       /\ IF a < i THEN worker[a] = "exit" ELSE Resting(a)
  /\ main = "join" =>
       /\ digest[a] = log
       /\ a < i => worker[a] = "exit"
       /\ a = i => Stopping(a)
       /\ a > i => Resting(a)
  /\ main = "finalised" => digest[a] = log /\ worker[a] = "exit"
  /\ InFree => worker[a] \in {"none", "exit"} \/ Resting(a)
  /\ InFree /\ main # "freed" /\ final[a] => digest[a] = log
  /\ main \in {"free", "free_join"} /\ a < i => worker[a] \in {"none", "exit"}
  /\ main = "freed" => worker[a] \in {"none", "exit"}
  /\ thread[a] \/ worker[a] \in {"none", "exit"}

PhaseInv ==
  /\ InUpdate => data \in Block
  /\ main = "wait" \/ main = "asleep" => i = NUM_CHECKSUMS
  /\ main = "join" => i \in Enabled
  /\ main = "free_join" => i \in Algo
  /\ main \in {"new", "freed"} => log = << >>
  /\ \A a \in Algo : final[a] =>
        a \in Enabled /\ (main = "finalised" \/ InFree)
  /\ main = "finalised" => \A a \in Enabled : final[a]
  /\ \A a \in Algo : cancel[a] => InFree
  /\ \A a \in Algo \ Enabled : worker[a] = "none" /\ buf[a] = "null"

CountInv == InUpdate => running = Cardinality(Pending)

IInv == /\ TypeOK
        /\ PhaseInv
        /\ CountInv
        /\ \A a \in Enabled : AlgoInv(a)

-----------------------------------------------------------------------------
\* What the inductive step needs to know about threads_running.
LEMMA PendingFacts ==
  /\ IsFiniteSet(Enabled) /\ threads_desired \in Nat
  /\ IsFiniteSet(Pending) /\ Cardinality(Pending) \in 0..threads_desired
  /\ Cardinality(Pending) = 0 <=> Pending = {}
<1>1. IsFiniteSet(Enabled) /\ threads_desired \in Nat
  <2>1. IsFiniteSet(Algo)
    BY ConstantsAssumption, FS_Interval DEF Algo
  <2>2. IsFiniteSet(Enabled)
    BY <2>1, ConstantsAssumption, FS_Subset
  <2>3. QED
    BY <2>2, FS_CardinalityType DEF threads_desired
<1>2. Pending \subseteq Enabled
  BY DEF Pending
<1>3. /\ IsFiniteSet(Pending) /\ Cardinality(Pending) \in Nat
      /\ Cardinality(Pending) <= Cardinality(Enabled)
  BY <1>1, <1>2, FS_Subset, FS_CardinalityType
<1>4. QED
  BY <1>1, <1>3, FS_EmptySet DEF threads_desired

\* Which phase the caller and the workers are in, after every step.
LEMMA PhaseStep ==
  ASSUME Empty \notin Block, IInv, [Next]_vars
  PROVE  PhaseInv'
<1> USE ConstantsAssumption DEF vars, workerVars, IInv, TypeOK, PhaseInv, InUpdate, InFree, AlgoInv, Algo
<1>1. CASE InitContext
  BY <1>1 DEF InitContext
<1>2. CASE InitNoMemory
  BY <1>2 DEF InitNoMemory
<1>3. CASE InitSkip
  BY <1>3 DEF InitSkip
<1>4. CASE InitThread
  BY <1>4 DEF InitThread
<1>5. CASE InitFails
  BY <1>5 DEF InitFails
<1>6. CASE InitDone
  BY <1>6 DEF InitDone
<1>7. CASE Update
  BY <1>7 DEF Update
<1>8. CASE UpdateDispatch
  BY <1>8 DEF UpdateDispatch
<1>9. CASE UpdateDispatched
  BY <1>9 DEF UpdateDispatched
<1>10. CASE UpdateWait
  BY <1>10 DEF UpdateWait
<1>11. CASE UpdateSpurious
  BY <1>11 DEF UpdateSpurious
<1>12. CASE UpdateReturn
  BY <1>12 DEF UpdateReturn
<1>13. CASE Final
  BY <1>13 DEF Final
<1>14. CASE FinalStop
  BY <1>14 DEF FinalStop
<1>15. CASE FinalSkip
  BY <1>15 DEF FinalSkip
<1>16. CASE FinalJoin
  BY <1>16 DEF FinalJoin
<1>17. CASE FinalDone
  BY <1>17 DEF FinalDone
<1>18. CASE Free
  BY <1>18 DEF Free
<1>19. CASE FreeSkip
  BY <1>19 DEF FreeSkip
<1>20. CASE FreeCancel
  BY <1>20 DEF FreeCancel
<1>21. CASE FreeCrash
  BY <1>21 DEF FreeCrash
<1>22. CASE FreeJoin
  BY <1>22 DEF FreeJoin
<1>23. CASE Freed
  BY <1>23 DEF Freed
<1>24. ASSUME NEW b \in Algo, WorkerSleep(b) PROVE PhaseInv'
  BY <1>24 DEF WorkerSleep
<1>25. ASSUME NEW b \in Algo, WorkerGo(b) PROVE PhaseInv'
  BY <1>25 DEF WorkerGo
<1>26. ASSUME NEW b \in Algo, WorkerExit(b) PROVE PhaseInv'
  BY <1>26 DEF WorkerExit
<1>27. ASSUME NEW b \in Algo, WorkerSum(b) PROVE PhaseInv'
  BY <1>27 DEF WorkerSum
<1>28. ASSUME NEW b \in Algo, WorkerClear(b) PROVE PhaseInv'
  BY <1>28 DEF WorkerClear
<1>29. ASSUME NEW b \in Algo, WorkerCount(b) PROVE PhaseInv'
  BY <1>29 DEF WorkerCount
<1>30. ASSUME NEW b \in Algo, WorkerCancelled(b) PROVE PhaseInv'
  BY <1>30 DEF WorkerCancelled
<1>31. ASSUME NEW b \in Algo, WorkerSpurious(b) PROVE PhaseInv'
  BY <1>31 DEF WorkerSpurious
<1>32. CASE UNCHANGED vars
  BY <1>32
<1>33. QED
  BY <1>1, <1>2, <1>3, <1>4, <1>5, <1>6, <1>7, <1>8, <1>9, <1>10, <1>11, <1>12, <1>13, <1>14, <1>15, <1>16, <1>17, <1>18, <1>19, <1>20, <1>21, <1>22, <1>23, <1>24, <1>25, <1>26, <1>27, <1>28, <1>29, <1>30, <1>31, <1>32
     DEF Next, MainNext, WorkerNext, Ended

\* What a worker is doing in the phase of the caller, after every step of it, of
\* another worker or of the caller.
LEMMA AlgoStep ==
  ASSUME Empty \notin Block, IInv, [Next]_vars, NEW a \in Enabled
  PROVE  AlgoInv(a)'
<1> USE ConstantsAssumption DEF vars, workerVars, InUpdate, InFree, AlgoInv,
  Resting, Taking, Stopping, Wake
<1>a. /\ AlgoInv(a) /\ a \in Algo /\ a \in Int /\ a < NUM_CHECKSUMS /\ a >= 0
      /\ NUM_CHECKSUMS \in Nat /\ i \in Int /\ i >= 0 /\ i <= NUM_CHECKSUMS
      /\ worker \in [Algo -> {"none", "test", "asleep", "got", "summed",
                             "count", "exit"}]
      /\ buf \in [Algo -> {"null", "data", "end"}] /\ len \in [Algo -> {0, 1}]
      /\ digest \in [Algo -> Seq(Block \cup {Reused})]
      /\ thread \in [Algo -> BOOLEAN] /\ final \in [Algo -> BOOLEAN]
  <2> HIDE DEF AlgoInv, InUpdate, InFree, Resting, Taking, Stopping, Wake
  <2>1. AlgoInv(a) /\ TypeOK
    BY DEF IInv
  <2>2. a \in Algo /\ a \in Int /\ a < NUM_CHECKSUMS /\ a >= 0
    BY DEF Algo
  <2>3. QED
    BY <2>1, <2>2 DEF TypeOK
<1>b. /\ main \in {"wait", "asleep"} => i = NUM_CHECKSUMS
      /\ main = "join" => i \in Enabled
      /\ main \in {"new", "freed"} => log = << >>
      /\ final[a] => main = "finalised" \/ InFree
      /\ cancel[a] => InFree
      /\ InUpdate => data # Empty
  BY <1>a DEF IInv, PhaseInv
<1>c. main \in {"new", "create", "idle", "update", "wait", "asleep", "final",
               "join", "finalised", "free", "free_join", "freed", "crashed"}
  BY DEF IInv, TypeOK
<1> USE <1>a, <1>b, <1>c
<1>1. CASE InitContext
  BY <1>1 DEF InitContext
<1>2. CASE InitNoMemory
  BY <1>2 DEF InitNoMemory
<1>3. CASE InitSkip
  BY <1>3 DEF InitSkip
<1>4. CASE InitThread
  BY <1>4 DEF InitThread
<1>5. CASE InitFails
  BY <1>5 DEF InitFails
<1>6. CASE InitDone
  BY <1>6 DEF InitDone
<1>7. CASE Update
  BY <1>7 DEF Update
<1>8. CASE UpdateDispatch
  <2>1. main = "update" /\ main' = "update" /\ i' = i + 1
        /\ UNCHANGED <<data, running, thread, cancel, digest, final, log>>
    BY <1>8 DEF UpdateDispatch
  <2>2. CASE a = i
    <3>1. /\ worker'[a] = Wake(worker[a]) /\ buf'[a] = "data"
          /\ len'[a] = 1
      BY <1>8, <2>2 DEF UpdateDispatch
    <3>2. Resting(a) /\ digest[a] = log /\ thread[a]
      BY <2>1, <2>2
    <3>3. Taking(a)'
      BY <2>1, <3>1, <3>2
    <3> HIDE DEF Taking
    <3>4. QED
      BY <2>1, <2>2, <3>1, <3>2, <3>3
  <2>3. CASE a # i
    <3>1. worker'[a] = worker[a] /\ buf'[a] = buf[a] /\ len'[a] = len[a]
      BY <1>8, <2>3 DEF UpdateDispatch
    <3>2. QED
      BY <2>1, <2>3, <3>1
  <2>4. QED
    BY <2>2, <2>3
<1>9. CASE UpdateDispatched
  BY <1>9 DEF UpdateDispatched
<1>10. CASE UpdateWait
  BY <1>10 DEF UpdateWait
<1>11. CASE UpdateSpurious
  BY <1>11 DEF UpdateSpurious
<1>12. CASE UpdateReturn
  <2>1. Pending = {}
    BY <1>12, PendingFacts DEF UpdateReturn, CountInv, IInv
  <2>2. buf[a] # "data" /\ worker[a] # "count"
    BY <2>1 DEF Pending
  <2>3. Taking(a)
    BY <1>12 DEF UpdateReturn
  <2>4. digest[a] = Append(log, data) /\ Resting(a)
    BY <2>2, <2>3
  <2>5. QED
    BY <1>12, <2>4 DEF UpdateReturn
<1>13. CASE Final
  BY <1>13 DEF Final
<1>14. CASE FinalStop
  BY <1>14 DEF FinalStop
<1>15. CASE FinalSkip
  BY <1>15 DEF FinalSkip
<1>16. CASE FinalJoin
  BY <1>16 DEF FinalJoin
<1>17. CASE FinalDone
  BY <1>17 DEF FinalDone
<1>18. CASE Free
  BY <1>18 DEF Free
<1>19. CASE FreeSkip
  BY <1>19 DEF FreeSkip
<1>20. CASE FreeCancel
  BY <1>20 DEF FreeCancel
<1>21. CASE FreeCrash
  BY <1>21 DEF FreeCrash
<1>22. CASE FreeJoin
  BY <1>22 DEF FreeJoin
<1>23. CASE Freed
  BY <1>23 DEF Freed
<1>24. ASSUME NEW b \in Algo, WorkerSleep(b) PROVE AlgoInv(a)'
  BY <1>24 DEF WorkerSleep
<1>25. ASSUME NEW b \in Algo, WorkerGo(b) PROVE AlgoInv(a)'
  BY <1>25 DEF WorkerGo
<1>26. ASSUME NEW b \in Algo, WorkerExit(b) PROVE AlgoInv(a)'
  BY <1>26 DEF WorkerExit
<1>27. ASSUME NEW b \in Algo, WorkerSum(b) PROVE AlgoInv(a)'
  <2>1. CASE a # b
    BY <1>27, <2>1 DEF WorkerSum
  <2>2. CASE a = b
    <3>1. /\ worker[a] = "got" /\ len[a] # 0 /\ worker'[a] = "summed"
          /\ digest'[a] = Append(digest[a], data)
          /\ UNCHANGED <<main, i, data, thread, buf, len, final, log>>
      BY <1>27, <2>2 DEF WorkerSum
    <3>2. /\ (main = "update" /\ a < i) \/ main \in {"wait", "asleep"}
          /\ digest[a] = log /\ buf[a] = "data"
      BY <3>1
    <3>3. Taking(a)'
      BY <3>1, <3>2
    <3>4. thread[a] /\ final'[a] = final[a] /\ ~final[a]
      BY <3>1, <3>2
    <3> HIDE DEF Taking
    <3>5. QED
      BY <3>1, <3>2, <3>3, <3>4
  <2>3. QED
    BY <2>1, <2>2
<1>28. ASSUME NEW b \in Algo, WorkerClear(b) PROVE AlgoInv(a)'
  BY <1>28 DEF WorkerClear
<1>29. ASSUME NEW b \in Algo, WorkerCount(b) PROVE AlgoInv(a)'
  BY <1>29 DEF WorkerCount
<1>30. ASSUME NEW b \in Algo, WorkerCancelled(b) PROVE AlgoInv(a)'
  BY <1>30 DEF WorkerCancelled
<1>31. ASSUME NEW b \in Algo, WorkerSpurious(b) PROVE AlgoInv(a)'
  BY <1>31 DEF WorkerSpurious
<1>32. CASE UNCHANGED vars
  BY <1>32
<1>33. QED
  BY <1>1, <1>2, <1>3, <1>4, <1>5, <1>6, <1>7, <1>8, <1>9, <1>10, <1>11, <1>12, <1>13, <1>14, <1>15, <1>16, <1>17, <1>18, <1>19, <1>20, <1>21, <1>22, <1>23, <1>24, <1>25, <1>26, <1>27, <1>28, <1>29, <1>30, <1>31, <1>32
     DEF Next, MainNext, WorkerNext, Ended

\* running counts the workers that still have to count down: a step changes both or
\* neither.
LEMMA CountStep ==
  ASSUME Empty \notin Block, IInv, [Next]_vars
  PROVE  CountInv'
<1> USE ConstantsAssumption DEF vars, workerVars, CountInv, InUpdate, Pending, Wake
<1>a. CountInv /\ Enabled \subseteq Algo /\ i \in Int
      /\ worker \in [Algo -> {"none", "test", "asleep", "got", "summed",
                             "count", "exit"}]
      /\ buf \in [Algo -> {"null", "data", "end"}]
  BY DEF IInv, TypeOK
<1>b. \A a \in Algo \ Enabled : worker[a] = "none" /\ buf[a] = "null"
  BY DEF IInv, PhaseInv
<1>c. ASSUME NEW a \in Enabled
      PROVE  /\ a \in Int /\ a < NUM_CHECKSUMS /\ a >= 0
             /\ worker[a] = "summed" => InUpdate /\ buf[a] = "data"
             /\ worker[a] = "count" =>
                  InUpdate /\ buf[a] = "null" /\ (main = "update" => a < i)
             /\ main = "update" /\ a >= i => worker[a] \in {"test", "asleep"}
  <2>1. AlgoInv(a) /\ TypeOK
    BY DEF IInv
  <2>2. QED
    BY <2>1 DEF AlgoInv, TypeOK, Algo, Resting, Taking, Stopping, InFree
<1> USE <1>a
<1>1. CASE InitContext
  BY <1>1 DEF InitContext
<1>2. CASE InitNoMemory
  BY <1>2 DEF InitNoMemory
<1>3. CASE InitSkip
  BY <1>3 DEF InitSkip
<1>4. CASE InitThread
  BY <1>4 DEF InitThread
<1>5. CASE InitFails
  BY <1>5 DEF InitFails
<1>6. CASE InitDone
  BY <1>6 DEF InitDone
<1>7. CASE Update
  <2>1. running' = Cardinality(Enabled)
    BY <1>7 DEF Update, threads_desired
  <2>2. Pending' = Enabled
    <3>1. main' = "update" /\ i' = 0
      BY <1>7 DEF Update
    <3>2. \A a \in Enabled : a >= 0
      BY <1>c
    <3>3. QED
      BY <3>1, <3>2
  <2> HIDE DEF Pending
  <2>3. QED
    BY <2>1, <2>2
<1>8. CASE UpdateDispatch
  <2>1. InUpdate /\ running' = running /\ running = Cardinality(Pending)
    BY <1>8 DEF UpdateDispatch
  <2>2. Pending' = Pending
    <3>1. /\ worker \in [Algo -> {"none", "test", "asleep", "got", "summed",
                                  "count", "exit"}]
          /\ buf \in [Algo -> {"null", "data", "end"}]
          /\ i \in 0..NUM_CHECKSUMS /\ i' = i + 1
          /\ main = "update" /\ main' = "update"
      BY <1>8 DEF IInv, TypeOK, UpdateDispatch
    <3>2. CASE i \in Enabled
      <4>1. /\ buf' = [buf EXCEPT ![i] = "data"]
            /\ worker' = [worker EXCEPT ![i] = Wake(@)]
        BY <1>8, <3>2 DEF UpdateDispatch
      <4>2. worker[i] # "count"
        BY <1>c, <3>1, <3>2
      <4> HIDE DEF IInv, TypeOK, PhaseInv, AlgoInv
      <4>3. ASSUME NEW c \in Enabled
            PROVE  c \in Pending' <=> c \in Pending
        BY <3>1, <3>2, <4>1, <4>2
      <4>4. QED
        BY <4>3
    <3>3. CASE i \notin Enabled
      <4>1. buf' = buf /\ worker' = worker
        BY <1>8, <3>3 DEF UpdateDispatch
      <4> HIDE DEF IInv, TypeOK, PhaseInv, AlgoInv
      <4>2. ASSUME NEW c \in Enabled
            PROVE  c \in Pending' <=> c \in Pending
        BY <1>c, <3>1, <3>3, <4>1
      <4>3. QED
        BY <4>2
    <3>4. QED
      BY <3>2, <3>3
  <2> HIDE DEF Pending
  <2>3. QED
    BY <2>1, <2>2
<1>9. CASE UpdateDispatched
  <2>1. InUpdate /\ running' = running /\ running = Cardinality(Pending)
    BY <1>9 DEF UpdateDispatched
  <2>2. Pending' = Pending
    <3> HIDE DEF IInv, TypeOK, PhaseInv, AlgoInv
    <3>1. \A c \in Enabled : ~(c >= NUM_CHECKSUMS)
      BY <1>c
    <3>2. QED
      BY <1>9, <3>1 DEF UpdateDispatched
  <2> HIDE DEF Pending
  <2>3. QED
    BY <2>1, <2>2
<1>10. CASE UpdateWait
  BY <1>10 DEF UpdateWait
<1>11. CASE UpdateSpurious
  BY <1>11 DEF UpdateSpurious
<1>12. CASE UpdateReturn
  BY <1>12 DEF UpdateReturn
<1>13. CASE Final
  BY <1>13 DEF Final
<1>14. CASE FinalStop
  BY <1>14 DEF FinalStop
<1>15. CASE FinalSkip
  BY <1>15 DEF FinalSkip
<1>16. CASE FinalJoin
  BY <1>16 DEF FinalJoin
<1>17. CASE FinalDone
  BY <1>17 DEF FinalDone
<1>18. CASE Free
  BY <1>18 DEF Free
<1>19. CASE FreeSkip
  BY <1>19 DEF FreeSkip
<1>20. CASE FreeCancel
  BY <1>20 DEF FreeCancel
<1>21. CASE FreeCrash
  BY <1>21 DEF FreeCrash
<1>22. CASE FreeJoin
  BY <1>22 DEF FreeJoin
<1>23. CASE Freed
  BY <1>23 DEF Freed
<1>24. ASSUME NEW b \in Algo, WorkerSleep(b) PROVE CountInv'
  <2>1. InUpdate' => InUpdate /\ running' = running
    BY <1>24 DEF WorkerSleep
  <2>2. Pending' = Pending
    <3> HIDE DEF IInv, TypeOK, PhaseInv, AlgoInv
    <3>1. worker \in [Algo -> {"none", "test", "asleep", "got", "summed",
                               "count", "exit"}]
      BY DEF IInv, TypeOK
    <3>2. QED
      BY <1>24, <3>1 DEF WorkerSleep
  <2> HIDE DEF Pending
  <2>3. QED
    BY <2>1, <2>2
<1>25. ASSUME NEW b \in Algo, WorkerGo(b) PROVE CountInv'
  <2>1. InUpdate' => InUpdate /\ running' = running
    BY <1>25 DEF WorkerGo
  <2>2. Pending' = Pending
    <3> HIDE DEF IInv, TypeOK, PhaseInv, AlgoInv
    <3>1. worker \in [Algo -> {"none", "test", "asleep", "got", "summed",
                               "count", "exit"}]
      BY DEF IInv, TypeOK
    <3>2. QED
      BY <1>25, <3>1 DEF WorkerGo
  <2> HIDE DEF Pending
  <2>3. QED
    BY <2>1, <2>2
<1>26. ASSUME NEW b \in Algo, WorkerExit(b) PROVE CountInv'
  <2>1. InUpdate' => InUpdate /\ running' = running
    BY <1>26 DEF WorkerExit
  <2>2. Pending' = Pending
    <3> HIDE DEF IInv, TypeOK, PhaseInv, AlgoInv
    <3>1. worker \in [Algo -> {"none", "test", "asleep", "got", "summed",
                               "count", "exit"}]
      BY DEF IInv, TypeOK
    <3>2. QED
      BY <1>26, <3>1 DEF WorkerExit
  <2> HIDE DEF Pending
  <2>3. QED
    BY <2>1, <2>2
<1>27. ASSUME NEW b \in Algo, WorkerSum(b) PROVE CountInv'
  <2>1. InUpdate' => InUpdate /\ running' = running
    BY <1>27 DEF WorkerSum
  <2>2. Pending' = Pending
    <3> HIDE DEF IInv, TypeOK, PhaseInv, AlgoInv
    <3>1. worker \in [Algo -> {"none", "test", "asleep", "got", "summed",
                               "count", "exit"}]
      BY DEF IInv, TypeOK
    <3>2. QED
      BY <1>27, <3>1 DEF WorkerSum
  <2> HIDE DEF Pending
  <2>3. QED
    BY <2>1, <2>2
<1>28. ASSUME NEW b \in Algo, WorkerClear(b) PROVE CountInv'
  <2>1. InUpdate' => InUpdate /\ running' = running
    BY <1>28 DEF WorkerClear
  <2>2. b \in Enabled /\ buf[b] = "data"
    BY <1>28, <1>b, <1>c DEF WorkerClear
  <2>3. Pending' = Pending
    <3>1. worker \in [Algo -> {"none", "test", "asleep", "got", "summed",
                               "count", "exit"}]
          /\ buf \in [Algo -> {"null", "data", "end"}]
      BY DEF IInv, TypeOK
    <3> HIDE DEF IInv, TypeOK, PhaseInv, AlgoInv
    <3>2. QED
      BY <1>28, <2>2, <3>1 DEF WorkerClear
  <2> HIDE DEF Pending
  <2>4. QED
    BY <2>1, <2>3
<1>29. ASSUME NEW b \in Algo, WorkerCount(b) PROVE CountInv'
  <2>1. InUpdate' => InUpdate
    BY <1>29 DEF WorkerCount
  <2>2. /\ b \in Enabled /\ buf[b] = "null" /\ running' = running - 1
        /\ main = "update" => b < i
        /\ InUpdate
    BY <1>29, <1>b, <1>c DEF WorkerCount
  <2>3. b \in Pending /\ Pending' = Pending \ {b}
    <3>1. worker \in [Algo -> {"none", "test", "asleep", "got", "summed",
                               "count", "exit"}]
          /\ i \in 0..NUM_CHECKSUMS /\ i' = i
          /\ (main' = "update" <=> main = "update")
      BY <1>29 DEF IInv, TypeOK, WorkerCount
    <3> HIDE DEF IInv, TypeOK, PhaseInv, AlgoInv
    <3>2. b \in Pending
      BY <1>29, <2>2 DEF WorkerCount
    <3>3. worker' = [worker EXCEPT ![b] = "test"] /\ buf' = buf
      BY <1>29 DEF WorkerCount
    <3>4. ASSUME NEW c \in Enabled
          PROVE  c \in Pending' <=> c \in Pending /\ c # b
      <4>1. CASE c = b
        BY <1>c, <2>2, <3>1, <3>3, <4>1
      <4>2. CASE c # b
        BY <3>1, <3>3, <4>2
      <4>3. QED
        BY <4>1, <4>2
    <3>5. Pending' \subseteq Enabled /\ Pending \subseteq Enabled
      OBVIOUS
    <3> HIDE DEF Pending
    <3>6. QED
      BY <3>2, <3>4, <3>5
  <2> HIDE DEF Pending
  <2>4. Cardinality(Pending') = Cardinality(Pending) - 1
    BY <2>3, PendingFacts, FS_RemoveElement
  <2>5. running = Cardinality(Pending)
    BY <2>2
  <2>6. QED
    BY <2>2, <2>4, <2>5
<1>30. ASSUME NEW b \in Algo, WorkerCancelled(b) PROVE CountInv'
  <2>1. InUpdate' => InUpdate /\ running' = running
    BY <1>30 DEF WorkerCancelled
  <2>2. Pending' = Pending
    <3> HIDE DEF IInv, TypeOK, PhaseInv, AlgoInv
    <3>1. worker \in [Algo -> {"none", "test", "asleep", "got", "summed",
                               "count", "exit"}]
      BY DEF IInv, TypeOK
    <3>2. QED
      BY <1>30, <3>1 DEF WorkerCancelled
  <2> HIDE DEF Pending
  <2>3. QED
    BY <2>1, <2>2
<1>31. ASSUME NEW b \in Algo, WorkerSpurious(b) PROVE CountInv'
  <2>1. InUpdate' => InUpdate /\ running' = running
    BY <1>31 DEF WorkerSpurious
  <2>2. Pending' = Pending
    <3> HIDE DEF IInv, TypeOK, PhaseInv, AlgoInv
    <3>1. worker \in [Algo -> {"none", "test", "asleep", "got", "summed",
                               "count", "exit"}]
      BY DEF IInv, TypeOK
    <3>2. QED
      BY <1>31, <3>1 DEF WorkerSpurious
  <2> HIDE DEF Pending
  <2>3. QED
    BY <2>1, <2>2
<1>32. CASE UNCHANGED vars
  BY <1>32
<1>33. QED
  BY <1>1, <1>2, <1>3, <1>4, <1>5, <1>6, <1>7, <1>8, <1>9, <1>10, <1>11, <1>12, <1>13, <1>14, <1>15, <1>16, <1>17, <1>18, <1>19, <1>20, <1>21, <1>22, <1>23, <1>24, <1>25, <1>26, <1>27, <1>28, <1>29, <1>30, <1>31, <1>32
     DEF Next, MainNext, WorkerNext, Ended

\* Every variable keeps its type.
LEMMA TypeStep ==
  ASSUME Empty \notin Block, IInv, [Next]_vars
  PROVE  TypeOK'
<1> USE ConstantsAssumption DEF vars, workerVars, TypeOK, InUpdate, Wake
<1>a. TypeOK
  BY DEF IInv
<1>b. /\ InUpdate => data \in Block
      /\ main = "join" => i \in Enabled
      /\ main = "free_join" => i \in Algo
      /\ i \in Enabled => i \in Algo
      /\ i \in Algo => i + 1 \in 0..NUM_CHECKSUMS
      /\ i \in Int /\ (i < NUM_CHECKSUMS => i \in Algo)
      /\ 0 \in 0..NUM_CHECKSUMS
  BY DEF IInv, PhaseInv, Algo
<1>c. \A a \in Algo \ Enabled : worker[a] = "none" /\ buf[a] = "null"
  BY DEF IInv, PhaseInv
<1> USE <1>a, <1>b
<1>1. CASE InitContext
  BY <1>1 DEF InitContext
<1>2. CASE InitNoMemory
  BY <1>2 DEF InitNoMemory
<1>3. CASE InitSkip
  BY <1>3 DEF InitSkip
<1>4. CASE InitThread
  BY <1>4 DEF InitThread
<1>5. CASE InitFails
  BY <1>5 DEF InitFails
<1>6. CASE InitDone
  BY <1>6 DEF InitDone
<1>7. CASE Update
  BY <1>7, PendingFacts DEF Update
<1>8. CASE UpdateDispatch
  <2>1. CASE i \in Enabled
    BY <1>8, <2>1, SMTT(30) DEF UpdateDispatch
  <2>2. CASE i \notin Enabled
    BY <1>8, <2>2 DEF UpdateDispatch
  <2>3. QED
    BY <2>1, <2>2
<1>9. CASE UpdateDispatched
  BY <1>9 DEF UpdateDispatched
<1>10. CASE UpdateWait
  BY <1>10 DEF UpdateWait
<1>11. CASE UpdateSpurious
  BY <1>11 DEF UpdateSpurious
<1>12. CASE UpdateReturn
  BY <1>12 DEF UpdateReturn
<1>13. CASE Final
  BY <1>13, PendingFacts DEF Final
<1>14. CASE FinalStop
  BY <1>14 DEF FinalStop
<1>15. CASE FinalSkip
  BY <1>15 DEF FinalSkip
<1>16. CASE FinalJoin
  BY <1>16 DEF FinalJoin
<1>17. CASE FinalDone
  BY <1>17 DEF FinalDone
<1>18. CASE Free
  BY <1>18 DEF Free
<1>19. CASE FreeSkip
  BY <1>19 DEF FreeSkip
<1>20. CASE FreeCancel
  BY <1>20 DEF FreeCancel
<1>21. CASE FreeCrash
  BY <1>21 DEF FreeCrash
<1>22. CASE FreeJoin
  BY <1>22 DEF FreeJoin
<1>23. CASE Freed
  BY <1>23 DEF Freed
<1>24. ASSUME NEW b \in Algo, WorkerSleep(b) PROVE TypeOK'
  BY <1>24 DEF WorkerSleep
<1>25. ASSUME NEW b \in Algo, WorkerGo(b) PROVE TypeOK'
  BY <1>25 DEF WorkerGo
<1>26. ASSUME NEW b \in Algo, WorkerExit(b) PROVE TypeOK'
  BY <1>26 DEF WorkerExit
<1>27. ASSUME NEW b \in Algo, WorkerSum(b) PROVE TypeOK'
  BY <1>27 DEF WorkerSum
<1>28. ASSUME NEW b \in Algo, WorkerClear(b) PROVE TypeOK'
  BY <1>28 DEF WorkerClear
<1>29. ASSUME NEW b \in Algo, WorkerCount(b) PROVE TypeOK'
  <2>1. InUpdate /\ b \in Enabled
    <3>1. b \in Enabled
      BY <1>29, <1>c DEF WorkerCount
    <3>2. AlgoInv(b) /\ worker[b] = "count"
      BY <1>29, <3>1 DEF IInv, WorkerCount
    <3>3. QED
      <4>1. b \in Int /\ i \in Int
        BY DEF Algo
      <4>2. QED
        BY <3>1, <3>2, <4>1 DEF AlgoInv, Taking, Resting, Stopping, InFree
  <2>2. running = Cardinality(Pending) /\ b \in Pending
    BY <1>29, <2>1 DEF WorkerCount, CountInv, Pending, IInv
  <2>3. running \in 1..threads_desired
    BY <2>2, PendingFacts
  <2>4. running' \in 0..threads_desired
    BY <1>29, <2>3, PendingFacts DEF WorkerCount
  <2>5. QED
    BY <1>29, <2>4 DEF WorkerCount
<1>30. ASSUME NEW b \in Algo, WorkerCancelled(b) PROVE TypeOK'
  BY <1>30 DEF WorkerCancelled
<1>31. ASSUME NEW b \in Algo, WorkerSpurious(b) PROVE TypeOK'
  BY <1>31 DEF WorkerSpurious
<1>32. CASE UNCHANGED vars
  BY <1>32
<1>33. QED
  BY <1>1, <1>2, <1>3, <1>4, <1>5, <1>6, <1>7, <1>8, <1>9, <1>10, <1>11, <1>12, <1>13, <1>14, <1>15, <1>16, <1>17, <1>18, <1>19, <1>20, <1>21, <1>22, <1>23, <1>24, <1>25, <1>26, <1>27, <1>28, <1>29, <1>30, <1>31, <1>32
     DEF Next, MainNext, WorkerNext, Ended

-----------------------------------------------------------------------------
\* IInv is an inductive invariant of the context and its threads.
THEOREM Invariance == ASSUME Empty \notin Block PROVE Spec => []IInv
<1>1. Init => IInv
  <2> SUFFICES ASSUME Init PROVE IInv
    OBVIOUS
  <2>1. TypeOK
    BY ConstantsAssumption, PendingFacts DEF Init, TypeOK
  <2>2. PhaseInv /\ CountInv
    BY ConstantsAssumption DEF Init, PhaseInv, CountInv, InUpdate, InFree
  <2>3. \A a \in Enabled : AlgoInv(a)
    BY ConstantsAssumption DEF Init, AlgoInv, InFree
  <2>4. QED
    BY <2>1, <2>2, <2>3 DEF IInv
<1>2. IInv /\ [Next]_vars => IInv'
  <2> SUFFICES ASSUME IInv, [Next]_vars PROVE IInv'
    OBVIOUS
  <2>1. TypeOK' /\ PhaseInv' /\ CountInv'
    BY TypeStep, PhaseStep, CountStep
  <2>2. \A a \in Enabled : AlgoInv(a)'
    BY AlgoStep
  <2>3. QED
    BY <2>1, <2>2 DEF IInv
<1>3. QED
  BY <1>1, <1>2, PTL DEF Spec

\* Every variable stays in its range; threads_running never runs below 0.
THEOREM TypeCorrect == ASSUME Empty \notin Block PROVE Spec => []TypeOK
  BY Invariance, PTL DEF IInv

\* No worker reads the caller's buffer after checksum_update() returned.
THEOREM BufferIsStable == ASSUME Empty \notin Block PROVE Spec => []BufferStable
<1>1. IInv => BufferStable
  <2> SUFFICES ASSUME IInv, NEW a \in Algo, worker[a] = "got", len[a] # 0
               PROVE  data # Reused
    BY DEF BufferStable
  <2>1. a \in Enabled
    BY DEF IInv, PhaseInv
  <2>2. AlgoInv(a) /\ a \in Int /\ i \in Int /\ TypeOK
    BY <2>1 DEF IInv, TypeOK, Algo
  <2>3. InUpdate
    BY <2>2 DEF AlgoInv, InUpdate, InFree, Taking, Resting, Stopping, TypeOK
  <2>4. data \in Block
    BY <2>3 DEF IInv, PhaseInv
  <2>5. QED
    BY <2>4, ConstantsAssumption
<1>2. QED
  BY <1>1, Invariance, PTL

\* Between calls every enabled digest has consumed all the updates, in order.
THEOREM DigestsAlwaysAgree ==
  ASSUME Empty \notin Block PROVE Spec => []DigestsAgree
<1>1. IInv => DigestsAgree
  BY DEF IInv, AlgoInv, DigestsAgree
<1>2. QED
  BY <1>1, Invariance, PTL

\* Every worker of a freed context has ended.
THEOREM NoThreadLeaks ==
  ASSUME Empty \notin Block PROVE Spec => []NoThreadLeaked
<1>1. IInv => NoThreadLeaked
  <2> SUFFICES ASSUME IInv, main = "freed", NEW a \in Algo
               PROVE  worker[a] \in {"none", "exit"}
    BY DEF NoThreadLeaked
  <2>1. CASE a \in Enabled
    BY <2>1 DEF IInv, AlgoInv
  <2>2. CASE a \notin Enabled
    BY <2>2 DEF IInv, PhaseInv
  <2>3. QED
    BY <2>1, <2>2
<1>2. QED
  BY <1>1, Invariance, PTL

\* The threaded context implements DigestLog: each checksum_update() is one
\* append to the input of all digests, each checksum_final() fixes them all.
THEOREM ImplementsLog == ASSUME Empty \notin Block PROVE Spec => LogSpec
<1> DEFINE hexes == [a \in Enabled |-> IF main = "freed" THEN NoDigest
                                                        ELSE Hex(a)]
<1>1. Init => Log!Init
  BY ConstantsAssumption DEF Init, Log!Init, Hex, Algo
<1>2. ASSUME IInv, IInv', [Next]_vars PROVE [Log!Next]_<<log, hexes>>
  <2>1. ASSUME ~(main = "finalised" \/ InFree)
        PROVE  hexes = [a \in Enabled |-> NoDigest]
    BY <1>2, <2>1, ConstantsAssumption DEF IInv, PhaseInv, Hex
  <2>2. CASE UpdateReturn
    <3>1. /\ hexes = [a \in Enabled |-> NoDigest]
          /\ log' = Append(log, data) /\ data \in Block
      BY <1>2, <2>1, <2>2 DEF UpdateReturn, InFree, InUpdate, IInv, PhaseInv
    <3>2. hexes' = hexes
      BY <2>2 DEF UpdateReturn, Hex
    <3>3. Log!Update
      BY <3>1, <3>2 DEF Log!Update
    <3>4. QED
      BY <3>3 DEF Log!Next
  <2>3. CASE FinalDone
    <3>1. hexes = [a \in Enabled |-> NoDigest] /\ log' = log
      BY <2>1, <2>3 DEF FinalDone, InFree
    <3>2. \A a \in Enabled : digest'[a] = log /\ final'[a]
      BY <1>2, <2>3, ConstantsAssumption DEF FinalDone, IInv, AlgoInv
    <3>3. main' # "freed"
      BY <2>3 DEF FinalDone
    <3>4. hexes' = [a \in Enabled |-> log]
      BY <3>2, <3>3 DEF Hex
    <3>5. Log!Final
      BY <3>1, <3>4 DEF Log!Final
    <3>6. QED
      BY <3>5 DEF Log!Next
  <2>4. CASE Freed
    <3>1. log' = << >> /\ hexes' = [a \in Enabled |-> NoDigest]
      BY <2>4 DEF Freed
    <3>2. QED
      BY <3>1 DEF Log!Next, Log!Free
  <2>5. CASE InitNoMemory
    <3>1. log' = log /\ hexes' = [a \in Enabled |-> NoDigest]
      BY <2>5 DEF InitNoMemory
    <3>2. hexes = [a \in Enabled |-> NoDigest]
      BY <2>1, <2>5 DEF InitNoMemory, InFree
    <3>3. QED
      BY <3>1, <3>2
  <2>6. ASSUME NEW b \in Algo, WorkerSum(b) PROVE UNCHANGED <<log, hexes>>
    <3>1. log' = log /\ main' = main /\ final' = final
      BY <2>6 DEF WorkerSum
    <3>2. b \in Enabled /\ AlgoInv(b) /\ b \in Int /\ i \in Int
          /\ TypeOK /\ worker[b] = "got" /\ len[b] # 0
      BY <1>2, <2>6 DEF WorkerSum, IInv, PhaseInv, TypeOK, Algo
    <3>3. InUpdate
      BY <3>2 DEF AlgoInv, InUpdate, InFree, Taking, Resting, Stopping, TypeOK
    <3>4. \A a \in Enabled : ~final[a] /\ ~final'[a]
      BY <1>2, <3>1, <3>3, ConstantsAssumption
         DEF IInv, PhaseInv, InUpdate, InFree
    <3>5. QED
      BY <3>1, <3>4 DEF Hex
  <2>7. CASE \/ InitContext \/ InitSkip \/ InitThread \/ InitFails \/ InitDone
             \/ Update \/ UpdateDispatch \/ UpdateDispatched \/ UpdateWait
             \/ UpdateSpurious \/ Final \/ FinalStop \/ FinalSkip
             \/ FinalJoin \/ Free \/ FreeSkip \/ FreeCancel \/ FreeCrash
             \/ FreeJoin \/ UNCHANGED vars
             \/ \E b \in Algo : \/ WorkerSleep(b) \/ WorkerGo(b)
                               \/ WorkerExit(b) \/ WorkerClear(b)
                               \/ WorkerCount(b) \/ WorkerCancelled(b)
                               \/ WorkerSpurious(b)
    <3>1. /\ log' = log /\ digest' = digest /\ final' = final
          /\ main' = "freed" <=> main = "freed"
      BY <2>7
         DEF InitContext, InitSkip, InitThread, InitFails, InitDone, Update,
             UpdateDispatch, UpdateDispatched, UpdateWait, UpdateSpurious,
             Final, FinalStop, FinalSkip, FinalJoin, Free, FreeSkip,
             FreeCancel, FreeCrash, FreeJoin, vars, WorkerSleep, WorkerGo,
             WorkerExit, WorkerClear, WorkerCount, WorkerCancelled,
             WorkerSpurious
    <3>2. QED
      BY <3>1 DEF Hex
  <2>8. QED
    BY <1>2, <2>2, <2>3, <2>4, <2>5, <2>6, <2>7
       DEF Next, MainNext, WorkerNext, Ended
<1>3. QED
  BY <1>1, <1>2, Invariance, PTL DEF Spec, LogSpec, Log!Spec
============================================================================
