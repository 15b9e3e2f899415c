------------------------- MODULE ParallelSumsProofs -------------------------
(***************************************************************************)
(* Proofs about ParallelSums for every number of files, every file length  *)
(* and every queue size: the inductive invariant IInv and what follows     *)
(* from it.                                                                *)
(***************************************************************************)
EXTENDS ParallelSums, TLAPS

Active == main \in {"join_reader", "join_processor"}

\* Reads whose buffer left the queue, and reads whose buffer entered it.
Taken == IF processor \in {"hold", "exit"} THEN Len(digest) + 1 ELSE Len(digest)
Unqueued == reader \in {"lock", "test", "notfull"}
Queuings == IF Unqueued THEN pos - 1 ELSE pos

\* i modulo n, for i < 2n; the buffer d places before buffer x in the ring.
Ring(i, n) == IF i >= n THEN i - n ELSE i
Back(x, d) == IF x >= d THEN x - d ELSE x - d + NUM_BUF

\* The buffer of the first read that is not queued yet.
NextBuf == IF reader = "advance" THEN Wrap(read_idx + 1, NUM_BUF) ELSE read_idx

\* What the j-th read may have left in a buffer that is still in use: its
\* block, or the end marker if it is the last read.
Ended == optind \in Failing \/ pos = Blocks[optind] + 1
Content(v, j) == \/ v = j /\ j <= Blocks[optind]
                 \/ v = 0 /\ j = pos /\ Ended

PhaseInv ==
  /\ ~Active <=> reader = "none"
  /\ ~Active <=> processor = "none"
  /\ main = "join_processor" => reader = "exit"
  /\ Active => optind \in Files /\ contexts >= 1
  /\ Len(out) = optind - 1

MutexInv == /\ mutex = "reader" <=> reader = "test"
            /\ mutex = "processor" <=> processor = "test"

\* A thread sleeps only while the condition it waits for is false.
SleepInv == /\ reader = "notfull" => num_full = QSIZE
            /\ processor = "notempty" => num_full = 0

CountInv == Active =>
  /\ num_full = Queuings - Taken
  /\ put_idx = Ring(get_idx + num_full, QSIZE)
  /\ pos <= Blocks[optind] + 1
  /\ Unqueued \/ reader = "advance" => pos >= 1
  /\ reader \in {"fill", "filling"} => pos <= Blocks[optind]

SlotsInv == Active =>
  /\ \A i \in 0..num_full-1 :
        slots[Ring(get_idx + i, QSIZE)] = Back(NextBuf, num_full - i)
  /\ processor = "hold" => held = Back(NextBuf, num_full + 1)

ContentInv == Active =>
  /\ \A i \in 0..num_full-1 :
        LET b == Back(NextBuf, num_full - i) IN
        /\ Content(buf[b], Taken + i + 1)
        /\ buf[b] = 0 => reader \in {"advance", "exit"}
  /\ processor = "hold" =>
        /\ Content(buf[held], Taken)
        /\ buf[held] = 0 => reader \in {"advance", "exit"}
  /\ Unqueued \/ reader = "advance" => Content(buf[read_idx], pos)
  /\ processor = "exit" =>
        /\ Taken = pos /\ Ended
        /\ reader \in {"advance", "exit"}
        /\ reader = "advance" => buf[read_idx] = 0

DigestInv == Active =>
  /\ digest = Lines!UpTo(Len(digest))
  /\ Len(digest) <= Blocks[optind]

IInv == TypeOK /\ PhaseInv /\ MutexInv /\ SleepInv /\ CountInv /\ SlotsInv /\ ContentInv
        /\ DigestInv
-----------------------------------------------------------------------------

\* Feeding block n + 1 after blocks 1..n leaves blocks 1..n + 1.
LEMMA AppendUpTo ==
  ASSUME NEW n \in Nat
  PROVE  /\ Append(Lines!UpTo(n), n + 1) = Lines!UpTo(n + 1)
         /\ Len(Lines!UpTo(n)) = n
  BY DEF Lines!UpTo

\* Which thread exists in which phase of the program, after every step.
LEMMA PhaseStep == IInv /\ [Next]_vars => PhaseInv'
<1> SUFFICES ASSUME IInv, [Next]_vars PROVE PhaseInv'
  OBVIOUS
<1> USE ConstantsAssumption DEF vars, mainVars, queueVars, Signal, IInv, TypeOK, Active, PhaseInv, Files
<1>1. CASE ReaderStartRead
  BY <1>1 DEF ReaderStartRead
<1>2. CASE ReaderEndRead
  BY <1>2 DEF ReaderEndRead
<1>3. CASE ReaderLock
  BY <1>3 DEF ReaderLock
<1>4. CASE ReaderWait
  BY <1>4 DEF ReaderWait
<1>5. CASE ReaderPut
  BY <1>5 DEF ReaderPut
<1>6. CASE ReaderAdvance
  BY <1>6 DEF ReaderAdvance
<1>7. CASE ReaderSpurious
  BY <1>7 DEF ReaderSpurious
<1>8. CASE ProcessorLock
  BY <1>8 DEF ProcessorLock
<1>9. CASE ProcessorWait
  BY <1>9 DEF ProcessorWait
<1>10. CASE ProcessorGet
  BY <1>10 DEF ProcessorGet
<1>11. CASE ProcessorUpdate
  BY <1>11 DEF ProcessorUpdate
<1>12. CASE ProcessorSpurious
  BY <1>12 DEF ProcessorSpurious
<1>13. CASE MainStart
  BY <1>13 DEF MainStart
<1>14. CASE MainOpenFails
  BY <1>14 DEF MainOpenFails
<1>15. CASE MainNoContext
  BY <1>15 DEF MainNoContext
<1>16. CASE MainJoinReader
  BY <1>16 DEF MainJoinReader
<1>17. CASE MainPrint
  BY <1>17 DEF MainPrint
<1>18. CASE MainFinish
  BY <1>18 DEF MainFinish
<1>19. CASE UNCHANGED vars
  <2>1. /\ main' = main /\ reader' = reader /\ processor' = processor
        /\ optind' = optind /\ contexts' = contexts /\ out' = out
    BY <1>19
  <2>2. QED
    BY <2>1
<1>20. QED
  BY <1>1, <1>2, <1>3, <1>4, <1>5, <1>6, <1>7, <1>8, <1>9, <1>10, <1>11, <1>12, <1>13, <1>14, <1>15, <1>16, <1>17, <1>18, <1>19
     DEF Next, ReaderNext, ProcessorNext, MainNext, Exited

\* The mutex has one holder, after every step.
LEMMA MutexStep == IInv /\ [Next]_vars => MutexInv'
<1> SUFFICES ASSUME IInv, [Next]_vars PROVE MutexInv'
  OBVIOUS
<1> USE ConstantsAssumption DEF vars, mainVars, queueVars, Signal, IInv, TypeOK, Active, PhaseInv, MutexInv
<1>1. CASE ReaderStartRead
  BY <1>1 DEF ReaderStartRead
<1>2. CASE ReaderEndRead
  BY <1>2 DEF ReaderEndRead
<1>3. CASE ReaderLock
  BY <1>3 DEF ReaderLock
<1>4. CASE ReaderWait
  BY <1>4 DEF ReaderWait
<1>5. CASE ReaderPut
  BY <1>5 DEF ReaderPut
<1>6. CASE ReaderAdvance
  BY <1>6 DEF ReaderAdvance
<1>7. CASE ReaderSpurious
  BY <1>7 DEF ReaderSpurious
<1>8. CASE ProcessorLock
  BY <1>8 DEF ProcessorLock
<1>9. CASE ProcessorWait
  BY <1>9 DEF ProcessorWait
<1>10. CASE ProcessorGet
  BY <1>10 DEF ProcessorGet
<1>11. CASE ProcessorUpdate
  BY <1>11 DEF ProcessorUpdate
<1>12. CASE ProcessorSpurious
  BY <1>12 DEF ProcessorSpurious
<1>13. CASE MainStart
  BY <1>13 DEF MainStart
<1>14. CASE MainOpenFails
  BY <1>14 DEF MainOpenFails
<1>15. CASE MainNoContext
  BY <1>15 DEF MainNoContext
<1>16. CASE MainJoinReader
  BY <1>16 DEF MainJoinReader
<1>17. CASE MainPrint
  BY <1>17 DEF MainPrint
<1>18. CASE MainFinish
  BY <1>18 DEF MainFinish
<1>19. CASE UNCHANGED vars
  BY <1>19
<1>20. QED
  BY <1>1, <1>2, <1>3, <1>4, <1>5, <1>6, <1>7, <1>8, <1>9, <1>10, <1>11, <1>12, <1>13, <1>14, <1>15, <1>16, <1>17, <1>18, <1>19
     DEF Next, ReaderNext, ProcessorNext, MainNext, Exited

\* A thread sleeps only as long as the queue is full, or empty.
LEMMA SleepStep == IInv /\ [Next]_vars => SleepInv'
<1> SUFFICES ASSUME IInv, [Next]_vars PROVE SleepInv'
  OBVIOUS
<1> USE ConstantsAssumption DEF vars, mainVars, queueVars, Signal, IInv, TypeOK, Active, PhaseInv, SleepInv
<1>1. CASE ReaderStartRead
  BY <1>1 DEF ReaderStartRead
<1>2. CASE ReaderEndRead
  BY <1>2 DEF ReaderEndRead
<1>3. CASE ReaderLock
  BY <1>3 DEF ReaderLock
<1>4. CASE ReaderWait
  BY <1>4 DEF ReaderWait
<1>5. CASE ReaderPut
  BY <1>5 DEF ReaderPut
<1>6. CASE ReaderAdvance
  BY <1>6 DEF ReaderAdvance
<1>7. CASE ReaderSpurious
  BY <1>7 DEF ReaderSpurious
<1>8. CASE ProcessorLock
  BY <1>8 DEF ProcessorLock
<1>9. CASE ProcessorWait
  BY <1>9 DEF ProcessorWait
<1>10. CASE ProcessorGet
  BY <1>10 DEF ProcessorGet
<1>11. CASE ProcessorUpdate
  BY <1>11 DEF ProcessorUpdate
<1>12. CASE ProcessorSpurious
  BY <1>12 DEF ProcessorSpurious
<1>13. CASE MainStart
  BY <1>13 DEF MainStart
<1>14. CASE MainOpenFails
  BY <1>14 DEF MainOpenFails
<1>15. CASE MainNoContext
  BY <1>15 DEF MainNoContext
<1>16. CASE MainJoinReader
  BY <1>16 DEF MainJoinReader
<1>17. CASE MainPrint
  BY <1>17 DEF MainPrint
<1>18. CASE MainFinish
  BY <1>18 DEF MainFinish
<1>19. CASE UNCHANGED vars
  BY <1>19
<1>20. QED
  BY <1>1, <1>2, <1>3, <1>4, <1>5, <1>6, <1>7, <1>8, <1>9, <1>10, <1>11, <1>12, <1>13, <1>14, <1>15, <1>16, <1>17, <1>18, <1>19
     DEF Next, ReaderNext, ProcessorNext, MainNext, Exited

\* Moving put_idx on is one more position from get_idx.
LEMMA PutRing ==
  ASSUME NEW g \in 0..QSIZE-1, NEW n \in 0..QSIZE-1
  PROVE  Wrap(Ring(g + n, QSIZE) + 1, QSIZE) = Ring(g + (n + 1), QSIZE)
  BY ConstantsAssumption DEF Ring, Wrap

\* The queue has as many buffers as were put into it and not yet taken.
LEMMA CountStep == IInv /\ [Next]_vars => CountInv'
<1> SUFFICES ASSUME IInv, [Next]_vars PROVE CountInv'
  OBVIOUS
<1> USE ConstantsAssumption DEF vars, mainVars, queueVars, Signal, IInv, TypeOK, Active, PhaseInv, CountInv, ContentInv, Content, Ended,
  Queuings, Taken, Unqueued, Ring, Wrap, Files, NUM_BUF, Torn, NoBuf
<1>1. CASE ReaderStartRead
  BY <1>1 DEF ReaderStartRead
<1>2. CASE ReaderEndRead
  BY <1>2 DEF ReaderEndRead
<1>3. CASE ReaderLock
  BY <1>3 DEF ReaderLock
<1>4. CASE ReaderWait
  BY <1>4 DEF ReaderWait
<1>5. CASE ReaderPut
  <2>1. Active /\ Active'
    BY <1>5 DEF ReaderPut
  <2>2. num_full' = Queuings' - Taken'
    <3>1. Taken' = Taken
      BY <1>5 DEF ReaderPut
    <3>2. Queuings' = Queuings + 1
      BY <1>5 DEF ReaderPut
    <3>3. Queuings \in Int /\ Taken \in Int
      OBVIOUS
    <3>4. num_full = Queuings - Taken
      BY <2>1
    <3>5. QED
      BY <1>5, <3>1, <3>2, <3>3, <3>4 DEF ReaderPut
  <2>3. put_idx' = Ring(get_idx' + num_full', QSIZE)
    <3>1. /\ get_idx \in 0..QSIZE-1 /\ num_full \in 0..QSIZE-1
          /\ get_idx' = get_idx /\ num_full' = num_full + 1
      BY <1>5 DEF ReaderPut
    <3>2. put_idx = Ring(get_idx + num_full, QSIZE)
      BY <2>1
    <3>3. put_idx' = Wrap(put_idx + 1, QSIZE)
      BY <1>5 DEF ReaderPut
    <3> HIDE DEF Ring, Wrap, IInv
    <3>4. QED
      BY <3>1, <3>2, <3>3, PutRing
  <2>4. /\ pos' <= Blocks'[optind'] + 1
        /\ (Unqueued \/ reader = "advance")' => pos' >= 1
        /\ reader' \in {"fill", "filling"} => pos' <= Blocks[optind']
    BY <1>5, <2>1 DEF ReaderPut
  <2>5. QED
    BY <2>1, <2>2, <2>3, <2>4
<1>6. CASE ReaderAdvance
  BY <1>6 DEF ReaderAdvance
<1>7. CASE ReaderSpurious
  BY <1>7 DEF ReaderSpurious
<1>8. CASE ProcessorLock
  BY <1>8 DEF ProcessorLock
<1>9. CASE ProcessorWait
  BY <1>9 DEF ProcessorWait
<1>10. CASE ProcessorGet
  <2>1. Active /\ Active'
    BY <1>10 DEF ProcessorGet
  <2>2. num_full' = Queuings' - Taken'
    <3>1. Taken' = Taken + 1
      BY <1>10 DEF ProcessorGet
    <3>2. Queuings' = Queuings
      BY <1>10 DEF ProcessorGet
    <3>3. Queuings \in Int /\ Taken \in Int
      OBVIOUS
    <3>4. num_full = Queuings - Taken
      BY <2>1
    <3>5. num_full' = num_full - 1
      BY <1>10 DEF ProcessorGet
    <3> HIDE DEF IInv, Taken, Queuings
    <3>6. QED
      BY <3>1, <3>2, <3>3, <3>4, <3>5
  <2>3. put_idx' = Ring(get_idx' + num_full', QSIZE)
    BY <1>10, <2>1, SMTT(30) DEF ProcessorGet
  <2>4. /\ pos' <= Blocks'[optind'] + 1
        /\ (Unqueued \/ reader = "advance")' => pos' >= 1
        /\ reader' \in {"fill", "filling"} => pos' <= Blocks[optind']
    BY <1>10, <2>1 DEF ProcessorGet
  <2>5. QED
    BY <2>1, <2>2, <2>3, <2>4
<1>11. CASE ProcessorUpdate
  <2>1. Active /\ Active'
    BY <1>11 DEF ProcessorUpdate
  <2>2. num_full' = Queuings' - Taken'
    <3>1. buf[held] # 0 => Len(digest') = Len(digest) + 1
      BY <1>11, <2>1 DEF ProcessorUpdate, SlotsInv, Back, NextBuf
    <3>2. Taken' = Taken
      BY <1>11, <3>1 DEF ProcessorUpdate
    <3>3. Queuings' = Queuings
      BY <1>11 DEF ProcessorUpdate
    <3>4. num_full = Queuings - Taken
      BY <2>1
    <3>5. QED
      BY <1>11, <3>2, <3>3, <3>4 DEF ProcessorUpdate
  <2>3. put_idx' = Ring(get_idx' + num_full', QSIZE)
    BY <1>11, <2>1 DEF ProcessorUpdate
  <2>4. /\ pos' <= Blocks'[optind'] + 1
        /\ (Unqueued \/ reader = "advance")' => pos' >= 1
        /\ reader' \in {"fill", "filling"} => pos' <= Blocks[optind']
    BY <1>11, <2>1 DEF ProcessorUpdate
  <2>5. QED
    BY <2>1, <2>2, <2>3, <2>4
<1>12. CASE ProcessorSpurious
  BY <1>12 DEF ProcessorSpurious
<1>13. CASE MainStart
  BY <1>13 DEF MainStart
<1>14. CASE MainOpenFails
  BY <1>14 DEF MainOpenFails
<1>15. CASE MainNoContext
  BY <1>15 DEF MainNoContext
<1>16. CASE MainJoinReader
  BY <1>16 DEF MainJoinReader
<1>17. CASE MainPrint
  BY <1>17 DEF MainPrint
<1>18. CASE MainFinish
  BY <1>18 DEF MainFinish
<1>19. CASE UNCHANGED vars
  BY <1>19
<1>20. QED
  BY <1>1, <1>2, <1>3, <1>4, <1>5, <1>6, <1>7, <1>8, <1>9, <1>10, <1>11, <1>12, <1>13, <1>14, <1>15, <1>16, <1>17, <1>18, <1>19
     DEF Next, ReaderNext, ProcessorNext, MainNext, Exited


\* Walking back along the ring of buffers.
LEMMA BackFacts ==
  ASSUME NEW x \in 0..NUM_BUF-1, NEW d \in 0..NUM_BUF-1
  PROVE  /\ Back(x, d) \in 0..NUM_BUF-1
         /\ d > 0 => Back(x, d) # x
         /\ d < NUM_BUF-1 => Back(Wrap(x + 1, NUM_BUF), d + 1) = Back(x, d)
         /\ \A e \in 0..NUM_BUF-1 : Back(x, d) = Back(x, e) => d = e
  BY ConstantsAssumption DEF Back, Wrap, NUM_BUF

\* Walking along the queue.
LEMMA RingFacts ==
  ASSUME NEW g \in 0..QSIZE-1, NEW i \in 0..QSIZE-1
  PROVE  /\ Ring(g + i, QSIZE) \in 0..QSIZE-1
         /\ Ring(g, QSIZE) = g
         /\ i < QSIZE-1 => Ring(Wrap(g + 1, QSIZE) + i, QSIZE)
                             = Ring(g + (i + 1), QSIZE)
         /\ \A j \in 0..QSIZE-1 :
               Ring(g + i, QSIZE) = Ring(g + j, QSIZE) => i = j
  BY ConstantsAssumption DEF Ring, Wrap

\* The queued buffers are those before read_idx, walking backwards round the ring.
LEMMA SlotsStep == IInv /\ [Next]_vars => SlotsInv'
<1> SUFFICES ASSUME IInv, [Next]_vars PROVE SlotsInv'
  OBVIOUS
<1> USE ConstantsAssumption DEF vars, mainVars, queueVars, Signal, IInv, TypeOK, Active, PhaseInv, CountInv, SlotsInv, NextBuf
<1>1. CASE ReaderStartRead
  BY <1>1 DEF ReaderStartRead
<1>2. CASE ReaderEndRead
  BY <1>2 DEF ReaderEndRead
<1>3. CASE ReaderLock
  BY <1>3 DEF ReaderLock
<1>4. CASE ReaderWait
  BY <1>4 DEF ReaderWait
<1>5. CASE ReaderPut
  <2>1. /\ Active /\ Active'
        /\ NextBuf = read_idx /\ NextBuf' = Wrap(read_idx + 1, NUM_BUF)
        /\ num_full' = num_full + 1 /\ num_full < QSIZE
        /\ get_idx' = get_idx /\ put_idx = Ring(get_idx + num_full, QSIZE)
        /\ slots' = [slots EXCEPT ![put_idx] = read_idx]
        /\ held' = held /\ (processor' = "hold" => processor = "hold")
        /\ read_idx \in 0..NUM_BUF-1 /\ get_idx \in 0..QSIZE-1
        /\ num_full \in 0..QSIZE-1
        /\ slots \in [0..QSIZE-1 -> 0..NUM_BUF-1 \cup {NoBuf}]
    BY <1>5 DEF ReaderPut
  <2>2. NUM_BUF = QSIZE + 2 /\ QSIZE \in Nat
    BY DEF NUM_BUF
  <2>6. /\ \A i \in 0..num_full-1 :
              slots[Ring(get_idx + i, QSIZE)] = Back(read_idx, num_full - i)
        /\ processor = "hold" => held = Back(read_idx, num_full + 1)
    BY <2>1
  <2>7. SUFFICES /\ \A i \in 0..num_full'-1 :
                      slots'[Ring(get_idx' + i, QSIZE)]
                        = Back(NextBuf', num_full' - i)
                 /\ processor' = "hold" => held' = Back(NextBuf', num_full' + 1)
    OBVIOUS
  <2> HIDE DEF IInv, TypeOK, PhaseInv, CountInv, SlotsInv, NextBuf, Active
  <2>3. ASSUME NEW i \in 0..num_full'-1
        PROVE  slots'[Ring(get_idx' + i, QSIZE)] = Back(NextBuf', num_full' - i)
    <3>1. CASE i = num_full
      <4>1. Back(NextBuf', 1) = Back(read_idx, 0)
        BY <2>1, <2>2, BackFacts
      <4>2. Back(read_idx, 0) = read_idx
        BY <2>1 DEF Back
      <4>3. slots'[put_idx] = read_idx
        BY <2>1, RingFacts, ZenonT(30)
      <4>4. num_full' - i = 1 /\ Ring(get_idx' + i, QSIZE) = put_idx
        BY <2>1, <3>1
      <4>5. QED
        BY <4>1, <4>2, <4>3, <4>4
    <3>2. CASE i < num_full
      <4> DEFINE r == Ring(get_idx + i, QSIZE)
      <4>5. i \in 0..QSIZE-1 /\ i # num_full /\ i \in 0..num_full-1
        BY <2>1, <2>2, <3>2
      <4>1. r # put_idx /\ r \in 0..QSIZE-1
        <5>1. \A j \in 0..QSIZE-1 : r = Ring(get_idx + j, QSIZE) => i = j
          BY <2>1, <4>5, RingFacts
        <5>2. QED
          BY <2>1, <4>5, <5>1, RingFacts
      <4>2. slots'[r] = Back(read_idx, num_full - i)
        <5>1. slots'[r] = slots[r]
          BY <2>1, <4>1
        <5>2. QED
          BY <2>6, <4>5, <5>1
      <4>3. Back(NextBuf', (num_full - i) + 1) = Back(read_idx, num_full - i)
        BY <2>1, <2>2, <3>2, BackFacts
      <4>4. QED
        BY <2>1, <4>2, <4>3
    <3>3. QED
      BY <2>1, <3>1, <3>2
  <2>4. processor' = "hold" => held' = Back(NextBuf', num_full' + 1)
    <3>1. Back(NextBuf', (num_full + 1) + 1) = Back(read_idx, num_full + 1)
      BY <2>1, <2>2, BackFacts
    <3>2. QED
      BY <2>1, <2>6, <3>1
  <2>5. QED
    BY <2>3, <2>4
<1>6. CASE ReaderAdvance
  BY <1>6 DEF ReaderAdvance
<1>7. CASE ReaderSpurious
  BY <1>7 DEF ReaderSpurious
<1>8. CASE ProcessorLock
  BY <1>8 DEF ProcessorLock
<1>9. CASE ProcessorWait
  BY <1>9 DEF ProcessorWait
<1>10. CASE ProcessorGet
  <2>1. /\ Active /\ Active' /\ NextBuf' = NextBuf
        /\ num_full' = num_full - 1 /\ num_full \in 1..QSIZE
        /\ get_idx' = Wrap(get_idx + 1, QSIZE) /\ get_idx \in 0..QSIZE-1
        /\ slots' = slots /\ held' = slots[get_idx]
    BY <1>10 DEF ProcessorGet
  <2>5. \A i \in 0..num_full-1 :
           slots[Ring(get_idx + i, QSIZE)] = Back(NextBuf, num_full - i)
    BY <2>1
  <2>6. SUFFICES /\ \A i \in 0..num_full'-1 :
                      slots'[Ring(get_idx' + i, QSIZE)]
                        = Back(NextBuf', num_full' - i)
                 /\ processor' = "hold" => held' = Back(NextBuf', num_full' + 1)
    OBVIOUS
  <2> HIDE DEF IInv, TypeOK, PhaseInv, CountInv, SlotsInv, NextBuf, Active
  <2>2. held' = Back(NextBuf, num_full)
    <3>1. /\ 0 \in 0..num_full-1 /\ 0 \in 0..QSIZE-1
          /\ Ring(get_idx + 0, QSIZE) = get_idx
      BY <2>1, RingFacts
    <3>2. QED
      BY <2>1, <2>5, <3>1
  <2>3. ASSUME NEW i \in 0..num_full'-1
        PROVE  slots'[Ring(get_idx' + i, QSIZE)] = Back(NextBuf', num_full' - i)
    <3>0. i + 1 \in 0..num_full-1 /\ i \in 0..QSIZE-1 /\ i < QSIZE-1
          /\ num_full' - i = num_full - (i + 1)
      BY <2>1
    <3>1. Ring(get_idx' + i, QSIZE) = Ring(get_idx + (i + 1), QSIZE)
      BY <2>1, <3>0, RingFacts, ZenonT(30)
    <3>2. slots[Ring(get_idx + (i + 1), QSIZE)] = Back(NextBuf, num_full - (i + 1))
      BY <2>5, <3>0
    <3>3. QED
      BY <2>1, <3>0, <3>1, <3>2
  <2>4. QED
    BY <2>1, <2>2, <2>3
<1>11. CASE ProcessorUpdate
  BY <1>11 DEF ProcessorUpdate
<1>12. CASE ProcessorSpurious
  BY <1>12 DEF ProcessorSpurious
<1>13. CASE MainStart
  BY <1>13 DEF MainStart
<1>14. CASE MainOpenFails
  BY <1>14 DEF MainOpenFails
<1>15. CASE MainNoContext
  BY <1>15 DEF MainNoContext
<1>16. CASE MainJoinReader
  BY <1>16 DEF MainJoinReader
<1>17. CASE MainPrint
  BY <1>17 DEF MainPrint
<1>18. CASE MainFinish
  BY <1>18 DEF MainFinish
<1>19. CASE UNCHANGED vars
  BY <1>19
<1>20. QED
  BY <1>1, <1>2, <1>3, <1>4, <1>5, <1>6, <1>7, <1>8, <1>9, <1>10, <1>11, <1>12, <1>13, <1>14, <1>15, <1>16, <1>17, <1>18, <1>19
     DEF Next, ReaderNext, ProcessorNext, MainNext, Exited

\* Each queued buffer goes on to hold the block with its number.
LEMMA ContentStep == IInv /\ [Next]_vars => ContentInv'
<1> SUFFICES ASSUME IInv, [Next]_vars PROVE ContentInv'
  OBVIOUS
<1> USE ConstantsAssumption DEF vars, mainVars, queueVars, Signal, IInv, TypeOK, Active, PhaseInv, CountInv, SlotsInv, ContentInv, Content, Ended,
  Taken, Unqueued, NextBuf, Torn, NoBuf
<1>1. CASE ReaderStartRead
  <2>1. /\ NextBuf = read_idx /\ NextBuf' = read_idx
        /\ buf \in [0..NUM_BUF-1 -> Nat \cup {Torn}]
        /\ buf' = [buf EXCEPT ![read_idx] = Torn]
        /\ UNCHANGED <<pos, num_full, held, processor, digest, optind, main>>
        /\ read_idx \in 0..NUM_BUF-1
        /\ reader' = "filling" /\ reader = "fill"
    BY <1>1 DEF ReaderStartRead
  <2>2. NUM_BUF = QSIZE + 2 /\ QSIZE \in Nat /\ num_full \in 0..QSIZE
    BY DEF NUM_BUF
  <2>4. ASSUME NEW d \in 1..QSIZE+1
        PROVE  buf'[Back(read_idx, d)] = buf[Back(read_idx, d)]
    <3> HIDE DEF IInv, TypeOK, PhaseInv, CountInv, SlotsInv, ContentInv, NextBuf
    <3>1. d \in 0..NUM_BUF-1 /\ d > 0
      BY <2>2
    <3>2. Back(read_idx, d) # read_idx /\ Back(read_idx, d) \in 0..NUM_BUF-1
      BY <2>1, <3>1, BackFacts
    <3>3. QED
      BY <2>1, <3>2
  <2>5. \A i \in 0..num_full-1 : num_full - i \in 1..QSIZE+1
    BY <2>2
  <2>6. processor = "hold" /\ Active => buf'[held] = buf[held]
    <3>1. ASSUME processor = "hold", Active
          PROVE  held = Back(read_idx, num_full + 1) /\ held' = held
      BY <2>1, <3>1
    <3>2. num_full + 1 \in 1..QSIZE+1
      BY <2>2
    <3> HIDE DEF IInv, TypeOK, PhaseInv, CountInv, SlotsInv, ContentInv, NextBuf
    <3>3. QED
      BY <2>4, <3>1, <3>2
  <2>7. QED
    BY <2>1, <2>4, <2>5, <2>6, SMTT(30)
<1>2. CASE ReaderEndRead
  <2>1. /\ NextBuf = read_idx /\ NextBuf' = read_idx
        /\ buf \in [0..NUM_BUF-1 -> Nat \cup {Torn}]
        /\ buf' \in {[buf EXCEPT ![read_idx] = v] : v \in {pos + 1, 0}}
        /\ UNCHANGED <<read_idx, num_full, held, processor, digest, optind, main>>
        /\ read_idx \in 0..NUM_BUF-1
        /\ reader' = "lock" /\ reader = "filling" /\ pos' = pos + 1
    BY <1>2 DEF ReaderEndRead
  <2>2. NUM_BUF = QSIZE + 2 /\ QSIZE \in Nat /\ num_full \in 0..QSIZE
    BY DEF NUM_BUF
  <2>4. ASSUME NEW d \in 1..QSIZE+1
        PROVE  buf'[Back(read_idx, d)] = buf[Back(read_idx, d)]
    <3> HIDE DEF IInv, TypeOK, PhaseInv, CountInv, SlotsInv, ContentInv, NextBuf
    <3>1. d \in 0..NUM_BUF-1 /\ d > 0
      BY <2>2
    <3>2. Back(read_idx, d) # read_idx /\ Back(read_idx, d) \in 0..NUM_BUF-1
      BY <2>1, <3>1, BackFacts
    <3>3. QED
      BY <2>1, <3>2
  <2>5. \A i \in 0..num_full-1 : num_full - i \in 1..QSIZE+1
    BY <2>2
  <2>6. processor = "hold" /\ Active => buf'[held] = buf[held]
    <3>1. ASSUME processor = "hold", Active
          PROVE  held = Back(read_idx, num_full + 1) /\ held' = held
      BY <2>1, <3>1
    <3>2. num_full + 1 \in 1..QSIZE+1
      BY <2>2
    <3> HIDE DEF IInv, TypeOK, PhaseInv, CountInv, SlotsInv, ContentInv, NextBuf
    <3>3. QED
      BY <2>4, <3>1, <3>2
  <2>7. Active => Content(buf[read_idx], pos)'
    <3>1. ASSUME Active
          PROVE  /\ Blocks[optind] \in Nat /\ pos \in Nat
                 /\ pos <= Blocks[optind]
                 /\ \/ pos < Blocks[optind] /\ buf'[read_idx] = pos + 1
                    \/ /\ pos = Blocks[optind] \/ optind \in Failing
                       /\ buf'[read_idx] = 0
      BY <1>2, <3>1 DEF ReaderEndRead
    <3> HIDE DEF IInv, TypeOK, PhaseInv, CountInv, SlotsInv, ContentInv, NextBuf
    <3>2. QED
      BY <2>1, <3>1
  <2>8. Active => processor # "exit"
    BY <2>1
  <2>9. ASSUME Active, NEW i \in 0..num_full-1
        PROVE  /\ buf[Back(read_idx, num_full - i)] = Taken + i + 1
               /\ Taken + i + 1 <= Blocks[optind]
               /\ buf'[Back(read_idx, num_full - i)] = Taken + i + 1
               /\ Taken + i + 1 > 0
    <3>1. LET b == Back(NextBuf, num_full - i) IN
            Content(buf[b], Taken + i + 1) /\ buf[b] # 0
      BY <2>1, <2>9
    <3>2. buf[Back(read_idx, num_full - i)] = Taken + i + 1
          /\ Taken + i + 1 <= Blocks[optind] /\ Taken + i + 1 # 0
      BY <2>1, <3>1
    <3>3. Taken \in Nat /\ i \in Nat
      OBVIOUS
    <3> HIDE DEF IInv, TypeOK, PhaseInv, CountInv, SlotsInv, ContentInv, NextBuf, Taken
    <3>4. QED
      BY <2>4, <2>5, <3>2, <3>3
  <2>10. ASSUME Active, processor = "hold"
         PROVE  buf'[held] = Taken /\ Taken <= Blocks[optind] /\ Taken > 0
    BY <2>1, <2>6, <2>10
  <2>11. Taken' = Taken
    BY <2>1
  <2>12. QED
    BY <2>1, <2>7, <2>8, <2>9, <2>10, <2>11, ZenonT(30)
<1>3. CASE ReaderLock
  BY <1>3 DEF ReaderLock
<1>4. CASE ReaderWait
  BY <1>4 DEF ReaderWait
<1>5. CASE ReaderPut
  <2>1. /\ Active /\ Active'
        /\ NextBuf = read_idx /\ NextBuf' = Wrap(read_idx + 1, NUM_BUF)
        /\ num_full' = num_full + 1 /\ num_full \in 0..QSIZE-1
        /\ held' = held /\ processor' \in {processor, "lock"}
        /\ (processor' # processor => processor = "notempty")
        /\ read_idx \in 0..NUM_BUF-1
        /\ UNCHANGED <<buf, pos, digest, optind, read_idx>>
        /\ reader = "test" /\ reader' = "advance"
    BY <1>5 DEF ReaderPut
  <2>2. NUM_BUF = QSIZE + 2 /\ QSIZE \in Nat
    BY DEF NUM_BUF
  <2>3. Taken' = Taken /\ Ended' = Ended
    BY <2>1
  <2>4. num_full = pos - 1 - Taken
    BY <2>1 DEF Queuings
  <2>5. ASSUME NEW i \in 0..num_full'-1
        PROVE  LET b == Back(NextBuf', num_full' - i) IN
                 Content(buf[b], Taken + i + 1)
    <3>1. CASE i = num_full
      <4>1. Back(NextBuf', 1) = Back(read_idx, 0)
        BY <2>1, <2>2, BackFacts
      <4>2. Back(read_idx, 0) = read_idx
        BY <2>1 DEF Back
      <4>3. Content(buf[read_idx], pos)
        BY <2>1
      <4>4. num_full' - i = 1 /\ Taken + i + 1 = pos
        <5>1. Taken \in Nat /\ pos \in Nat
          OBVIOUS
        <5> HIDE DEF IInv, Taken
        <5>2. QED
          BY <2>1, <2>4, <3>1, <5>1
      <4> HIDE DEF Content, IInv, NextBuf, Taken
      <4>5. QED
        BY <4>1, <4>2, <4>3, <4>4
    <3>2. CASE i < num_full
      <4>1. Back(NextBuf', (num_full - i) + 1) = Back(read_idx, num_full - i)
        BY <2>1, <2>2, <3>2, BackFacts
      <4>2. i \in 0..num_full-1 /\ num_full' - i = (num_full - i) + 1
        BY <2>1, <3>2
      <4>3. Content(buf[Back(read_idx, num_full - i)], Taken + i + 1)
        BY <2>1, <4>2
      <4> HIDE DEF Content, IInv, NextBuf, Taken
      <4>4. QED
        BY <4>1, <4>2, <4>3
    <3>3. QED
      BY <2>1, <3>1, <3>2
  <2>6. QED
    BY <2>1, <2>3, <2>5, SMTT(30)
<1>6. CASE ReaderAdvance
  <2>1. /\ NextBuf' = NextBuf /\ reader = "advance" /\ read_idx \in 0..NUM_BUF-1
        /\ UNCHANGED <<buf, pos, digest, optind, num_full, held, processor, main>>
        /\ NextBuf = Wrap(read_idx + 1, NUM_BUF)
        /\ reader' = IF buf[read_idx] = 0 THEN "exit" ELSE "fill"
    BY <1>6 DEF ReaderAdvance
  <2>2. Taken' = Taken /\ Ended' = Ended /\ (Active' <=> Active)
    BY <2>1
  <2>3. Back(NextBuf, 1) = read_idx
    BY <2>1 DEF Back, Wrap, NUM_BUF
  <2>4. Active => num_full = pos - Taken
    BY <2>1 DEF Queuings
  <2>5. ASSUME Active, NEW i \in 0..num_full-1,
               buf[Back(NextBuf, num_full - i)] = 0
        PROVE  buf[read_idx] = 0
    <3>1. Taken + i + 1 = pos
      BY <2>5, SMTT(30)
    <3>2. num_full - i = 1
      BY <2>4, <2>5, <3>1, SMTT(30)
    <3>3. QED
      BY <2>3, <2>5, <3>2
  <2>6. ASSUME Active, processor = "hold", buf[held] = 0
        PROVE  buf[read_idx] = 0
    <3>1. Taken = pos
      BY <2>6
    <3>2. num_full + 1 = 1
      BY <2>4, <2>6, <3>1
    <3>3. QED
      BY <2>3, <2>6, <3>2
  <2>7. QED
    BY <2>1, <2>2, <2>5, <2>6
<1>7. CASE ReaderSpurious
  BY <1>7 DEF ReaderSpurious
<1>8. CASE ProcessorLock
  BY <1>8 DEF ProcessorLock
<1>9. CASE ProcessorWait
  BY <1>9 DEF ProcessorWait
<1>10. CASE ProcessorGet
  <2>1. /\ Active /\ Active' /\ NextBuf' = NextBuf
        /\ num_full' = num_full - 1 /\ num_full \in 1..QSIZE
        /\ get_idx \in 0..QSIZE-1 /\ held' = slots[get_idx]
        /\ processor = "test" /\ processor' = "hold"
        /\ reader' \in {reader, "lock"}
        /\ (reader' # reader => reader = "notfull")
        /\ UNCHANGED <<buf, pos, digest, optind, read_idx>>
    BY <1>10 DEF ProcessorGet
  <2>2. held' = Back(NextBuf, num_full)
    <3>1. \A i \in 0..num_full-1 :
             slots[Ring(get_idx + i, QSIZE)] = Back(NextBuf, num_full - i)
      BY <2>1
    <3> HIDE DEF IInv, TypeOK, PhaseInv, CountInv, SlotsInv, ContentInv, NextBuf
    <3>2. 0 \in 0..num_full-1 /\ Ring(get_idx + 0, QSIZE) = get_idx
      BY <2>1, RingFacts
    <3>3. QED
      BY <2>1, <3>1, <3>2
  <2>3. Taken' = Taken + 1 /\ Ended' = Ended
    BY <2>1
  <2>4. Content(buf[held'], Taken + 1)
        /\ (buf[held'] = 0 => reader \in {"advance", "exit"})
    <3>1. 0 \in 0..num_full-1 /\ num_full - 0 = num_full
          /\ Taken + 0 + 1 = Taken + 1
      BY <2>1
    <3>2. \A i \in 0..num_full-1 :
             /\ Content(buf[Back(NextBuf, num_full - i)], Taken + i + 1)
             /\ buf[Back(NextBuf, num_full - i)] = 0
                  => reader \in {"advance", "exit"}
      BY <2>1
    <3> HIDE DEF Content, IInv, NextBuf, Taken
    <3>3. QED
      BY <2>2, <3>1, <3>2
  <2>5. ASSUME NEW i \in 0..num_full'-1
        PROVE  LET b == Back(NextBuf, num_full' - i) IN
                 /\ Content(buf[b], (Taken + 1) + i + 1)
                 /\ buf[b] = 0 => reader \in {"advance", "exit"}
    <3>1. i + 1 \in 0..num_full-1 /\ num_full' - i = num_full - (i + 1)
      BY <2>1
    <3>2. Taken + (i + 1) + 1 = (Taken + 1) + i + 1
      <4>1. Taken \in Nat
        OBVIOUS
      <4> HIDE DEF IInv, Taken
      <4>2. QED
        BY <2>1, <4>1
    <3>3. \A k \in 0..num_full-1 :
             /\ Content(buf[Back(NextBuf, num_full - k)], Taken + k + 1)
             /\ buf[Back(NextBuf, num_full - k)] = 0
                  => reader \in {"advance", "exit"}
      BY <2>1
    <3> HIDE DEF Content, IInv, NextBuf, Taken
    <3>4. QED
      BY <3>1, <3>2, <3>3
  <2>6. QED
    BY <2>1, <2>3, <2>4, <2>5
<1>11. CASE ProcessorUpdate
  <2>1. /\ Active /\ Active' /\ NextBuf' = NextBuf /\ processor = "hold"
        /\ held = Back(NextBuf, num_full + 1)
        /\ Content(buf[held], Taken)
        /\ UNCHANGED <<buf, pos, optind, read_idx, num_full, reader>>
        /\ read_idx \in 0..NUM_BUF-1
    BY <1>11 DEF ProcessorUpdate
  <2>2. Ended' = Ended
    BY <2>1
  <2>3. CASE buf[held] # 0
    <3>1. processor' = "lock" /\ Len(digest') = Len(digest) + 1
      BY <1>11, <2>1, <2>3 DEF ProcessorUpdate
    <3>2. Taken' = Taken
      BY <2>1, <3>1
    <3>3. QED
      BY <2>1, <2>2, <3>1, <3>2
  <2>4. CASE buf[held] = 0
    <3>1. processor' = "exit" /\ digest' = digest
      BY <1>11, <2>4 DEF ProcessorUpdate
    <3>2. Taken' = Taken
      BY <2>1, <3>1
    <3>3. Taken = pos /\ Ended /\ reader \in {"advance", "exit"}
      BY <2>1, <2>4
    <3>4. num_full = 0
      BY <2>1, <3>3, SMTT(30) DEF Queuings
    <3>5. reader = "advance" => Back(NextBuf, 1) = read_idx
      BY <2>1 DEF Back, Wrap, NUM_BUF
    <3>6. reader = "advance" => buf[read_idx] = 0
      BY <2>1, <2>4, <3>4, <3>5
    <3>7. QED
      BY <2>1, <2>2, <3>1, <3>2, <3>3, <3>4, <3>6
  <2>5. QED
    BY <2>3, <2>4
<1>12. CASE ProcessorSpurious
  BY <1>12 DEF ProcessorSpurious
<1>13. CASE MainStart
  BY <1>13 DEF MainStart
<1>14. CASE MainOpenFails
  BY <1>14 DEF MainOpenFails
<1>15. CASE MainNoContext
  BY <1>15 DEF MainNoContext
<1>16. CASE MainJoinReader
  BY <1>16 DEF MainJoinReader
<1>17. CASE MainPrint
  BY <1>17 DEF MainPrint
<1>18. CASE MainFinish
  BY <1>18 DEF MainFinish
<1>19. CASE UNCHANGED vars
  BY <1>19
<1>20. QED
  BY <1>1, <1>2, <1>3, <1>4, <1>5, <1>6, <1>7, <1>8, <1>9, <1>10, <1>11, <1>12, <1>13, <1>14, <1>15, <1>16, <1>17, <1>18, <1>19
     DEF Next, ReaderNext, ProcessorNext, MainNext, Exited

\* Every variable keeps its type.
LEMMA TypeStep == IInv /\ [Next]_vars => TypeOK'
<1> SUFFICES ASSUME IInv, [Next]_vars PROVE TypeOK'
  OBVIOUS
<1> USE ConstantsAssumption DEF vars, mainVars, queueVars, Signal, IInv, TypeOK, Active, PhaseInv, CountInv, SlotsInv, ContentInv, Wrap, Content,
  Files, NUM_BUF, Torn, NoBuf
<1>1. CASE ReaderStartRead
  BY <1>1 DEF ReaderStartRead
<1>2. CASE ReaderEndRead
  <2>1. pos \in Nat /\ pos' = pos + 1 /\ reader' = "lock"
        /\ buf' \in {[buf EXCEPT ![read_idx] = v] : v \in {pos + 1, 0}}
        /\ UNCHANGED <<mainVars, digest, read_idx, queueVars, mutex, processor,
                       held>>
    BY <1>2 DEF ReaderEndRead
  <2>2. buf' \in [0..NUM_BUF-1 -> Nat \cup {Torn}]
    <3>1. buf \in [0..NUM_BUF-1 -> Nat \cup {Torn}]
      OBVIOUS
    <3>2. PICK v \in {pos + 1, 0} : buf' = [buf EXCEPT ![read_idx] = v]
      BY <2>1
    <3>3. v \in Nat
      BY <2>1
    <3> HIDE DEF IInv, TypeOK, NUM_BUF, Torn
    <3>4. QED
      BY <3>1, <3>2, <3>3
  <2>3. QED
    BY <2>1, <2>2, SMTT(30)
<1>3. CASE ReaderLock
  BY <1>3 DEF ReaderLock
<1>4. CASE ReaderWait
  BY <1>4 DEF ReaderWait
<1>5. CASE ReaderPut
  BY <1>5, SMTT(30) DEF ReaderPut
<1>6. CASE ReaderAdvance
  <2>1. read_idx' \in 0..NUM_BUF-1 /\ reader' \in {"exit", "fill"}
    BY <1>6, SMTT(30) DEF ReaderAdvance
  <2>2. UNCHANGED <<mainVars, digest, pos, queueVars, buf, mutex, processor, held>>
    BY <1>6 DEF ReaderAdvance
  <2>3. QED
    BY <2>1, <2>2, ZenonT(30)
<1>7. CASE ReaderSpurious
  BY <1>7 DEF ReaderSpurious
<1>8. CASE ProcessorLock
  BY <1>8 DEF ProcessorLock
<1>9. CASE ProcessorWait
  BY <1>9 DEF ProcessorWait
<1>10. CASE ProcessorGet
  <2>1. /\ UNCHANGED <<mainVars, digest, pos, read_idx, put_idx, slots, buf>>
        /\ mutex' = "free" /\ processor' = "hold" /\ reader' \in {reader, "lock"}
        /\ num_full' \in 0..QSIZE
    BY <1>10 DEF ProcessorGet
  <2>2. get_idx' \in 0..QSIZE-1
    BY <1>10 DEF ProcessorGet
  <2>3. held' \in 0..NUM_BUF-1 \cup {NoBuf}
    BY <1>10 DEF ProcessorGet
  <2>4. QED
    BY <2>1, <2>2, <2>3
<1>11. CASE ProcessorUpdate
  <2>1. /\ UNCHANGED <<mainVars, pos, read_idx, queueVars, buf, mutex, reader>>
        /\ held' = NoBuf /\ processor' \in {"lock", "exit"}
    BY <1>11 DEF ProcessorUpdate
  <2>2. buf[held] \in Nat
    <3>1. Active /\ Content(buf[held], Taken)
      BY <1>11 DEF ProcessorUpdate
    <3>2. Taken \in Nat
      BY SMTT(30) DEF Taken
    <3> HIDE DEF IInv, TypeOK, ContentInv, SlotsInv, CountInv, Taken
    <3>3. QED
      BY <3>1, <3>2
  <2>3. digest' \in Seq(Nat)
    <3>1. digest \in Seq(Nat)
      OBVIOUS
    <3>2. digest' \in {digest, Append(digest, buf[held])}
      BY <1>11 DEF ProcessorUpdate
    <3> HIDE DEF IInv, TypeOK, ContentInv, SlotsInv, CountInv
    <3>3. Append(digest, buf[held]) \in Seq(Nat)
      BY <2>2, <3>1
    <3>4. QED
      BY <3>1, <3>2, <3>3
  <2>4. QED
    BY <2>1, <2>3
<1>12. CASE ProcessorSpurious
  BY <1>12 DEF ProcessorSpurious
<1>13. CASE MainStart
  BY <1>13 DEF MainStart
<1>14. CASE MainOpenFails
  BY <1>14 DEF MainOpenFails
<1>15. CASE MainNoContext
  BY <1>15 DEF MainNoContext
<1>16. CASE MainJoinReader
  BY <1>16 DEF MainJoinReader
<1>17. CASE MainPrint
  <2>1. /\ UNCHANGED <<status, digest, pos, read_idx, queueVars, buf, mutex, held>>
        /\ main' = "next" /\ reader' = "none" /\ processor' = "none"
        /\ optind \in Files /\ optind' = optind + 1
        /\ contexts >= 1 /\ contexts' = contexts - 1
    BY <1>17 DEF MainPrint
  <2>2. out' = Append(out, [file |-> optind, sum |-> digest])
    BY <1>17 DEF MainPrint
  <2>3. [file |-> optind, sum |-> digest] \in [file : Files, sum : Seq(Nat)]
    BY <2>1
  <2>4. out' \in Seq([file : Files, sum : Seq(Nat)])
    <3>1. out \in Seq([file : Files, sum : Seq(Nat)])
      OBVIOUS
    <3> HIDE DEF IInv, TypeOK, ContentInv, SlotsInv, CountInv, Files
    <3>2. QED
      BY <2>2, <2>3, <3>1
  <2>5. QED
    BY <2>1, <2>4, SMTT(30)
<1>18. CASE MainFinish
  BY <1>18 DEF MainFinish
<1>19. CASE UNCHANGED vars
  BY <1>19, SMTT(30)
<1>20. QED
  BY <1>1, <1>2, <1>3, <1>4, <1>5, <1>6, <1>7, <1>8, <1>9, <1>10, <1>11, <1>12, <1>13, <1>14, <1>15, <1>16, <1>17, <1>18, <1>19
     DEF Next, ReaderNext, ProcessorNext, MainNext, Exited

\* The context has been fed the blocks that were taken, in order.
LEMMA DigestStep == IInv /\ [Next]_vars => DigestInv'
<1> SUFFICES ASSUME IInv, [Next]_vars PROVE DigestInv'
  OBVIOUS
<1> USE ConstantsAssumption DEF vars, mainVars, queueVars, Signal, IInv, TypeOK, Active, PhaseInv, DigestInv
<1>1. CASE ReaderStartRead
  BY <1>1 DEF ReaderStartRead
<1>2. CASE ReaderEndRead
  BY <1>2 DEF ReaderEndRead
<1>3. CASE ReaderLock
  BY <1>3 DEF ReaderLock
<1>4. CASE ReaderWait
  BY <1>4 DEF ReaderWait
<1>5. CASE ReaderPut
  BY <1>5 DEF ReaderPut
<1>6. CASE ReaderAdvance
  BY <1>6 DEF ReaderAdvance
<1>7. CASE ReaderSpurious
  BY <1>7 DEF ReaderSpurious
<1>8. CASE ProcessorLock
  BY <1>8 DEF ProcessorLock
<1>9. CASE ProcessorWait
  BY <1>9 DEF ProcessorWait
<1>10. CASE ProcessorGet
  BY <1>10 DEF ProcessorGet
<1>11. CASE ProcessorUpdate
  <2>1. CASE buf[held] = 0
    BY <1>11, <2>1 DEF ProcessorUpdate
  <2>2. CASE buf[held] # 0
    <3>1. buf[held] = Len(digest) + 1 /\ Len(digest) + 1 <= Blocks[optind]
      BY <1>11, <2>2 DEF ProcessorUpdate, ContentInv, Content, Taken
    <3>2. digest' = Append(digest, Len(digest) + 1) /\ optind' = optind
      BY <1>11, <2>2, <3>1 DEF ProcessorUpdate
    <3>3. Active /\ Len(digest) \in Nat /\ digest = Lines!UpTo(Len(digest))
      BY <1>11 DEF ProcessorUpdate
    <3> HIDE DEF IInv, DigestInv
    <3>4. digest' = Lines!UpTo(Len(digest) + 1)
      BY <3>2, <3>3, AppendUpTo
    <3>5. Len(digest') = Len(digest) + 1
      BY <3>3, <3>4, AppendUpTo
    <3>6. digest' = Lines!UpTo(Len(digest')) /\ Len(digest') <= Blocks[optind']
      BY <3>1, <3>2, <3>4, <3>5
    <3>7. QED
      BY <3>6 DEF DigestInv, Lines!UpTo
  <2>3. QED
    BY <2>1, <2>2
<1>12. CASE ProcessorSpurious
  BY <1>12 DEF ProcessorSpurious
<1>13. CASE MainStart
  <2>1. digest' = << >> /\ optind' = optind /\ Blocks[optind] \in Nat
    BY <1>13 DEF MainStart, Files
  <2>2. Lines!UpTo(0) = << >>
    BY DEF Lines!UpTo
  <2>3. QED
    BY <2>1, <2>2
<1>14. CASE MainOpenFails
  BY <1>14 DEF MainOpenFails
<1>15. CASE MainNoContext
  BY <1>15 DEF MainNoContext
<1>16. CASE MainJoinReader
  BY <1>16 DEF MainJoinReader
<1>17. CASE MainPrint
  BY <1>17 DEF MainPrint
<1>18. CASE MainFinish
  BY <1>18 DEF MainFinish
<1>19. CASE UNCHANGED vars
  BY <1>19
<1>20. QED
  BY <1>1, <1>2, <1>3, <1>4, <1>5, <1>6, <1>7, <1>8, <1>9, <1>10, <1>11, <1>12, <1>13, <1>14, <1>15, <1>16, <1>17, <1>18, <1>19
     DEF Next, ReaderNext, ProcessorNext, MainNext, Exited

-----------------------------------------------------------------------------
\* IInv is an inductive invariant: it holds initially and every step of main(),
\* reader() or processor() keeps it.
THEOREM Invariance == Spec => []IInv
<1>1. Init => IInv
  BY ConstantsAssumption
     DEF Init, IInv, TypeOK, PhaseInv, MutexInv, SleepInv, CountInv, SlotsInv,
         ContentInv, DigestInv, Active, Files, NUM_BUF, NoBuf, Torn
<1>2. IInv /\ [Next]_vars => IInv'
  BY TypeStep, PhaseStep, MutexStep, SleepStep, CountStep, SlotsStep,
     ContentStep, DigestStep DEF IInv
<1>3. QED
  BY <1>1, <1>2, PTL DEF Spec

\* Every variable stays in its range: no index of the queue or of data[] leaves
\* its array.
THEOREM TypeCorrect == Spec => []TypeOK
  BY Invariance, PTL DEF IInv

\* QSIZE + 2 buffers are enough: fread() never writes a buffer that is queued
\* or being checksummed.
THEOREM ReaderNeverOverwrites == Spec => []NoOverwrite
<1>1. IInv => NoOverwrite
  <2> SUFFICES ASSUME IInv, reader = "filling" PROVE NoOverwrite
    BY DEF NoOverwrite
  <2>1. /\ Active /\ NextBuf = read_idx /\ read_idx \in 0..NUM_BUF-1
        /\ num_full \in 0..QSIZE /\ QSIZE \in Nat /\ get_idx \in 0..QSIZE-1
    BY ConstantsAssumption DEF IInv, TypeOK, PhaseInv, NextBuf
  <2>2. ASSUME NEW d \in 1..QSIZE+1 PROVE Back(read_idx, d) # read_idx
    <3>1. d \in 0..NUM_BUF-1
      BY <2>1 DEF NUM_BUF
    <3>2. QED
      BY <2>1, <2>2, <3>1, BackFacts
  <2>3. processor = "hold" => held # read_idx
    <3>1. processor = "hold" => held = Back(read_idx, num_full + 1)
      BY <2>1 DEF IInv, SlotsInv
    <3>2. QED
      BY <2>1, <2>2, <3>1
  <2>4. ASSUME NEW i \in 0..num_full-1
        PROVE  slots[Ring(get_idx + i, QSIZE)] # read_idx
    <3>1. slots[Ring(get_idx + i, QSIZE)] = Back(read_idx, num_full - i)
      BY <2>1 DEF IInv, SlotsInv
    <3>2. QED
      BY <2>1, <2>2, <3>1
  <2>6. ASSUME NEW q \in Queued PROVE slots[q] # read_idx
    <3>1. PICK i \in 0..num_full-1 :
             q = IF get_idx + i >= QSIZE THEN get_idx + i - QSIZE
                                         ELSE get_idx + i
      BY DEF Queued
    <3>2. q = Ring(get_idx + i, QSIZE)
      BY <2>1, <3>1 DEF Ring
    <3>3. QED
      BY <2>4, <3>2
  <2>7. QED
    BY <2>3, <2>6 DEF NoOverwrite
<1>2. QED
  BY <1>1, Invariance, PTL

\* The context has always been fed exactly the first blocks of the file.
THEOREM DigestsArePrefixes == Spec => []DigestIsPrefix
<1>1. IInv => DigestIsPrefix
  <2> SUFFICES ASSUME IInv, Active PROVE DigestIsPrefix
    BY DEF DigestIsPrefix, Active
  <2>1. Len(digest) \in Nat /\ digest = Lines!UpTo(Len(digest))
    BY DEF IInv, TypeOK, DigestInv
  <2>2. \A k \in 1..Len(digest) : digest[k] = k
    BY <2>1 DEF Lines!UpTo
  <2>3. QED
    BY <2>2 DEF DigestIsPrefix, IInv, DigestInv
<1>2. QED
  BY <1>1, Invariance, PTL

\* No wake-up is lost: the two threads never wait for each other.
THEOREM NoLostWakeup == Spec => []NotBothAsleep
<1>1. IInv => NotBothAsleep
  BY ConstantsAssumption DEF IInv, SleepInv, NotBothAsleep
<1>2. QED
  BY <1>1, Invariance, PTL

\* parallel-sums implements its promise: one line per file, in order, each with
\* the digest of the whole file, or of a prefix where reading fails.
THEOREM ImplementsLines == Spec => LinesSpec
<1>1. Init => Lines!Init
  BY DEF Init, Lines!Init
<1>2. ASSUME IInv, [Next]_vars PROVE [Lines!Emit]_out
  <2>1. CASE MainPrint
    <3>1. /\ Active /\ optind \in Files /\ Len(out) + 1 = optind
          /\ processor = "exit" /\ optind \in Nat /\ Len(digest) \in Nat
          /\ NumFiles \in Nat /\ Blocks[optind] \in Nat /\ pos \in Nat
      BY <1>2, <2>1, ConstantsAssumption
         DEF MainPrint, IInv, PhaseInv, TypeOK, Active, Files
    <3>2. out' = Append(out, [file |-> optind, sum |-> digest])
      BY <2>1 DEF MainPrint
    <3>3. digest = Lines!UpTo(Len(digest)) /\ Len(digest) <= Blocks[optind]
      BY <1>2, <3>1 DEF IInv, DigestInv
    <3>4. optind \in Failing \/ Len(digest) = Blocks[optind]
      <4>1. Taken = pos /\ Ended
        BY <1>2, <3>1 DEF IInv, ContentInv
      <4>2. QED
        BY <3>1, <4>1 DEF Taken, Ended
    <3>5. out' = Append(out, Lines!Line(optind, Len(digest)))
      BY <3>2, <3>3 DEF Lines!Line
    <3>6. Len(out) < NumFiles /\ Len(digest) \in 0..Blocks[optind]
      BY <3>1, <3>3 DEF Files
    <3>7. QED
      BY <3>1, <3>4, <3>5, <3>6 DEF Lines!Emit
  <2>2. CASE ~MainPrint
    BY <1>2, <2>2
       DEF Next, ReaderNext, ProcessorNext, MainNext, Exited, vars, mainVars,
           ReaderStartRead, ReaderEndRead, ReaderLock, ReaderWait, ReaderPut,
           ReaderAdvance, ReaderSpurious, ProcessorLock, ProcessorWait,
           ProcessorGet, ProcessorUpdate, ProcessorSpurious, MainStart,
           MainOpenFails, MainNoContext, MainJoinReader, MainFinish
  <2>3. QED
    BY <2>1, <2>2
<1>3. QED
  BY <1>1, <1>2, Invariance, PTL DEF Spec, LinesSpec, Lines!Spec
=============================================================================
