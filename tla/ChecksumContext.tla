-------------------------- MODULE ChecksumContext --------------------------
(***************************************************************************)
(* libjte/checksum.c built with THREADED_CHECKSUMS: one worker thread per  *)
(* enabled algorithm and the caller's thread, which hands every worker a   *)
(* pointer to the caller's own buffer and waits until all of them have     *)
(* consumed it.                                                            *)
(*                                                                         *)
(* The buffer itself is abstracted to its content: a Block, Empty for a    *)
(* buffer of length 0, or Reused once the call has returned and the caller *)
(* may have written something else there.  A digest is the sequence of     *)
(* buffer contents its algorithm consumed.  The sections under start_mutex *)
(* and done_mutex are single steps, because nothing in them touches the    *)
(* state another mutex guards; what the code does outside them (buf=NULL,  *)
(* reading len) are steps of their own.                                    *)
(***************************************************************************)
EXTENDS Integers, Sequences, FiniteSets

CONSTANTS NUM_CHECKSUMS,  \* entries of the algorithms table
          Enabled,        \* algorithms whose bit is in the "checksums" mask
          Block,          \* contents the caller passes to checksum_update()
          Empty,          \* the content of a buffer with len = 0
          Reused,         \* what the caller's buffer holds between calls
          NoDigest,       \* a digest that cannot be read
          MaxUpdates      \* bound: checksum_update() calls on the context

Algo == 0..NUM_CHECKSUMS-1

ASSUME ConstantsAssumption ==
  /\ NUM_CHECKSUMS \in Nat
  /\ Enabled \subseteq Algo
  /\ MaxUpdates \in Nat
  /\ Reused \notin Block

VARIABLES
  main,     \* where the caller's thread is
  i,        \* loop index over the algorithms
  data,     \* content of the caller's buffer
  running,  \* threads_running
  thread,   \* thread[a]: algo[a].thread is not 0
  worker,   \* worker[a]: where checksum_thread() of algorithm a is
  buf,      \* buf[a]: algo[a].buf is "null", the caller's "data" or "end" (-1)
  len,      \* len[a]: algo[a].len is 0 or not (1)
  cancel,   \* cancel[a]: pthread_cancel() was called on the worker
  digest,   \* digest[a]: what algorithm a consumed
  final,    \* final[a]: algo[a].finalised
  log       \* history: contents passed to the checksum_update()s that returned

vars == <<main, i, data, running, thread, worker, buf, len, cancel, digest,
          final, log>>
workerVars == <<worker, buf, len>>

\* Mutant: one thread too few is waited for.
threads_desiredShort == Cardinality(Enabled) - 1

threads_desired == Cardinality(Enabled)

Init ==
  /\ main = "new" /\ i = 0 /\ data = Reused /\ running = 0
  /\ thread = [a \in Algo |-> FALSE] /\ worker = [a \in Algo |-> "none"]
  /\ buf = [a \in Algo |-> "null"] /\ len = [a \in Algo |-> 0]
  /\ cancel = [a \in Algo |-> FALSE]
  /\ digest = [a \in Algo |-> << >>] /\ final = [a \in Algo |-> FALSE]
  /\ log = << >>
-----------------------------------------------------------------------------
(* checksum_thread(). *)

\* Nothing to do yet: pthread_cond_wait(start_cv).
WorkerSleep(a) ==
  /\ worker[a] = "test" /\ buf[a] = "null"
  /\ worker' = [worker EXCEPT ![a] = "asleep"]
  /\ UNCHANGED <<main, i, data, running, thread, buf, len, cancel, digest,
                 final, log>>

\* There is a buffer: leave the loop and start_mutex.
WorkerGo(a) ==
  /\ worker[a] = "test" /\ buf[a] # "null"
  /\ worker' = [worker EXCEPT ![a] = "got"]
  /\ UNCHANGED <<main, i, data, running, thread, buf, len, cancel, digest,
                 final, log>>

\* A zero length means "done": the thread ends, without counting down.
WorkerExit(a) ==
  /\ worker[a] = "got" /\ len[a] = 0
  /\ worker' = [worker EXCEPT ![a] = "exit"]
  /\ UNCHANGED <<main, i, data, running, thread, buf, len, cancel, digest,
                 final, log>>

\* algorithms[].update() reads the caller's buffer.
WorkerSum(a) ==
  /\ worker[a] = "got" /\ len[a] # 0
  /\ digest' = [digest EXCEPT ![a] = Append(@, data)]
  /\ worker' = [worker EXCEPT ![a] = "summed"]
  /\ UNCHANGED <<main, i, data, running, thread, buf, len, cancel, final, log>>

\* a->buf = NULL, with no mutex held.
WorkerClear(a) ==
  /\ worker[a] = "summed"
  /\ buf' = [buf EXCEPT ![a] = "null"]
  /\ worker' = [worker EXCEPT ![a] = "count"]
  /\ UNCHANGED <<main, i, data, running, thread, len, cancel, digest, final,
                 log>>

\* threads_running--, and the last one signals done_cv.
WorkerCount(a) ==
  /\ worker[a] = "count"
  /\ running' = running - 1
  /\ main' = IF running' = 0 /\ main = "asleep" THEN "wait" ELSE main
  /\ worker' = [worker EXCEPT ![a] = "test"]
  /\ UNCHANGED <<i, data, thread, buf, len, cancel, digest, final, log>>

\* A cancelled worker ends in pthread_cond_wait(), a cancellation point.
WorkerCancelled(a) ==
  /\ worker[a] = "asleep" /\ cancel[a]
  /\ worker' = [worker EXCEPT ![a] = "exit"]
  /\ UNCHANGED <<main, i, data, running, thread, buf, len, cancel, digest,
                 final, log>>

\* pthread_cond_wait() may return without a signal.
WorkerSpurious(a) ==
  /\ worker[a] = "asleep" /\ ~cancel[a]
  /\ worker' = [worker EXCEPT ![a] = "test"]
  /\ UNCHANGED <<main, i, data, running, thread, buf, len, cancel, digest,
                 final, log>>
-----------------------------------------------------------------------------
(* checksum_init_context(). *)

InitContext ==
  /\ main = "new" /\ main' = "create" /\ i' = 0
  /\ UNCHANGED <<data, running, thread, workerVars, cancel, digest, final, log>>

\* The context itself cannot be allocated: NULL is returned.
InitNoMemory ==
  /\ main = "new" /\ main' = "freed"
  /\ UNCHANGED <<i, data, running, thread, workerVars, cancel, digest, final,
                 log>>

InitSkip ==
  /\ main = "create" /\ i < NUM_CHECKSUMS /\ i \notin Enabled
  /\ i' = i + 1
  /\ UNCHANGED <<main, data, running, thread, workerVars, cancel, digest, final,
                 log>>

InitThread ==
  /\ main = "create" /\ i \in Enabled
  /\ thread' = [thread EXCEPT ![i] = TRUE]
  /\ worker' = [worker EXCEPT ![i] = "test"]
  /\ i' = i + 1
  /\ UNCHANGED <<main, data, running, buf, len, cancel, digest, final, log>>

\* A malloc() fails, or pthread_create() does; a failed pthread_create() may
\* or may not have written algo[i].thread.
InitFails ==
  /\ main = "create" /\ i \in Enabled
  /\ \E written \in BOOLEAN : thread' = [thread EXCEPT ![i] = written]
  /\ main' = "free" /\ i' = 0
  /\ UNCHANGED <<data, running, workerVars, cancel, digest, final, log>>

InitDone ==
  /\ main = "create" /\ i = NUM_CHECKSUMS
  /\ main' = "idle"
  /\ UNCHANGED <<i, data, running, thread, workerVars, cancel, digest, final,
                 log>>
-----------------------------------------------------------------------------
(* checksum_update(). *)

Update ==
  /\ main = "idle" /\ Len(log) < MaxUpdates
  /\ data' \in Block
  /\ running' = threads_desired
  /\ i' = 0 /\ main' = "update"
  /\ UNCHANGED <<thread, workerVars, cancel, digest, final, log>>

\* Mutant: start_cv is not signalled.
WakeLost(p) == p

\* Under start_mutex: hand algorithm i the buffer and signal start_cv.
Wake(p) == IF p = "asleep" THEN "test" ELSE p

UpdateDispatch ==
  /\ main = "update" /\ i < NUM_CHECKSUMS
  /\ IF i \in Enabled
       THEN /\ len' = [len EXCEPT ![i] = IF data = Empty THEN 0 ELSE 1]
            /\ buf' = [buf EXCEPT ![i] = "data"]
            /\ worker' = [worker EXCEPT ![i] = Wake(@)]
       ELSE UNCHANGED workerVars
  /\ i' = i + 1
  /\ UNCHANGED <<main, data, running, thread, cancel, digest, final, log>>

UpdateDispatched ==
  /\ main = "update" /\ i = NUM_CHECKSUMS
  /\ main' = "wait"
  /\ UNCHANGED <<i, data, running, thread, workerVars, cancel, digest, final,
                 log>>

\* Under done_mutex: sleep on done_cv while a worker still runs ...
UpdateWait ==
  /\ main = "wait" /\ running > 0
  /\ main' = "asleep"
  /\ UNCHANGED <<i, data, running, thread, workerVars, cancel, digest, final,
                 log>>

UpdateSpurious ==
  /\ main = "asleep" /\ main' = "wait"
  /\ UNCHANGED <<i, data, running, thread, workerVars, cancel, digest, final,
                 log>>

\* Mutant: the last worker is not waited for.
UpdateReturnEarly ==
  /\ main = "wait" /\ running <= 1
  /\ log' = Append(log, data) /\ data' = Reused /\ main' = "idle"
  /\ UNCHANGED <<i, running, thread, workerVars, cancel, digest, final>>

\* ... and return to the caller, who may reuse the buffer.
UpdateReturn ==
  /\ main = "wait" /\ running = 0
  /\ log' = Append(log, data)
  /\ data' = Reused
  /\ main' = "idle"
  /\ UNCHANGED <<i, running, thread, workerVars, cancel, digest, final>>
-----------------------------------------------------------------------------
(* checksum_final(). *)

Final ==
  /\ main = "idle"
  /\ running' = threads_desired
  /\ i' = 0 /\ main' = "final"
  /\ UNCHANGED <<data, thread, workerVars, cancel, digest, final, log>>

FinalStop ==
  /\ main = "final" /\ i \in Enabled
  /\ len' = [len EXCEPT ![i] = 0]
  /\ buf' = [buf EXCEPT ![i] = "end"]
  /\ worker' = [worker EXCEPT ![i] = Wake(@)]
  /\ main' = "join"
  /\ UNCHANGED <<i, data, running, thread, cancel, digest, final, log>>

FinalSkip ==
  /\ main = "final" /\ i < NUM_CHECKSUMS /\ i \notin Enabled
  /\ i' = i + 1
  /\ UNCHANGED <<main, data, running, thread, workerVars, cancel, digest, final,
                 log>>

FinalJoin ==
  /\ main = "join" /\ worker[i] = "exit"
  /\ thread' = [thread EXCEPT ![i] = FALSE]
  /\ i' = i + 1 /\ main' = "final"
  /\ UNCHANGED <<data, running, workerVars, cancel, digest, final, log>>

\* The second loop: every enabled digest is finished and dumped.
FinalDone ==
  /\ main = "final" /\ i = NUM_CHECKSUMS
  /\ final' = [a \in Algo |-> a \in Enabled]
  /\ main' = "finalised"
  /\ UNCHANGED <<i, data, running, thread, workerVars, cancel, digest, log>>
-----------------------------------------------------------------------------
(* checksum_free_context(). *)

Free ==
  /\ main \in {"idle", "finalised"}
  /\ main' = "free" /\ i' = 0
  /\ UNCHANGED <<data, running, thread, workerVars, cancel, digest, final, log>>

\* Mutant: threads are left alone.
FreeSkipAll ==
  /\ main = "free" /\ i < NUM_CHECKSUMS
  /\ i' = i + 1
  /\ UNCHANGED <<main, data, running, thread, workerVars, cancel, digest, final,
                 log>>

FreeSkip ==
  /\ main = "free" /\ i < NUM_CHECKSUMS /\ ~thread[i]
  /\ i' = i + 1
  /\ UNCHANGED <<main, data, running, thread, workerVars, cancel, digest, final,
                 log>>

FreeCancel ==
  /\ main = "free" /\ i < NUM_CHECKSUMS /\ thread[i] /\ worker[i] # "none"
  /\ cancel' = [cancel EXCEPT ![i] = TRUE]
  /\ main' = "free_join"
  /\ UNCHANGED <<i, data, running, thread, workerVars, digest, final, log>>

\* The handle a failed pthread_create() left behind names no thread:
\* pthread_cancel() on it is undefined.
FreeCrash ==
  /\ main = "free" /\ i < NUM_CHECKSUMS /\ thread[i] /\ worker[i] = "none"
  /\ main' = "crashed"
  /\ UNCHANGED <<i, data, running, thread, workerVars, cancel, digest, final,
                 log>>

FreeJoin ==
  /\ main = "free_join" /\ worker[i] = "exit"
  /\ thread' = [thread EXCEPT ![i] = FALSE]
  /\ i' = i + 1 /\ main' = "free"
  /\ UNCHANGED <<data, running, workerVars, cancel, digest, final, log>>

Freed ==
  /\ main = "free" /\ i = NUM_CHECKSUMS
  /\ main' = "freed" /\ log' = << >>
  /\ UNCHANGED <<i, data, running, thread, workerVars, cancel, digest, final>>
-----------------------------------------------------------------------------
MainNext ==
  \/ InitContext \/ InitNoMemory \/ InitSkip \/ InitThread \/ InitFails
  \/ InitDone \/ Update \/ UpdateDispatch \/ UpdateDispatched \/ UpdateWait
  \/ UpdateReturn \/ Final \/ FinalStop \/ FinalSkip \/ FinalJoin \/ FinalDone
  \/ Free \/ FreeSkip \/ FreeCancel \/ FreeCrash \/ FreeJoin \/ Freed

WorkerNext(a) == \/ WorkerSleep(a) \/ WorkerGo(a) \/ WorkerExit(a)
                 \/ WorkerSum(a) \/ WorkerClear(a) \/ WorkerCount(a)
                 \/ WorkerCancelled(a)

\* The context is gone, or the process is.
Ended == main \in {"freed", "crashed"} /\ UNCHANGED vars

Next == \/ MainNext \/ UpdateSpurious \/ Ended
        \/ \E a \in Algo : WorkerNext(a) \/ WorkerSpurious(a)

Spec == Init /\ [][Next]_vars

\* The scheduler runs every thread that can run; the caller need not make
\* another call, but it does not stop inside one.
InCall == main \notin {"new", "idle", "finalised"}
FairSpec == /\ Spec
            /\ WF_vars(InCall /\ MainNext)
            /\ \A a \in Algo : SF_vars(WorkerNext(a))
-----------------------------------------------------------------------------
(* Properties. *)

TypeOK ==
  /\ main \in {"new", "create", "idle", "update", "wait", "asleep", "final",
               "join", "finalised", "free", "free_join", "freed", "crashed"}
  /\ i \in 0..NUM_CHECKSUMS
  /\ data \in Block \cup {Reused}
  /\ running \in 0..threads_desired
  /\ thread \in [Algo -> BOOLEAN]
  /\ worker \in [Algo -> {"none", "test", "asleep", "got", "summed", "count",
                          "exit"}]
  /\ buf \in [Algo -> {"null", "data", "end"}]
  /\ len \in [Algo -> {0, 1}]
  /\ cancel \in [Algo -> BOOLEAN]
  /\ digest \in [Algo -> Seq(Block \cup {Reused})]
  /\ final \in [Algo -> BOOLEAN]
  /\ log \in Seq(Block)

\* A worker reads the caller's buffer only while the checksum_update() that
\* passed it has not returned: nobody computes on a buffer the caller reuses.
BufferStable ==
  \A a \in Algo : worker[a] = "got" /\ len[a] # 0 => data # Reused

\* Between calls all digests have consumed exactly the same input.
DigestsAgree ==
  main \in {"idle", "finalised"} => \A a \in Enabled : digest[a] = log

\* checksum_hex(): the digest, or NULL before checksum_final().
Hex(a) == IF final[a] THEN digest[a] ELSE NoDigest

\* The context behaves as a log that every digest reads in full.
Log == INSTANCE DigestLog WITH
         Algorithms <- Enabled, Block <- Block, NoDigest <- NoDigest,
         log <- log,
         hex <- [a \in Enabled |-> IF main = "freed" THEN NoDigest ELSE Hex(a)]
LogSpec == Log!Spec

\* No worker outlives its context: the threads of a context that was freed,
\* or whose creation failed half-way, have all ended (checksum.c:318-342).
NoThreadLeaked ==
  main = "freed" => \A a \in Algo : worker[a] \in {"none", "exit"}

\* Every call on a context returns (or the process has crashed).
CallsReturn ==
  InCall ~> main \in {"idle", "finalised", "freed", "crashed"}
============================================================================
