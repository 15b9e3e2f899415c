---------------------------- MODULE ParallelSums ----------------------------
(***************************************************************************)
(* parallel-sums.c: main() works through its file arguments; for each one  *)
(* a reader thread fills a ring of NUM_BUF static buffers and queues them, *)
(* a processor thread takes them from the QSIZE-slot queue and feeds the   *)
(* checksum context.  A buffer holds the number of the block fread() put   *)
(* there, 0 for an empty read (the end marker) or Torn while fread() is    *)
(* writing it.  The context's digests are the sequence of blocks fed to    *)
(* it; ChecksumContext.tla models how the per-algorithm threads of one     *)
(* checksum_update() produce that.                                         *)
(***************************************************************************)
EXTENDS Integers, Sequences

CONSTANTS NumFiles,    \* argc - optind: the number of file arguments
          Blocks,      \* Blocks[f]: number of non-empty fread()s of file f
          Unopenable,  \* arguments that fopen() may refuse, at any attempt
          Failing,     \* arguments on which fread() may fail half-way
          QSIZE,       \* slots of the queue
          MaxContexts  \* contexts that exist before allocation fails

Files == 1..NumFiles

ASSUME ConstantsAssumption ==
  /\ NumFiles \in Nat
  /\ Blocks \in [Files -> Nat]
  /\ Unopenable \subseteq Files
  /\ Failing \subseteq Files
  /\ QSIZE \in Nat \ {0}
  /\ MaxContexts \in Nat \ {0}

\* Mutant: one buffer fewer.
NUM_BUFShort == QSIZE + 1

NUM_BUF == QSIZE + 2

Torn == -1
NoBuf == -1

VARIABLES
  main,      \* where main() is: "next", "join_reader", "join_processor", "exit"
  status,    \* exit status of main()
  optind,    \* the argument main() works on
  contexts,  \* checksum contexts (each with its threads) that are not freed
  out,       \* lines written to a checksum file
  digest,    \* blocks fed to the current context, in order
  pos,       \* fread()s that returned on queue.infile
  read_idx, put_idx, get_idx, num_full,
  slots,     \* queue.data: buffer indices
  buf,       \* data[]: what each buffer holds
  mutex,     \* holder of queue.mutex
  reader,    \* where reader() is
  processor, \* where processor() is
  held       \* buffer get_cb_data() returned to processor()

mainVars  == <<main, status, optind, contexts, out>>
queueVars == <<put_idx, get_idx, num_full, slots>>
vars == <<mainVars, digest, pos, read_idx, queueVars, buf, mutex, reader,
          processor, held>>

\* Mutant: the test for the end is off by one.
WrapLate(i, n) == IF i > n THEN 0 ELSE i

\* An index that runs off the end starts again at 0.
Wrap(i, n) == IF i >= n THEN 0 ELSE i

\* Mutant: nobody is woken.
SignalLost(thread, cv) == thread

\* pthread_cond_signal(cv): the thread, if it waits for cv, asks for the mutex.
Signal(thread, cv) == IF thread = cv THEN "lock" ELSE thread

Init ==
  /\ main = "next" /\ status = "none" /\ optind = 1 /\ contexts = 0
  /\ out = << >> /\ digest = << >> /\ pos = 0
  /\ read_idx = 0 /\ put_idx = 0 /\ get_idx = 0 /\ num_full = 0
  /\ slots = [i \in 0..QSIZE-1 |-> NoBuf]
  /\ buf = [i \in 0..NUM_BUF-1 |-> 0]
  /\ mutex = "free" /\ reader = "none" /\ processor = "none" /\ held = NoBuf
-----------------------------------------------------------------------------
(* The reader thread. *)

\* fread() starts to overwrite data[read_idx].
ReaderStartRead ==
  /\ reader = "fill"
  /\ buf' = [buf EXCEPT ![read_idx] = Torn]
  /\ reader' = "filling"
  /\ UNCHANGED <<mainVars, digest, pos, read_idx, queueVars, mutex, processor,
                 held>>

\* fread() returns the next block, or 0 bytes at the end of the file or on a
\* read error.
ReaderEndRead ==
  /\ reader = "filling"
  /\ pos' = pos + 1
  /\ \/ /\ pos < Blocks[optind]
        /\ buf' = [buf EXCEPT ![read_idx] = pos + 1]
     \/ /\ pos = Blocks[optind] \/ optind \in Failing
        /\ buf' = [buf EXCEPT ![read_idx] = 0]
  /\ reader' = "lock"
  /\ UNCHANGED <<mainVars, digest, read_idx, queueVars, mutex, processor, held>>

\* put_cb_data(): take the mutex.
ReaderLock ==
  /\ reader = "lock" /\ mutex = "free"
  /\ mutex' = "reader" /\ reader' = "test"
  /\ UNCHANGED <<mainVars, digest, pos, read_idx, queueVars, buf, processor,
                 held>>

\* The queue is full: pthread_cond_wait(notfull) releases the mutex.
ReaderWait ==
  /\ reader = "test" /\ num_full = QSIZE
  /\ mutex' = "free" /\ reader' = "notfull"
  /\ UNCHANGED <<mainVars, digest, pos, read_idx, queueVars, buf, processor,
                 held>>

\* Store the buffer, signal notempty, unlock.
ReaderPut ==
  /\ reader = "test" /\ num_full < QSIZE
  /\ slots' = [slots EXCEPT ![put_idx] = read_idx]
  /\ put_idx' = Wrap(put_idx + 1, QSIZE)
  /\ num_full' = num_full + 1
  /\ processor' = Signal(processor, "notempty")
  /\ mutex' = "free" /\ reader' = "advance"
  /\ UNCHANGED <<mainVars, digest, pos, read_idx, get_idx, buf, held>>

\* read_idx++; the thread returns after the buffer that held 0 bytes.
ReaderAdvance ==
  /\ reader = "advance"
  /\ read_idx' = Wrap(read_idx + 1, NUM_BUF)
  /\ reader' = IF buf[read_idx] = 0 THEN "exit" ELSE "fill"
  /\ UNCHANGED <<mainVars, digest, pos, queueVars, buf, mutex, processor, held>>

\* pthread_cond_wait() may return without a signal.
ReaderSpurious ==
  /\ reader = "notfull" /\ reader' = "lock"
  /\ UNCHANGED <<mainVars, digest, pos, read_idx, queueVars, buf, mutex,
                 processor, held>>
-----------------------------------------------------------------------------
(* The processor thread. *)

\* get_cb_data(): take the mutex.
ProcessorLock ==
  /\ processor = "lock" /\ mutex = "free"
  /\ mutex' = "processor" /\ processor' = "test"
  /\ UNCHANGED <<mainVars, digest, pos, read_idx, queueVars, buf, reader, held>>

ProcessorWait ==
  /\ processor = "test" /\ num_full = 0
  /\ mutex' = "free" /\ processor' = "notempty"
  /\ UNCHANGED <<mainVars, digest, pos, read_idx, queueVars, buf, reader, held>>

\* Take the oldest buffer, signal notfull, unlock.
ProcessorGet ==
  /\ processor = "test" /\ num_full > 0
  /\ held' = slots[get_idx]
  /\ get_idx' = Wrap(get_idx + 1, QSIZE)
  /\ num_full' = num_full - 1
  /\ reader' = Signal(reader, "notfull")
  /\ mutex' = "free" /\ processor' = "hold"
  /\ UNCHANGED <<mainVars, digest, pos, read_idx, put_idx, slots, buf>>

\* checksum_update() of the block, or return on an empty one.
ProcessorUpdate ==
  /\ processor = "hold"
  /\ IF buf[held] # 0
       THEN /\ digest' = Append(digest, buf[held])
            /\ processor' = "lock"
       ELSE /\ processor' = "exit"
            /\ UNCHANGED digest
  /\ held' = NoBuf
  /\ UNCHANGED <<mainVars, pos, read_idx, queueVars, buf, mutex, reader>>

ProcessorSpurious ==
  /\ processor = "notempty" /\ processor' = "lock"
  /\ UNCHANGED <<mainVars, digest, pos, read_idx, queueVars, buf, mutex, reader,
                 held>>
-----------------------------------------------------------------------------
(* main(). *)

\* checksum_init_context() and fopen() succeed: start the two threads.
MainStart ==
  /\ main = "next" /\ optind <= NumFiles /\ contexts < MaxContexts
  /\ contexts' = contexts + 1
  /\ digest' = << >> /\ pos' = 0
  /\ read_idx' = 0 /\ put_idx' = 0 /\ get_idx' = 0 /\ num_full' = 0
  /\ mutex' = "free"
  /\ reader' = "fill" /\ processor' = "lock" /\ main' = "join_reader"
  /\ UNCHANGED <<status, optind, out, slots, buf, held>>

\* fopen() fails: the context is not freed and optind does not move.
MainOpenFails ==
  /\ main = "next" /\ optind <= NumFiles /\ contexts < MaxContexts
  /\ optind \in Unopenable
  /\ contexts' = contexts + 1
  /\ UNCHANGED <<main, status, optind, out, digest, pos, read_idx, queueVars,
                 buf, mutex, reader, processor, held>>

\* checksum_init_context() fails: main() returns ENOMEM.
MainNoContext ==
  /\ main = "next" /\ optind <= NumFiles /\ contexts = MaxContexts
  /\ main' = "exit" /\ status' = "ENOMEM"
  /\ UNCHANGED <<optind, contexts, out, digest, pos, read_idx, queueVars, buf,
                 mutex, reader, processor, held>>

MainJoinReader ==
  /\ main = "join_reader" /\ reader = "exit"
  /\ main' = "join_processor"
  /\ UNCHANGED <<status, optind, contexts, out, digest, pos, read_idx,
                 queueVars, buf, mutex, reader, processor, held>>

\* Mutant: the processor is not joined.
MainPrintEarly ==
  /\ main = "join_processor"
  /\ out' = Append(out, [file |-> optind, sum |-> digest])
  /\ contexts' = contexts - 1 /\ optind' = optind + 1
  /\ reader' = "none" /\ processor' = "none" /\ main' = "next"
  /\ UNCHANGED <<status, digest, pos, read_idx, queueVars, buf, mutex, held>>

\* Join the processor, finish and print the digests, free the context.
MainPrint ==
  /\ main = "join_processor" /\ processor = "exit"
  /\ out' = Append(out, [file |-> optind, sum |-> digest])
  /\ contexts' = contexts - 1
  /\ optind' = optind + 1
  /\ reader' = "none" /\ processor' = "none" /\ main' = "next"
  /\ UNCHANGED <<status, digest, pos, read_idx, queueVars, buf, mutex, held>>

\* No argument is left: main() returns 0.
MainFinish ==
  /\ main = "next" /\ optind > NumFiles
  /\ main' = "exit" /\ status' = "ok"
  /\ UNCHANGED <<optind, contexts, out, digest, pos, read_idx, queueVars, buf,
                 mutex, reader, processor, held>>
-----------------------------------------------------------------------------
ReaderNext == \/ ReaderStartRead \/ ReaderEndRead \/ ReaderLock \/ ReaderWait
              \/ ReaderPut \/ ReaderAdvance

ProcessorNext == \/ ProcessorLock \/ ProcessorWait \/ ProcessorGet
                 \/ ProcessorUpdate

MainNext == \/ MainStart \/ MainOpenFails \/ MainNoContext \/ MainJoinReader
            \/ MainPrint \/ MainFinish

\* The process has exited.
Exited == main = "exit" /\ UNCHANGED vars

Next == \/ ReaderNext \/ ReaderSpurious \/ ProcessorNext \/ ProcessorSpurious
        \/ MainNext \/ Exited

Spec == Init /\ [][Next]_vars

\* Every thread that can run keeps running, and a contended mutex is granted
\* to a thread that keeps asking.  A spurious wake-up is never owed.
FairSpec == /\ Spec
            /\ SF_vars(ReaderNext) /\ SF_vars(ProcessorNext)
            /\ WF_vars(MainNext)
-----------------------------------------------------------------------------
(* Properties. *)

\* Every variable stays in its range.
TypeOK ==
  /\ main \in {"next", "join_reader", "join_processor", "exit"}
  /\ status \in {"none", "ok", "ENOMEM"}
  /\ optind \in 1..NumFiles+1
  /\ contexts \in 0..MaxContexts
  /\ out \in Seq([file : Files, sum : Seq(Nat)])
  /\ digest \in Seq(Nat)
  /\ pos \in Nat
  /\ read_idx \in 0..NUM_BUF-1
  /\ put_idx \in 0..QSIZE-1 /\ get_idx \in 0..QSIZE-1
  /\ num_full \in 0..QSIZE
  /\ slots \in [0..QSIZE-1 -> 0..NUM_BUF-1 \cup {NoBuf}]
  /\ buf \in [0..NUM_BUF-1 -> Nat \cup {Torn}]
  /\ mutex \in {"free", "reader", "processor"}
  /\ reader \in {"none", "fill", "filling", "lock", "test", "notfull",
                 "advance", "exit"}
  /\ processor \in {"none", "lock", "test", "notempty", "hold", "exit"}
  /\ held \in 0..NUM_BUF-1 \cup {NoBuf}

\* Positions of the queue that hold a buffer, oldest first.
Queued == {IF get_idx + i >= QSIZE THEN get_idx + i - QSIZE ELSE get_idx + i :
             i \in 0..num_full-1}

\* While fread() writes a buffer, that buffer is neither waiting in the queue
\* nor being checksummed: this is what the two extra buffers of
\* NUM_BUF == QSIZE + 2 are for (parallel-sums.c:40,47,125,128).
NoOverwrite ==
  reader = "filling" => /\ processor = "hold" => held # read_idx
                        /\ \A i \in Queued : slots[i] # read_idx

\* Whatever the interleaving, the context has been fed a prefix of the file's
\* blocks: none lost, repeated, reordered or torn (parallel-sums.c:142-160).
DigestIsPrefix ==
  main \in {"join_reader", "join_processor"} =>
    /\ Len(digest) <= Blocks[optind]
    /\ \A k \in 1..Len(digest) : digest[k] = k

\* The lines of the checksum file are those of ChecksumLines, whatever the
\* threads do in between.
Lines == INSTANCE ChecksumLines
LinesSpec == Lines!Spec

\* A reader that waits for room implies a full queue or a processor that is
\* about to signal; both threads never sleep at once (lost wake-up).
NotBothAsleep == ~(reader = "notfull" /\ processor = "notempty")

\* main() always returns, and every argument that stands before the first one
\* fopen() may refuse has its line by then: no wake-up is lost, no thread is
\* joined for ever, and an argument that is refused again and again ends in
\* ENOMEM, one context leaked per attempt (parallel-sums.c:260-300).
Reached(f) == \A g \in 1..f : g \notin Unopenable
AllFilesSummed ==
  <>(/\ main = "exit"
     /\ \A f \in Files : Reached(f) => f <= Len(out) /\ out[f].file = f)

\* "Calculate checksums for a set of files" (parallel-sums.c:169): when
\* main() returns, every argument that can be opened has its line.
EveryReadableFileSummed ==
  main = "exit" =>
    \A f \in Files \ Unopenable : \E l \in 1..Len(out) : out[l].file = f
=============================================================================
