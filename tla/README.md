# A verification development for jigit

jigit is a set of tools around jigdo ("Jigsaw Download"): an image is described
by a *template* (the bytes that occur in no file, and a list of extents) and a
*.jigdo* (which files to put in between). libjte writes both while an image is
being made, `jigit-mkimage` puts the image together again, `mkjigsnap` keeps the
files that published .jigdo files need, `parallel-sums` computes checksums of
files with several threads, and a handful of small tools look at the formats.

This directory holds TLA+ models of the parts where something can go wrong in
an order nobody wrote a test for, the TLC configurations that check them on
small instances, and proofs of their most important properties for all sizes.

## 1. Inventory

### parallel-sums (`src/parallel-sums.c`)

*State.* `queue`: a ring `data[QSIZE]` of pointers with `put_index`,
`get_index`, `num_full`, one mutex, the condition variables `notfull` and
`notempty`; `NUM_BUF = QSIZE + 2` static buffers; the checksum context of the
current file; `optind`.
*Operations.* `main()` loops over its arguments; for each it makes a context,
opens the file, starts `reader()` and `processor()`, joins both, prints one line
per algorithm. `reader()` fills buffers round robin and queues them
(`put_cb_data`), an empty one at the end; `processor()` takes them
(`get_cb_data`) and calls `checksum_update()`.
*Hard.* The buffers are never locked: only their number keeps `fread()` away
from a buffer that is queued or being checksummed. Two threads sleep on two
conditions. An argument that cannot be opened is not passed over.
*Correct when* no buffer is overwritten while in use, each digest sees the
blocks of its file once and in order, the threads never sleep at once, `main()`
returns with a line for each file.

### Threaded checksum context (`src/libjte/checksum.c`)

*State.* Per enabled algorithm: thread handle, `buf`, `len`, `start_mutex`,
`start_cv`, digest state, `finalised`; per context: `threads_running`,
`threads_desired`, `done_mutex`, `done_cv`.
*Operations.* `checksum_init_context()` starts a worker per algorithm,
`checksum_update()` hands the caller's own buffer to all of them and waits until
`threads_running` is 0, `checksum_final()` ends and joins them one by one,
`checksum_free_context()` cancels and joins what is left. Everything in libjte
and parallel-sums that computes a checksum goes through it.
*Hard.* The worker clears `buf` without the mutex; one miscounted thread and the
caller reuses a buffer that is still read, or waits for ever; creation may stop
half-way; a length of 0 is the order to stop.
*Correct when* it behaves as a log (`DigestLog`) that every digest reads in full.

### libjte template engine (`src/libjte/jte.c`, `src/libjte/libjte.c`)

*State.* The list of extents (`entry_list`) with `num_matches` and
`num_chunks`, the compression buffer `uncomp_buf`, the checksum of the image
(`iso_context`), that of the template, `image_size`, `include_in_jigdo`.
*Operations.* `libjte_write_header()`, then either the simplified API
(`libjte_begin_data_file()`, `libjte_show_data_chunk()`,
`libjte_end_data_file()`) or the traditional one (`libjte_decide_file_jigdo2()`,
`libjte_write_match_record2()`, `libjte_write_unmatched()`,
`libjte_set_image_size()`), then `libjte_write_footer()`. A file that is in the
checksum list becomes a match record; libjte reads it on its own for the
checksum of the image. All other bytes are compressed into the template.
*Hard.* The extents, the compressed stream and the checksum are three accounts
of one image and are kept up at different moments; each call may fail half-way
and several results are dropped.
*Correct when* the finished template, with the files it names, makes exactly the
image, and its checksum and lengths are those of the image.

### libjte configuration (`src/libjte/libjte.c`, parsers in `jte.c`)

*State.* The chosen algorithms and compression, the list of mappings, the
checksum list, what the header has fixed.
*Operations.* A setter for each, in any order, then the header, which reads the
checksum list and opens the contexts; the names of the matched files, mapped,
in [Parts] when the footer is written.
*Hard.* The setters interact; an enumeration is compared with an index; mappings
match in the order they were added; only the first line of the list is looked at
as a whole.
*Correct when* whatever is set, the image and the template get the checksums
asked for, only lines of the right kind enter the list, and every name in
[Parts] leads back to the file.

### jigit-mkimage (`src/mkimage.c`, `src/uncompress.c`)

*State.* The match list (`-m`), the MD5 and SHA256 lists of local files with
sizes known, `UNKNOWN` or `MISSING`; the position in the DESC part and in the
image; `zip_state`, the current uncompressed DATA part; the digests of image
and file; the list of missing files (`-M`).
*Operations.* Read `-f`/`-F` lists, resolve `[Parts]`, find and check the DESC
part, then one extent after the other: data from the decompressor, files from
the mirror, until the end or the end of the range.
*Hard.* Sizes and places are looked up long before the files are read, and the
mirror belongs to others; one variable `error` serves several error paths; `-M`,
`-s` and `-e` go through code written for whole images.
*Correct when* a success means that the image is right, that the range is one
unbroken piece of it, or that the files listed are exactly those missing.

### mkjigsnap (`src/mkjigsnap`)

*State.* On disk: the snapshot tree, the file of failures, in single-jigdo mode
the .jigdo, .template and .conf. In a run: `%ref` (checksums per file),
`%jigdo_backref`, `%file_list`, the sets of failed, ignored and wrong files.
*Operations.* Read all .jigdo files through zcat, hard-link what they need from
the mirrors, check it, list what is missing, delete what is in the tree and not
needed, write the three files.
*Hard.* It deletes on what it has read, and does not notice when it has read too
little; it may be interrupted anywhere; the next run starts from what is there;
the mirrors and the lists change meanwhile.
*Correct when* nothing needed is ever deleted, whatever is not there has been
reported to the right jigdos, the .conf comes last, and repeated runs arrive at
the right tree.

### jigdump (`src/jigdump.c`)

*State.* `offset` in the template, what the next bytes are taken for (`state`),
where the DESC part was met (`desc_offset`).
*Operations.* One pass: search the first DATA part in what is read first, then
print part after part, entry after entry, and compare the pointer at the end
with `desc_offset`. A file whose name does not end in `.template` is entered at
its DESC part.
*Hard.* It knows the lengths of the parts from a table of its own; a template
may have no DATA part or may have been left behind by an application that gave
up. For names without `.template` `desc_offset` stays 0, and a mismatch is
always reported.
*Correct when* each piece is shown once, at its offset.

### jigsum and jigsum-sha256 (`src/jigsum.c`, `src/jigsum-sha256.c`)

*State.* The argument, the line of a list, the file that is read, the errors so
far.
*Operations.* A line for each argument, or with `-c` a comparison of each line
of each list with the file it names.
*Hard.* Files are read in blocks while others write to them; the errors are
`errno` values and mismatches in one sum, which becomes the exit status.
*Correct when* `-c` notices what has changed and nothing else.

### extract-data (`src/extract-data.c`)

*State.* The offset of the next DATA part. *Operation.* Uncompress one part after
the other into one file until reading one fails. *Hard.* Any error is the end, and
what `fwrite()` returns is not looked at. *Correct when* the result is the
unmatched bytes of the image in their order.

### jigdo-gen-checksum-list (`src/libjte/bin/jigdo-gen-checksum-list`)

*State.* The argument, the file of a directory, what has been printed.
*Operations.* For each argument, or each regular file below one that is a
directory, it runs `md5sum` or `sha256sum` and prints the hexadecimal checksum, the
size and the path: a line as `-f` and `-F` of jigit-mkimage read it.
*Hard.* The files belong to others. The status of `md5sum | awk` is that of awk,
so `set -e` does not end the script when `md5sum` fails: the line has 32 blanks, in
which `hex_to_nibble()` (`mkimage.c:299`) sees zeros.
*Correct when* each line is true of a file that nobody has written to, or has the
checksum of no file.

### Smaller parts

The codecs (base64 with the letters jigdo uses, 48-bit little-endian lengths,
rsync64) and the digest functions, `demo.c`, the build files. `PROJECT.json` lists each with the reason why it is
not modelled.

### How they interact

    parallel-sums --> checksum context <-- libjte engine
                                              |
                             template, .jigdo +--> jigdump, extract-data
                                              |
    mkjigsnap --> mirror (shared with others) +--> jigit-mkimage --> image
                    |                         |
                    +--> jigdo-gen-checksum-list (hex, size, path)
                    |
                    +--> jigsum (base64, path) --> jigsum -c

The interfaces that carry promises are the checksum context (calls), the
template (a file format all sides count bytes in), the lists of checksums (made
from files at one time, used at another; there are two formats, which do not mix) and the mirror (files that change under
the reader).

## 2. Modules

| module | models | relation |
|---|---|---|
| `ParallelSums` | `parallel-sums.c`, three threads | implements `ChecksumLines` |
| `ChecksumLines` | what parallel-sums promises: one right line per file | abstract |
| `ParallelSumsProofs` | invariants and refinement, for all sizes | extends `ParallelSums` |
| `ChecksumContext` | `checksum.c`, one worker per algorithm | implements `DigestLog` |
| `DigestLog` | what a context promises: a log every digest reads | abstract |
| `ChecksumContextProofs` | invariants and refinement, for all sets of algorithms | extends `ChecksumContext` |
| `Jte` | the template engine and both APIs | |
| `JteProofs` | its invariants, for all sizes and call sequences | extends `Jte` |
| `JteConfig` | the setters, the checksum list and the names of libjte | |
| `JteConfigProofs` | its invariants, for all settings and lists | extends `JteConfig` |
| `MkImage` | jigit-mkimage and its decompressor | |
| `MkImageProofs` | its invariants, for all templates, mirrors and options | extends `MkImage` |
| `JigSum` | jigsum and jigsum-sha256, both modes | |
| `GenChecksumList` | jigdo-gen-checksum-list, which makes the lists for `-f` and `-F` | |
| `JigDump` | jigdump | |
| `ExtractData` | extract-data | |
| `RoundTrip` | the tools on one image and one mirror | composes `Jte`, `GenChecksumList`, `MkImage`, `JigSum`, `JigDump`, `ExtractData` |
| `RoundTripProofs` | what the tools achieve together, for all images and mirrors | extends `RoundTrip`, uses `JteProofs` and `MkImageProofs` |
| `MkJigSnap` | mkjigsnap, over many runs | |
| `MkJigSnapProofs` | invariants of any number of runs, for all sizes | extends `MkJigSnap` |
| `DataLemmas` | lemmas about numbers, sequences and functions defined step by step | |
| `MC...` | constants for TLC | |

**ParallelSums.** One action per lock, wait, signal and buffer access of
`reader()` and `processor()` and per step of `main()`. `fread()` is two steps
(the buffer is `Torn` in between), so that an overlap with `checksum_update()`
would be seen. A digest is the sequence of block numbers fed to the context.
`Unopenable` are arguments that `fopen()` may refuse at any attempt, `Failing`
those on which a read error may look like the end.

**ChecksumContext.** `main` is the caller inside or between calls; each worker
is at one of the places of `checksum_thread()`. Sections under a mutex are single
steps; what the code does outside (clearing `buf`, reading `len`) are steps of
their own. The caller's buffer is its content, or `Reused` after the call.

**Jte.** The state of the engine plus the application's position. A checksum is
the sequence of bytes it was computed from, compression is abstracted to its
input, `Chunk` are the payload pieces the application may write and `Content`
the files. The application is the one the documentation asks for: it stops at
the first call that reports a failure. A member of `Setups` is what one
execution is like: the API, the algorithm, the sector size, and what may go
wrong. Whether a chunk is buffered, flushes first or is flushed from directly,
and where a flush may fail, are operators of their own (`Flushed`, `DataUpto`,
`Stored`, `FlushFails`, `DirectFails`), so that they can be reasoned about.
`at` and `from` of an extent are history: where it lies in the image and in the
unmatched data.

**MkImage.** One action per entry of `[Parts]`, per extent, per piece that is
copied, so that `Rewrite` (another program changes a file in place, once per
run) may come in between. A checksum is `[alg, of]`: the MD5 and SHA256 variants
of every function differ in `alg` only, and are one here. The template is one
record, made up by `MCMkImage` or by `RoundTrip`. `errno` after a short
read is 0 or not, as the library leaves it. `dropped` is history, and so are the
fields of a template that say what it was made from: `image`, the unmatched data
`stream`, and where extents and DATA parts begin and end in them (`at`, `from`,
`ends`). `Describes` says with them what a template that libjte has finished is:
extents that follow each other, unmatched data that is where they say, an image
entry that comes last. The templates of the run are such; a damaged one differs
in `tail` and `corrupt`.

**JteConfig.** One action per setter and one for the header. Algorithms are
numbers, so that the index and the enumeration the code mixes up are different
numbers as they are there. A name is a sequence of pieces, so that the From of
a mapping can be a prefix of it. Setters are called before the header only, as
the documentation has it. Which files are left out by size or pattern belongs
to `Jte`.

**JigSum, JigDump, ExtractData.** One action per block that is read, per piece of
a template that is printed, per DATA part. A template is a sequence of pieces
with their lengths: jigdump's walk is arithmetic on offsets, and its table of
entry lengths is its own, as in the code.

**GenChecksumList.** One action per argument, per file and per block that
`md5sum` reads. `Below` is what `find -type f` meets in a directory; the order in which it
lists the files is left open. Paths are what the script makes of them, absolute or
not. `NoDigits` is the checksum that a line of blanks has for jigit-mkimage: `SumFails`
prints it, and the script goes on. An argument that is neither file nor directory
ends it (`Usage`).

**RoundTrip.** Variables of the six modules side by side, and `phase`, the tool
at work. `Finished` turns what `Jte` has written into what the readers see: the
pieces of the template, the entries of its DESC part as jigit-mkimage reads them,
the DATA parts. `Parts` is [Parts] of the .jigdo, `Listed` gives the output of
jigdo-gen-checksum-list to `jigit-mkimage -f`, `Rechecked` gives that of jigsum to
`jigsum -c`, `LeftBehind` gives jigdump the file an application has left when it gave
up. A DATA part that was not written completely makes itself and those behind it
unreadable. While jigdo-gen-checksum-list, jigsum or jigit-mkimage reads the mirror,
another program may rewrite a file of it.

A list is handed over as the sequence of its checksums and paths. That is what the
code does with it: the script prints 32 (64) hexadecimal digits, two blanks, the size in
12 columns, two blanks and the path (`jigdo-gen-checksum-list:89`, `104`), and
`parse_md5_entry()` (`parse_sha256_entry()`) takes the digits from column 0 and the path
from column 48 (80) and never looks at the size (`mkimage.c:337-364`, `419-446`;
`jigit-mkimage.1.in:38-57` describes the same). It would not be so for the output of
jigsum, 22 (43) letters of base64, two blanks and the path (`jigsum.c:268`):
`hex_to_nibble()` turns letters it does not know into 0 and the path begins in the middle
of the name or behind the end of the line. No step of the model gives such a list to
jigit-mkimage.

**MkJigSnap.** One action per jigdo that is read, per file that is linked, per
file that `find()` hands over, per file that is written. A run ends (`End`) and
another may start; `tree`, `faillog`, `published`, the mirrors and the lists are
what outlives it. Every fault - the process is killed, a mirror is updated, a
list is edited, a pipe, `link()`, `open()` or jigsum fails - takes one of
`MaxFaults`. `PublishCut` is the copy of the .jigdo that ends early: the loop cannot
tell an error of `gzreadline()` from the end, the results of `gzwrite()` and `close()` are
not looked at (`mkjigsnap:537-542`), and the run goes on to the .template and the .conf,
up to the message that all files are made. Mirrors replace files and do not rewrite them, so a hard link is
the content it was made from. `given`, `cut` and `copy_cut` are history. Left out: the dump
of checksums (`-C`), symbolic links that lead to symbolic links.

## 3. What is checked

Properties of each run are in its `.cfg`; each is preceded by its statement in
the module.

| run | shows | instance |
|---|---|---|
| `parallel_sums` | `NoOverwrite`, `DigestIsPrefix`, `NotBothAsleep`, `LinesSpec`, `AllFilesSummed` | 3 files of 0, 6, 2 blocks, queue of 2 (4 buffers), 3 contexts |
| `checksum_context` | `BufferStable`, `DigestsAgree`, `NoThreadLeaked`, `LogSpec`, `CallsReturn` | 3 of 4 algorithms, 2 contents, 2 updates, failing creation |
| `jte` | `ImageTracked`, `ImageDescribed`, `ImageSummed`, `DescTrue` | 2 setups: the simplified API with padding, the traditional one with failing flushes and reads; 5 files, 2 chunks, buffer of 2 bytes, images up to 11 bytes |
| `mkimage` | `ImageRebuilt`, `RangeWritten`, `MissingListed`, `Terminates` | an image of 5 entries and 8 different bytes in 3 DATA parts, 6 mirrors, 4 inputs, 5 states of the template, 21 sets of options |
| `jte_config` | `ImageSummed`, `ListRight`, `PartsLeadBack` | up to 3 calls of setters, 4 codes, 4 mappings, 6 lists, 2 matched files |
| `round_trip` | `Rebuilt`, `Readable`, `DumpRight`, `ExtractedRight`, `CheckRight`, `ToolsEnd` | 3 setups, 2 listed files and another, images up to 6 bytes, 4 mirrors, 2 rewrites, a directory and a file to be listed, 3 sets of lists for `jigsum -c` |
| `mkjigsnap` | `Accounted`, `BackrefRight`, `WrongReported`, `NeededKept`, `ConfLast`, `Converges` | 3 files, 3 jigdos in 2 lists, 2 mirrors in 3 states, 2 initial trees, 6 command lines, 2 faults |

Why the bounds are enough. `parallel_sums`: the longest file goes round the
buffers and the queue more than once, so every index wraps and the queue is both
full and empty; one file is empty; one argument exhausts the contexts.
`checksum_context`: one algorithm of the table is not enabled, so the skipping
loops are taken; two updates make a worker meet the next buffer while others
finish the last. `jte`: chunks of 1 and of 7 bytes against a buffer of 2
give the cases "fits", "fills", "flushes first" and "flushed directly, more than
once"; the files are below the minimum size, excluded, demanded, listed under a
colliding name and size, not listed, and not a multiple of the sector. `mkimage`:
DATA parts and extents end at different places, every byte is different, the
offsets lie inside, at the edge of, and between extents. `jte_config`: three
calls are enough for a setter, its opposite and a setter they interact with.
`round_trip`: an image holds a matched file that fills its sectors and one that
does not, with a chunk before, between or behind them; the three setups are an
application that meets no failure, one that sees all and one that sees none;
the mirrors hold the files in one place, in two, and not all of them, with a wrong file
of the right name, one that cannot be opened, one whose reading fails, and without the
file that jigdo-gen-checksum-list is given.
`mkjigsnap`: a file is in several jigdos, with two types and two values of its
checksum, under another keyword, in the first mirror, in the second, by its base
name only and nowhere; two faults give an interruption and a change of the
mirrors or the lists after it.

Bounds that exist only in the models: `MaxContexts` (allocation fails after so
many), `MaxUpdates`, `MaxImage`, one `Rewrite` per run, `MaxCalls` and
`MaxEntries` in `JteConfig`, `MaxFaults` in `MkJigSnap`. `MinUnique` is 2 there
for the 5 of the code ("Only $num_unique for the snapshot?"). In `RoundTrip` an exit
status has `Statuses` = 4 values instead of 256, so that a sum of errors wraps,
and `BUF_SIZE` of jigdump is 130, so that a template without DATA parts may be
smaller or larger than what is read at once.

Deadlock is not checked where the system may really stop: after the last call
of an application or the end of a program, and in `MkJigSnap` on a command line
that is refused. The other configurations check it.

*Fairness.* `ParallelSums`: a thread that can run keeps running (weak fairness
of `main()`), and a thread that asks for a contended mutex again and again gets
it (strong fairness of the two threads); spurious wake-ups are never owed.
`ChecksumContext`: strong fairness of each worker, weak fairness of the caller
inside a call; the caller need not make another call. `MkImage`: weak fairness
of the program, which is one thread; nothing is assumed of the other programs.
`MkJigSnap`: weak fairness of the program, its being started again included,
since the manual page describes it as run again to keep a site up to date;
nothing is assumed of faults but that they are finitely many.
`RoundTrip`: weak fairness of the tools that read and of the person who starts one
after the other; the application that writes need not go on, so `ToolsEnd` begins
at a finished template.
`Jte` and `JteConfig` have no liveness property: a library runs when called.

### Disagreements with the documentation

Each is a run of its own that TLC must find violated.

* `parallel_sums_unopenable`: an argument that cannot be opened is tried for
  ever, with one leaked context each time, until `main()` returns `ENOMEM`; the
  arguments after it get no checksum (`parallel-sums.c:267`).
* `checksum_zero_length`: `checksum_update()` of 0 bytes never returns
  (`checksum.c:215`); libjte passes a count of 0 on.
* `jte_chunk_lost`: `libjte_show_data_chunk()` returns success for a chunk that
  could not be stored (`libjte.c:556`).
* `mkimage_unverified`: without `-v` a file cut off during the copy leaves a
  hole and the exit status may be 0 (`mkimage.c:793`, `1253`).
* `jte_template_sum`: algorithms may be chosen for the checksum of the template,
  but the enumeration is compared with an index and the choice is not the one
  that is made (`libjte.c:309`).

One disagreement has no run: the usage text of jigit-mkimage says that the checksums of
`-f` and `-F` "must be in jigdo's pseudo-base64 format" (`mkimage.c:1317-1320`), while the
code reads hexadecimal digits (`mkimage.c:337-364`, `419-446`), as its manual page says.
The model follows the code.

The models hold more that no run singles out; the hazards in `PROJECT.json` name
the lines: the result of storing the padding of a matched file and of `fclose()`
of the template are not looked at (`jte.c:1458`, `libjte.c:431`), a short read
in the last block of a matched file passes (`jte.c:1430`), the clean-up after a
failed `pthread_create()` may cancel a handle that names no thread
(`checksum.c:306`), an error while skipping data is overwritten
(`mkimage.c:1203`), a truncated template is read for ever (`mkimage.c:1036`);
`libjte_begin_data_file()` returns success for a file it could not read
(`libjte.c:543`), `-M` with a list only, as in the synopsis, dereferences NULL
(`mkimage.c:833`), `-s` and `-e` work on whole extents (`mkimage.c:1183`); a
second `-J` replaces the first, which `mkjigsnap.8.in:81` says may be repeated
(`mkjigsnap:92`), a slash at the end of `-d` makes the run delete what it linked
(`mkjigsnap:200`), a .jigdo that cannot be read counts as one that needs nothing
(`mkjigsnap:426`), and a .jigdo that is copied in part only gets its .conf
(`mkjigsnap:537`). jigdump says that the pointers of any file not named
`.template` do not match (`jigdump.c:243`) and calls a template without DATA parts
no template, or shows nothing of it (`jigdump.c:371`); `jigsum` without `-c` exits
with 0 whatever it could not read, with `-c` with the sum of the errors modulo 256
(`jigsum.c:286`); `extract-data` takes any error for the end
(`extract-data.c:54`). If libjte could not read a matched file and did not say so,
the image's checksum lacks the file too, and `jigit-mkimage -v` calls an image
without it good (`libjte.c:543`). `write_jt_header()` does not reset what the last
image left, so a handle is good for one image (`jte.c:736`); a
`checksum_calculate()` that fails leaks its context and the worker threads of it
(`checksum.c:551`): neither is modelled, since a model of one image and of contexts
that are freed shows nothing about them.

## 4. What is proved

TLAPS checks the proofs for every value of the constants that satisfies
`ConstantsAssumption` of the module.

`ParallelSumsProofs`: `TypeCorrect`, `ReaderNeverOverwrites`,
`DigestsArePrefixes`, `NoLostWakeup`, `ImplementsLines`. The inductive invariant
`IInv` adds to the types: which thread exists in which phase (`PhaseInv`), who
holds the mutex (`MutexInv`), what a sleeping thread waits for (`SleepInv`), and
the argument itself: the number of queued buffers is the number of `fread()`s
queued less those taken (`CountInv`), the queued buffers are the `num_full` ones
just before `read_idx`, walking backwards round the ring (`SlotsInv`), each holds
the block with its number (`ContentInv`). That `QSIZE + 2` buffers are enough is
then arithmetic: `read_idx`, the `QSIZE` before it and the one before those are
different modulo `NUM_BUF`.

`ChecksumContextProofs`: `TypeCorrect`, `BufferIsStable`, `DigestsAlwaysAgree`,
`NoThreadLeaks`, `ImplementsLog`, for callers that never pass an empty buffer
(`Empty \notin Block`; `checksum_zero_length` shows why). The heart of the
invariant is that `running` is the cardinality of the set of workers that still
have to count down (`CountInv`), with a description of each worker in each phase
of the caller (`AlgoInv`).

`JteProofs`: `TypeCorrect`, `Tracked`, `DescribedRight`, `SumIsRight`, `DescRight`:
the properties of the run `jte`, for every set of files, checksum list, buffer and
sector size, and images of any length. What libjte does not tell its caller the
caller cannot know, so the theorems say which executions they are about:
`Reported` (every failure reaches the application: no failing `fclose()`, reads that
fail under the traditional API only, flushes that fail there and only where there
is no padding to lose) for the two that speak of the extents, `ReadsTrue` (what
is read of a matched file without an error is the file) for the two that
speak of the checksum; the lines at which the code falls short of them are hazards
of `PROJECT.json`. `ImageTracked` compares whole extents
with pieces of the image; the invariant says the same byte by byte (`Tracks`), of
the image including the matched file that has been announced and not yet shown
(`Described`), and it is preserved because each of three things a call can do
continues it: a new extent that holds (`TrackAppended`), a file (`TrackFile`),
unmatched data, whether or not its extent is a new one (`TrackData`). `ChunkStored`
is the fact about the buffer: whatever fits, is flushed first or is flushed from
directly, the DATA parts and the buffer together have grown by the chunk.
`CountInv` says that the counters are the cardinalities of the extents of their
kinds, from which the length field of the DESC part follows.

`JteConfigProofs`: `TypeCorrect`, `ImageIsSummed`, `ListIsRight`, `PartsAreRight`. The
invariant says that the setters only add to the algorithms libjte relies on
(`SetterInv`), that contexts are made from them once (`ContextInv`), that the
checksum list is the image of the lines read so far (`ListInv`) and the .jigdo that
of the matched names (`JigdoInv`); that a mapped name leads back follows from
the first mapping that fits (`RemapFirst`).

`MkJigSnapProofs`: `TypeCorrect`, `AlwaysAccounted`, `BackrefsAlwaysRight`,
`WrongAlwaysReported`, `NeededAlwaysKept`, `ConfAlwaysLast`, over any number of
runs and faults. `NeededKept` is not inductive: that a file which is deleted is not needed follows from a chain through the whole run, whose links
are the parts of `IInv`: the jigdos read so far have put all their files in
`ref` unless one was cut short (`ReadInv`); `file_list` and `todo` divide the
files of `ref` between them while links are made, and after that `file_list` is
all of them (`ListInv`); every file of `file_list` is in the tree, failed or
ignored, and what the walk has passed is in `file_list` (`AccountInv`); the
three files of single-jigdo mode follow each other (`PublishInv`), the .jigdo being
complete or its copy known to be cut. On top of it,
`jigdo_backref` lies between the jigdos that need a file and those of them that were
read (`BackInv`), and the files reported by `-c` are right for the part of
`file_list` that has been dealt with, which later links leave alone and the walk does
not touch (`WrongInv`).

`MkImageProofs`: `TypeCorrect`, `ImageIsRebuilt`, `RangeIsWritten`,
`MissingAreListed`, for every template that `Describes` an image (what `JteProofs`
shows of a finished one), every .jigdo, list, mirror, rewrite of it, set of options
and size of the buffer. `Types` holds of any template, described or not; besides the
types it says that a size that is known is that of a file that was there, that data
and files are only handled at their entries and in the range, and that the checksum
of the image is fed with what is written. The rest of `IInv` follows the walk.
`PlaceInv`: the output offset is where the extent begins in the image. `SyncInv`: the
decompressor is at the byte of the unmatched data that comes next, `InStep`, or it
can read nothing any more, `Stuck`, which is what a failed `skip_data_block()` leaves;
the extents of a range are in step although DATA parts end inside them. `OutInv`: what
is written is a piece of the image that begins at or before the start of the range
and ends where the walk is, `Extra` bytes of the extent at hand included, as long
as nothing was dropped and the files are either checked one by one or true
(`Trusted`). `MissInv`: what is listed as missing is what the extents so far needed and
the first entry of the list for their checksum does not have; that no later entry
for the same checksum counts (`First`) is what makes the list of missing files
exact. None of `ImageRebuilt`, `RangeWritten` and `MissingListed` is inductive: they speak
of the end only.

`SuppliedSucceeds` is the other half: those theorems allow jigit-mkimage to fail, this one
says when it does not. `Supplied` names what has to be there: no failing call (a flush at
exit excepted, which nobody looks at), no `-M`, a whole template without an empty DATA
part, a list whose lines are true (an entry for an empty file may be wrong, no extent has
its checksum), and for each file of the template a line of `[Parts]` that leads to a file
with its content. `Works` is then an invariant that leaves none of the error exits
reachable: nothing was dropped, the decompressor holds bytes whenever it holds a part, the
list leads to the right files (`LeadsInv`) and what was copied of a file is its beginning.
That a DATA part is never missing comes from `SyncInv`: where the decompressor can read no
more the template is `Damaged` (`Stuck`), and in step with a whole template the unmatched
data ends exactly where the extents do (`NothingLeft`).

`RoundTripProofs`: `TypeCorrect`, `ImagesAreRebuilt`, `TemplatesAreReadable`,
`ListsAreChecked`, `DumpsAreRight` and `ExtractsAreRight`, that is `TypeOK`, `Rebuilt`,
`Readable`, `CheckRight`, `DumpRight` and `ExtractedRight`, for every image, checksum list, set of faults, mirror,
rewrite of it, list made of it and list to be checked. The proof composes what is proved of the parts. `JteProofs` and
`MkImageProofs` are instances, their steps are shown to be those that `RoundTrip`
takes (`SameCalls`, `SameMaking`, `SameRewriting`), and their invariants are used as they
are: `EngineInv` is that of libjte together with where each DATA part ends
(`PartsInv`). At the hand-over `TemplateTyped` shows that whatever libjte has finished
is a template that jigit-mkimage can be given, and `TemplateDescribes` that it
`Describes` the image if the application has seen every failure: that is the
assumption of `MkImageProofs`, here it is a theorem about the code that writes the
template. `TemplateSum` is what remains without it, the image entry has the checksum of
the image as long as the files were read as they are, and is what `-v` relies on.
`MakeInv` carries the invariant of jigit-mkimage along, also when the mirror is
rewritten; `PhaseInv` says that nothing reads the template before it is finished. Of
jigsum, `SumInv` says that a file it reads is one it could open, and `Checks` that what
was fed to the checksum is a prefix of that file, that all it has seen so far is true as
long as it has counted no error (`SeenTrue`), and that there is a reason if it has
(`Reason`). Nothing is assumed of the application in the case of `-v`, and nothing of
the options: `Rebuilt` speaks itself of the runs that write a whole image.

`Readable` says that no step of jigit-mkimage can fail on what libjte has finished. Its
hypotheses are those without which it is false: the application has seen every failure
(`Careful`), matched files were read as they are (`ReadsTrue`), the .jigdo leads to files
that can be opened and have the content (`Served`), no call fails and nobody writes to the
mirror (`Undisturbed`), and no list of missing files is asked for, since `-M -v` compares
the checksum of an image that was not built. Everything else that `Supplied` asks for is
proved of the tools that make it. `TemplateWhole`: libjte leaves no DATA part out and
writes no empty one. `TemplateNames` and `EachPart`: it names no empty file, and
`[Parts]`, whose order is an increasing numbering of the matched extents, has a line for
each. `ListInv`: until somebody writes to the mirror, what `md5sum` has read is the beginning
of its file, and each line that jigdo-gen-checksum-list has printed is true of a file that
can be opened or has blanks for a checksum, which no file has. The same lemmas
(`PieceBehind`, `ReadOn`, `NoMore`) serve the reading of jigsum. `ReadyInv` carries `Works`
and `Supplied` through the run of jigit-mkimage.

The two small readers are proved against the same template. `DumpInv` says of jigdump
that it is at the start of a piece, the number `j` of it, and has printed exactly the
pieces from `From` to `j - 1` (`Walked`, `Shown`), or that it has found no DATA part
(`NothingFound`). That it finds the next piece where it has moved to needs that the
pieces lie one behind the other (`Laid`, from `EndFacts`), that its own table of entry
lengths agrees with what libjte has written (`WholeTags`), and that the tag of each piece
is what its state takes it for. What it says about the pointers follows from
`DescBegins`: the DESC part of a finished template begins `desc.len` bytes before its
end, which are 16 for its head and pointer and the lengths of the entries, that libjte
counts with its two counters (`CountInv` of `JteProofs`) and the file with its pieces.
`ExtractInv` says that what extract-data has written is the unmatched data up to the DATA
part it is at (`Upto`); the rest is `UnmatchedFacts`: the unmatched data is what the
unmatched extents have of the image, because the extents follow each other in both
(`Ascending` of `JteProofs`). `ends` and the offsets of the pieces are functions defined
step by step; `Climb` and `Built` of `DataLemmas` take the step from one value to
the next to all of them, without an operator as a parameter: `Climb` speaks of a
set of numbers, `Built` of a function that is given for one step.

Only model-checked: the liveness properties (`AllFilesSummed`, `CallsReturn`,
`Terminates`, `Converges`, `ToolsEnd`), which TLAPS cannot prove.

## 5. What is not modelled

The digest and compression functions themselves (a digest is its input here); the
codecs; the wording of messages, option parsing, statistics; running out of memory
in mkimage; `int` overflow for chunks of 2 GiB; jigdump on templates that end inside
a DESC part or the head of a DATA part, and on the entries only jigdo-file writes;
jigsum on standard input; the options and the FreeBSD functions of
jigdo-gen-checksum-list (there `set -e` does end the script when the checksum fails), its
way to absolute paths, a name with blanks, which the shell splits in two (`:139`), a
file that is gone before `stat` sees it, which ends the script, and a list that is given to
`-f` though the script has failed, with its usage text in it (`:226`); lists of a format
that `-f` does not understand; `-C` of mkjigsnap and chains of symbolic links;
`parallel-sums` options. The deprecated MD5-only calls of libjte do what the calls
modelled do with `md5`.

## 6. Running

    tlc -config parallel_sums.cfg MCParallelSums.tla
    tlapm ParallelSumsProofs.tla

Operators marked "mutant" in a comment are wrong versions of the definition below
them; substituting one for the other shows that a property notices the fault.
