--------------------------- MODULE ChecksumLines ---------------------------
(***************************************************************************)
(* What parallel-sums promises, with no threads, buffers or queue: one     *)
(* line per input file, in command-line order, each carrying the digest of *)
(* the blocks of that file.  A digest is the sequence of blocks that were  *)
(* fed to it.  The only files whose digest may stop early are those a read *)
(* error cuts short (Failing): fread() cannot tell an error from the end   *)
(* of the file, and parallel-sums never asks ferror().                     *)
(***************************************************************************)
EXTENDS Integers, Sequences

CONSTANTS NumFiles,   \* number of file arguments
          Blocks,     \* Blocks[f]: number of non-empty fread()s file f yields
          Failing     \* files on which reading may fail half-way

VARIABLE out          \* the lines written to a checksum file, in order

\* The digest of the first n blocks of a file.
UpTo(n) == [k \in 1..n |-> k]

Line(f, n) == [file |-> f, sum |-> UpTo(n)]

Init == out = << >>

\* The next file's line appears.
Emit == /\ Len(out) < NumFiles
        /\ \E n \in 0..Blocks[Len(out) + 1] :
              /\ Len(out) + 1 \in Failing \/ n = Blocks[Len(out) + 1]
              /\ out' = Append(out, Line(Len(out) + 1, n))

Spec == Init /\ [][Emit]_out
============================================================================
