--------------------------- MODULE GenChecksumList ---------------------------
(***************************************************************************)
(* jigdo-gen-checksum-list (libjte/bin), as it works on Linux: it prints a *)
(* line with checksum, size and path for every regular file that it was    *)
(* given or that is in a directory it was given.  These are the lists that *)
(* jigit-mkimage reads with -f and -F.                                     *)
(*                                                                         *)
(* A checksum is [alg, of] as in MkImage; nobody uses the size.  The files *)
(* belong to others, who may write to them while md5sum or sha256sum reads *)
(* them.                                                                   *)
(***************************************************************************)
EXTENDS Integers, Sequences

CONSTANTS Byte,
          Alg,          \* --checksum-algo
          GenArgs,      \* the files and directories that it is given
          Directories,  \* paths that are directories
          Below,        \* Below[d]: the paths that find(1) meets in d
          Unreadable,   \* files that cannot be opened
          Broken,       \* files whose reading may fail
          ReadSize      \* how much md5sum reads at once

VARIABLES
  disk,       \* the regular files
  gen_arg,    \* the argument that comes next
  items,      \* files that are still to be listed before it does
  item,       \* the file that md5sum reads, or NoItem
  summed,     \* what it has read of it
  generated,  \* the lines written to stdout
  gen_state   \* "run", "ok" or "failed"

genVars == <<gen_arg, items, item, summed, generated, gen_state>>

\* No file has an empty name.
NoItem == <<"", "">>

\* What jigit-mkimage takes blanks for, 0 in every digit: no file has it.
NoDigits == [alg |-> "none", of |-> << >>]
Lines == [sum : [alg : {Alg, "none"}, of : Seq(Byte)], path : STRING \X STRING]

Launched ==
  /\ gen_arg = 1 /\ items = {} /\ item = NoItem /\ summed = << >>
  /\ generated = << >> /\ gen_state = "run"
-----------------------------------------------------------------------------
AtArgument ==
  gen_state = "run" /\ items = {} /\ item = NoItem /\ gen_arg <= Len(GenArgs)
Argument == GenArgs[gen_arg]

\* walkdir() has all that find(1) has met before it lists the first file.
Directory ==
  /\ AtArgument /\ Argument \in Directories
  /\ items' = Below[Argument] \cap DOMAIN disk /\ gen_arg' = gen_arg + 1
  /\ UNCHANGED <<disk, item, summed, generated, gen_state>>

RegularFile ==
  /\ AtArgument /\ Argument \in DOMAIN disk \ Directories
  /\ items' = {Argument} /\ gen_arg' = gen_arg + 1
  /\ UNCHANGED <<disk, item, summed, generated, gen_state>>

\* An argument that is neither ends the script, with its usage behind the lines
\* before it.
Usage ==
  /\ AtArgument /\ Argument \notin DOMAIN disk \cup Directories
  /\ gen_state' = "failed"
  /\ UNCHANGED <<disk, gen_arg, items, item, summed, generated>>

\* md5sum is started on the next file, in the order the directories have them.
NextItem ==
  /\ gen_state = "run" /\ item = NoItem
  /\ \E f \in items : item' = f /\ items' = items \ {f}
  /\ UNCHANGED <<disk, gen_arg, summed, generated, gen_state>>

Open == item # NoItem /\ item \notin Unreadable
NextPiece == SubSeq(disk[item], Len(summed) + 1,
                    IF Len(summed) + ReadSize < Len(disk[item]) THEN Len(summed) + ReadSize
                                                            ELSE Len(disk[item]))

ReadPiece ==
  /\ Open /\ NextPiece # << >>
  /\ summed' = summed \o NextPiece
  /\ UNCHANGED <<disk, gen_arg, items, item, generated, gen_state>>

AddLine(sum) ==
  /\ generated' = Append(generated, [sum |-> sum, path |-> item])
  /\ item' = NoItem /\ summed' = << >>
  /\ UNCHANGED <<disk, gen_arg, items, gen_state>>

Summed ==
  /\ Open /\ NextPiece = << >>
  /\ AddLine([alg |-> Alg, of |-> summed])

\* The status of the pipe is that of awk: set -e does not notice that md5sum has
\* failed, and the line is printed with blanks for a checksum.
SumFails ==
  /\ item # NoItem /\ item \in Unreadable \cup Broken
  /\ AddLine(NoDigits)

ExitOk ==
  /\ gen_state = "run" /\ items = {} /\ item = NoItem /\ gen_arg > Len(GenArgs)
  /\ gen_state' = "ok"
  /\ UNCHANGED <<disk, gen_arg, items, item, summed, generated>>

Next == \/ Directory \/ RegularFile \/ Usage \/ NextItem \/ ReadPiece \/ Summed
        \/ SumFails \/ ExitOk
=============================================================================
