------------------------------- MODULE JigSum -------------------------------
(***************************************************************************)
(* jigsum and jigsum-sha256 (jigsum.c, jigsum-sha256.c), which differ in   *)
(* the algorithm only.  Without -c they print a line for each argument,    *)
(* with -c the arguments are such lists, whose files are checked.  Here    *)
(* the first list to be checked is the one that was printed.               *)
(*                                                                         *)
(* A checksum is [alg, of] as in MkImage.  The files belong to others, who *)
(* may write to them while they are read.                                  *)
(***************************************************************************)
EXTENDS Integers, Sequences

CONSTANTS Byte,
          Alg,          \* the algorithm of the tool
          Args,         \* the files to be summed
          Directories,  \* paths that are directories
          Unreadable,   \* files that cannot be opened
          Broken,       \* files whose reading may fail
          ReadSize,     \* BUF_SIZE of these tools
          Statuses      \* how many values an exit status has: 256

ENOENT == 2
EIO == 5
EACCES == 13

VARIABLES
  disk,      \* the regular files
  mode,      \* "calc", "check" or "ended"
  arg, line, \* the argument, and the line of it, that comes next
  reading,   \* whether the file of this argument or line is open
  fed,       \* the bytes of it that were fed to the checksum
  printed,   \* the lines written to stdout
  others,    \* lists to be checked besides: [there, lines]
  error,
  exit_status

sumVars == <<mode, arg, line, reading, fed, printed, others, error, exit_status>>

\* The state in which main() enters its loop, except for printed and others.
Begins(m) ==
  /\ mode = m /\ arg = 1 /\ line = 1 /\ reading = FALSE /\ fed = << >>
  /\ error = 0 /\ exit_status = 0

Lists == <<[there |-> TRUE, lines |-> printed]>> \o others

Lines == [wellformed : BOOLEAN, sum : [alg : {Alg}, of : Seq(Byte)],
          path : STRING \X STRING]
Line(sum, path) == [wellformed |-> TRUE, sum |-> sum, path |-> path]
-----------------------------------------------------------------------------
AtList == mode = "check" /\ arg <= Len(Lists) /\ Lists[arg].there
AtLine == AtList /\ line <= Len(Lists[arg].lines)
ThisLine == Lists[arg].lines[line]

\* A file is to be summed, and which one.
AtFile == \/ mode = "calc" /\ arg <= Len(Args)
          \/ AtLine /\ ThisLine.wellformed
Path == IF mode = "calc" THEN Args[arg] ELSE ThisLine.path

\* A directory can be opened; that reading it fails is not taken for an error.
Openable == Path \in (DOMAIN disk \ Unreadable) \cup Directories
FileContent == IF Path \in Directories THEN << >> ELSE disk[Path]

NextPiece == SubSeq(FileContent, Len(fed) + 1,
                    IF Len(fed) + ReadSize < Len(FileContent) THEN Len(fed) + ReadSize
                                                          ELSE Len(FileContent))

\* Mutant: a file that could not be read is not counted.
OnlyMismatches(e, sum) ==
  IF mode = "check" /\ e = 0 /\ sum # ThisLine.sum THEN error + 1 ELSE error

\* error after this file, of which md5_file() returned e.
Counted(e, sum) ==
  IF mode = "calc" THEN error
  ELSE error + (IF e # 0 THEN e ELSE IF sum # ThisLine.sum THEN 1 ELSE 0)

\* md5_file() has returned e, having computed sum.
FileDone(e, sum) ==
  /\ reading' = FALSE /\ fed' = << >>
  /\ printed' = IF mode = "calc" /\ e = 0
                  THEN Append(printed, Line(sum, Path)) ELSE printed
  /\ error' = Counted(e, sum)
  /\ IF mode = "calc" THEN arg' = arg + 1 /\ UNCHANGED line
                      ELSE line' = line + 1 /\ UNCHANGED arg
  /\ UNCHANGED <<disk, others, mode, exit_status>>

Open ==
  /\ AtFile /\ ~reading /\ Openable
  /\ reading' = TRUE
  /\ UNCHANGED <<disk, others, mode, arg, line, fed, printed, error, exit_status>>

OpenFails ==
  /\ AtFile /\ ~reading /\ ~Openable
  /\ FileDone(IF Path \in DOMAIN disk THEN EACCES ELSE ENOENT, << >>)

Read ==
  /\ reading /\ NextPiece # << >>
  /\ fed' = fed \o NextPiece
  /\ UNCHANGED <<disk, others, mode, arg, line, reading, printed, error, exit_status>>

ReadFails ==
  /\ reading /\ Path \in Broken
  /\ FileDone(EIO, << >>)

\* Mutant: only an error ends the loop that reads.
EndOfFileNever ==
  /\ reading /\ NextPiece = << >>
  /\ UNCHANGED <<disk, sumVars>>

EndOfFile ==
  /\ reading /\ NextPiece = << >>
  /\ FileDone(0, [alg |-> Alg, of |-> fed])

\* A line that is not a checksum, two spaces and a name does not count.
MalformedLine ==
  /\ AtLine /\ ~ThisLine.wellformed
  /\ line' = line + 1
  /\ UNCHANGED <<disk, others, mode, arg, reading, fed, printed, error, exit_status>>

ListFails ==
  /\ mode = "check" /\ arg <= Len(Lists) /\ ~Lists[arg].there
  /\ error' = error + ENOENT /\ arg' = arg + 1
  /\ UNCHANGED <<disk, others, mode, line, reading, fed, printed, exit_status>>

ListEnds ==
  /\ AtList /\ line > Len(Lists[arg].lines)
  /\ arg' = arg + 1 /\ line' = 1
  /\ UNCHANGED <<disk, others, mode, reading, fed, printed, error, exit_status>>

\* main() returns error, of which the parent sees eight bits.  Without -c it is
\* 0, whatever could not be read.
Return ==
  /\ \/ mode = "calc" /\ arg > Len(Args)
     \/ mode = "check" /\ arg > Len(Lists)
  /\ mode' = "ended" /\ exit_status' = error % Statuses
  /\ UNCHANGED <<disk, others, arg, line, reading, fed, printed, error>>

Next == \/ Open \/ OpenFails \/ Read \/ ReadFails \/ EndOfFile
        \/ MalformedLine \/ ListFails \/ ListEnds \/ Return
=============================================================================
