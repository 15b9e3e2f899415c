------------------------------ MODULE MkImage ------------------------------
(***************************************************************************)
(* jigit-mkimage (mkimage.c, uncompress.c): it lists the local files it    *)
(* was told about, resolves the [Parts] of a .jigdo against its mirrors,   *)
(* and walks through the DESC part of a template, writing unmatched data   *)
(* and the files the template names.                                       *)
(*                                                                         *)
(* A checksum is [alg, of]: the algorithm and the bytes it was computed    *)
(* from, so equal checksums mean equal content; the MD5 and the SHA256     *)
(* list and the two variants of every function differ in alg only and are  *)
(* one here.  A path is <<directory, name>>.  The mirror is shared with    *)
(* other programs: a file may be rewritten in place during the run.        *)
(***************************************************************************)
EXTENDS Integers, Sequences

CONSTANTS Byte,
          Templates,  \* what a template may be; the fields are
                      \*   desc: entries of the DESC part, [type, len, sum]
                      \*   blocks: uncompressed content of each DATA part
                      \*   tail: state of its end
                      \*   corrupt: DATA parts that cannot be uncompressed
                      \*   image, stream: history, the image it was made from
                      \*     and the unmatched data in it
                      \*   at, from: history, where each extent begins in them
                      \*   ends: history, where each DATA part ends in stream
          Jigdos,     \* [list, parts]: entries of the -f/-F lists, [Parts]
          MatchList,  \* -m options: [match, dir]
          Options,    \* the other options that were given
          Disks,      \* contents of the regular files that exist
          Unreadable, \* paths that can be stat()ed but not opened
          Rewrites,   \* [path, content]: what other programs may write
          BufSize,    \* BUF_SIZE
          Faults      \* what may go wrong: "input", "write", "flush", "log"

MISSING == -1
UNKNOWN == -2

Paths == UNION {DOMAIN d : d \in Disks}
Sum(alg, content) == [alg |-> alg, of |-> content]

\* A part that is missing is listed under its name alone.
NoDir == ""
FilePath == (STRING \cup {NoDir}) \X STRING

\* "none" is what 32 or 64 blanks in the place of the digits are taken for.
Checksum == [alg : {"md5", "sha256", "none"}, of : Seq(Byte)]

IsTemplate(b) ==
  /\ b.desc \in Seq([type : {"data", "file", "image"}, len : Nat, sum : Checksum])
  /\ b.blocks \in Seq(Seq(Byte))
  /\ b.tail \in {"good", "inconsistent", "truncated"}
  /\ b.corrupt \subseteq Nat
  /\ b.image \in Seq(Byte) /\ b.stream \in Seq(Byte)
  /\ b.at \in Seq(Nat) /\ b.from \in Seq(Nat) /\ b.ends \in Seq(Nat)

\* The extents of a template follow each other in the image it was made from and
\* in the unmatched data, which its DATA parts hold; the image entry is the last.
Start(b, m) == IF m = 1 THEN 0 ELSE b.ends[m - 1]
Describes(b) ==
  /\ Len(b.at) = Len(b.desc) + 1 /\ Len(b.from) = Len(b.desc) + 1
  /\ Len(b.desc) > 0 /\ b.desc[Len(b.desc)].type = "image"
  /\ b.at[1] = 0 /\ b.from[1] = 0 /\ b.at[Len(b.at)] = Len(b.image)
  /\ \A k \in 1..Len(b.desc) :
       LET e == b.desc[k]
           piece == SubSeq(b.image, b.at[k] + 1, b.at[k + 1])
       IN  /\ b.at[k + 1] = b.at[k] + (IF e.type = "image" THEN 0 ELSE e.len)
           /\ b.from[k + 1] = b.from[k] + (IF e.type = "data" THEN e.len ELSE 0)
           /\ b.at[k + 1] <= Len(b.image) /\ b.from[k + 1] <= Len(b.stream)
           /\ e.type = "data" => piece = SubSeq(b.stream, b.from[k] + 1, b.from[k + 1])
           /\ e.type = "file" => piece = e.sum.of
           /\ e.type = "image" => k = Len(b.desc) /\ e.sum.of = b.image
  /\ Len(b.ends) = Len(b.blocks)
  /\ \A m \in 1..Len(b.blocks) :
       /\ Start(b, m) <= b.ends[m] /\ b.ends[m] <= Len(b.stream)
       /\ b.blocks[m] = SubSeq(b.stream, Start(b, m) + 1, b.ends[m])

IsJigdo(j) ==
  /\ Len(j.list) \in Nat
  /\ \A n \in 1..Len(j.list) : j.list[n].sum \in Checksum /\ j.list[n].path \in FilePath
  /\ j.parts \in Seq([sum : Checksum, match : STRING, name : STRING,
                      wellformed : BOOLEAN])

ASSUME ConstantsAssumption ==
  /\ \A b \in Templates : IsTemplate(b) /\ Describes(b)
  /\ \A j \in Jigdos : IsJigdo(j)
  /\ MatchList \in Seq([match : STRING, dir : STRING])
  /\ Options \subseteq [verbose : BOOLEAN, quick : BOOLEAN, missing : BOOLEAN,
                        sizeonly : BOOLEAN, start : Nat, end : Nat]
  /\ \A d \in Disks : d \in [DOMAIN d -> Seq(Byte)]
  /\ \A r \in Rewrites : r.content \in Seq(Byte)
  /\ BufSize \in Nat \ {0}
  /\ Faults \subseteq {"input", "write", "flush", "log"}

VARIABLES
  pc,        \* what the program does: "lists", "jigdo", "scan", "loop",
             \* "data", "skip", "file", "exit"
  status,    \* how it ended
  opt, template, jigdo,  \* its inputs
  disk, rewritten,       \* the mirror, and whether it has been touched
  list,      \* md5_list and sha256_list
  part,      \* the entry of [Parts] that comes next
  t,         \* the entry of the DESC part at template_offset
  output_offset,
  error,     \* whether the variable error is not 0
  zip,       \* zip_state: data_buf == NULL, and the bytes not used yet
  block,     \* the DATA part that comes next
  remaining, \* bytes of the extent that are still to come
  input,     \* entry of list whose file is open
  file_sum,  \* bytes fed to the checksum of that file
  image_sum, \* bytes fed to the checksum of the image
  out,       \* bytes written to outfile
  listed,    \* paths written to the -M file
  dropped,   \* history: bytes of an extent were left out without an error
  lost       \* what stdio had buffered could not be written at the end

argVars == <<opt, template, jigdo>>
mirrorVars == <<disk, rewritten>>
listVars == <<list, part>>
loopVars == <<t, output_offset, error>>
zipVars == <<zip, block>>
fileVars == <<input, file_sum>>
outVars == <<image_sum, out, listed, dropped>>
vars == <<pc, status, argVars, mirrorVars, listVars, loopVars, zipVars,
          remaining, fileVars, outVars, lost>>

Desc == template.desc
Blocks == template.blocks
Image == template.image

\* The program's own state when it is started.
Started ==
  /\ pc = "lists" /\ status = "none"
  /\ list = << >> /\ part = 1
  /\ t = 1 /\ output_offset = 0 /\ error = FALSE
  /\ zip = [null |-> TRUE, rest |-> << >>] /\ block = 1
  /\ remaining = 0 /\ input = 0 /\ file_sum = << >> /\ image_sum = << >>
  /\ out = << >> /\ listed = {} /\ dropped = FALSE /\ lost = FALSE

Init ==
  /\ Started
  /\ opt \in Options /\ template \in Templates /\ jigdo \in Jigdos
  /\ disk \in Disks /\ rewritten = FALSE
-----------------------------------------------------------------------------
Min(a, b) == IF a < b THEN a ELSE b
Least(S) == CHOOSE n \in S : \A m \in S : n <= m

\* -s and -e with an offset other than 0 imply -q.
quick == opt.quick \/ opt.start # 0 \/ opt.end # 0

\* The process ends; what stdio still holds is only written now, and nobody
\* looks whether that works.
Exit(s) ==
  /\ pc' = "exit" /\ status' = s
  /\ lost' \in {FALSE} \cup (IF "flush" \in Faults /\ out # << >>
                               THEN {TRUE} ELSE {})

Running == UNCHANGED <<status, lost>>

\* Position in list of the first entry for a checksum, 0 if there is none.
find_file_in_list(sum) ==
  LET hits == {n \in 1..Len(list) : list[n].sum = sum}
  IN  IF hits = {} THEN 0 ELSE Least(hits)

get_file_size(path) ==
  IF path \in DOMAIN disk THEN Len(disk[path]) ELSE MISSING

\* The mirrors in which a part is found.
Hits(p) == {k \in 1..Len(MatchList) :
              /\ MatchList[k].match = p.match
              /\ <<MatchList[k].dir, p.name>> \in DOMAIN disk}
find_file_in_mirror(p) == <<MatchList[Least(Hits(p))].dir, p.name>>
-----------------------------------------------------------------------------
(* Reading the inputs. *)

\* One of the input files cannot be opened, or the .jigdo is not one.
InputFails ==
  /\ "input" \in Faults /\ pc \in {"lists", "jigdo", "scan"}
  /\ Exit("failed")
  /\ UNCHANGED <<argVars, mirrorVars, listVars, loopVars, zipVars, remaining,
                 fileVars, outVars>>

\* parse_md5_file(), parse_sha256_file(): the sizes in them are not used.
ParseLists ==
  /\ pc = "lists"
  /\ list' = [n \in 1..Len(jigdo.list) |->
                [sum |-> jigdo.list[n].sum, path |-> jigdo.list[n].path,
                 size |-> UNKNOWN]]
  /\ pc' = "jigdo" /\ Running
  /\ UNCHANGED <<argVars, mirrorVars, part, loopVars, zipVars, remaining,
                 fileVars, outVars>>

\* add_file_entry() returns 0, having added the entries es.
AddEntries(es) ==
  /\ list' = list \o es /\ part' = part + 1
  /\ UNCHANGED pc /\ Running
  /\ UNCHANGED <<argVars, mirrorVars, loopVars, zipVars, remaining, fileVars,
                 outVars>>

\* add_file_entry() ends the program.
RejectPart(s) ==
  /\ Exit(s)
  /\ UNCHANGED <<argVars, mirrorVars, listVars, loopVars, zipVars, remaining,
                 fileVars, outVars>>

AtPart == pc = "jigdo" /\ part <= Len(jigdo.parts)
AtNewPart == AtPart /\ find_file_in_list(jigdo.parts[part].sum) = 0

\* A checksum that is listed is not looked for again, whatever the list says.
PartListed == /\ AtPart /\ ~AtNewPart
              /\ AddEntries(<< >>)

PartMalformed == /\ AtNewPart /\ ~jigdo.parts[part].wellformed
                 /\ RejectPart("EINVAL")

PartFound ==
  /\ AtNewPart /\ jigdo.parts[part].wellformed
  /\ Hits(jigdo.parts[part]) # {}
  /\ LET path == find_file_in_mirror(jigdo.parts[part]) IN
     AddEntries(<<[sum |-> jigdo.parts[part].sum, path |-> path,
                   size |-> get_file_size(path)]>>)

PartNotFound ==
  /\ AtNewPart /\ jigdo.parts[part].wellformed
  /\ Hits(jigdo.parts[part]) = {}
  /\ IF opt.missing
       THEN AddEntries(<<[sum |-> jigdo.parts[part].sum,
                          path |-> <<NoDir, jigdo.parts[part].name>>,
                          size |-> MISSING]>>)
       ELSE RejectPart("ENOENT")

JigdoParsed ==
  /\ pc = "jigdo" /\ part > Len(jigdo.parts)
  /\ pc' = "scan" /\ Running
  /\ UNCHANGED <<argVars, mirrorVars, listVars, loopVars, zipVars, remaining,
                 fileVars, outVars>>

\* parse_template_file() up to its main loop.
Scan ==
  /\ pc = "scan" /\ template.tail # "truncated"
  /\ CASE template.tail = "inconsistent" -> Exit("EINVAL")
       [] opt.sizeonly /\ template.tail = "good" -> Exit("ok")
       [] OTHER -> pc' = "loop" /\ Running
  /\ UNCHANGED <<argVars, mirrorVars, listVars, loopVars, zipVars, remaining,
                 fileVars, outVars>>

\* fread() returns 0 at the end of the file, which is no ferror(): the loop
\* that reads the DESC part never ends if the file is shorter than it says.
ScanAgain == pc = "scan" /\ template.tail = "truncated" /\ UNCHANGED vars
-----------------------------------------------------------------------------
(* The main loop of parse_template_file(). *)

PastEnd == opt.end # 0 /\ output_offset > opt.end
At(type) == pc = "loop" /\ t <= Len(Desc) /\ ~PastEnd /\ Desc[t].type = type

\* Mutant: only extents that begin in the range are written.
InRangeStrict == output_offset >= opt.start

InRange == output_offset + Desc[t].len >= opt.start

\* The entry has been dealt with and error is e.
EndExtent(e) ==
  /\ t' = t + 1 /\ output_offset' = output_offset + Desc[t].len
  /\ error' = e /\ pc' = "loop" /\ Running

ImageEntry ==
  /\ At("image") /\ EndExtent(error)
  /\ UNCHANGED <<argVars, mirrorVars, listVars, zipVars, remaining, fileVars,
                 outVars>>

\* An extent that is of no interest: unmatched data when looking for missing
\* files, a file before the range.
PassOver ==
  /\ \/ At("data") /\ opt.missing
     \/ At("file") /\ ~InRange
  /\ EndExtent(error)
  /\ UNCHANGED <<argVars, mirrorVars, listVars, zipVars, remaining, fileVars,
                 outVars>>

\* An error that skip_data_block() returned is only looked at here.
StaleError ==
  /\ At("data") /\ ~opt.missing /\ InRange /\ error
  /\ Exit("failed")
  /\ UNCHANGED <<argVars, mirrorVars, listVars, loopVars, zipVars, remaining,
                 fileVars, outVars>>

\* parse_data_block() or skip_data_block() begins.
StartData ==
  /\ At("data") /\ ~opt.missing /\ ~(InRange /\ error)
  /\ remaining' = Desc[t].len
  /\ pc' = IF InRange THEN "data" ELSE "skip"
  /\ Running
  /\ UNCHANGED <<argVars, mirrorVars, listVars, loopVars, zipVars, fileVars,
                 outVars>>

NeedsBlock == pc \in {"data", "skip"} /\ remaining > 0 /\ zip.null
BlockReadable == block <= Len(Blocks) /\ block \notin template.corrupt

\* read_data_block().
ReadBlock ==
  /\ NeedsBlock /\ BlockReadable
  /\ zip' = [null |-> FALSE, rest |-> Blocks[block]] /\ block' = block + 1
  /\ UNCHANGED pc /\ Running
  /\ UNCHANGED <<argVars, mirrorVars, listVars, loopVars, remaining, fileVars,
                 outVars>>

\* read_data_block() fails.  When there is a DATA part it has allocated
\* data_buf by then; buf_size and offset_in_curr_buf are still equal.
ReadBlockFails ==
  /\ NeedsBlock /\ ~BlockReadable
  /\ zip' = [null |-> block > Len(Blocks), rest |-> << >>]
  /\ IF pc = "data" THEN Exit("failed") /\ UNCHANGED loopVars
                    ELSE EndExtent(TRUE)
  /\ UNCHANGED <<argVars, mirrorVars, listVars, block, remaining, fileVars,
                 outVars>>

\* Mutants: the piece is not cut at the end of the extent; data_buf is kept.
PieceUncut == Len(zip.rest)
ConsumeKept(n) ==
  zip' = [null |-> FALSE, rest |-> SubSeq(zip.rest, n + 1, Len(zip.rest))]

\* The next piece of an extent of unmatched data, and its use.
Piece == Min(Len(zip.rest), remaining)
Consume(n) ==
  zip' = [null |-> n = Len(zip.rest),
          rest |-> SubSeq(zip.rest, n + 1, Len(zip.rest))]

HasPiece == remaining > 0 /\ ~zip.null

\* parse_data_block() writes a piece.
WriteData ==
  /\ pc = "data" /\ HasPiece /\ zip.rest # << >>
  /\ out' = out \o SubSeq(zip.rest, 1, Piece)
  /\ image_sum' = IF quick THEN image_sum
                           ELSE image_sum \o SubSeq(zip.rest, 1, Piece)
  /\ Consume(Piece) /\ remaining' = remaining - Piece
  /\ UNCHANGED pc /\ Running
  /\ UNCHANGED <<argVars, mirrorVars, listVars, loopVars, block, fileVars,
                 listed, dropped>>

\* fwrite() of nothing returns 0; parse_data_block() then returns ferror(),
\* which is 0 as well, and the extent passes for written.
WriteNothing ==
  /\ pc = "data" /\ HasPiece /\ zip.rest = << >>
  /\ EndExtent(FALSE) /\ dropped' = TRUE
  /\ UNCHANGED <<argVars, mirrorVars, listVars, zipVars, remaining, fileVars,
                 image_sum, out, listed>>

\* skip_data_block() passes over a piece.
SkipData ==
  /\ pc = "skip" /\ HasPiece
  /\ Consume(Piece) /\ remaining' = remaining - Piece
  /\ UNCHANGED pc /\ Running
  /\ UNCHANGED <<argVars, mirrorVars, listVars, loopVars, block, fileVars,
                 outVars>>

EndData ==
  /\ pc \in {"data", "skip"} /\ remaining = 0
  /\ EndExtent(FALSE)
  /\ UNCHANGED <<argVars, mirrorVars, listVars, zipVars, remaining, fileVars,
                 outVars>>

\* fwrite() to outfile fails.
WriteFails ==
  /\ "write" \in Faults /\ pc \in {"data", "file"} /\ remaining > 0
  /\ pc = "data" => HasPiece /\ zip.rest # << >>
  /\ Exit("failed")
  /\ UNCHANGED <<argVars, mirrorVars, listVars, loopVars, zipVars, remaining,
                 fileVars, outVars>>
-----------------------------------------------------------------------------
(* parse_file_block_md5() and parse_file_block_sha256(). *)

\* The list entry for the extent, and the list with its size filled in.
FileEntry == find_file_in_list(Desc[t].sum)
Sized == [n \in 1..Len(list) |->
            IF n = FileEntry /\ list[n].size = UNKNOWN
              THEN [list[n] EXCEPT !.size = get_file_size(list[n].path)]
              ELSE list[n]]

AtFile == At("file") /\ InRange
Usable == FileEntry # 0 /\ Sized[FileEntry].size = Desc[t].len

\* The file is there; with -M that is all that is asked.
OpenFile ==
  /\ AtFile /\ Usable /\ list[FileEntry].path \notin Unreadable
  /\ list' = Sized
  /\ IF opt.missing
       THEN EndExtent(FALSE) /\ UNCHANGED <<remaining, fileVars>>
       ELSE /\ pc' = "file" /\ Running
            /\ remaining' = Desc[t].len
            /\ input' = FileEntry /\ file_sum' = << >>
            /\ UNCHANGED loopVars
  /\ UNCHANGED <<argVars, mirrorVars, part, zipVars, outVars>>

\* The file cannot be opened, or is not the one the template names.
FileFails ==
  /\ AtFile
  /\ \/ Usable /\ list[FileEntry].path \in Unreadable
     \/ ~Usable /\ ~opt.missing
     \/ ~Usable /\ FileEntry # 0 /\ Sized[FileEntry].size # MISSING
  /\ list' = Sized
  /\ Exit("failed")
  /\ UNCHANGED <<argVars, mirrorVars, part, loopVars, zipVars, remaining,
                 fileVars, outVars>>

\* Mutant: the list of missing files is not written.
WriteMissingNot ==
  /\ AtFile /\ opt.missing /\ FileEntry # 0
  /\ Sized[FileEntry].size = MISSING
  /\ list' = Sized /\ EndExtent(FALSE)
  /\ UNCHANGED <<argVars, mirrorVars, part, zipVars, remaining, fileVars,
                 outVars>>

\* write_missing_entry(); the program ends if it cannot open the list.
WriteMissing ==
  /\ AtFile /\ opt.missing /\ FileEntry # 0
  /\ Sized[FileEntry].size = MISSING
  /\ list' = Sized
  /\ \/ EndExtent(FALSE) /\ listed' = listed \cup {list[FileEntry].path}
     \/ /\ "log" \in Faults /\ listed = {}
        /\ Exit("failed") /\ UNCHANGED <<loopVars, listed>>
  /\ UNCHANGED <<argVars, mirrorVars, part, zipVars, remaining, fileVars,
                 image_sum, out, dropped>>

\* With -M and a checksum that no list entry has, NULL is dereferenced.
MissingCrash ==
  /\ AtFile /\ opt.missing /\ FileEntry = 0
  /\ Exit("crash")
  /\ UNCHANGED <<argVars, mirrorVars, listVars, loopVars, zipVars, remaining,
                 fileVars, outVars>>

\* The piece that fread() is asked for next, and what the file has of it.
Size == Min(BufSize, remaining)
Found == LET at == Desc[t].len - remaining
         IN  SubSeq(disk[list[input].path], at + 1,
                    Min(at + Size, Len(disk[list[input].path])))

CopyPiece ==
  /\ pc = "file" /\ remaining > 0 /\ Len(Found) = Size
  /\ out' = out \o Found
  /\ IF quick THEN UNCHANGED <<image_sum, file_sum>>
              ELSE image_sum' = image_sum \o Found /\ file_sum' = file_sum \o Found
  /\ remaining' = remaining - Size
  /\ UNCHANGED pc /\ Running
  /\ UNCHANGED <<argVars, mirrorVars, listVars, loopVars, zipVars, input,
                 listed, dropped>>

\* The file has become shorter.  errno is returned, which fread() does not
\* set at the end of a file: it is 0 or what an earlier call has left there.
ShortRead ==
  /\ pc = "file" /\ remaining > 0 /\ Len(Found) < Size
  /\ \/ EndExtent(FALSE) /\ dropped' = TRUE
     \/ Exit("failed") /\ UNCHANGED <<loopVars, dropped>>
  /\ UNCHANGED <<argVars, mirrorVars, listVars, zipVars, remaining, fileVars,
                 image_sum, out, listed>>

\* Mutant: the file's checksum is not compared.
FileUnchecked == TRUE

FileChecked == file_sum = Desc[t].sum.of

EndFile ==
  /\ pc = "file" /\ remaining = 0
  /\ IF quick \/ FileChecked THEN EndExtent(FALSE)
                             ELSE Exit("EINVAL") /\ UNCHANGED loopVars
  /\ UNCHANGED <<argVars, mirrorVars, listVars, zipVars, remaining, fileVars,
                 outVars>>
-----------------------------------------------------------------------------
(* The end. *)

ImageEntries == {k \in 1..Len(Desc) : Desc[k].type = "image"}

\* The comparison is only made if the result is to be logged (-v); when it
\* fails the template, which is closed already, is closed again.
Compared == opt.verbose /\ ~quick
Mismatch == Compared /\ \E k \in ImageEntries : Desc[k].sum.of # image_sum

Finish ==
  /\ pc = "loop" /\ (t > Len(Desc) \/ PastEnd)
  /\ CASE opt.missing /\ listed # {} -> Exit("ENOENT")
       [] ~(opt.missing /\ listed # {}) /\ Mismatch -> Exit("EIO") \/ Exit("crash")
       [] OTHER -> Exit("ok")
  /\ UNCHANGED <<argVars, mirrorVars, listVars, loopVars, zipVars, remaining,
                 fileVars, outVars>>

\* Another program rewrites a file of the mirror.
Rewrite ==
  /\ pc # "exit" /\ ~rewritten
  /\ \E r \in Rewrites : /\ r.path \in DOMAIN disk
                         /\ disk' = [disk EXCEPT ![r.path] = r.content]
  /\ rewritten' = TRUE
  /\ UNCHANGED <<pc, status, argVars, listVars, loopVars, zipVars, remaining,
                 fileVars, outVars, lost>>

Exited == pc = "exit" /\ UNCHANGED vars

Step == \/ InputFails \/ ParseLists \/ PartListed \/ PartMalformed
        \/ PartFound \/ PartNotFound \/ JigdoParsed \/ Scan \/ ScanAgain
        \/ ImageEntry \/ PassOver \/ StaleError \/ StartData \/ ReadBlock
        \/ ReadBlockFails \/ WriteData \/ WriteNothing \/ SkipData \/ EndData
        \/ WriteFails \/ OpenFile \/ FileFails \/ WriteMissing \/ MissingCrash
        \/ CopyPiece \/ ShortRead \/ EndFile \/ Finish

Next == Step \/ Rewrite \/ Exited

Spec == Init /\ [][Next]_vars

\* The program keeps running.
FairSpec == Spec /\ WF_vars(Step)
-----------------------------------------------------------------------------
(* Properties. *)

Entry == [sum : Checksum, path : FilePath,
          size : Nat \cup {MISSING, UNKNOWN}]

TypeOK ==
  /\ pc \in {"lists", "jigdo", "scan", "loop", "data", "skip", "file", "exit"}
  /\ status \in {"none", "ok", "failed", "EINVAL", "ENOENT", "EIO", "crash"}
  /\ opt \in Options /\ template \in Templates /\ jigdo \in Jigdos
  /\ DOMAIN disk \subseteq Paths /\ \A p \in DOMAIN disk : disk[p] \in Seq(Byte)
  /\ rewritten \in BOOLEAN
  /\ list \in Seq(Entry) /\ part \in 1..Len(jigdo.parts) + 1
  /\ t \in 1..Len(Desc) + 1 /\ output_offset \in Nat /\ error \in BOOLEAN
  /\ zip \in [null : BOOLEAN, rest : Seq(Byte)]
  /\ block \in 1..Len(Blocks) + 1
  /\ remaining \in Nat /\ input \in 0..Len(list)
  /\ file_sum \in Seq(Byte) /\ image_sum \in Seq(Byte) /\ out \in Seq(Byte)
  /\ listed \subseteq FilePath
  /\ dropped \in BOOLEAN /\ lost \in BOOLEAN

\* The program was asked to write an image, says it did, and what it wrote
\* has reached the disk.
Written == status = "ok" /\ ~opt.missing /\ ~opt.sizeonly /\ ~lost

\* A whole image that was checked is the image, whatever the mirror holds,
\* whoever rewrites it meanwhile and whatever the template has lost: no wrong
\* file, short file or unreadable block goes unnoticed.  Without -v only the
\* files are checked one by one, which is enough as long as none is cut off
\* in the middle (mkimage.c:787-793,1253-1289).
ImageRebuilt ==
  Written /\ ~quick /\ (opt.verbose \/ ~dropped) => out = Image

\* -q: "jigit-mkimage will normally check the MD5/SHA256 sum of every file it
\* reads and writes, and will fail if it finds any mismatches"
\* (jigit-mkimage.1.in:101): with no option to the contrary the image is right.
NormallyChecked == Written /\ ~quick => out = Image

\* Every list entry that was resolved has the content its checksum says.
MirrorTrue ==
  \A n \in 1..Len(list) :
    list[n].path \in DOMAIN disk => disk[list[n].path] = list[n].sum.of

\* With -s and -e, from an honest mirror, the output is one unbroken piece of
\* the image that holds every byte asked for: whole extents, in order, and the
\* decompressor is where it should be after what was skipped (mkimage.c:1168,
\* 1183, 1203).
Covers(a, b) == /\ a <= opt.start
                /\ b = Len(Image) \/ (opt.end # 0 /\ b > opt.end)
RangeWritten ==
  Written /\ ~dropped /\ MirrorTrue /\ ~rewritten =>
    \E a \in 0..Len(Image) : \E b \in a..Len(Image) :
      out = SubSeq(Image, a + 1, b) /\ (Covers(a, b) \/ opt.start >= Len(Image)
                                        \/ (opt.end # 0 /\ opt.end < opt.start))

\* When -M has walked through the template, the files it has listed are
\* exactly the ones the template needs and the mirrors do not have
\* (mkimage.c:565-572,832-838).
MissingListed ==
  opt.missing /\ pc = "exit" /\ t > Len(Desc) /\ opt.start = 0 =>
    listed = {list[n].path : n \in
                {n \in 1..Len(list) :
                   /\ list[n].size = MISSING
                   /\ \E k \in 1..Len(Desc) : /\ Desc[k].type = "file"
                                              /\ Desc[k].sum = list[n].sum}}

\* The program ends, unless the template is shorter than its last six bytes
\* say (mkimage.c:1036).
Terminates == template.tail # "truncated" => <>(pc = "exit")
=============================================================================
