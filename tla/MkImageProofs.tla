--------------------------- MODULE MkImageProofs ---------------------------
(***************************************************************************)
(* Proofs about MkImage for every template, .jigdo, mirror, set of options *)
(* and buffer size, and every way in which the mirror may be rewritten.    *)
(*                                                                         *)
(* The lemmas ask of the inputs only what they use, so that they also hold *)
(* where a template was not chosen from Templates but made.                *)
(***************************************************************************)
EXTENDS MkImage, DataLemmas

AnyOption == [verbose : BOOLEAN, quick : BOOLEAN, missing : BOOLEAN,
              sizeonly : BOOLEAN, start : Nat, end : Nat]

Early == {"lists", "jigdo", "scan"}
Walk == {"loop", "data", "skip", "file"}

\* Bytes of the extent at t that have been dealt with.
Done == Desc[t].len - remaining

InputsOK ==
  /\ IsTemplate(template) /\ IsJigdo(jigdo) /\ opt \in AnyOption
  /\ DOMAIN disk \subseteq Paths /\ \A p \in DOMAIN disk : disk[p] \in Seq(Byte)
  /\ rewritten \in BOOLEAN

\* Until the walk begins nothing has happened.
FlagsOK ==
  /\ pc \in Early \cup Walk \cup {"exit"}
  /\ status \in {"none", "ok", "failed", "EINVAL", "ENOENT", "EIO", "crash"}
  /\ pc # "exit" => status = "none"
  /\ error \in BOOLEAN /\ dropped \in BOOLEAN /\ lost \in BOOLEAN
  /\ pc \in Early => t = 1 /\ output_offset = 0 /\ block = 1 /\ zip.rest = << >>
                     /\ out = << >> /\ listed = {} /\ ~dropped

\* A list entry whose size is known is a file that is there.
ListOK ==
  /\ list \in Seq(Entry) /\ part \in 1..Len(jigdo.parts) + 1
  /\ \A n \in 1..Len(list) : list[n].size \in Nat => list[n].path \in DOMAIN disk
  /\ listed \subseteq FilePath

\* Data and files are only handled at their entries and in the range, and the
\* file that is open is one that has the checksum of its entry.
ExtentOK ==
  /\ t \in 1..Len(Desc) + 1 /\ output_offset \in Nat /\ remaining \in Nat
  /\ input \in 0..Len(list) /\ (pc \in Early => input = 0)
  /\ pc \in {"data", "skip", "file"} =>
       /\ t <= Len(Desc) /\ ~opt.missing /\ remaining <= Desc[t].len
       /\ Desc[t].type = (IF pc = "file" THEN "file" ELSE "data")
       /\ pc = "skip" <=> ~InRange
  /\ pc = "file" => /\ input # 0 /\ list[input].sum = Desc[t].sum
                    /\ list[input].path \in DOMAIN disk

ZipOK ==
  /\ zip \in [null : BOOLEAN, rest : Seq(Byte)]
  /\ zip.null => zip.rest = << >>
  /\ block \in 1..Len(Blocks) + 1

\* The checksum of the image is fed with what is written; an image that passed
\* the comparison of checksums has the content that was announced.
BytesOK ==
  /\ file_sum \in Seq(Byte) /\ image_sum \in Seq(Byte) /\ out \in Seq(Byte)
  /\ ~quick => image_sum = out
  /\ Written /\ Compared => \A k \in ImageEntries : Desc[k].sum.of = out

Types == InputsOK /\ FlagsOK /\ ListOK /\ ExtentOK /\ ZipOK /\ BytesOK

-----------------------------------------------------------------------------
(* Where the walk is. *)

PlaceInv == pc \in Walk /\ t <= Len(Desc) => output_offset = template.at[t]

\* A template from which not all of the unmatched data can be read.
Damaged == \/ template.corrupt # {}
           \/ Start(template, Len(Blocks) + 1) # Len(template.stream)

\* The decompressor is at the byte of the unmatched data that comes next; or it
\* can read nothing any more, which only happens with such a template.
Pos == template.from[t] + IF pc \in {"data", "skip"} THEN Done ELSE 0
Reached == Start(template, block)
InStep == /\ Pos + Len(zip.rest) = Reached
          /\ zip.rest = SubSeq(template.stream, Pos + 1, Reached)
Stuck == zip.rest = << >> /\ ~BlockReadable /\ Damaged
SyncInv == pc \in Walk /\ ~opt.missing /\ ~dropped => InStep \/ Stuck

\* What has been written of the extent at t.
Copied == IF quick THEN SubSeq(Desc[t].sum.of, 1, Done) ELSE file_sum
Extra == CASE pc = "data" -> SubSeq(Image, template.at[t] + 1, template.at[t] + Done)
           [] pc = "file" -> Copied
           [] OTHER -> << >>

\* The output is one piece of the image, if the files are checked or need not be.
Trusted == ~quick \/ (MirrorTrue /\ ~rewritten)
Begun(a) == a <= opt.start /\ out = SubSeq(Image, a + 1, template.at[t]) \o Extra
OutInv ==
  pc \in Walk /\ ~opt.missing /\ ~dropped /\ Trusted =>
    /\ \E a \in 0..template.at[t] : Begun(a)
    /\ pc \in {"loop", "skip"} /\ template.at[t] < opt.start => out = << >>

\* The files before t have been looked for, and those not found are listed.  Of
\* several entries for a checksum only the first one counts.
First(n) == \A m \in 1..n - 1 : list[m].sum # list[n].sum
Needed(n, m) == \E k \in 1..m : Desc[k].type = "file" /\ Desc[k].sum = list[n].sum
LookedFor ==
  /\ listed = {list[n].path : n \in {n \in 1..Len(list) :
                                list[n].size = MISSING /\ Needed(n, t - 1)}}
  /\ \A n \in 1..Len(list) :
       /\ list[n].size = MISSING => First(n)
       /\ Needed(n, t - 1) /\ First(n) => list[n].size # UNKNOWN
MissInv ==
  opt.missing /\ opt.start = 0 /\ (pc = "exit" => t > Len(Desc)) => LookedFor

IInv == Types /\ PlaceInv /\ SyncInv /\ OutInv /\ MissInv /\ ImageRebuilt /\ RangeWritten

-----------------------------------------------------------------------------
(* A program in whose way nothing is. *)

\* The file that e speaks of is there, can be opened and has the checksum of e.
Present(e) ==
  e.path \in DOMAIN disk /\ e.path \notin Unreadable /\ disk[e.path] = e.sum.of

\* No call fails, the template is whole, and each file it needs is where the .jigdo
\* leads to; so are those of the list, except for checksums that no extent has.
Supplied ==
  /\ Faults \subseteq {"flush"} /\ ~opt.missing
  /\ template.tail = "good" /\ ~Damaged /\ \A m \in 1..Len(Blocks) : Blocks[m] # << >>
  /\ \A n \in 1..Len(jigdo.list) : \/ Present(jigdo.list[n])
                                  \/ jigdo.list[n].sum.of = << >>
  /\ \A n \in 1..Len(jigdo.parts) :
       LET p == jigdo.parts[n] IN
       /\ p.wellformed /\ Hits(p) # {}
       /\ Present([path |-> find_file_in_mirror(p), sum |-> p.sum])
  /\ \A k \in 1..Len(Desc) : Desc[k].type = "file" =>
       /\ Desc[k].sum.of # << >>
       /\ \E n \in 1..Len(jigdo.parts) : jigdo.parts[n].sum = Desc[k].sum

\* The list leads to each file whose part has been dealt with.
Leads(e) == \/ e.sum.of = << >>
            \/ Present(e) /\ e.size \in {UNKNOWN, Len(e.sum.of)}
Known(sum) == \E n \in 1..Len(list) : list[n].sum = sum
LeadsInv ==
  /\ \A n \in 1..Len(list) : Leads(list[n])
  /\ \A n \in 1..part - 1 : Known(jigdo.parts[n].sum)
  /\ pc = "lists" => part = 1
  /\ pc \in {"scan"} \cup Walk => part = Len(jigdo.parts) + 1

\* It has met no error, and nothing that could lead to one.
Works ==
  /\ pc = "exit" => status = "ok"
  /\ ~error /\ ~dropped /\ listed = {}
  /\ zip.null \/ zip.rest # << >>
  /\ pc = "file" /\ ~quick => file_sum = SubSeq(Desc[t].sum.of, 1, Done)
  /\ LeadsInv

WorkInv == Supplied /\ ~rewritten => Works
-----------------------------------------------------------------------------
(* What each step leaves alone. *)

\* The program does not touch its inputs.
LEMMA StepFrame ==
  ASSUME Step
  PROVE  opt' = opt /\ template' = template /\ jigdo' = jigdo /\ disk' = disk
         /\ rewritten' = rewritten
<1>1. ASSUME \/ InputFails \/ ParseLists \/ PartListed \/ PartMalformed
             \/ PartFound \/ PartNotFound \/ JigdoParsed \/ Scan \/ ScanAgain
      PROVE  UNCHANGED <<argVars, mirrorVars>>
  BY <1>1 DEF InputFails, ParseLists, PartListed, PartMalformed, PartFound,
     PartNotFound, JigdoParsed, Scan, ScanAgain, AddEntries, RejectPart, vars
<1>2. ASSUME \/ ImageEntry \/ PassOver \/ StaleError \/ StartData \/ ReadBlock
             \/ ReadBlockFails \/ WriteData \/ WriteNothing \/ SkipData \/ EndData
             \/ WriteFails
      PROVE  UNCHANGED <<argVars, mirrorVars>>
  BY <1>2 DEF ImageEntry, PassOver, StaleError, StartData, ReadBlock,
     ReadBlockFails, WriteData, WriteNothing, SkipData, EndData, WriteFails
<1>3. ASSUME \/ OpenFile \/ FileFails \/ WriteMissing \/ MissingCrash
             \/ CopyPiece \/ ShortRead \/ EndFile \/ Finish
      PROVE  UNCHANGED <<argVars, mirrorVars>>
  BY <1>3 DEF OpenFile, FileFails, WriteMissing, MissingCrash, CopyPiece,
     ShortRead, EndFile, Finish
<1> QED
  BY <1>1, <1>2, <1>3 DEF Step, argVars, mirrorVars

\* Before the walk nothing but the lists changes.
ReadsInputs == \/ InputFails \/ ParseLists \/ PartListed \/ PartMalformed
               \/ PartFound \/ PartNotFound \/ JigdoParsed \/ Scan
\* A step that reads the inputs goes on, or ends the program, and does nothing else.
LEMMA ReadsInputsFrame ==
  ASSUME ReadsInputs
  PROVE  /\ pc \in Early /\ UNCHANGED <<loopVars, zipVars, remaining, fileVars, outVars>>
         /\ \/ /\ pc' = "exit" /\ (status' = "ok" => opt.sizeonly) /\ lost' \in BOOLEAN
               /\ status' \in {"ok", "failed", "EINVAL", "ENOENT"}
            \/ pc' \in Early \cup {"loop"} /\ Running
<1>1. ASSUME NEW s, Exit(s)
      PROVE  pc' = "exit" /\ status' = s /\ lost' \in BOOLEAN
  BY <1>1 DEF Exit
<1>2. CASE InputFails
  BY <1>1, <1>2 DEF InputFails, Early
<1>3. CASE ParseLists \/ JigdoParsed
  BY <1>3 DEF ParseLists, JigdoParsed, listVars, Running, Early
<1>4. ASSUME NEW es, AtPart, AddEntries(es)
      PROVE  /\ pc \in Early /\ UNCHANGED <<loopVars, zipVars, remaining, fileVars, outVars>>
             /\ pc' \in Early /\ Running
  BY <1>4 DEF AddEntries, Running, AtPart, Early
<1>5. ASSUME NEW s, AtPart, RejectPart(s)
      PROVE  /\ pc \in Early /\ UNCHANGED <<loopVars, zipVars, remaining, fileVars, outVars>>
             /\ pc' = "exit" /\ status' = s /\ lost' \in BOOLEAN
  BY <1>1, <1>5 DEF RejectPart, AtPart, Early
<1>6. CASE PartListed \/ PartMalformed \/ PartFound \/ PartNotFound
  <2>1. AtPart
    BY <1>6 DEF PartListed, PartMalformed, PartFound, PartNotFound, AtNewPart
  <2>2. \/ \E es : AddEntries(es)
        \/ RejectPart("EINVAL") \/ RejectPart("ENOENT")
    BY <1>6 DEF PartListed, PartMalformed, PartFound, PartNotFound
  <2> QED
    BY <1>4, <1>5, <2>1, <2>2
<1>7. CASE Scan
  BY <1>1, <1>7 DEF Scan, Early, Running
<1> QED
  BY <1>2, <1>3, <1>6, <1>7 DEF ReadsInputs

\* The steps of the walk, by what they work on.
InData == \/ StartData \/ ReadBlock \/ ReadBlockFails \/ WriteData \/ WriteNothing
          \/ SkipData \/ EndData
InFile == \/ OpenFile \/ FileFails \/ WriteMissing \/ MissingCrash \/ CopyPiece
          \/ ShortRead \/ EndFile
Walks == ImageEntry \/ PassOver \/ StaleError \/ InData \/ WriteFails \/ InFile \/ Finish

\* Every step reads the inputs, waits for the template or walks through it.
LEMMA StepCases == Step <=> ReadsInputs \/ ScanAgain \/ Walks
BY DEF Step, ReadsInputs, Walks, InData, InFile

\* The walk goes on or the program ends, well only when the walk is over; the
\* extent at t is left behind or not.
LEMMA WalksFrame ==
  ASSUME Walks
  PROVE  /\ pc \in Walk
         /\ \/ /\ pc' = "exit" /\ (status' = "ok" => Finish) /\ lost' \in BOOLEAN
               /\ status' \in {"ok", "failed", "EINVAL", "ENOENT", "EIO", "crash"}
            \/ pc' \in Walk /\ Running
         /\ \/ \E e : EndExtent(e)
            \/ UNCHANGED loopVars
         /\ error \in BOOLEAN => error' \in BOOLEAN
         /\ dropped \in BOOLEAN => dropped' \in BOOLEAN
         /\ part' = part
<1>1. ASSUME NEW s, Exit(s)
      PROVE  pc' = "exit" /\ status' = s /\ lost' \in BOOLEAN
  BY <1>1 DEF Exit
<1>2. ASSUME NEW e, EndExtent(e)
      PROVE  pc' \in Walk /\ Running /\ error' = e
  BY <1>2 DEF EndExtent, Walk
<1>3. ASSUME \/ EndExtent(FALSE) \/ EndExtent(TRUE)
             \/ \E s \in {"failed", "EINVAL"} : Exit(s) /\ UNCHANGED loopVars
      PROVE  /\ \/ /\ pc' = "exit" /\ (status' = "ok" => Finish) /\ lost' \in BOOLEAN
                   /\ status' \in {"ok", "failed", "EINVAL", "ENOENT", "EIO", "crash"}
                \/ pc' \in Walk /\ Running
             /\ \/ \E e : EndExtent(e)
                \/ UNCHANGED loopVars
             /\ error \in BOOLEAN => error' \in BOOLEAN
  <2>1. CASE EndExtent(FALSE) \/ EndExtent(TRUE)
    BY <1>2, <2>1
  <2>2. CASE \E s \in {"failed", "EINVAL"} : Exit(s) /\ UNCHANGED loopVars
    BY <1>1, <2>2 DEF loopVars
  <2> QED
    BY <1>3, <2>1, <2>2
<1>4. CASE ImageEntry \/ PassOver \/ StaleError \/ WriteFails \/ Finish
  <2>1. CASE ImageEntry \/ PassOver
    <3>1. pc = "loop" /\ UNCHANGED <<part, dropped>> /\ \E e : e \in {error, FALSE} /\ EndExtent(e)
      BY <2>1 DEF ImageEntry, PassOver, At, outVars, listVars
    <3> QED
      BY <1>2, <3>1 DEF Walk
  <2>2. CASE StaleError \/ WriteFails
    BY <1>1, <2>2 DEF StaleError, WriteFails, At, Walk, loopVars, listVars, outVars
  <2>3. CASE Finish
    BY <1>1, <2>3 DEF Finish, Walk, loopVars, listVars, outVars
  <2> QED
    BY <1>4, <2>1, <2>2, <2>3
<1>5. CASE InData
  <2>1. CASE StartData \/ ReadBlock \/ WriteData \/ SkipData
    BY <2>1 DEF StartData, ReadBlock, WriteData, SkipData, At, NeedsBlock, Walk,
       loopVars, listVars, outVars
  <2>2. CASE ReadBlockFails
    <3>1. pc \in Walk /\ UNCHANGED <<part, dropped>>
      BY <2>2 DEF ReadBlockFails, NeedsBlock, Walk, listVars, outVars
    <3>2. EndExtent(TRUE) \/ (Exit("failed") /\ UNCHANGED loopVars)
      BY <2>2 DEF ReadBlockFails
    <3> QED
      BY <1>3, <3>1, <3>2
  <2>3. CASE WriteNothing \/ EndData
    BY <1>2, <2>3 DEF WriteNothing, EndData, Walk, listVars, outVars
  <2> QED
    BY <1>5, <2>1, <2>2, <2>3 DEF InData
<1>6. CASE InFile
  <2>1. CASE OpenFile
    BY <1>2, <2>1 DEF OpenFile, AtFile, At, Walk, loopVars, outVars, Running
  <2>2. CASE WriteMissing
    <3>1. AtFile /\ UNCHANGED <<part, dropped>>
      BY <2>2 DEF WriteMissing
    <3>2. EndExtent(FALSE) \/ (Exit("failed") /\ UNCHANGED loopVars)
      BY <2>2 DEF WriteMissing
    <3> QED
      BY <1>3, <3>1, <3>2 DEF AtFile, At, Walk
  <2>3. CASE FileFails \/ MissingCrash
    BY <1>1, <2>3 DEF FileFails, MissingCrash, AtFile, At, Walk, loopVars, listVars, outVars
  <2>4. CASE CopyPiece
    BY <2>4 DEF CopyPiece, Walk, loopVars, listVars
  <2>5. CASE ShortRead \/ EndFile
    <3>1. /\ pc \in Walk /\ part' = part /\ (dropped \in BOOLEAN => dropped' \in BOOLEAN)
          /\ \/ EndExtent(FALSE)
             \/ Exit("failed") /\ UNCHANGED loopVars
             \/ Exit("EINVAL") /\ UNCHANGED loopVars
      BY <2>5 DEF ShortRead, EndFile, Walk, listVars, outVars
    <3> QED
      BY <1>3, <3>1
  <2> QED
    BY <1>6, <2>1, <2>2, <2>3, <2>4, <2>5 DEF InFile
<1> QED
  BY <1>4, <1>5, <1>6 DEF Walks

\* FlagsOK after every step of the program.
LEMMA StepFlags ==
  ASSUME FlagsOK, Step
  PROVE  FlagsOK'
<1>1. CASE ReadsInputs
  <2>1. /\ pc \in Early /\ UNCHANGED <<loopVars, zipVars, remaining, fileVars, outVars>>
        /\ \/ pc' = "exit" /\ status' \in {"ok", "failed", "EINVAL", "ENOENT"} /\ lost' \in BOOLEAN
           \/ pc' \in Early \cup {"loop"} /\ Running
    BY <1>1, ReadsInputsFrame
  <2> QED
    BY <2>1 DEF FlagsOK, Early, Walk, Running, loopVars, zipVars, outVars
<1>2. CASE Walks
  <2>1. /\ pc \in Walk
        /\ \/ /\ pc' = "exit" /\ lost' \in BOOLEAN
              /\ status' \in {"ok", "failed", "EINVAL", "ENOENT", "EIO", "crash"}
           \/ pc' \in Walk /\ Running
        /\ error \in BOOLEAN => error' \in BOOLEAN
        /\ dropped \in BOOLEAN => dropped' \in BOOLEAN
    BY <1>2, WalksFrame
  <2> QED
    BY <2>1 DEF FlagsOK, Early, Walk, Running
<1>3. CASE ScanAgain
  BY <1>3 DEF ScanAgain, vars, FlagsOK, loopVars, zipVars, outVars
<1> QED
  BY <1>1, <1>2, <1>3, StepCases
-----------------------------------------------------------------------------
(* The template and the lists. *)

\* An entry of the DESC part is one.
LEMMA DescEntry ==
  ASSUME IsTemplate(template), NEW k \in 1..Len(Desc)
  PROVE  /\ Desc[k].type \in {"data", "file", "image"}
         /\ Desc[k].len \in Nat /\ Desc[k].sum \in Checksum /\ Desc[k].sum.of \in Seq(Byte)
<1> DEFINE E == [type : {"data", "file", "image"}, len : Nat, sum : Checksum]
<1>1. Desc \in Seq(E)
  BY DEF IsTemplate, Desc
<1> HIDE DEF E
<1>2. Desc[k] \in E
  BY <1>1, ElementOfSeq
<1>3. Desc[k].sum \in Checksum
  BY <1>2 DEF E
<1>4. Desc[k].sum.of \in Seq(Byte)
  BY <1>3 DEF Checksum
<1> QED
  BY <1>2, <1>3, <1>4 DEF E

\* An entry of the lists is one.
LEMMA ListEntry ==
  ASSUME list \in Seq(Entry), NEW n \in 1..Len(list)
  PROVE  /\ list[n] \in Entry
         /\ list[n].sum \in Checksum /\ list[n].sum.of \in Seq(Byte)
         /\ list[n].path \in FilePath
         /\ list[n].size \in Nat \cup {MISSING, UNKNOWN}
<1>1. list[n] \in Entry
  BY ElementOfSeq
<1>2. list[n].sum \in Checksum /\ list[n].path \in FilePath
  BY <1>1 DEF Entry
<1>3. list[n].size \in Nat \cup {MISSING, UNKNOWN}
  BY <1>1 DEF Entry
<1>4. list[n].sum.of \in Seq(Byte)
  BY <1>2 DEF Checksum
<1> QED
  BY <1>1, <1>2, <1>3, <1>4

\* find_file_in_list() finds the first entry for a checksum if there is one.
LEMMA FirstInList ==
  ASSUME NEW sum, Len(list) \in Nat
  PROVE  LET f == find_file_in_list(sum) IN
         /\ f \in 0..Len(list)
         /\ f # 0 => list[f].sum = sum /\ \A n \in 1..Len(list) : list[n].sum = sum => f <= n
         /\ f = 0 => \A n \in 1..Len(list) : list[n].sum # sum
<1> DEFINE hits == {n \in 1..Len(list) : list[n].sum = sum}
<1>1. CASE hits = {}
  BY <1>1 DEF find_file_in_list
<1>2. CASE hits # {}
  <2>1. hits \in SUBSET Nat
    OBVIOUS
  <2>2. \E x \in hits : \A y \in hits : x <= y
    BY <1>2, <2>1, LeastMember
  <2>3. Least(hits) \in hits /\ \A y \in hits : Least(hits) <= y
    BY <2>2 DEF Least
  <2>4. find_file_in_list(sum) = Least(hits)
    BY <1>2 DEF find_file_in_list
  <2> QED
    BY <2>3, <2>4
<1> QED
  BY <1>1, <1>2

\* Every size there is.
LEMMA FileSize ==
  ASSUME NEW path, InputsOK
  PROVE  /\ get_file_size(path) \in Nat \cup {MISSING}
         /\ get_file_size(path) \in Nat => path \in DOMAIN disk
<1>1. path \in DOMAIN disk => Len(disk[path]) \in Nat
  BY DEF InputsOK
<1>2. MISSING \notin Nat
  BY DEF MISSING
<1> QED
  BY <1>1, <1>2 DEF get_file_size

\* The part of the mirror and what the .jigdo says of it.
LEMMA PartFields ==
  ASSUME IsJigdo(jigdo), NEW k \in 1..Len(jigdo.parts)
  PROVE  jigdo.parts[k].sum \in Checksum /\ jigdo.parts[k].name \in STRING
<1> DEFINE P == [sum : Checksum, match : STRING, name : STRING, wellformed : BOOLEAN]
<1>1. jigdo.parts \in Seq(P)
  BY DEF IsJigdo
<1> HIDE DEF P
<1>2. jigdo.parts[k] \in P
  BY <1>1, ElementOfSeq
<1> QED
  BY <1>2 DEF P

\* The path that a part is found at is one of the mirror.
LEMMA MirrorPath ==
  ASSUME ConstantsAssumption, NEW p, Hits(p) # {}, p.name \in STRING
  PROVE  find_file_in_mirror(p) \in FilePath
         /\ find_file_in_mirror(p) \in DOMAIN disk
<1>1. Hits(p) \in SUBSET Nat
  BY DEF Hits
<1>2. \E x \in Hits(p) : \A y \in Hits(p) : x <= y
  BY <1>1, LeastMember
<1>3. Least(Hits(p)) \in Hits(p)
  BY <1>2 DEF Least
<1> DEFINE k == Least(Hits(p))
           R == [match : STRING, dir : STRING]
<1>4. k \in 1..Len(MatchList) /\ <<MatchList[k].dir, p.name>> \in DOMAIN disk
  BY <1>3 DEF Hits
<1>5. MatchList \in Seq(R)
  BY DEF ConstantsAssumption
<1> HIDE DEF k, R
<1>6. MatchList[k] \in R
  BY <1>4, <1>5, ElementOfSeq
<1>7. MatchList[k].dir \in STRING
  BY <1>6 DEF R
<1> QED
  BY <1>4, <1>7 DEF find_file_in_mirror, k, FilePath

\* Filling in a size changes nothing else.
LEMMA SizedList ==
  ASSUME InputsOK, list \in Seq(Entry)
  PROVE  /\ Sized \in Seq(Entry) /\ Len(Sized) = Len(list)
         /\ \A n \in 1..Len(list) :
              /\ Sized[n].sum = list[n].sum /\ Sized[n].path = list[n].path
              /\ Sized[n].size =
                   IF n = FileEntry /\ list[n].size = UNKNOWN
                     THEN get_file_size(list[n].path) ELSE list[n].size
<1>1. Len(list) \in Nat
  OBVIOUS
<1>2. ASSUME NEW n \in 1..Len(list)
      PROVE  /\ Sized[n] \in Entry
             /\ Sized[n].sum = list[n].sum /\ Sized[n].path = list[n].path
             /\ Sized[n].size =
                  IF n = FileEntry /\ list[n].size = UNKNOWN
                    THEN get_file_size(list[n].path) ELSE list[n].size
  <2>1. list[n] \in Entry
    BY ListEntry
  <2>2. Sized[n] = IF n = FileEntry /\ list[n].size = UNKNOWN
                     THEN [list[n] EXCEPT !.size = get_file_size(list[n].path)]
                     ELSE list[n]
    BY DEF Sized
  <2>3. get_file_size(list[n].path) \in Nat \cup {MISSING}
    BY FileSize
  <2> QED
    BY <2>1, <2>2, <2>3 DEF Entry
<1>3. DOMAIN Sized = 1..Len(list)
  BY DEF Sized
<1>4. Sized = [n \in 1..Len(list) |-> Sized[n]]
  BY <1>3 DEF Sized
<1>5. Sized \in [1..Len(list) -> Entry]
  BY <1>2, <1>4
<1>6. Sized \in Seq(Entry) /\ Len(Sized) = Len(list)
  BY <1>1, <1>5
<1> QED
  BY <1>2, <1>6

\* The list changes when it is read, when a part is looked up, and when a size is
\* filled in.
LEMMA ListSteps ==
  ASSUME Step
  PROVE  \/ UNCHANGED listVars
         \/ ParseLists \/ PartListed \/ PartFound \/ PartNotFound
         \/ AtFile /\ list' = Sized /\ part' = part /\ (OpenFile \/ FileFails \/ WriteMissing)
<1>1. CASE InputFails \/ PartMalformed \/ JigdoParsed \/ Scan \/ ScanAgain
  BY <1>1 DEF InputFails, PartMalformed, JigdoParsed, Scan, ScanAgain, RejectPart, vars
<1>2. CASE ImageEntry \/ PassOver \/ StaleError \/ WriteFails \/ Finish
  BY <1>2 DEF ImageEntry, PassOver, StaleError, WriteFails, Finish
<1>3. CASE InData
  BY <1>3 DEF InData, StartData, ReadBlock, ReadBlockFails, WriteData, WriteNothing,
     SkipData, EndData
<1>4. CASE InFile
  <2>1. CASE OpenFile \/ FileFails \/ WriteMissing
    BY <2>1 DEF OpenFile, FileFails, WriteMissing
  <2>2. CASE MissingCrash \/ CopyPiece \/ ShortRead \/ EndFile
    BY <2>2 DEF MissingCrash, CopyPiece, ShortRead, EndFile
  <2> QED
    BY <1>4, <2>1, <2>2 DEF InFile
<1> QED
  BY <1>1, <1>2, <1>3, <1>4, StepCases DEF ReadsInputs, Walks

\* The one entry that is added for a part.
LEMMA AddedEntry ==
  ASSUME ConstantsAssumption, InputsOK, ListOK, PartFound \/ PartNotFound, pc' # "exit"
  PROVE  \E e \in Entry :
           /\ list' = Append(list, e) /\ part' = part + 1
           /\ e.size \in Nat => e.path \in DOMAIN disk
           /\ e.size # UNKNOWN
           /\ find_file_in_list(e.sum) = 0
<1> DEFINE p == jigdo.parts[part]
<1>1. AtNewPart /\ part \in 1..Len(jigdo.parts)
  <2>1. AtNewPart
    BY DEF PartFound, PartNotFound
  <2>2. Len(jigdo.parts) \in Nat
    BY DEF InputsOK, IsJigdo
  <2> QED
    BY <2>1, <2>2 DEF AtNewPart, AtPart, ListOK
<1>2. p.sum \in Checksum /\ p.name \in STRING /\ find_file_in_list(p.sum) = 0
  BY <1>1, PartFields DEF InputsOK, AtNewPart
<1>3. list \in Seq(Entry)
  BY DEF ListOK
<1>4. MISSING # UNKNOWN /\ MISSING \notin Nat /\ UNKNOWN \notin Nat
  BY DEF MISSING, UNKNOWN
<1> HIDE DEF p
<1>5. CASE PartFound
  <2> DEFINE path == find_file_in_mirror(p)
             e == [sum |-> p.sum, path |-> path, size |-> get_file_size(path)]
  <2>1. AddEntries(<<e>>) /\ Hits(p) # {}
    BY <1>5 DEF PartFound, p
  <2>2. path \in FilePath /\ path \in DOMAIN disk
    BY <1>2, <2>1, MirrorPath
  <2>3. get_file_size(path) \in Nat \cup {MISSING}
    BY FileSize
  <2> HIDE DEF path
  <2>4. e \in Entry
    BY <1>2, <2>2, <2>3 DEF Entry
  <2>5. list' = list \o <<e>> /\ part' = part + 1
    BY <2>1 DEF AddEntries
  <2>6. e.size # UNKNOWN /\ e.path = path /\ e.sum = p.sum
    BY <1>4, <2>3 DEF UNKNOWN
  <2> HIDE DEF e
  <2>7. list' = Append(list, e)
    BY <1>3, <2>4, <2>5
  <2> QED
    BY <1>2, <2>2, <2>4, <2>5, <2>6, <2>7
<1>6. CASE PartNotFound
  <2> DEFINE e == [sum |-> p.sum, path |-> <<NoDir, p.name>>, size |-> MISSING]
  <2>1. ~RejectPart("ENOENT")
    BY DEF RejectPart, Exit
  <2>2. AddEntries(<<e>>)
    BY <1>6, <2>1 DEF PartNotFound, p
  <2>3. e \in Entry
    <3>1. <<NoDir, p.name>> \in FilePath
      BY <1>2 DEF FilePath
    <3> QED
      BY <1>2, <3>1 DEF Entry
  <2>4. list' = list \o <<e>> /\ part' = part + 1
    BY <2>2 DEF AddEntries
  <2>5. e.size = MISSING /\ e.sum = p.sum
    OBVIOUS
  <2> HIDE DEF e
  <2>6. list' = Append(list, e)
    BY <1>3, <2>3, <2>4
  <2> QED
    BY <1>2, <1>4, <2>3, <2>4, <2>5, <2>6
<1> QED
  BY <1>5, <1>6

\* Reading the lists.
LEMMA ParsedList ==
  ASSUME IsJigdo(jigdo), ParseLists
  PROVE  /\ list' \in Seq(Entry) /\ \A n \in 1..Len(list') : list'[n].size = UNKNOWN
<1> DEFINE N == Len(jigdo.list)
<1>1. list' = [n \in 1..N |-> [sum |-> jigdo.list[n].sum, path |-> jigdo.list[n].path,
                               size |-> UNKNOWN]]
  BY DEF ParseLists
<1>2. N \in Nat /\ \A n \in 1..N : jigdo.list[n].sum \in Checksum
                                  /\ jigdo.list[n].path \in FilePath
  BY DEF IsJigdo
<1> HIDE DEF N
<1>3. \A n \in 1..N : [sum |-> jigdo.list[n].sum, path |-> jigdo.list[n].path,
                       size |-> UNKNOWN] \in Entry
  BY <1>2 DEF Entry
<1>4. list' \in [1..N -> Entry]
  BY <1>1, <1>3
<1>5. list' \in Seq(Entry) /\ Len(list') = N
  BY <1>2, <1>4
<1> QED
  BY <1>1, <1>5

\* ListOK after every step of the program.
LEMMA StepList ==
  ASSUME ConstantsAssumption, Types, Step
  PROVE  ListOK'
<1>1. opt' = opt /\ jigdo' = jigdo /\ disk' = disk /\ template' = template
  BY StepFrame
<1>2. list \in Seq(Entry) /\ part \in 1..Len(jigdo.parts) + 1 /\ Len(list) \in Nat
      /\ \A n \in 1..Len(list) : list[n].size \in Nat => list[n].path \in DOMAIN disk
  BY DEF Types, ListOK
<1>3. InputsOK /\ ListOK /\ FlagsOK
  BY DEF Types
<1>4. UNKNOWN \notin Nat /\ Len(jigdo.parts) \in Nat
  BY <1>3 DEF UNKNOWN, InputsOK, IsJigdo
<1>5. /\ list' \in Seq(Entry) /\ part' \in 1..Len(jigdo.parts) + 1
      /\ \A n \in 1..Len(list') : list'[n].size \in Nat => list'[n].path \in DOMAIN disk
  <2>1. CASE UNCHANGED listVars
    BY <1>2, <2>1 DEF listVars
  <2>2. CASE ParseLists
    BY <1>2, <1>3, <1>4, <2>2, ParsedList DEF InputsOK, ParseLists
  <2>3. CASE PartListed
    <3>1. list' = list \o << >> /\ part' = part + 1 /\ part <= Len(jigdo.parts)
      BY <2>3 DEF PartListed, AddEntries, AtPart
    <3>2. list' = list
      BY <1>2, <3>1
    <3> QED
      BY <1>2, <1>4, <3>1, <3>2
  <2>4. CASE (PartFound \/ PartNotFound) /\ pc' = "exit"
    <3>1. pc = "jigdo" /\ pc' # pc
      BY <2>4 DEF PartFound, PartNotFound, AtNewPart, AtPart
    <3>2. RejectPart("ENOENT")
      BY <2>4, <3>1 DEF PartFound, PartNotFound, AddEntries
    <3> QED
      BY <1>2, <3>2 DEF RejectPart, listVars
  <2>5. CASE (PartFound \/ PartNotFound) /\ pc' # "exit"
    <3>1. PICK e \in Entry :
            /\ list' = Append(list, e) /\ part' = part + 1
            /\ e.size \in Nat => e.path \in DOMAIN disk
      BY <1>3, <2>5, AddedEntry
    <3>2. part <= Len(jigdo.parts)
      BY <2>5 DEF PartFound, PartNotFound, AtNewPart, AtPart
    <3>3. /\ list' \in Seq(Entry) /\ Len(list') = Len(list) + 1
          /\ \A n \in 1..Len(list) + 1 : list'[n] = IF n = Len(list) + 1 THEN e ELSE list[n]
      BY <1>2, <3>1
    <3>4. \A n \in 1..Len(list) + 1 : n = Len(list) + 1 \/ n \in 1..Len(list)
      BY <1>2
    <3> QED
      BY <1>2, <1>4, <3>1, <3>2, <3>3, <3>4
  <2>6. CASE list' = Sized /\ part' = part
    <3>1. /\ Sized \in Seq(Entry) /\ Len(Sized) = Len(list)
          /\ \A n \in 1..Len(list) :
               /\ Sized[n].path = list[n].path
               /\ Sized[n].size =
                    IF n = FileEntry /\ list[n].size = UNKNOWN
                      THEN get_file_size(list[n].path) ELSE list[n].size
      BY <1>2, <1>3, SizedList
    <3>2. \A n \in 1..Len(list) : get_file_size(list[n].path) \in Nat => list[n].path \in DOMAIN disk
      BY <1>3, FileSize
    <3> QED
      BY <1>2, <2>6, <3>1, <3>2
  <2> QED
    BY <2>1, <2>2, <2>3, <2>4, <2>5, <2>6, ListSteps
<1>6. listed' \subseteq FilePath
  <2>1. CASE WriteMissing
    <3>1. FileEntry \in 1..Len(list)
      BY <1>2, <2>1, FirstInList DEF WriteMissing, FileEntry
    <3>2. list[FileEntry].path \in FilePath
      BY <1>2, <3>1, ListEntry
    <3> QED
      BY <1>3, <2>1, <3>2 DEF WriteMissing, ListOK
  <2>2. CASE ReadsInputs \/ ScanAgain
    BY <1>3, <2>2, ReadsInputsFrame DEF ScanAgain, vars, outVars, ListOK
  <2>3. CASE ImageEntry \/ PassOver \/ StaleError \/ WriteFails \/ Finish
    BY <1>3, <2>3 DEF ImageEntry, PassOver, StaleError, WriteFails, Finish, outVars, ListOK
  <2>4. CASE InData
    BY <1>3, <2>4 DEF InData, StartData, ReadBlock, ReadBlockFails, WriteData, WriteNothing,
       SkipData, EndData, outVars, ListOK
  <2>5. CASE OpenFile \/ FileFails \/ MissingCrash \/ CopyPiece \/ ShortRead \/ EndFile
    BY <1>3, <2>5 DEF OpenFile, FileFails, MissingCrash, CopyPiece, ShortRead, EndFile,
       outVars, ListOK
  <2> QED
    BY <2>1, <2>2, <2>3, <2>4, <2>5, StepCases DEF Walks, InFile
<1> QED
  BY <1>1, <1>5, <1>6 DEF ListOK
-----------------------------------------------------------------------------
(* The extent at t. *)

\* A step of the walk keeps the entries of the list, but for a size.
LEMMA WalkList ==
  ASSUME InputsOK, list \in Seq(Entry), Walks
  PROVE  /\ Len(list') = Len(list)
         /\ \A n \in 1..Len(list) : list'[n].sum = list[n].sum /\ list'[n].path = list[n].path
         /\ pc \in {"data", "skip", "file"} => list' = list
<1>1. pc \in Walk /\ Step
  BY WalksFrame, StepCases
<1>2. \/ UNCHANGED listVars
      \/ AtFile /\ list' = Sized
  <2>1. pc \notin {"lists", "jigdo"}
    BY <1>1 DEF Walk
  <2>2. ~ (ParseLists \/ PartListed \/ PartFound \/ PartNotFound)
    BY <2>1 DEF ParseLists, PartListed, PartFound, PartNotFound, AtNewPart, AtPart
  <2> QED
    BY <1>1, <2>2, ListSteps
<1>3. AtFile => pc = "loop"
  BY DEF AtFile, At
<1> QED
  BY <1>2, <1>3, SizedList DEF listVars

\* An extent has been dealt with.
LEMMA EndExtentOK ==
  ASSUME Types, NEW e, EndExtent(e), t <= Len(Desc), template' = template,
         remaining' = remaining, input' = input, Len(list') = Len(list)
  PROVE  ExtentOK'
<1>1. Desc[t].len \in Nat /\ t \in 1..Len(Desc) /\ Len(Desc) \in Nat
  <2>1. Len(Desc) \in Nat /\ t \in 1..Len(Desc)
    BY DEF Types, InputsOK, IsTemplate, ExtentOK, Desc
  <2> QED
    BY <2>1, DescEntry DEF Types, InputsOK
<1>2. Desc' = Desc /\ pc' = "loop" /\ t' = t + 1 /\ output_offset' = output_offset + Desc[t].len
  BY DEF Desc, EndExtent
<1> QED
  BY <1>1, <1>2 DEF Types, ExtentOK, Early

\* The program has ended within the walk.
LEMMA ExitExtentOK ==
  ASSUME Types, pc' = "exit", template' = template, UNCHANGED loopVars,
         remaining' \in Nat, input' = input, Len(list') = Len(list)
  PROVE  ExtentOK'
<1>1. Desc' = Desc
  BY DEF Desc
<1> QED
  BY <1>1 DEF Types, ExtentOK, Early, loopVars

\* A piece of the extent has been dealt with.
LEMMA PieceExtentOK ==
  ASSUME Types, pc \in {"data", "skip", "file"}, pc' = pc, template' = template, opt' = opt,
         UNCHANGED loopVars, disk' = disk, list' = list, input' = input,
         NEW n \in Nat, n <= remaining, remaining' = remaining - n
  PROVE  ExtentOK'
<1>1. Desc' = Desc /\ t' = t /\ output_offset' = output_offset
  BY DEF Desc, loopVars
<1>2. InRange' <=> InRange
  BY <1>1 DEF InRange
<1>3. remaining' \in Nat /\ remaining' <= remaining /\ remaining \in Nat
  BY DEF Types, ExtentOK
<1>4. t \in 1..Len(Desc)
  BY DEF Types, ExtentOK
<1>5. Desc[t].len \in Nat
  BY <1>4, DescEntry DEF Types, InputsOK
<1> QED
  BY <1>1, <1>2, <1>3, <1>5 DEF Types, ExtentOK, Early

\* As much of the buffer as the extent takes.
LEMMA PieceSize ==
  ASSUME Types, ConstantsAssumption, pc \in {"data", "skip", "file"}
  PROVE  /\ Piece \in Nat /\ Piece <= remaining /\ Piece <= Len(zip.rest)
         /\ Size \in Nat /\ Size <= remaining
         /\ remaining \in Nat /\ Done \in Nat /\ Done + remaining = Desc[t].len
         /\ t \in 1..Len(Desc)
<1>1. remaining \in Nat /\ Len(zip.rest) \in Nat /\ BufSize \in Nat
  BY DEF Types, ExtentOK, ZipOK, ConstantsAssumption
<1>2. t \in 1..Len(Desc) /\ remaining <= Desc[t].len
  BY DEF Types, ExtentOK
<1>3. Desc[t].len \in Nat
  BY <1>2, DescEntry DEF Types, InputsOK
<1> QED
  BY <1>1, <1>2, <1>3 DEF Piece, Size, Min, Done

\* ExtentOK after every step of the program.
LEMMA StepExtent ==
  ASSUME ConstantsAssumption, Types, Step
  PROVE  ExtentOK'
<1>1. /\ opt' = opt /\ template' = template /\ disk' = disk /\ Desc' = Desc
      /\ InputsOK /\ list \in Seq(Entry) /\ ExtentOK /\ Len(Desc) \in Nat
  BY StepFrame DEF Desc, Types, ListOK, InputsOK, IsTemplate
<1>2. Walks => Len(list') = Len(list)
  BY <1>1, WalkList
<1>3. CASE ReadsInputs
  <2>1. pc \in Early /\ UNCHANGED <<loopVars, remaining, fileVars>> /\ pc' \in Early \cup {"loop", "exit"}
    BY <1>3, ReadsInputsFrame
  <2>2. input = 0 /\ Len(list') \in Nat
    BY <1>1, <2>1, StepList DEF ExtentOK, ListOK
  <2> QED
    BY <1>1, <2>1, <2>2 DEF ExtentOK, loopVars, fileVars, Early
<1>4. CASE ScanAgain
  <2>1. UNCHANGED <<pc, t, output_offset, remaining, input, list>>
    BY <1>4 DEF ScanAgain, vars, loopVars, fileVars, listVars
  <2>2. pc = "scan"
    BY <1>4 DEF ScanAgain
  <2> QED
    BY <1>1, <2>1, <2>2 DEF ExtentOK, Early
<1>5. CASE ImageEntry \/ PassOver
  <2>1. t <= Len(Desc) /\ remaining' = remaining /\ input' = input /\ \E e : EndExtent(e)
    BY <1>5 DEF ImageEntry, PassOver, At, fileVars
  <2> QED
    BY <1>1, <1>2, <1>5, <2>1, EndExtentOK DEF Walks
<1>6. CASE StaleError \/ WriteFails \/ Finish
  <2>1. pc' = "exit" /\ UNCHANGED <<loopVars, remaining, input>>
    BY <1>6 DEF StaleError, WriteFails, Finish, Exit, fileVars
  <2> QED
    BY <1>1, <1>2, <1>6, <2>1, ExitExtentOK DEF Walks, ExtentOK
<1>7. CASE StartData
  <2>1. At("data") /\ ~opt.missing
    BY <1>7 DEF StartData
  <2>2. t \in 1..Len(Desc) /\ Desc[t].type = "data"
    BY <1>1, <2>1 DEF At, ExtentOK
  <2>3. Desc[t].len \in Nat
    BY <1>1, <2>2, DescEntry DEF InputsOK
  <2>4. UNCHANGED <<t, output_offset, input, list>> /\ remaining' = Desc[t].len
        /\ pc' = IF InRange THEN "data" ELSE "skip"
    BY <1>7 DEF StartData, loopVars, fileVars, listVars
  <2>5. InRange' <=> InRange
    BY <1>1, <2>4 DEF InRange
  <2> QED
    BY <1>1, <2>1, <2>2, <2>3, <2>4, <2>5 DEF ExtentOK, Early
<1>8. CASE ReadBlock \/ WriteData \/ SkipData
  <2>1. pc \in {"data", "skip", "file"}
    BY <1>8 DEF ReadBlock, WriteData, SkipData, NeedsBlock
  <2>2. /\ pc' = pc /\ UNCHANGED <<loopVars, input, list>>
        /\ remaining' \in {remaining, remaining - Piece}
    BY <1>8 DEF ReadBlock, WriteData, SkipData, fileVars, listVars
  <2>3. \E n \in Nat : n <= remaining /\ remaining' = remaining - n
    <3>1. Piece \in Nat /\ Piece <= remaining /\ 0 <= remaining /\ remaining = remaining - 0
      BY <2>1, PieceSize
    <3> QED
      BY <2>2, <3>1
  <2> QED
    BY <1>1, <2>1, <2>2, <2>3, PieceExtentOK
<1>9. CASE ReadBlockFails \/ WriteNothing \/ EndData
  <2>1. pc \in {"data", "skip", "file"} /\ UNCHANGED <<remaining, input>>
    BY <1>9 DEF ReadBlockFails, WriteNothing, EndData, NeedsBlock, fileVars
  <2>2. (pc' = "exit" /\ UNCHANGED loopVars) \/ (\E e : EndExtent(e))
    BY <1>9 DEF ReadBlockFails, WriteNothing, EndData, Exit
  <2>3. t <= Len(Desc) /\ remaining \in Nat
    BY <1>1, <2>1 DEF ExtentOK
  <2> QED
    BY <1>1, <1>2, <1>9, <2>1, <2>2, <2>3, EndExtentOK, ExitExtentOK DEF Walks, InData
<1>10. CASE OpenFile /\ ~opt.missing
  <2>1. /\ At("file") /\ InRange /\ FileEntry # 0 /\ Sized[FileEntry].size = Desc[t].len
    BY <1>10 DEF OpenFile, AtFile, Usable
  <2>2. /\ pc' = "file" /\ remaining' = Desc[t].len /\ input' = FileEntry
        /\ UNCHANGED <<t, output_offset>> /\ list' = Sized
    BY <1>10 DEF OpenFile, loopVars
  <2>3. t \in 1..Len(Desc) /\ Desc[t].type = "file" /\ Desc[t].len \in Nat
    <3>1. t \in 1..Len(Desc) /\ Desc[t].type = "file"
      BY <1>1, <2>1 DEF At, ExtentOK
    <3> QED
      BY <1>1, <3>1, DescEntry DEF InputsOK
  <2>4. FileEntry \in 1..Len(list) /\ list[FileEntry].sum = Desc[t].sum
    BY <1>1, <2>1, FirstInList DEF FileEntry
  <2>5. list'[FileEntry].sum = Desc[t].sum
    BY <1>1, <2>2, <2>4, SizedList
  <2>6. list'[FileEntry].path \in DOMAIN disk
    <3>1. ListOK'
      BY StepList
    <3>2. list'[FileEntry].size \in Nat /\ FileEntry \in 1..Len(list')
      BY <1>2, <1>10, <2>1, <2>2, <2>3, <2>4 DEF Walks, InFile
    <3> QED
      BY <1>1, <3>1, <3>2 DEF ListOK
  <2>7. InRange'
    BY <1>1, <2>1, <2>2 DEF InRange
  <2> QED
    BY <1>1, <1>2, <1>10, <2>2, <2>3, <2>4, <2>5, <2>6, <2>7 DEF ExtentOK, Early, Walks, InFile
<1>11. CASE \/ OpenFile /\ opt.missing
            \/ FileFails \/ WriteMissing \/ MissingCrash
  <2>1. AtFile /\ UNCHANGED <<remaining, input>>
    BY <1>11 DEF OpenFile, FileFails, WriteMissing, MissingCrash, fileVars
  <2>2. (pc' = "exit" /\ UNCHANGED loopVars) \/ EndExtent(FALSE)
    BY <1>11 DEF OpenFile, FileFails, WriteMissing, MissingCrash, Exit
  <2>3. t <= Len(Desc) /\ remaining \in Nat
    BY <1>1, <2>1 DEF AtFile, At, ExtentOK
  <2> QED
    BY <1>1, <1>2, <1>11, <2>1, <2>2, <2>3, EndExtentOK, ExitExtentOK DEF Walks, InFile
<1>12. CASE CopyPiece
  <2>1. pc = "file" /\ pc' = pc /\ UNCHANGED <<loopVars, input, list>> /\ remaining' = remaining - Size
    BY <1>12 DEF CopyPiece, listVars
  <2>2. Size \in Nat /\ Size <= remaining
    BY <2>1, PieceSize
  <2> QED
    BY <1>1, <2>1, <2>2, PieceExtentOK
<1>13. CASE ShortRead \/ EndFile
  <2>1. pc = "file" /\ UNCHANGED <<remaining, input>>
    BY <1>13 DEF ShortRead, EndFile, fileVars
  <2>2. (pc' = "exit" /\ UNCHANGED loopVars) \/ EndExtent(FALSE)
    BY <1>13 DEF ShortRead, EndFile, Exit
  <2>3. t <= Len(Desc) /\ remaining \in Nat
    BY <1>1, <2>1 DEF ExtentOK
  <2> QED
    BY <1>1, <1>2, <1>13, <2>1, <2>2, <2>3, EndExtentOK, ExitExtentOK DEF Walks, InFile
<1> QED
  BY <1>3, <1>4, <1>5, <1>6, <1>7, <1>8, <1>9, <1>10, <1>11, <1>12, <1>13, StepCases
  DEF Walks, InData, InFile
-----------------------------------------------------------------------------
(* The decompressor and the bytes that are written. *)

\* What is left of the buffer, and of the file, are bytes.
LEMMA Pieces ==
  ASSUME ConstantsAssumption, Types
  PROVE  /\ pc \in {"data", "skip"} =>
              LET rest == SubSeq(zip.rest, Piece + 1, Len(zip.rest)) IN
              /\ SubSeq(zip.rest, 1, Piece) \in Seq(Byte)
              /\ Len(SubSeq(zip.rest, 1, Piece)) = Piece
              /\ rest \in Seq(Byte) /\ Len(rest) = Len(zip.rest) - Piece
         /\ pc = "file" => /\ Found \in Seq(Byte)
                           /\ disk[list[input].path] \in Seq(Byte)
<1>1. zip.rest \in Seq(Byte)
  BY DEF Types, ZipOK
<1>2. CASE pc \in {"data", "skip"}
  <2>1. Piece \in 0..Len(zip.rest)
    BY <1>2, PieceSize
  <2> QED
    BY <1>1, <1>2, <2>1, Split
<1>3. CASE pc = "file"
  <2> DEFINE d == disk[list[input].path]
             at == Desc[t].len - remaining
             m == Min(at + Size, Len(d))
  <2>1. list[input].path \in DOMAIN disk
    BY <1>3 DEF Types, ExtentOK
  <2>2. d \in Seq(Byte)
    BY <2>1 DEF Types, InputsOK
  <2>3. at \in Nat /\ Size \in Nat
    BY <1>3, PieceSize DEF Done
  <2>4. Len(d) \in Nat
    BY <2>2
  <2> HIDE DEF d, at
  <2>5. m \in Nat /\ m <= Len(d)
    BY <2>3, <2>4 DEF Min
  <2> HIDE DEF m
  <2>6. SubSeq(d, at + 1, m) \in Seq(Byte)
    <3>1. CASE at <= m
      <4>1. m \in at..Len(d)
        BY <2>3, <2>4, <2>5, <3>1
      <4> QED
        BY <2>2, <2>3, <4>1, Cut
    <3>2. CASE ~(at <= m)
      <4>1. at + 1 > m
        BY <2>3, <2>5, <3>2
      <4> QED
        BY <2>2, <2>3, <2>5, <4>1, SubSeqProperties
    <3> QED
      BY <3>1, <3>2
  <2>7. Found = SubSeq(d, at + 1, m)
    BY DEF Found, d, at, m
  <2> QED
    BY <1>3, <2>2, <2>6, <2>7 DEF d
<1> QED
  BY <1>2, <1>3

\* A DATA part is bytes.
LEMMA BlockBytes ==
  ASSUME IsTemplate(template), NEW m \in 1..Len(Blocks)
  PROVE  Blocks[m] \in Seq(Byte)
<1> DEFINE B == Seq(Byte)
<1>1. Blocks \in Seq(B)
  BY DEF IsTemplate, Blocks
<1> HIDE DEF B
<1>2. Blocks[m] \in B
  BY <1>1, ElementOfSeq
<1> QED
  BY <1>2 DEF B

\* The steps that touch the buffer of the decompressor.
LEMMA ZipSteps ==
  ASSUME Step
  PROVE  UNCHANGED zipVars \/ ReadBlock \/ ReadBlockFails \/ WriteData \/ SkipData
<1>1. CASE ReadsInputs
  BY <1>1, ReadsInputsFrame
<1>2. CASE ScanAgain
  BY <1>2 DEF ScanAgain, vars
<1>3. CASE ImageEntry \/ PassOver \/ StaleError \/ WriteFails \/ Finish
  BY <1>3 DEF ImageEntry, PassOver, StaleError, WriteFails, Finish
<1>4. CASE StartData \/ WriteNothing \/ EndData
  BY <1>4 DEF StartData, WriteNothing, EndData
<1>5. CASE InFile
  BY <1>5 DEF InFile, OpenFile, FileFails, WriteMissing, MissingCrash, CopyPiece,
     ShortRead, EndFile
<1> QED
  BY <1>1, <1>2, <1>3, <1>4, <1>5, StepCases DEF Walks, InData

\* ZipOK after every step of the program.
LEMMA StepZip ==
  ASSUME ConstantsAssumption, Types, Step
  PROVE  ZipOK'
<1>1. /\ template' = template /\ Blocks' = Blocks /\ Len(Blocks) \in Nat
      /\ ZipOK /\ IsTemplate(template)
  BY StepFrame DEF Blocks, Types, InputsOK, IsTemplate
<1>2. CASE UNCHANGED zipVars
  BY <1>1, <1>2 DEF ZipOK, zipVars
<1>3. CASE ReadBlock
  <2>1. /\ block \in 1..Len(Blocks) /\ block' = block + 1
        /\ zip' = [null |-> FALSE, rest |-> Blocks[block]]
    BY <1>1, <1>3 DEF ReadBlock, BlockReadable, ZipOK
  <2>2. Blocks[block] \in Seq(Byte)
    BY <1>1, <2>1, BlockBytes
  <2> QED
    BY <1>1, <2>1, <2>2 DEF ZipOK
<1>4. CASE ReadBlockFails
  <2>1. zip' = [null |-> block > Len(Blocks), rest |-> << >>] /\ block' = block
    BY <1>4 DEF ReadBlockFails
  <2>2. << >> \in Seq(Byte) /\ (block > Len(Blocks)) \in BOOLEAN
    OBVIOUS
  <2>3. zip'.rest = << >> /\ zip' \in [null : BOOLEAN, rest : Seq(Byte)]
    BY <2>1, <2>2
  <2> QED
    BY <1>1, <2>1, <2>3 DEF ZipOK
<1>5. CASE WriteData \/ SkipData
  <2> DEFINE rest == SubSeq(zip.rest, Piece + 1, Len(zip.rest))
             null == Piece = Len(zip.rest)
  <2>1. pc \in {"data", "skip"} /\ zip' = [null |-> null, rest |-> rest] /\ block' = block
    BY <1>5 DEF WriteData, SkipData, Consume
  <2>2. rest \in Seq(Byte) /\ Len(rest) = Len(zip.rest) - Piece
    BY <2>1, Pieces
  <2>3. Len(zip.rest) \in Nat /\ null \in BOOLEAN
    BY <1>1 DEF ZipOK
  <2>4. null => Len(rest) = 0
    BY <2>2, <2>3
  <2> HIDE DEF null, rest
  <2>5. null => rest = << >>
    BY <2>2, <2>4, EmptySeq
  <2>6. zip'.rest = rest /\ zip'.null = null /\ zip' \in [null : BOOLEAN, rest : Seq(Byte)]
    BY <2>1, <2>2, <2>3
  <2> QED
    BY <1>1, <2>1, <2>5, <2>6 DEF ZipOK
<1> QED
  BY <1>2, <1>3, <1>4, <1>5, ZipSteps

\* The steps that write.
LEMMA OutSteps ==
  ASSUME Step
  PROVE  \/ UNCHANGED <<out, image_sum>>
            /\ file_sum' \in {file_sum, << >>}
         \/ WriteData \/ CopyPiece
<1>1. CASE ReadsInputs
  BY <1>1, ReadsInputsFrame DEF fileVars, outVars
<1>2. CASE ScanAgain
  BY <1>2 DEF ScanAgain, vars, fileVars, outVars
<1>3. CASE ImageEntry \/ PassOver \/ StaleError \/ WriteFails \/ Finish
  BY <1>3 DEF ImageEntry, PassOver, StaleError, WriteFails, Finish, fileVars, outVars
<1>4. CASE InData
  BY <1>4 DEF InData, StartData, ReadBlock, ReadBlockFails, WriteNothing,
     SkipData, EndData, fileVars, outVars
<1>5. CASE InFile
  BY <1>5 DEF InFile, OpenFile, FileFails, WriteMissing, MissingCrash,
     ShortRead, EndFile, fileVars, outVars
<1> QED
  BY <1>1, <1>2, <1>3, <1>4, <1>5, StepCases DEF Walks

\* BytesOK after every step of the program.
LEMMA StepBytes ==
  ASSUME ConstantsAssumption, Types, Step
  PROVE  BytesOK'
<1>1. /\ opt' = opt /\ template' = template /\ Desc' = Desc /\ (quick' <=> quick)
      /\ (Compared' <=> Compared) /\ ImageEntries' = ImageEntries /\ BytesOK /\ FlagsOK
  BY StepFrame DEF Desc, quick, Compared, ImageEntries, Types
<1>2. /\ file_sum' \in Seq(Byte) /\ image_sum' \in Seq(Byte) /\ out' \in Seq(Byte)
      /\ ~quick => image_sum' = out'
  <2> DEFINE B == Seq(Byte)
  <2>4. /\ file_sum \in B /\ image_sum \in B /\ out \in B /\ << >> \in B
        /\ ~quick => image_sum = out
    BY <1>1 DEF BytesOK
  <2>5. \A x, y \in B : x \o y \in B
    OBVIOUS
  <2> HIDE DEF B
  <2> SUFFICES /\ file_sum' \in B /\ image_sum' \in B /\ out' \in B
               /\ ~quick => image_sum' = out'
    BY DEF B
  <2>1. CASE UNCHANGED <<out, image_sum>> /\ file_sum' \in {file_sum, << >>}
    BY <2>1, <2>4
  <2>2. CASE WriteData
    <3> DEFINE new == SubSeq(zip.rest, 1, Piece)
    <3>1. new \in B
      BY <2>2, Pieces DEF WriteData, B
    <3>2. /\ out' = out \o new /\ file_sum' = file_sum
          /\ image_sum' = IF quick THEN image_sum ELSE image_sum \o new
      BY <2>2 DEF WriteData, fileVars
    <3> HIDE DEF new
    <3> QED
      BY <2>4, <2>5, <3>1, <3>2
  <2>3. CASE CopyPiece
    <3>1. Found \in B
      BY <2>3, Pieces DEF CopyPiece, B
    <3>2. /\ out' = out \o Found
          /\ IF quick THEN image_sum' = image_sum /\ file_sum' = file_sum
                      ELSE image_sum' = image_sum \o Found /\ file_sum' = file_sum \o Found
      BY <2>3 DEF CopyPiece
    <3> QED
      BY <2>4, <2>5, <3>1, <3>2
  <2> QED
    BY <2>1, <2>2, <2>3, OutSteps
<1>3. ASSUME Written', Compared
      PROVE  \A k \in ImageEntries : Desc[k].sum.of = out'
  <2>1. status' = "ok" /\ ~opt.sizeonly /\ ~opt.missing
    BY <1>1, <1>3 DEF Written
  <2>2. pc' = "exit"
    BY <1>1, <2>1, StepFlags DEF FlagsOK
  <2>3. ~ScanAgain
    BY <1>1, <2>2 DEF ScanAgain, vars, FlagsOK
  <2>4. CASE ReadsInputs
    BY <1>1, <2>1, <2>4, ReadsInputsFrame DEF FlagsOK, Running, Early
  <2>5. CASE Walks
    <3>1. pc \in Walk
      BY <2>5, WalksFrame
    <3>2. status # "ok"
      BY <1>1, <3>1 DEF FlagsOK, Walk
    <3>3. Finish
      BY <2>1, <2>5, <3>2, WalksFrame DEF Running
    <3>4. ~Mismatch
      BY <2>1, <3>3 DEF Finish, Exit
    <3>5. UNCHANGED out
      BY <3>3 DEF Finish, outVars
    <3> QED
      BY <1>1, <1>3, <3>4, <3>5 DEF Mismatch, Compared, BytesOK
  <2> QED
    BY <2>3, <2>4, <2>5, StepCases
<1> QED
  BY <1>1, <1>2, <1>3 DEF BytesOK

\* Every variable keeps its type.
LEMMA StepTypes ==
  ASSUME ConstantsAssumption, Types, Step
  PROVE  Types'
<1>1. InputsOK'
  BY StepFrame DEF Types, InputsOK, Paths
<1> QED
  BY <1>1, StepFlags, StepList, StepExtent, StepZip, StepBytes DEF Types

\* When the program is started with inputs of their types all is typed.
LEMMA StartedTypes ==
  ASSUME Started, InputsOK
  PROVE  Types
<1>1. /\ 1 \in 1..Len(Desc) + 1 /\ 1 \in 1..Len(Blocks) + 1 /\ 1 \in 1..Len(jigdo.parts) + 1
  <2>1. Len(Desc) \in Nat /\ Len(Blocks) \in Nat /\ Len(jigdo.parts) \in Nat
    BY DEF InputsOK, IsTemplate, IsJigdo, Desc, Blocks
  <2> QED
    BY <2>1
<1>2. FlagsOK
  BY DEF Started, FlagsOK, Early, Walk
<1>3. ListOK
  BY <1>1 DEF Started, ListOK
<1>4. ExtentOK
  BY <1>1 DEF Started, ExtentOK
<1>5. ZipOK
  BY <1>1 DEF Started, ZipOK
<1>6. BytesOK
  BY DEF Started, BytesOK, Written
<1> QED
  BY <1>2, <1>3, <1>4, <1>5, <1>6 DEF Types

\* Another program changes what is in a file, not which files there are.
LEMMA RewriteFrame ==
  ASSUME ConstantsAssumption, InputsOK, Rewrite
  PROVE  /\ pc # "exit" /\ InputsOK' /\ rewritten' = TRUE /\ DOMAIN disk' = DOMAIN disk
         /\ UNCHANGED <<pc, status, argVars, listVars, loopVars, zipVars,
                        remaining, fileVars, outVars, lost>>
<1>1. PICK r \in Rewrites : r.path \in DOMAIN disk /\ disk' = [disk EXCEPT ![r.path] = r.content]
  BY DEF Rewrite
<1>2. r.content \in Seq(Byte)
  BY DEF ConstantsAssumption
<1>3. DOMAIN disk' = DOMAIN disk /\ \A p \in DOMAIN disk : disk'[p] \in Seq(Byte)
  BY <1>1, <1>2 DEF InputsOK
<1> QED
  BY <1>3 DEF InputsOK, Rewrite, argVars, Paths

\* The types after another program has written to the mirror.
LEMMA RewriteTypes ==
  ASSUME ConstantsAssumption, Types, Rewrite
  PROVE  Types'
<1>1. /\ InputsOK' /\ DOMAIN disk' = DOMAIN disk
      /\ UNCHANGED <<pc, status, argVars, listVars, loopVars, zipVars,
                     remaining, fileVars, outVars, lost>>
  BY RewriteFrame DEF Types
<1>2. Desc' = Desc /\ Blocks' = Blocks /\ (InRange' <=> InRange) /\ (quick' <=> quick)
      /\ (Written' <=> Written) /\ (Compared' <=> Compared) /\ ImageEntries' = ImageEntries
  BY <1>1 DEF Desc, Blocks, InRange, quick, Written, Compared, ImageEntries, argVars, loopVars
<1>3. FlagsOK'
  BY <1>1 DEF Types, FlagsOK, loopVars, zipVars, outVars
<1>4. ListOK'
  BY <1>1 DEF Types, ListOK, listVars, argVars, outVars
<1>5. ExtentOK'
  BY <1>1, <1>2 DEF Types, ExtentOK, listVars, argVars, loopVars, fileVars
<1>6. ZipOK'
  BY <1>1, <1>2 DEF Types, ZipOK, zipVars
<1>7. BytesOK'
  BY <1>1, <1>2 DEF Types, BytesOK, fileVars, outVars
<1> QED
  BY <1>1, <1>3, <1>4, <1>5, <1>6, <1>7 DEF Types

\* Nothing changes.
LEMMA StutterTypes ==
  ASSUME Types, UNCHANGED vars
  PROVE  Types'
<1>1. /\ UNCHANGED <<pc, status, opt, template, jigdo, disk, rewritten, list, part, t,
                     output_offset, error, zip, block, remaining, input, file_sum,
                     image_sum, out, listed, dropped, lost>>
  BY DEF vars, argVars, mirrorVars, listVars, loopVars, zipVars, fileVars, outVars
<1>2. InputsOK' /\ FlagsOK' /\ ListOK'
  BY <1>1 DEF Types, InputsOK, FlagsOK, ListOK, Paths
<1>3. ExtentOK' /\ ZipOK'
  BY <1>1 DEF Types, ExtentOK, ZipOK, InRange, Desc, Blocks
<1>4. BytesOK'
  BY <1>1 DEF Types, BytesOK, quick, Written, Compared, ImageEntries, Desc
<1> QED
  BY <1>2, <1>3, <1>4 DEF Types

\* The types after every step.
LEMMA NextTypes ==
  ASSUME ConstantsAssumption, Types, [Next]_vars
  PROVE  Types'
BY StepTypes, RewriteTypes, StutterTypes DEF Next, Exited

\* The inputs are of their types.
LEMMA InitInputs ==
  ASSUME ConstantsAssumption, Init
  PROVE  Started /\ InputsOK /\ Describes(template)
<1>1. disk \in Disks /\ template \in Templates /\ jigdo \in Jigdos /\ opt \in Options /\ Started
      /\ rewritten = FALSE
  BY DEF Init
<1>2. disk \in [DOMAIN disk -> Seq(Byte)] /\ DOMAIN disk \subseteq Paths
  BY <1>1 DEF ConstantsAssumption, Paths
<1> QED
  BY <1>1, <1>2 DEF InputsOK, ConstantsAssumption, AnyOption

\* The options, the template and the .jigdo are among those that were given, and
\* every variable has its type, whatever the mirror holds and whoever rewrites it.
THEOREM TypeCorrect == Spec => []TypeOK
<1> DEFINE Args == opt \in Options /\ template \in Templates /\ jigdo \in Jigdos
<1>1. Init => Types /\ Args
  BY ConstantsAssumption, InitInputs, StartedTypes DEF Init
<1>2. Types /\ Args /\ [Next]_vars => Types' /\ Args'
  <2> SUFFICES ASSUME Types, Args, [Next]_vars
               PROVE  Types' /\ Args'
    OBVIOUS
  <2>1. CASE Step
    BY <2>1, StepFrame, NextTypes, ConstantsAssumption
  <2>2. CASE Rewrite
    BY <2>2, NextTypes, ConstantsAssumption DEF Rewrite, argVars
  <2>3. CASE UNCHANGED vars
    BY <2>3, NextTypes, ConstantsAssumption DEF vars, argVars
  <2> QED
    BY <2>1, <2>2, <2>3 DEF Next, Exited
<1>3. Types /\ Args => TypeOK
  BY DEF Types, InputsOK, FlagsOK, ListOK, ExtentOK, ZipOK, BytesOK, TypeOK, Early, Walk
<1> QED
  BY <1>1, <1>2, <1>3, PTL DEF Spec
-----------------------------------------------------------------------------
(* Where the walk is. *)

\* What a template says of the extent k.
LEMMA ExtentFacts ==
  ASSUME IsTemplate(template), Describes(template), NEW k \in 1..Len(Desc)
  PROVE  /\ template.at[k] \in Nat /\ template.at[k + 1] \in Nat
         /\ template.from[k] \in Nat /\ template.from[k + 1] \in Nat
         /\ Desc[k].len \in Nat
         /\ template.at[k + 1] =
              template.at[k] + (IF Desc[k].type = "image" THEN 0 ELSE Desc[k].len)
         /\ template.from[k + 1] =
              template.from[k] + (IF Desc[k].type = "data" THEN Desc[k].len ELSE 0)
         /\ template.at[k + 1] <= Len(Image) /\ template.from[k + 1] <= Len(template.stream)
         /\ Desc[k].type = "data" =>
              SubSeq(Image, template.at[k] + 1, template.at[k + 1]) =
              SubSeq(template.stream, template.from[k] + 1, template.from[k + 1])
         /\ Desc[k].type = "file" =>
              SubSeq(Image, template.at[k] + 1, template.at[k + 1]) = Desc[k].sum.of
         /\ Desc[k].type = "image" => k = Len(Desc) /\ Desc[k].sum.of = Image
<1>1. /\ Len(template.at) = Len(Desc) + 1 /\ Len(template.from) = Len(Desc) + 1
      /\ Len(Desc) \in Nat /\ template.at \in Seq(Nat) /\ template.from \in Seq(Nat)
  BY DEF IsTemplate, Describes, Desc
<1>2. k \in 1..Len(Desc) + 1 /\ k + 1 \in 1..Len(Desc) + 1
  BY <1>1
<1>3. /\ template.at[k] \in Nat /\ template.at[k + 1] \in Nat
      /\ template.from[k] \in Nat /\ template.from[k + 1] \in Nat
  BY <1>1, <1>2, ElementOfSeq
<1>4. Desc[k].len \in Nat
  BY DescEntry
<1> QED
  BY <1>3, <1>4 DEF Describes, Desc, Image

\* The places of the template are within the image and the unmatched data.
LEMMA Places ==
  ASSUME IsTemplate(template), Describes(template)
  PROVE  /\ \A k \in 1..Len(Desc) + 1 :
              /\ template.at[k] \in Nat /\ template.at[k] <= Len(Image)
              /\ template.from[k] \in Nat /\ template.from[k] <= Len(template.stream)
         /\ Len(Desc) \in Nat /\ Len(Desc) > 0
         /\ Image \in Seq(Byte) /\ Len(Image) \in Nat
         /\ template.stream \in Seq(Byte) /\ Len(template.stream) \in Nat
         /\ template.at[1] = 0 /\ template.from[1] = 0
         /\ template.at[Len(Desc) + 1] = Len(Image)
<1>1. /\ Len(Desc) \in Nat /\ Len(Desc) > 0
      /\ Image \in Seq(Byte) /\ Len(Image) \in Nat
      /\ template.stream \in Seq(Byte) /\ Len(template.stream) \in Nat
      /\ template.at[1] = 0 /\ template.from[1] = 0
      /\ template.at[Len(Desc) + 1] = Len(Image)
  BY SMTT(30) DEF IsTemplate, Describes, Desc, Image
<1>2. ASSUME NEW k \in 1..Len(Desc) + 1
      PROVE  /\ template.at[k] \in Nat /\ template.at[k] <= Len(Image)
             /\ template.from[k] \in Nat /\ template.from[k] <= Len(template.stream)
  <2>1. CASE k = 1
    BY <1>1, <2>1
  <2>2. CASE k # 1
    <3>1. k - 1 \in 1..Len(Desc) /\ (k - 1) + 1 = k
      BY <1>1, <2>2
    <3> QED
      BY <3>1, ExtentFacts
  <2> QED
    BY <2>1, <2>2
<1> QED
  BY <1>1, <1>2

\* A step of the walk stays at the extent or goes to the next.
LEMMA WalkMoves ==
  ASSUME ConstantsAssumption, Types, Walks
  PROVE  \/ UNCHANGED loopVars
         \/ t \in 1..Len(Desc) /\ \E e : EndExtent(e)
<1>1. Types' /\ template' = template
  BY StepTypes, StepCases, StepFrame
<1>2. t \in 1..Len(Desc) + 1 /\ t' \in 1..Len(Desc) + 1
  BY <1>1 DEF Types, ExtentOK, Desc
<1>3. Len(Desc) \in Nat
  BY DEF Types, InputsOK, IsTemplate, Desc
<1>4. (\E e : EndExtent(e)) => t' = t + 1
  BY DEF EndExtent
<1> QED
  BY <1>2, <1>3, <1>4, WalksFrame

\* The first step of the walk.
LEMMA WalkBegins ==
  ASSUME ReadsInputs, pc' \in Walk
  PROVE  /\ pc' = "loop" /\ pc \in Early
         /\ UNCHANGED <<loopVars, zipVars, remaining, fileVars, outVars>>
BY ReadsInputsFrame DEF Early, Walk

\* PlaceInv after every step of the program.
LEMMA StepPlace ==
  ASSUME ConstantsAssumption, Types, Describes(template), PlaceInv, Step
  PROVE  PlaceInv'
<1>1. /\ template' = template /\ Desc' = Desc /\ IsTemplate(template)
      /\ t \in 1..Len(Desc) + 1
  BY StepFrame DEF Desc, Types, InputsOK, ExtentOK
<1>2. CASE ReadsInputs
  <2>1. CASE pc' \in Walk
    <3>1. t' = 1 /\ output_offset' = 0
      BY <1>2, <2>1, WalkBegins DEF Types, FlagsOK, loopVars
    <3> QED
      BY <1>1, <3>1, Places DEF PlaceInv
  <2>2. CASE pc' \notin Walk
    BY <2>2 DEF PlaceInv
  <2> QED
    BY <2>1, <2>2
<1>3. CASE ScanAgain
  BY <1>3, <1>1 DEF ScanAgain, vars, loopVars, PlaceInv
<1>4. CASE Walks
  <2>1. pc \in Walk
    BY <1>4, WalksFrame
  <2>2. CASE UNCHANGED loopVars
    BY <1>1, <2>1, <2>2 DEF loopVars, PlaceInv
  <2>3. CASE t \in 1..Len(Desc) /\ \E e : EndExtent(e)
    <3>1. t' = t + 1 /\ output_offset' = output_offset + Desc[t].len
      BY <2>3 DEF EndExtent
    <3>2. output_offset = template.at[t] /\ Len(Desc) \in Nat
      BY <1>1, <2>1, <2>3, Places DEF PlaceInv
    <3>3. /\ Desc[t].type = "image" => t = Len(Desc)
          /\ Desc[t].type # "image" => template.at[t + 1] = template.at[t] + Desc[t].len
      BY <1>1, <2>3, ExtentFacts
    <3> QED
      BY <1>1, <3>1, <3>2, <3>3 DEF PlaceInv
  <2> QED
    BY <1>4, <2>2, <2>3, WalkMoves
<1> QED
  BY <1>2, <1>3, <1>4, StepCases
-----------------------------------------------------------------------------
(* The decompressor. *)

\* What the DATA part m holds.
LEMMA BlockFacts ==
  ASSUME IsTemplate(template), Describes(template), NEW m \in 1..Len(Blocks)
  PROVE  /\ Start(template, m) \in Nat /\ Start(template, m + 1) \in Nat
         /\ Start(template, m) <= Start(template, m + 1)
         /\ Start(template, m + 1) <= Len(template.stream)
         /\ Blocks[m] = SubSeq(template.stream, Start(template, m) + 1, Start(template, m + 1))
         /\ Len(Blocks[m]) = Start(template, m + 1) - Start(template, m)
<1>1. Len(template.ends) = Len(Blocks) /\ template.ends \in Seq(Nat) /\ Len(Blocks) \in Nat
      /\ template.stream \in Seq(Byte)
  BY DEF IsTemplate, Describes, Blocks
<1>2. \A k \in 1..Len(Blocks) : template.ends[k] \in Nat
  BY <1>1, ElementOfSeq
<1>3. Start(template, m + 1) = template.ends[m]
  BY <1>1 DEF Start
<1>4. Start(template, m) \in Nat
  <2>1. m = 1 \/ m - 1 \in 1..Len(Blocks)
    BY <1>1
  <2> QED
    BY <1>2, <2>1 DEF Start
<1>5. /\ Start(template, m) <= template.ends[m] /\ template.ends[m] <= Len(template.stream)
      /\ Blocks[m] = SubSeq(template.stream, Start(template, m) + 1, template.ends[m])
  BY DEF Describes, Blocks
<1>6. Start(template, m + 1) \in Start(template, m)..Len(template.stream)
  BY <1>1, <1>2, <1>3, <1>4, <1>5
<1>7. Len(Blocks[m]) = Start(template, m + 1) - Start(template, m)
  BY <1>1, <1>3, <1>4, <1>5, <1>6, Cut
<1> QED
  BY <1>2, <1>3, <1>4, <1>5, <1>7

\* How far the decompressor has come, and the byte it is at.
LEMMA SyncPlaces ==
  ASSUME ConstantsAssumption, Types, Describes(template)
  PROVE  /\ Reached \in Nat /\ Reached <= Len(template.stream)
         /\ Pos \in Nat
         /\ pc \in {"data", "skip"} => Pos + remaining = template.from[t + 1]
         /\ zip.rest \in Seq(Byte) /\ Len(zip.rest) \in Nat
<1>1. IsTemplate(template) /\ block \in 1..Len(Blocks) + 1 /\ Len(Blocks) \in Nat
      /\ zip.rest \in Seq(Byte)
  BY DEF Types, InputsOK, ZipOK, IsTemplate, Blocks
<1>2. Reached \in Nat /\ Reached <= Len(template.stream)
  <2>1. CASE block = 1
    BY <1>1, <2>1, Places DEF Reached, Start
  <2>2. CASE block # 1
    <3>1. block - 1 \in 1..Len(Blocks) /\ (block - 1) + 1 = block
      BY <1>1, <2>2
    <3> QED
      BY <1>1, <3>1, BlockFacts DEF Reached
  <2> QED
    BY <2>1, <2>2
<1>3. template.from[t] \in Nat
  BY <1>1, Places DEF Types, ExtentOK
<1>4. CASE pc \in {"data", "skip"}
  <2>1. Done \in Nat /\ Done + remaining = Desc[t].len /\ remaining \in Nat /\ t \in 1..Len(Desc)
    BY <1>4, PieceSize
  <2>2. Desc[t].type = "data"
    BY <1>4 DEF Types, ExtentOK
  <2>3. template.from[t + 1] = template.from[t] + Desc[t].len
    BY <1>1, <2>1, <2>2, ExtentFacts
  <2>4. Pos = template.from[t] + Done
    BY <1>4 DEF Pos
  <2> HIDE DEF Done
  <2>5. PICK d \in Nat : d = Done
    BY <2>1
  <2>6. PICK f \in Nat : f = template.from[t]
    BY <1>3
  <2>7. Pos = f + d /\ template.from[t + 1] = f + (d + remaining)
    BY <2>1, <2>3, <2>4, <2>5, <2>6
  <2>8. Pos \in Nat /\ Pos + remaining = template.from[t + 1]
    BY <2>1, <2>7
  <2> QED
    BY <1>1, <1>2, <2>8
<1>5. CASE pc \notin {"data", "skip"}
  BY <1>1, <1>2, <1>3, <1>5 DEF Pos
<1> QED
  BY <1>4, <1>5

\* In step with a template that is whole there is a DATA part for what is to come.
LEMMA NothingLeft ==
  ASSUME ConstantsAssumption, Types, Describes(template), InStep, ~Damaged,
         pc \in {"data", "skip"}, remaining > 0, zip.rest = << >>
  PROVE  BlockReadable
<1>1. /\ block \in 1..Len(Blocks) + 1 /\ Len(Blocks) \in Nat /\ remaining \in Nat
      /\ t \in 1..Len(Desc) /\ IsTemplate(template)
  BY SMTT(30) DEF Types, InputsOK, ZipOK, ExtentOK, IsTemplate, Blocks
<1>2. template.corrupt = {} /\ Start(template, Len(Blocks) + 1) = Len(template.stream)
  BY DEF Damaged
<1>3. Pos + remaining = template.from[t + 1] /\ Pos \in Nat
  BY SyncPlaces
<1>4. Pos + 0 = Reached
  BY DEF InStep
<1>5. template.from[t + 1] \in Nat /\ template.from[t + 1] <= Len(template.stream)
      /\ Len(template.stream) \in Nat
  BY <1>1, ExtentFacts, Places
<1>6. Reached < Len(template.stream)
  BY <1>1, <1>3, <1>4, <1>5
<1>7. block # Len(Blocks) + 1
  BY <1>2, <1>5, <1>6 DEF Reached
<1> QED
  BY <1>1, <1>2, <1>7 DEF BlockReadable

\* The place does not change.
LEMMA SamePlace ==
  ASSUME SyncInv, pc \in Walk, opt' = opt, template' = template, UNCHANGED zipVars,
         ~dropped' => ~dropped, pc' # "exit" => Pos' = Pos
  PROVE  SyncInv'
<1>1. Reached' = Reached /\ Blocks' = Blocks /\ (BlockReadable' <=> BlockReadable)
      /\ zip'.rest = zip.rest /\ (Damaged' <=> Damaged)
  BY DEF Reached, Blocks, BlockReadable, zipVars, Damaged
<1>2. Stuck => Stuck'
  BY <1>1 DEF Stuck
<1>3. Pos' = Pos /\ InStep => InStep'
  BY <1>1 DEF InStep
<1> QED
  BY <1>2, <1>3 DEF SyncInv, Walk

\* The buffer without its next piece, and the piece.
LEMMA BufferCut ==
  ASSUME template.stream \in Seq(Byte), Pos \in Nat, Reached \in Nat,
         Reached <= Len(template.stream), zip.rest \in Seq(Byte), InStep,
         Piece \in Nat, Piece <= Len(zip.rest)
  PROVE  LET rest == SubSeq(zip.rest, Piece + 1, Len(zip.rest)) IN
         /\ SubSeq(zip.rest, 1, Piece) = SubSeq(template.stream, Pos + 1, Pos + Piece)
         /\ rest = SubSeq(template.stream, (Pos + Piece) + 1, Reached)
         /\ Len(rest) = Reached - (Pos + Piece)
         /\ (Pos + Piece) + (Reached - (Pos + Piece)) = Reached
         /\ Pos + Piece <= Reached
<1>1. Pos + Len(zip.rest) = Reached /\ zip.rest = SubSeq(template.stream, Pos + 1, Reached)
  BY DEF InStep
<1> QED
  BY <1>1, CutShort

\* Some of the buffer is consumed.
LEMMA Consumed ==
  ASSUME ConstantsAssumption, Types, Describes(template), pc \in {"data", "skip"}, pc' = pc,
         Consume(Piece), remaining' = remaining - Piece, block' = block, t' = t,
         template' = template
  PROVE  /\ InStep => InStep'
         /\ Stuck => Stuck'
<1>1. /\ Piece \in Nat /\ Piece <= Len(zip.rest) /\ remaining \in Nat /\ Done \in Nat
      /\ t \in 1..Len(Desc) /\ Done + remaining = Desc[t].len
  BY PieceSize
<1>2. /\ Reached \in Nat /\ Reached <= Len(template.stream) /\ Pos \in Nat
      /\ zip.rest \in Seq(Byte) /\ Len(zip.rest) \in Nat
      /\ template.stream \in Seq(Byte) /\ Len(template.stream) \in Nat
  BY SyncPlaces, Places DEF Types, InputsOK
<1>3. /\ Desc' = Desc /\ Blocks' = Blocks /\ Reached' = Reached
      /\ (BlockReadable' <=> BlockReadable) /\ (Damaged' <=> Damaged)
  BY DEF Desc, Blocks, Reached, BlockReadable, Damaged
<1>4. zip'.rest = SubSeq(zip.rest, Piece + 1, Len(zip.rest))
  BY DEF Consume
<1>5. Pos' = Pos + Piece
  <2>1. template.from[t] \in Nat /\ Desc[t].len \in Nat
    BY <1>1, ExtentFacts DEF Types, InputsOK
  <2>2. Pos = template.from[t] + Done /\ Pos' = template.from[t] + Done'
    BY DEF Pos
  <2>3. Done = Desc[t].len - remaining /\ Done' = Desc[t].len - (remaining - Piece)
    BY <1>3 DEF Done
  <2> QED
    BY <1>1, <2>1, <2>2, <2>3, SMTT(30)
<1>6. ASSUME InStep
      PROVE  InStep'
  <2>1. /\ zip'.rest = SubSeq(template.stream, (Pos + Piece) + 1, Reached)
        /\ Len(zip'.rest) = Reached - (Pos + Piece)
        /\ (Pos + Piece) + (Reached - (Pos + Piece)) = Reached
    BY <1>1, <1>2, <1>4, <1>6, BufferCut
  <2> QED
    BY <1>3, <1>5, <2>1 DEF InStep
<1>7. ASSUME Stuck
      PROVE  Stuck'
  <2>1. zip.rest = << >> /\ ~BlockReadable /\ Damaged
    BY <1>7 DEF Stuck
  <2>2. Piece = 0
    BY <1>1, <2>1
  <2>3. zip'.rest = << >>
    BY <1>4, <2>1, <2>2
  <2> QED
    BY <1>3, <2>1, <2>3 DEF Stuck
<1> QED
  BY <1>6, <1>7

\* The next extent begins where this one ends.
LEMMA NextPlace ==
  ASSUME ConstantsAssumption, Types, Describes(template), NEW e, EndExtent(e), template' = template,
         t \in 1..Len(Desc), pc \in {"data", "skip"} => remaining = 0,
         pc \in Walk, pc = "loop" => Desc[t].type # "data"
  PROVE  Pos' = Pos
<1>1. t' = t + 1 /\ pc' = "loop"
  BY DEF EndExtent
<1>2. Pos' = template.from[t + 1] + 0 /\ template.from[t + 1] \in Nat
  BY <1>1, ExtentFacts DEF Pos, Types, InputsOK
<1>3. CASE pc \in {"data", "skip"}
  <2>1. Pos + 0 = template.from[t + 1] /\ Pos \in Nat
    BY <1>3, SyncPlaces
  <2> QED
    BY <1>2, <2>1
<1>4. CASE pc \notin {"data", "skip"}
  <2>1. Desc[t].type # "data"
    BY <1>4 DEF Types, ExtentOK, Walk
  <2> QED
    BY <1>2, <1>4, <2>1, ExtentFacts DEF Pos, Types, InputsOK
<1> QED
  BY <1>3, <1>4

\* SyncInv after every step of the program.
LEMMA StepSync ==
  ASSUME ConstantsAssumption, Types, Describes(template), SyncInv, Step
  PROVE  SyncInv'
<1>1. /\ template' = template /\ opt' = opt /\ Desc' = Desc /\ Blocks' = Blocks
      /\ IsTemplate(template) /\ ZipOK /\ ExtentOK /\ FlagsOK
  BY StepFrame DEF Desc, Blocks, Types, InputsOK
<1>2. CASE ReadsInputs
  <2>1. CASE pc' \in Walk
    <3>1. t' = 1 /\ pc' = "loop" /\ zip'.rest = << >> /\ block' = 1
      BY <1>2, <2>1, WalkBegins DEF Types, FlagsOK, loopVars, zipVars
    <3>2. Pos' = 0 /\ Reached' = 0
      BY <1>1, <3>1, Places DEF Pos, Reached, Start
    <3>3. SubSeq(template.stream, 1, 0) = << >> /\ Len(<< >>) = 0
      BY <1>1 DEF IsTemplate
    <3>4. InStep'
      BY <1>1, <3>1, <3>2, <3>3 DEF InStep
    <3> QED
      BY <3>4 DEF SyncInv
  <2>2. CASE pc' \notin Walk
    BY <2>2 DEF SyncInv
  <2> QED
    BY <2>1, <2>2
<1>3. CASE ScanAgain
  BY <1>3 DEF ScanAgain, vars, SyncInv, Walk
<1>4. CASE ImageEntry \/ PassOver
  <2>1. CASE opt.missing
    BY <1>1, <2>1 DEF SyncInv
  <2>2. CASE ~opt.missing
    <3>1. /\ pc = "loop" /\ t \in 1..Len(Desc) /\ Desc[t].type # "data"
          /\ UNCHANGED zipVars /\ dropped' = dropped /\ \E e : EndExtent(e)
      BY <1>1, <1>4, <2>2 DEF ImageEntry, PassOver, At, ExtentOK, outVars
    <3>2. Pos' = Pos
      BY <1>1, <3>1, NextPlace DEF Walk
    <3> QED
      BY <1>1, <3>1, <3>2, SamePlace DEF Walk
  <2> QED
    BY <2>1, <2>2
<1>5. CASE StaleError \/ WriteFails \/ Finish
  BY <1>5 DEF StaleError, WriteFails, Finish, Exit, SyncInv, Walk
<1>6. CASE StartData
  <2>1. /\ pc = "loop" /\ pc' \in {"data", "skip"} /\ t' = t /\ remaining' = Desc[t].len
        /\ UNCHANGED zipVars /\ dropped' = dropped /\ t \in 1..Len(Desc)
    BY <1>1, <1>6 DEF StartData, At, loopVars, outVars, ExtentOK
  <2>2. template.from[t] \in Nat /\ Desc[t].len \in Nat
    BY <1>1, <2>1, ExtentFacts
  <2>3. Pos' = Pos
    BY <1>1, <2>1, <2>2 DEF Pos, Done
  <2> QED
    BY <1>1, <2>1, <2>3, SamePlace DEF Walk
<1>7. CASE ReadBlock
  <2>1. /\ pc \in {"data", "skip"} /\ pc' = pc /\ t' = t /\ remaining' = remaining
        /\ dropped' = dropped /\ zip.null /\ BlockReadable
        /\ zip'.rest = Blocks[block] /\ block' = block + 1
    BY <1>7 DEF ReadBlock, NeedsBlock, loopVars, outVars
  <2>2. CASE opt.missing \/ dropped
    BY <1>1, <2>1, <2>2 DEF SyncInv
  <2>3. CASE ~opt.missing /\ ~dropped
    <3>1. zip.rest = << >> /\ InStep
      BY <1>1, <2>1, <2>3 DEF SyncInv, Walk, Stuck, ZipOK
    <3>2. Pos = Reached
      BY <3>1, SyncPlaces DEF InStep
    <3>3. block \in 1..Len(Blocks)
      BY <1>1, <2>1 DEF BlockReadable, ZipOK
    <3>4. Pos' = Pos /\ Reached' = Start(template, block + 1)
      BY <1>1, <2>1 DEF Pos, Done, Reached
    <3>5. /\ Reached = Start(template, block)
          /\ Start(template, block) \in Nat /\ Start(template, block + 1) \in Nat
          /\ Blocks[block] = SubSeq(template.stream, Start(template, block) + 1,
                                    Start(template, block + 1))
          /\ Len(Blocks[block]) = Start(template, block + 1) - Start(template, block)
      BY <1>1, <3>3, BlockFacts DEF Reached
    <3>6. Start(template, block) + (Start(template, block + 1) - Start(template, block))
          = Start(template, block + 1)
      BY <3>5
    <3>7. InStep'
      BY <1>1, <2>1, <3>2, <3>4, <3>5, <3>6 DEF InStep
    <3> QED
      BY <3>7 DEF SyncInv
  <2> QED
    BY <2>2, <2>3
<1>8. CASE ReadBlockFails
  <2>1. /\ zip'.rest = << >> /\ block' = block /\ ~BlockReadable /\ dropped' = dropped
        /\ pc \in {"data", "skip"} /\ remaining > 0 /\ zip.null
    BY <1>8 DEF ReadBlockFails, NeedsBlock, outVars
  <2>2. CASE opt.missing \/ dropped
    BY <1>1, <2>1, <2>2 DEF SyncInv
  <2>3. CASE ~opt.missing /\ ~dropped
    <3>1. zip.rest = << >> /\ (InStep \/ Stuck)
      BY <1>1, <2>1, <2>3 DEF SyncInv, Walk, ZipOK
    <3>2. Damaged
      BY <2>1, <3>1, NothingLeft DEF Stuck
    <3>3. Stuck'
      BY <1>1, <2>1, <3>2 DEF Stuck, BlockReadable, Damaged
    <3> QED
      BY <3>3 DEF SyncInv
  <2> QED
    BY <2>2, <2>3
<1>9. CASE WriteData \/ SkipData
  <2>1. /\ pc \in {"data", "skip"} /\ pc' = pc /\ Consume(Piece) /\ block' = block /\ t' = t
        /\ remaining' = remaining - Piece /\ dropped' = dropped
    BY <1>9 DEF WriteData, SkipData, loopVars, outVars
  <2>2. (InStep => InStep') /\ (Stuck => Stuck')
    BY <1>1, <2>1, Consumed
  <2> QED
    BY <1>1, <2>1, <2>2 DEF SyncInv
<1>10. CASE WriteNothing
  BY <1>10 DEF WriteNothing, SyncInv
<1>11. CASE EndData \/ (EndFile /\ pc' # "exit")
  <2>1. /\ pc \in {"data", "skip", "file"} /\ (pc \in {"data", "skip"} => remaining = 0)
        /\ UNCHANGED zipVars /\ dropped' = dropped /\ \E e : EndExtent(e)
    BY <1>11 DEF EndData, EndFile, Exit, outVars
  <2>2. t \in 1..Len(Desc)
    BY <1>1, <2>1 DEF ExtentOK
  <2>3. Pos' = Pos
    BY <1>1, <2>1, <2>2, NextPlace DEF Walk
  <2> QED
    BY <1>1, <2>1, <2>3, SamePlace DEF Walk
<1>12. CASE OpenFile
  <2>1. CASE opt.missing
    BY <1>1, <2>1 DEF SyncInv
  <2>2. CASE ~opt.missing
    <3>1. /\ pc = "loop" /\ pc' = "file" /\ t' = t /\ UNCHANGED zipVars /\ dropped' = dropped
      BY <1>12, <2>2 DEF OpenFile, AtFile, At, loopVars, outVars
    <3>2. Pos' = Pos
      BY <1>1, <3>1 DEF Pos
    <3> QED
      BY <1>1, <3>1, <3>2, SamePlace DEF Walk
  <2> QED
    BY <2>1, <2>2
<1>13. CASE CopyPiece
  <2>1. pc = "file" /\ pc' = pc /\ t' = t /\ UNCHANGED zipVars /\ dropped' = dropped
    BY <1>13 DEF CopyPiece, loopVars
  <2>2. Pos' = Pos
    BY <1>1, <2>1 DEF Pos
  <2> QED
    BY <1>1, <2>1, <2>2, SamePlace DEF Walk
<1>14. CASE FileFails \/ MissingCrash \/ (EndFile /\ pc' = "exit")
  BY <1>14 DEF FileFails, MissingCrash, Exit, SyncInv, Walk
<1>15. CASE WriteMissing
  BY <1>1, <1>15 DEF WriteMissing, SyncInv
<1>16. CASE ShortRead
  BY <1>16 DEF ShortRead, Exit, SyncInv, Walk
<1> QED
  BY <1>2, <1>3, <1>4, <1>5, <1>6, <1>7, <1>8, <1>9, <1>10, <1>11, <1>12, <1>13, <1>14,
     <1>15, <1>16, StepCases DEF Walks, InData, InFile
-----------------------------------------------------------------------------
(* The output. *)

\* The lemmas about sequences that the output needs, for bytes.
LEMMA ByteSequences ==
  /\ \A x, y, z \in Seq(Byte) : (x \o y) \o z = x \o (y \o z)
  /\ \A x \in Seq(Byte) : x \o << >> = x
  /\ \A s \in Seq(Byte), a, b, c \in Nat : a <= b /\ b <= c /\ c <= Len(s) =>
       SubSeq(s, a + 1, b) \o SubSeq(s, b + 1, c) = SubSeq(s, a + 1, c)
  /\ \A s \in Seq(Byte), a, b \in Nat : a <= b /\ b <= Len(s) =>
       SubSeq(s, a + 1, b) \in Seq(Byte) /\ Len(SubSeq(s, a + 1, b)) = b - a
  /\ \A s \in Seq(Byte), a \in Nat : a <= Len(s) => SubSeq(s, a + 1, a) = << >>
<1>1. \A x, y, z \in Seq(Byte) : (x \o y) \o z = x \o (y \o z)
  BY ConcatAssoc
<1>2. \A x \in Seq(Byte) : x \o << >> = x
  OBVIOUS
<1>3. ASSUME NEW s \in Seq(Byte), NEW a \in Nat, NEW b \in Nat, NEW c \in Nat,
             a <= b, b <= c, c <= Len(s)
      PROVE  SubSeq(s, a + 1, b) \o SubSeq(s, b + 1, c) = SubSeq(s, a + 1, c)
  BY <1>3, Joined
<1>4. ASSUME NEW s \in Seq(Byte), NEW a \in Nat, NEW b \in Nat, a <= b, b <= Len(s)
      PROVE  SubSeq(s, a + 1, b) \in Seq(Byte) /\ Len(SubSeq(s, a + 1, b)) = b - a
  <2>1. Len(s) \in Nat
    OBVIOUS
  <2>2. b \in a..Len(s)
    BY <1>4, <2>1
  <2> QED
    BY <2>2, Cut
<1>5. ASSUME NEW s \in Seq(Byte), NEW a \in Nat, a <= Len(s)
      PROVE  SubSeq(s, a + 1, a) = << >>
  <2>1. SubSeq(s, a + 1, a) \in Seq(Byte) /\ Len(SubSeq(s, a + 1, a)) = a - a /\ a - a = 0
    BY <1>4, <1>5
  <2> QED
    BY <2>1, EmptySeq
<1> QED
  BY <1>1, <1>2, <1>3, <1>4, <1>5

\* A piece of the image that ends where the extent k begins, and the extent.
LEMMA PieceAndExtent ==
  ASSUME IsTemplate(template), Describes(template), NEW k \in 1..Len(Desc),
         NEW a \in Nat, a <= template.at[k]
  PROVE  /\ SubSeq(Image, a + 1, template.at[k]) \o SubSeq(Image, template.at[k] + 1, template.at[k + 1])
            = SubSeq(Image, a + 1, template.at[k + 1])
         /\ SubSeq(Image, a + 1, template.at[k + 1]) \in Seq(Byte)
<1>1. /\ template.at[k] \in Nat /\ template.at[k + 1] \in Nat /\ template.at[k + 1] <= Len(Image)
      /\ template.at[k] <= template.at[k + 1]
  <2>1. /\ template.at[k] \in Nat /\ template.at[k + 1] \in Nat /\ Desc[k].len \in Nat
        /\ template.at[k + 1] <= Len(Image)
    BY ExtentFacts
  <2>2. template.at[k + 1] = template.at[k] + (IF Desc[k].type = "image" THEN 0 ELSE Desc[k].len)
    BY ExtentFacts
  <2>3. PICK n \in Nat : template.at[k + 1] = template.at[k] + n
    BY <2>1, <2>2
  <2> QED
    BY <2>1, <2>3
<1>2. PICK s \in Seq(Byte), b \in Nat, c \in Nat :
        s = Image /\ b = template.at[k] /\ c = template.at[k + 1]
  BY <1>1, Places
<1>3. a <= b /\ b <= c /\ c <= Len(s)
  BY <1>1, <1>2
<1>4. /\ SubSeq(s, a + 1, b) \o SubSeq(s, b + 1, c) = SubSeq(s, a + 1, c)
      /\ SubSeq(s, a + 1, c) \in Seq(Byte)
  BY <1>3, ByteSequences
<1> QED
  BY <1>2, <1>4

\* A step of the program makes no wrong file right.
LEMMA WalkTrusted ==
  ASSUME Types, Walks, Trusted'
  PROVE  Trusted
<1>1. /\ (quick' <=> quick) /\ rewritten' = rewritten /\ disk' = disk
  BY StepFrame, StepCases DEF quick
<1>2. /\ Len(list') = Len(list)
      /\ \A n \in 1..Len(list) : list'[n].sum = list[n].sum /\ list'[n].path = list[n].path
  BY WalkList DEF Types, ListOK
<1>3. MirrorTrue' => MirrorTrue
  BY <1>1, <1>2 DEF MirrorTrue
<1> QED
  BY <1>1, <1>3 DEF Trusted

\* The matched file is as long as the extent.
LEMMA MatchedLength ==
  ASSUME IsTemplate(template), Describes(template), NEW k \in 1..Len(Desc), Desc[k].type = "file"
  PROVE  Len(Desc[k].sum.of) = Desc[k].len /\ Desc[k].sum.of \in Seq(Byte)
<1>1. /\ template.at[k] \in Nat /\ template.at[k + 1] \in Nat /\ Desc[k].len \in Nat
      /\ template.at[k + 1] = template.at[k] + Desc[k].len
      /\ template.at[k + 1] <= Len(Image)
      /\ SubSeq(Image, template.at[k] + 1, template.at[k + 1]) = Desc[k].sum.of
  BY ExtentFacts
<1>2. Image \in Seq(Byte) /\ Len(Image) \in Nat
  BY Places
<1>3. PICK a \in Nat, b \in Nat, n \in Nat :
        a = template.at[k] /\ b = template.at[k + 1] /\ n = Desc[k].len
  BY <1>1
<1>4. a <= b /\ b - a = n
  <2>1. b = a + n
    BY <1>1, <1>3
  <2> QED
    BY <2>1
<1>6. b <= Len(Image)
  BY <1>1, <1>3
<1>5. SubSeq(Image, a + 1, b) \in Seq(Byte) /\ Len(SubSeq(Image, a + 1, b)) = b - a
  BY <1>2, <1>4, <1>6, ByteSequences
<1> QED
  BY <1>1, <1>3, <1>4, <1>5

\* The places of the extent, and what has been written of it.
LEMMA ExtraFacts ==
  ASSUME ConstantsAssumption, Types, Describes(template), pc \in Walk
  PROVE  /\ template.at[t] \in Nat /\ template.at[t] <= Len(Image)
         /\ Image \in Seq(Byte) /\ Len(Image) \in Nat
         /\ pc \in {"data", "file"} =>
              /\ Done \in Nat /\ Done + remaining = Desc[t].len /\ remaining \in Nat
              /\ t \in 1..Len(Desc)
              /\ template.at[t + 1] \in Nat /\ template.at[t + 1] <= Len(Image)
              /\ template.at[t + 1] = template.at[t] + Desc[t].len
              /\ template.at[t] + Done <= template.at[t + 1]
         /\ Extra \in Seq(Byte)
<1>1. /\ IsTemplate(template) /\ t \in 1..Len(Desc) + 1
  BY DEF Types, InputsOK, ExtentOK
<1>2. /\ template.at[t] \in Nat /\ template.at[t] <= Len(Image)
      /\ Image \in Seq(Byte) /\ Len(Image) \in Nat
  BY <1>1, Places
<1>3. ASSUME pc \in {"data", "file"}
      PROVE  /\ Done \in Nat /\ Done + remaining = Desc[t].len /\ remaining \in Nat
             /\ t \in 1..Len(Desc)
             /\ template.at[t + 1] \in Nat /\ template.at[t + 1] <= Len(Image)
             /\ template.at[t + 1] = template.at[t] + Desc[t].len
             /\ template.at[t] + Done <= template.at[t + 1]
  <2>1. Done \in Nat /\ Done + remaining = Desc[t].len /\ remaining \in Nat /\ t \in 1..Len(Desc)
    BY <1>3, PieceSize
  <2>2. Desc[t].type # "image"
    BY <1>3 DEF Types, ExtentOK
  <2>3. /\ template.at[t + 1] \in Nat /\ template.at[t + 1] <= Len(Image)
        /\ template.at[t + 1] = template.at[t] + Desc[t].len
    BY <1>1, <2>1, <2>2, ExtentFacts
  <2>4. PICK d \in Nat : d = Done
    BY <2>1
  <2>5. template.at[t] + d <= template.at[t + 1]
    BY <1>2, <2>1, <2>3, <2>4
  <2> QED
    BY <2>1, <2>3, <2>4, <2>5
<1>4. CASE pc = "data"
  <2>1. template.at[t] + Done \in template.at[t]..Len(Image)
    BY <1>2, <1>3, <1>4, SMTT(30)
  <2>2. SubSeq(Image, template.at[t] + 1, template.at[t] + Done) \in Seq(Byte)
    BY <1>2, <2>1, Cut
  <2> QED
    BY <1>2, <1>3, <1>4, <2>2 DEF Extra
<1>5. CASE pc = "file"
  <2>1. Desc[t].type = "file"
    BY <1>5 DEF Types, ExtentOK
  <2>2. Desc[t].sum.of \in Seq(Byte) /\ Len(Desc[t].sum.of) = Desc[t].len
    BY <1>1, <1>3, <1>5, <2>1, MatchedLength
  <2>3. Done \in 0..Len(Desc[t].sum.of)
    BY <1>3, <1>5, <2>2
  <2>4. SubSeq(Desc[t].sum.of, 1, Done) \in Seq(Byte)
    BY <2>2, <2>3, Split
  <2>5. Copied \in Seq(Byte)
    BY <2>4 DEF Copied, Types, BytesOK
  <2> QED
    BY <1>2, <1>3, <1>5, <2>5 DEF Extra
<1>6. CASE pc \notin {"data", "file"}
  BY <1>2, <1>6 DEF Extra
<1> QED
  BY <1>4, <1>5, <1>6

\* Nothing is written, and the step remains at the extent.
LEMMA OutSame ==
  ASSUME OutInv, pc \in Walk, template' = template, opt' = opt, t' = t, out' = out,
         Extra' = Extra, pc' = "skip" => pc \in {"loop", "skip"}, pc' # "loop",
         ~dropped' => ~dropped, Trusted' => Trusted
  PROVE  OutInv'
<1>1. Image' = Image
  BY DEF Image
<1>2. \A a : Begun(a) => Begun(a)'
  BY <1>1 DEF Begun
<1> QED
  BY <1>2 DEF OutInv

\* More of the extent is written.
LEMMA OutMore ==
  ASSUME ConstantsAssumption, Types, Describes(template), OutInv, pc \in {"data", "file"}, pc' = pc,
         template' = template, opt' = opt, t' = t, dropped' = dropped, Trusted' => Trusted,
         NEW new \in Seq(Byte), out' = out \o new,
         Trusted /\ ~dropped /\ ~opt.missing => Extra' = Extra \o new
  PROVE  OutInv'
<1>1. pc \in Walk /\ pc \notin {"loop", "skip"} /\ Image' = Image
  BY DEF Walk, Image
<1>2. CASE Trusted /\ ~dropped /\ ~opt.missing
  <2>1. PICK a \in 0..template.at[t] : Begun(a)
    BY <1>1, <1>2 DEF OutInv
  <2> DEFINE piece == SubSeq(Image, a + 1, template.at[t])
             B == Seq(Byte)
  <2>2. Image \in Seq(Byte) /\ template.at[t] \in Nat /\ template.at[t] <= Len(Image)
        /\ Len(Image) \in Nat /\ Extra \in B
    BY <1>1, ExtraFacts
  <2>3. a \in Nat /\ template.at[t] \in a..Len(Image)
    BY <2>1, <2>2
  <2>4. piece \in B
    BY <2>2, <2>3, Cut
  <2>5. out = piece \o Extra /\ a <= opt.start
    BY <2>1 DEF Begun
  <2> HIDE DEF piece
  <2>6. (piece \o Extra) \o new = piece \o (Extra \o new)
    <3>1. piece \in Seq(Byte) /\ Extra \in Seq(Byte) /\ new \in Seq(Byte)
      BY <2>2, <2>4
    <3> QED
      BY <3>1, ByteSequences, ZenonT(30)
  <2>7. out' = piece \o Extra'
    BY <1>2, <2>5, <2>6
  <2>8. Begun(a)'
    BY <1>1, <2>5, <2>7 DEF Begun, piece
  <2> QED
    BY <1>1, <2>1, <2>8 DEF OutInv
<1>3. CASE ~(Trusted /\ ~dropped /\ ~opt.missing)
  BY <1>3 DEF OutInv
<1> QED
  BY <1>2, <1>3

\* The whole extent is written.
LEMMA OutWhole ==
  ASSUME ConstantsAssumption, Types, Describes(template), PlaceInv, OutInv, pc \in Walk,
         t \in 1..Len(Desc), NEW e, EndExtent(e),
         template' = template, opt' = opt, out' = out, dropped' = dropped, Trusted' => Trusted,
         Desc[t].type = "image" \/ (InRange /\ pc \in {"data", "file"}),
         Trusted /\ ~dropped /\ ~opt.missing =>
           Extra = SubSeq(Image, template.at[t] + 1, template.at[t + 1])
  PROVE  OutInv'
<1>1. /\ Image' = Image /\ t' = t + 1 /\ pc' = "loop" /\ Extra' = << >>
  BY DEF Image, EndExtent, Extra
<1>2. CASE Trusted /\ ~dropped /\ ~opt.missing
  <2>1. PICK a \in 0..template.at[t] : Begun(a)
    BY <1>2 DEF OutInv
  <2> DEFINE x == template.at[t]
             y == template.at[t + 1]
  <2>2. Image \in Seq(Byte) /\ x \in Nat /\ Len(Image) \in Nat
    BY ExtraFacts
  <2>3. y \in Nat /\ y <= Len(Image) /\ x <= y
        /\ (Desc[t].type # "image" => y = x + Desc[t].len) /\ (Desc[t].type = "image" => y = x)
        /\ Desc[t].len \in Nat
    BY ExtentFacts, SMTT(30) DEF Types, InputsOK
  <2>4. Extra = SubSeq(Image, x + 1, y) /\ out = SubSeq(Image, a + 1, x) \o Extra /\ a <= opt.start
    BY <1>2, <2>1 DEF Begun
  <2>5. output_offset = x
    BY PlaceInv DEF PlaceInv
  <2>6. Desc[t].type # "image" => y >= opt.start
    BY <2>3, <2>5 DEF InRange
  <2>7. Desc[t].type = "image" /\ x < opt.start => out = << >>
    BY <1>2, <2>3 DEF OutInv, Types, ExtentOK, FlagsOK, Walk
  <2> HIDE DEF x, y
  <2>8. a \in Nat /\ a <= x
    BY <2>1, <2>2 DEF x
  <2>9. SubSeq(Image, a + 1, x) \o SubSeq(Image, x + 1, y) = SubSeq(Image, a + 1, y)
    BY <2>8, PieceAndExtent DEF x, y, Types, InputsOK
  <2>10. SubSeq(Image, a + 1, y) \in Seq(Byte) /\ a \in 0..y
    <3>1. a \in 0..y
      BY <2>2, <2>3, <2>8
    <3>2. SubSeq(Image, a + 1, y) \in Seq(Byte)
      BY <2>8, PieceAndExtent DEF x, y, Types, InputsOK
    <3> QED
      BY <3>1, <3>2
  <2>11. out' = SubSeq(Image, a + 1, y) \o << >>
    BY <2>4, <2>9, <2>10, ByteSequences
  <2>12. Begun(a)'
    BY <1>1, <2>4, <2>11 DEF Begun, y
  <2>13. y < opt.start => out' = << >>
    <3>1. opt.start \in Nat
      BY DEF Types, InputsOK, AnyOption
    <3> QED
      BY <2>3, <2>6, <2>7, <3>1
  <2> QED
    BY <1>1, <2>10, <2>12, <2>13 DEF OutInv, y
<1>3. CASE ~(Trusted /\ ~dropped /\ ~opt.missing)
  BY <1>3 DEF OutInv
<1> QED
  BY <1>2, <1>3

\* An extent before the range is passed over: nothing has been written yet.
LEMMA OutBefore ==
  ASSUME ConstantsAssumption, Types, Describes(template), PlaceInv, OutInv, pc \in {"loop", "skip"},
         t \in 1..Len(Desc), Desc[t].type # "image", ~InRange, NEW e, EndExtent(e),
         template' = template, opt' = opt, out' = out, dropped' = dropped, Trusted' => Trusted
  PROVE  OutInv'
<1>1. /\ Image' = Image /\ t' = t + 1 /\ pc' = "loop" /\ Extra' = << >> /\ pc \in Walk
  BY DEF Image, EndExtent, Extra, Walk
<1>2. CASE Trusted /\ ~dropped /\ ~opt.missing
  <2> DEFINE x == template.at[t]
             y == template.at[t + 1]
  <2>1. Image \in Seq(Byte) /\ x \in Nat /\ Len(Image) \in Nat
    BY <1>1, ExtraFacts
  <2>2. y \in Nat /\ y <= Len(Image) /\ y = x + Desc[t].len /\ Desc[t].len \in Nat
    BY ExtentFacts DEF Types, InputsOK
  <2>3. output_offset = x
    BY <1>1 DEF PlaceInv
  <2>4. opt.start \in Nat
    BY DEF Types, InputsOK, AnyOption
  <2>5. y < opt.start /\ x < opt.start
    BY <2>1, <2>2, <2>3, <2>4 DEF InRange
  <2>6. out = << >>
    BY <1>1, <1>2, <2>5 DEF OutInv
  <2> HIDE DEF x, y
  <2>7. SubSeq(Image, y + 1, y) = << >>
    BY <2>1, <2>2, ByteSequences
  <2>8. << >> \o << >> = << >>
    BY ByteSequences
  <2>9. PICK a \in Nat : a = y
    BY <2>2
  <2>10. out' = SubSeq(Image, a + 1, a) \o << >> /\ a <= opt.start /\ a \in 0..a
    BY <2>2, <2>4, <2>5, <2>6, <2>7, <2>8, <2>9
  <2>11. template'.at[t'] = a
    BY <1>1, <2>9 DEF y
  <2>12. Begun(a)'
    BY <1>1, <2>10, <2>11 DEF Begun
  <2> QED
    BY <1>1, <2>6, <2>10, <2>11, <2>12 DEF OutInv
<1>3. CASE ~(Trusted /\ ~dropped /\ ~opt.missing)
  BY <1>3 DEF OutInv
<1> QED
  BY <1>2, <1>3

\* An extent of n bytes at a in s and at b in d, of which i bytes are dealt with and
\* p are next.
Continues(s, d, a, b, n, i, p) ==
  /\ s \in Seq(Byte) /\ d \in Seq(Byte) /\ {a, b, n, i, p} \subseteq Nat
  /\ a + n <= Len(s) /\ b + n <= Len(d) /\ i + p <= n
  /\ SubSeq(s, a + 1, a + n) = SubSeq(d, b + 1, b + n)
Continued(s, d, a, b, i, p) ==
  SubSeq(s, a + 1, a + (i + p)) = SubSeq(s, a + 1, a + i) \o SubSeq(d, (b + i) + 1, (b + i) + p)
\* The next piece of unmatched data continues what has been written of the extent.
LEMMA DataGrows ==
  ASSUME NEW s, NEW d, NEW a, NEW b, NEW n, NEW i, NEW p, Continues(s, d, a, b, n, i, p)
  PROVE  Continued(s, d, a, b, i, p)
<1>1. /\ s \in Seq(Byte) /\ d \in Seq(Byte)
      /\ a \in Nat /\ b \in Nat /\ n \in Nat /\ i \in Nat /\ p \in Nat
      /\ a + n <= Len(s) /\ b + n <= Len(d) /\ i + p <= n
      /\ SubSeq(s, a + 1, a + n) = SubSeq(d, b + 1, b + n)
  BY DEF Continues
<1>2. i + p \in i..n /\ b + (i + p) = (b + i) + p
  BY <1>1
<1>3. SubSeq(s, a + i + 1, a + (i + p)) = SubSeq(d, b + i + 1, b + (i + p))
  BY <1>1, <1>2, PartsAgree
<1>4. Len(s) \in Nat
  BY <1>1
<1>5. a + i \in Nat /\ a + (i + p) \in Nat /\ a <= a + i /\ a + i <= a + (i + p)
      /\ a + (i + p) <= Len(s)
  BY <1>1, <1>4
<1>6. SubSeq(s, a + 1, a + i) \o SubSeq(s, (a + i) + 1, a + (i + p)) = SubSeq(s, a + 1, a + (i + p))
  BY <1>1, <1>5, Joined
<1> QED
  BY <1>2, <1>3, <1>6 DEF Continued

\* A piece of the beginning of a file.
LEMMA FileGrows ==
  ASSUME NEW s \in Seq(Byte), NEW i \in Nat, NEW p \in Nat, i + p <= Len(s)
  PROVE  SubSeq(s, 1, i + p) = SubSeq(s, 1, i) \o SubSeq(s, i + 1, i + p)
<1>1. 0 \in Nat /\ i + p \in Nat /\ 0 <= i /\ i <= i + p /\ 0 + 1 = 1
  OBVIOUS
<1>2. SubSeq(s, 0 + 1, i) \o SubSeq(s, i + 1, i + p) = SubSeq(s, 0 + 1, i + p)
  BY <1>1, ByteSequences
<1> QED
  BY <1>1, <1>2

\* What is written of unmatched data is what comes next in the image.
LEMMA WrittenData ==
  ASSUME ConstantsAssumption, Types, Describes(template), SyncInv, WriteData,
         ~opt.missing, ~dropped
  PROVE  Extra' = Extra \o SubSeq(zip.rest, 1, Piece)
<1>1. /\ template' = template /\ Desc' = Desc /\ Image' = Image
      /\ pc = "data" /\ pc' = pc /\ t' = t /\ remaining' = remaining - Piece /\ zip.rest # << >>
  BY StepFrame DEF Desc, Image, WriteData, loopVars, Step
<1>2. /\ IsTemplate(template) /\ Desc[t].type = "data"
  BY <1>1 DEF Types, InputsOK, ExtentOK
<1>3. /\ Piece \in Nat /\ Piece <= remaining /\ Piece <= Len(zip.rest) /\ remaining \in Nat
      /\ Done \in Nat /\ Done + remaining = Desc[t].len /\ t \in 1..Len(Desc)
  BY <1>1, PieceSize
<1>4. InStep
  BY <1>1 DEF SyncInv, Stuck, Walk
<1>5. /\ Reached \in Nat /\ Reached <= Len(template.stream) /\ Pos \in Nat
      /\ zip.rest \in Seq(Byte) /\ template.stream \in Seq(Byte) /\ Image \in Seq(Byte)
  BY <1>2, SyncPlaces, Places
<1>6. SubSeq(zip.rest, 1, Piece) = SubSeq(template.stream, Pos + 1, Pos + Piece)
  BY <1>3, <1>4, <1>5, BufferCut
<1>7. /\ template.at[t] \in Nat /\ template.from[t] \in Nat /\ Desc[t].len \in Nat
      /\ template.at[t + 1] = template.at[t] + Desc[t].len
      /\ template.from[t + 1] = template.from[t] + Desc[t].len
      /\ template.at[t + 1] <= Len(Image) /\ template.from[t + 1] <= Len(template.stream)
      /\ SubSeq(Image, template.at[t] + 1, template.at[t + 1]) =
         SubSeq(template.stream, template.from[t] + 1, template.from[t + 1])
  BY <1>2, <1>3, ExtentFacts
<1>8. PICK i \in Nat, p \in Nat, n \in Nat, r \in Nat :
        i = Done /\ p = Piece /\ n = Desc[t].len /\ r = remaining
  BY <1>3, <1>7
<1>9. i + r = n /\ p <= r
  BY <1>3, <1>8
<1>10. i + p <= n
  BY <1>9
<1>11. Done' = n - (r - p)
  BY <1>1, <1>8 DEF Done
<1>12. Done' = i + p
  BY <1>9, <1>11
<1>13. Done + Piece <= Desc[t].len /\ Done' = Done + Piece
  BY <1>8, <1>10, <1>12
<1>14. SubSeq(Image, template.at[t] + 1, template.at[t] + (Done + Piece)) =
         SubSeq(Image, template.at[t] + 1, template.at[t] + Done)
           \o SubSeq(template.stream, (template.from[t] + Done) + 1, (template.from[t] + Done) + Piece)
  <2>1. Continues(Image, template.stream, template.at[t], template.from[t], Desc[t].len, Done, Piece)
    BY <1>3, <1>5, <1>7, <1>13 DEF Continues
  <2>2. Continued(Image, template.stream, template.at[t], template.from[t], Done, Piece)
    BY <2>1, DataGrows
  <2> QED
    BY <2>2 DEF Continued
<1>15. Extra = SubSeq(Image, template.at[t] + 1, template.at[t] + Done) /\ Pos = template.from[t] + Done
  BY <1>1 DEF Extra, Pos
<1>16. Extra' = SubSeq(Image, template.at[t] + 1, template.at[t] + (Done + Piece))
  <2>1. Extra' = SubSeq(Image, template.at[t] + 1, template.at[t] + Done')
    BY <1>1 DEF Extra
  <2> QED
    BY <1>13, <2>1
<1> QED
  BY <1>6, <1>14, <1>15, <1>16

\* What is copied of a file is what comes next in it.
LEMMA WrittenFile ==
  ASSUME ConstantsAssumption, Types, Describes(template), CopyPiece, Trusted
  PROVE  Extra' = Extra \o Found
<1>1. /\ template' = template /\ Desc' = Desc /\ (quick' <=> quick)
      /\ pc = "file" /\ pc' = pc /\ t' = t /\ remaining' = remaining - Size /\ Len(Found) = Size
  BY StepFrame DEF Desc, quick, CopyPiece, loopVars, Step
<1>2. Extra = Copied /\ Extra' = Copied'
  BY <1>1 DEF Extra
<1>3. CASE ~quick
  BY <1>1, <1>2, <1>3 DEF Copied, CopyPiece
<1>4. CASE quick
  <2>1. /\ Size \in Nat /\ Size <= remaining /\ remaining \in Nat
        /\ Done \in Nat /\ Done + remaining = Desc[t].len /\ t \in 1..Len(Desc)
    BY <1>1, PieceSize
  <2>2. /\ input \in 1..Len(list) /\ list[input].sum = Desc[t].sum
        /\ list[input].path \in DOMAIN disk /\ IsTemplate(template) /\ Desc[t].type = "file"
    BY <1>1 DEF Types, InputsOK, ExtentOK
  <2>3. disk[list[input].path] = Desc[t].sum.of
    BY <1>4, <2>2 DEF Trusted, MirrorTrue
  <2>4. Len(Desc[t].sum.of) = Desc[t].len /\ Desc[t].sum.of \in Seq(Byte)
    BY <2>1, <2>2, MatchedLength
  <2>5. PICK s \in Seq(Byte), i \in Nat, p \in Nat, r \in Nat :
          s = Desc[t].sum.of /\ i = Done /\ p = Size /\ r = remaining
    BY <2>1, <2>4
  <2>6. Found = SubSeq(s, i + 1, Min(i + p, Len(s)))
    BY <2>3, <2>5 DEF Found, Done
  <2>7. i + r = Len(s) /\ p <= r
    BY <2>1, <2>4, <2>5
  <2>8. i + p <= Len(s)
    BY <2>5, <2>7
  <2>9. Len(s) \in Nat /\ Min(i + p, Len(s)) = i + p
    <3>1. Len(s) \in Nat
      BY <2>5
    <3> QED
      BY <2>8, <3>1, SMTT(30) DEF Min
  <2>10. Done' = Len(s) - (r - p)
    BY <1>1, <2>4, <2>5 DEF Done
  <2>11. Done' = i + p
    BY <2>5, <2>7, <2>10
  <2>12. Copied = SubSeq(s, 1, i) /\ Copied' = SubSeq(s, 1, i + p)
    BY <1>1, <1>4, <2>5, <2>11 DEF Copied
  <2>13. SubSeq(s, 1, i + p) = SubSeq(s, 1, i) \o SubSeq(s, i + 1, i + p)
    BY <2>5, <2>8, FileGrows, Zenon
  <2> QED
    BY <1>2, <2>6, <2>9, <2>12, <2>13
<1> QED
  BY <1>3, <1>4

\* An extent that has been dealt with to its end, as far as it has been written.
LEMMA AtTheEnd ==
  ASSUME ConstantsAssumption, Types, Describes(template), pc \in {"data", "file"}, remaining = 0,
         Trusted, pc = "file" => quick \/ FileChecked
  PROVE  Extra = SubSeq(Image, template.at[t] + 1, template.at[t + 1])
<1>1. /\ Done + remaining = Desc[t].len /\ Done \in Nat /\ t \in 1..Len(Desc)
      /\ template.at[t + 1] = template.at[t] + Desc[t].len /\ IsTemplate(template)
  BY ExtraFacts DEF Walk, Types, InputsOK
<1> HIDE DEF Done
<1>2. Done = Desc[t].len
  BY <1>1
<1>3. CASE pc = "data"
  BY <1>1, <1>2, <1>3 DEF Extra
<1>4. CASE pc = "file"
  <2>1. Desc[t].type = "file"
    BY <1>4 DEF Types, ExtentOK
  <2>2. /\ SubSeq(Image, template.at[t] + 1, template.at[t + 1]) = Desc[t].sum.of
        /\ Len(Desc[t].sum.of) = Desc[t].len /\ Desc[t].sum.of \in Seq(Byte)
    BY <1>1, <2>1, ExtentFacts, MatchedLength
  <2>3. SubSeq(Desc[t].sum.of, 1, Len(Desc[t].sum.of)) = Desc[t].sum.of
    BY <2>2
  <2>4. Copied = Desc[t].sum.of
    BY <1>2, <1>4, <2>2, <2>3 DEF Copied, FileChecked
  <2> QED
    BY <1>4, <2>2, <2>4 DEF Extra
<1> QED
  BY <1>3, <1>4

\* OutInv after every step of the program.
LEMMA StepOut ==
  ASSUME ConstantsAssumption, Types, Describes(template), PlaceInv, SyncInv, OutInv, Step
  PROVE  OutInv'
<1>1. /\ template' = template /\ opt' = opt /\ Desc' = Desc /\ Image' = Image
      /\ IsTemplate(template) /\ ExtentOK /\ FlagsOK
  BY StepFrame DEF Desc, Image, Types, InputsOK
<1>2. CASE ReadsInputs
  <2>1. CASE pc' \in Walk
    <3>1. t' = 1 /\ pc' = "loop" /\ out' = << >>
      BY <1>2, <2>1, WalkBegins DEF Types, FlagsOK, loopVars, outVars
    <3>2. template'.at[t'] = 0 /\ Extra' = << >> /\ Image' \in Seq(Byte) /\ Len(Image') \in Nat
      BY <1>1, <3>1, Places DEF Extra
    <3>3. SubSeq(Image', 0 + 1, 0) = << >>
      BY <3>2, ByteSequences
    <3>4. << >> \o << >> = << >>
      BY ByteSequences
    <3>5. opt'.start \in Nat /\ 0 \in 0..0
      BY <1>1 DEF Types, InputsOK, AnyOption
    <3>6. Begun(0)'
      BY <3>1, <3>2, <3>3, <3>4, <3>5 DEF Begun
    <3> QED
      BY <3>1, <3>2, <3>5, <3>6 DEF OutInv
  <2>2. CASE pc' \notin Walk
    BY <2>2 DEF OutInv
  <2> QED
    BY <2>1, <2>2
<1>3. CASE ScanAgain
  BY <1>3 DEF ScanAgain, vars, OutInv, Walk
<1>4. ASSUME Walks
      PROVE  pc \in Walk /\ (Trusted' => Trusted)
  BY <1>4, WalksFrame, WalkTrusted
<1>5. CASE opt.missing
  BY <1>1, <1>5 DEF OutInv
<1>6. CASE ImageEntry
  <2>1. /\ pc = "loop" /\ t \in 1..Len(Desc) /\ Desc[t].type = "image" /\ EndExtent(error)
        /\ out' = out /\ dropped' = dropped
    BY <1>1, <1>6 DEF ImageEntry, At, ExtentOK, outVars
  <2>2. template.at[t + 1] = template.at[t] + 0 /\ template.at[t] \in Nat
        /\ template.at[t + 1] <= Len(Image) /\ Image \in Seq(Byte)
    BY <1>1, <2>1, ExtentFacts, Places
  <2>3. Extra = SubSeq(Image, template.at[t] + 1, template.at[t + 1])
    <3>1. SubSeq(Image, template.at[t] + 1, template.at[t]) = << >>
      BY <2>2, ByteSequences
    <3> QED
      BY <2>1, <2>2, <3>1 DEF Extra
  <2> QED
    BY <1>1, <1>4, <1>6, <2>1, <2>3, OutWhole DEF Walks
<1>7. CASE PassOver /\ ~opt.missing
  <2>1. /\ pc = "loop" /\ t \in 1..Len(Desc) /\ Desc[t].type = "file" /\ ~InRange
        /\ EndExtent(error) /\ out' = out /\ dropped' = dropped
    BY <1>1, <1>7 DEF PassOver, At, ExtentOK, outVars
  <2> QED
    BY <1>1, <1>4, <1>7, <2>1, OutBefore DEF Walks
<1>8. CASE StaleError \/ WriteFails \/ Finish \/ FileFails \/ MissingCrash
  BY <1>8 DEF StaleError, WriteFails, Finish, FileFails, MissingCrash, Exit, OutInv, Walk
<1>9. CASE StartData
  <2>1. /\ pc = "loop" /\ pc' \in {"data", "skip"} /\ t \in 1..Len(Desc) /\ t' = t
        /\ remaining' = Desc[t].len /\ out' = out /\ dropped' = dropped
    BY <1>1, <1>9 DEF StartData, At, ExtentOK, loopVars, outVars
  <2>2. /\ template.at[t] \in Nat /\ template.at[t] <= Len(Image) /\ Image \in Seq(Byte)
        /\ Desc[t].len \in Nat
    BY <1>1, <2>1, Places, ExtentFacts
  <2>3. Done' = 0 /\ template.at[t] + 0 = template.at[t]
    BY <1>1, <2>1, <2>2 DEF Done
  <2>4. Extra' = << >>
    <3>1. SubSeq(Image, template.at[t] + 1, template.at[t]) = << >>
      BY <2>2, ByteSequences
    <3> QED
      BY <1>1, <2>1, <2>3, <3>1 DEF Extra
  <2>5. Extra' = Extra
    BY <2>1, <2>4 DEF Extra
  <2> QED
    BY <1>1, <1>4, <1>9, <2>1, <2>5, OutSame DEF Walks, InData
<1>10. CASE ReadBlock
  <2>1. /\ pc \in {"data", "skip"} /\ pc' = pc /\ t' = t /\ remaining' = remaining
        /\ out' = out /\ dropped' = dropped
    BY <1>10 DEF ReadBlock, NeedsBlock, loopVars, outVars
  <2>2. Extra' = Extra
    BY <1>1, <2>1 DEF Extra, Done
  <2> QED
    BY <1>1, <1>4, <1>10, <2>1, <2>2, OutSame DEF Walks, InData
<1>11. CASE ReadBlockFails
  <2>1. CASE pc = "data"
    BY <1>11, <2>1 DEF ReadBlockFails, Exit, OutInv, Walk
  <2>2. CASE pc # "data"
    <3>1. /\ pc = "skip" /\ EndExtent(TRUE) /\ out' = out /\ dropped' = dropped
      BY <1>11, <2>2 DEF ReadBlockFails, NeedsBlock, outVars
    <3>2. t \in 1..Len(Desc) /\ Desc[t].type # "image" /\ ~InRange
      BY <1>1, <3>1 DEF ExtentOK
    <3> QED
      BY <1>1, <1>4, <1>11, <3>1, <3>2, OutBefore DEF Walks, InData
  <2> QED
    BY <2>1, <2>2
<1>12. CASE WriteData /\ ~opt.missing
  <2>1. /\ pc = "data" /\ pc' = pc /\ t' = t /\ out' = out \o SubSeq(zip.rest, 1, Piece)
        /\ dropped' = dropped
    BY <1>12 DEF WriteData, loopVars
  <2>2. SubSeq(zip.rest, 1, Piece) \in Seq(Byte)
    BY <2>1, Pieces
  <2>3. ~dropped => Extra' = Extra \o SubSeq(zip.rest, 1, Piece)
    BY <1>12, WrittenData
  <2> QED
    BY <1>1, <1>4, <1>12, <2>1, <2>2, <2>3, OutMore DEF Walks, InData
<1>13. CASE WriteNothing
  BY <1>13 DEF WriteNothing, OutInv
<1>14. CASE SkipData
  <2>1. /\ pc = "skip" /\ pc' = pc /\ t' = t /\ out' = out /\ dropped' = dropped
    BY <1>14 DEF SkipData, loopVars, outVars
  <2>2. Extra' = Extra
    BY <2>1 DEF Extra
  <2> QED
    BY <1>1, <1>4, <1>14, <2>1, <2>2, OutSame DEF Walks, InData
<1>15. CASE EndData
  <2>1. /\ pc \in {"data", "skip"} /\ remaining = 0 /\ EndExtent(FALSE)
        /\ out' = out /\ dropped' = dropped
    BY <1>15 DEF EndData, outVars
  <2>2. t \in 1..Len(Desc) /\ Desc[t].type # "image" /\ (pc = "skip" <=> ~InRange)
    BY <1>1, <2>1 DEF ExtentOK
  <2>3. CASE pc = "skip"
    BY <1>1, <1>4, <1>15, <2>1, <2>2, <2>3, OutBefore DEF Walks, InData
  <2>4. CASE pc = "data"
    <3>1. Trusted => Extra = SubSeq(Image, template.at[t] + 1, template.at[t + 1])
      BY <2>1, <2>4, AtTheEnd
    <3>2. InRange
      BY <2>2, <2>4
    <3> QED
      BY <1>1, <1>4, <1>15, <2>1, <2>2, <2>4, <3>1, <3>2, OutWhole DEF Walks, InData
  <2> QED
    BY <2>1, <2>3, <2>4
<1>16. CASE OpenFile /\ ~opt.missing
  <2>1. /\ pc = "loop" /\ pc' = "file" /\ t \in 1..Len(Desc) /\ t' = t
        /\ remaining' = Desc[t].len /\ file_sum' = << >> /\ out' = out /\ dropped' = dropped
    BY <1>1, <1>16 DEF OpenFile, AtFile, At, ExtentOK, loopVars, outVars
  <2>2. Desc[t].len \in Nat /\ Desc[t].sum.of \in Seq(Byte)
    BY <1>1, <2>1, DescEntry
  <2>3. Done' = 0
    BY <1>1, <2>1, <2>2 DEF Done
  <2>4. SubSeq(Desc[t].sum.of, 1, 0) = << >>
    BY <2>2
  <2>5. Copied' = << >>
    BY <1>1, <2>1, <2>3, <2>4 DEF Copied
  <2>6. Extra' = Extra
    BY <2>1, <2>5 DEF Extra
  <2> QED
    BY <1>1, <1>4, <1>16, <2>1, <2>6, OutSame DEF Walks, InFile
<1>17. CASE WriteMissing
  BY <1>1, <1>17 DEF WriteMissing, OutInv
<1>18. CASE CopyPiece
  <2>1. /\ pc = "file" /\ pc' = pc /\ t' = t /\ out' = out \o Found /\ dropped' = dropped
    BY <1>18 DEF CopyPiece, loopVars
  <2>2. Found \in Seq(Byte)
    BY <2>1, Pieces
  <2>3. Trusted => Extra' = Extra \o Found
    BY <1>18, WrittenFile
  <2> QED
    BY <1>1, <1>4, <1>18, <2>1, <2>2, <2>3, OutMore DEF Walks, InFile
<1>19. CASE ShortRead
  BY <1>19 DEF ShortRead, Exit, OutInv, Walk
<1>20. CASE EndFile
  <2>1. CASE quick \/ FileChecked
    <3>1. /\ pc = "file" /\ remaining = 0 /\ EndExtent(FALSE) /\ out' = out /\ dropped' = dropped
      BY <1>20, <2>1 DEF EndFile, outVars
    <3>2. t \in 1..Len(Desc) /\ InRange
      BY <1>1, <3>1 DEF ExtentOK
    <3>3. Trusted => Extra = SubSeq(Image, template.at[t] + 1, template.at[t + 1])
      BY <2>1, <3>1, AtTheEnd
    <3> QED
      BY <1>1, <1>4, <1>20, <3>1, <3>2, <3>3, OutWhole DEF Walks, InFile
  <2>2. CASE ~ (quick \/ FileChecked)
    BY <1>20, <2>2 DEF EndFile, Exit, OutInv, Walk
  <2> QED
    BY <2>1, <2>2
<1> QED
  BY <1>2, <1>3, <1>5, <1>6, <1>7, <1>8, <1>9, <1>10, <1>11, <1>12, <1>13, <1>14, <1>15,
     <1>16, <1>17, <1>18, <1>19, <1>20, StepCases DEF Walks, InData, InFile
-----------------------------------------------------------------------------
(* The list of missing files. *)

\* The entry that is found is the first one for its checksum, and the only one that is.
LEMMA FoundFirst ==
  ASSUME NEW sum, Len(list) \in Nat
  PROVE  LET f == find_file_in_list(sum) IN
         /\ f # 0 => f \in 1..Len(list) /\ list[f].sum = sum /\ First(f)
         /\ \A n \in 1..Len(list) : list[n].sum = sum /\ First(n) => n = f
<1> DEFINE f == find_file_in_list(sum)
<1>1. /\ f \in 0..Len(list)
      /\ f # 0 => list[f].sum = sum /\ \A n \in 1..Len(list) : list[n].sum = sum => f <= n
      /\ f = 0 => \A n \in 1..Len(list) : list[n].sum # sum
  BY FirstInList
<1> HIDE DEF f
<1>2. f # 0 => First(f)
  BY <1>1 DEF First
<1>3. ASSUME NEW n \in 1..Len(list), list[n].sum = sum, First(n)
      PROVE  n = f
  <2>1. f \in 1..Len(list) /\ f <= n /\ list[f].sum = list[n].sum
    BY <1>1, <1>3
  <2>2. f \notin 1..n - 1
    BY <1>3, <2>1 DEF First
  <2> QED
    BY <2>1, <2>2
<1> QED
  BY <1>1, <1>2, <1>3 DEF f

\* Nothing that is looked for and nothing that is listed.
LEMMA MissSame ==
  ASSUME MissInv, pc # "exit", opt' = opt, template' = template, list' = list,
         listed' = listed, t' = t
  PROVE  MissInv'
<1>1. opt.missing /\ opt.start = 0 => LookedFor
  BY DEF MissInv
<1>2. Desc' = Desc
  BY DEF Desc
<1>3. LookedFor => LookedFor'
  BY <1>2 DEF LookedFor, First, Needed
<1> QED
  BY <1>1, <1>3 DEF MissInv

\* An extent that is no file is left behind.
LEMMA MissOther ==
  ASSUME MissInv, pc # "exit", opt' = opt, template' = template, list' = list,
         listed' = listed, t \in 1..Len(Desc), t' = t + 1, Desc[t].type # "file"
  PROVE  MissInv'
<1>1. opt.missing /\ opt.start = 0 => LookedFor
  BY DEF MissInv
<1>2. Desc' = Desc /\ t' - 1 = t
  BY DEF Desc
<1>3. \A n : Needed(n, t - 1) <=> Needed(n, t - 1)'
  <2>1. \A k \in 1..t : k = t \/ k \in 1..t - 1
    OBVIOUS
  <2>2. 1..t - 1 \subseteq 1..t
    OBVIOUS
  <2> QED
    BY <1>2, <2>1, <2>2 DEF Needed
<1>4. \A n : First(n)' <=> First(n)
  BY DEF First
<1>5. LookedFor => LookedFor'
  BY <1>3, <1>4 DEF LookedFor
<1> QED
  BY <1>1, <1>5 DEF MissInv

\* A file is looked for and found, or listed.
LEMMA MissFile ==
  ASSUME InputsOK, list \in Seq(Entry), MissInv, pc # "exit", opt' = opt, template' = template,
         list' = Sized, t \in 1..Len(Desc), t' = t + 1, Desc[t].type = "file",
         FileEntry # 0, Sized[FileEntry].size # UNKNOWN,
         listed' = listed \cup (IF Sized[FileEntry].size = MISSING
                                  THEN {list[FileEntry].path} ELSE {})
  PROVE  MissInv'
<1> DEFINE f == FileEntry
<1>1. SUFFICES ASSUME LookedFor
               PROVE  LookedFor'
  BY DEF MissInv
<1>2. Desc' = Desc /\ t' - 1 = t
  BY DEF Desc
<1>3. /\ f \in 1..Len(list) /\ list[f].sum = Desc[t].sum /\ First(f)
      /\ \A n \in 1..Len(list) : list[n].sum = Desc[t].sum /\ First(n) => n = f
  <2>1. Len(list) \in Nat
    OBVIOUS
  <2> QED
    BY <2>1, FoundFirst DEF FileEntry
<1>4. /\ Len(list') = Len(list)
      /\ \A n \in 1..Len(list) :
           /\ list'[n].sum = list[n].sum /\ list'[n].path = list[n].path
           /\ n # f => list'[n].size = list[n].size
           /\ list[n].size # UNKNOWN => list'[n].size = list[n].size
  BY SizedList
<1>5. ASSUME NEW n \in 1..Len(list)
      PROVE  Needed(n, t - 1)' <=> Needed(n, t - 1) \/ list[n].sum = Desc[t].sum
  <2>1. \A k \in 1..t : k = t \/ k \in 1..t - 1
    OBVIOUS
  <2>2. 1..t - 1 \subseteq 1..t /\ t \in 1..t
    OBVIOUS
  <2>3. list'[n].sum = list[n].sum
    BY <1>4
  <2> QED
    BY <1>2, <2>1, <2>2, <2>3 DEF Needed
<1>6. ASSUME NEW n \in 1..Len(list)
      PROVE  First(n)' <=> First(n)
  <2>1. \A m \in 1..n - 1 : m \in 1..Len(list)
    OBVIOUS
  <2> QED
    BY <1>4, <2>1 DEF First
<1>7. MISSING # UNKNOWN
  BY DEF MISSING, UNKNOWN
<1> HIDE DEF f
<1>8. ASSUME NEW n \in 1..Len(list)
      PROVE  list'[n].size = MISSING /\ Needed(n, t - 1)' <=>
               \/ list[n].size = MISSING /\ Needed(n, t - 1)
               \/ n = f /\ list'[f].size = MISSING
  <2>1. CASE n = f
    BY <1>3, <1>4, <1>5, <1>7, <1>8, <2>1
  <2>2. CASE n # f
    <3>1. list'[n].size = list[n].size
      BY <1>4, <2>2
    <3>2. list[n].size = MISSING => First(n)
      BY <1>1 DEF LookedFor
    <3>3. list[n].size = MISSING => list[n].sum # Desc[t].sum
      BY <1>3, <2>2, <3>2
    <3> QED
      BY <1>5, <2>2, <3>1, <3>3
  <2> QED
    BY <2>1, <2>2
<1>9. \A n \in 1..Len(list) :
        /\ list'[n].size = MISSING => First(n)'
        /\ Needed(n, t - 1)' /\ First(n)' => list'[n].size # UNKNOWN
  <2> SUFFICES ASSUME NEW n \in 1..Len(list)
               PROVE  /\ list'[n].size = MISSING => First(n)
                      /\ Needed(n, t - 1)' /\ First(n) => list'[n].size # UNKNOWN
    BY <1>6
  <2>1. /\ list[n].size = MISSING => First(n)
        /\ Needed(n, t - 1) /\ First(n) => list[n].size # UNKNOWN
    BY <1>1 DEF LookedFor
  <2>2. list'[n].size = MISSING => First(n)
    BY <1>3, <1>4, <2>1
  <2>3. ASSUME Needed(n, t - 1)', First(n)
        PROVE  list'[n].size # UNKNOWN
    <3>1. CASE n = f
      BY <3>1 DEF f
    <3>2. CASE n # f
      <4>1. Needed(n, t - 1)
        BY <1>3, <1>5, <2>3, <3>2
      <4> QED
        BY <1>4, <2>1, <2>3, <4>1
    <3> QED
      BY <3>1, <3>2
  <2> QED
    BY <2>2, <2>3
<1>10. listed' = {list'[n].path : n \in {n \in 1..Len(list') :
                               list'[n].size = MISSING /\ Needed(n, t - 1)'}}
  <2>1. listed = {list[n].path : n \in {n \in 1..Len(list) :
                                 list[n].size = MISSING /\ Needed(n, t - 1)}}
    BY <1>1 DEF LookedFor
  <2>2. listed' = listed \cup (IF list'[f].size = MISSING THEN {list[f].path} ELSE {})
    BY DEF f
  <2>3. {n \in 1..Len(list') : list'[n].size = MISSING /\ Needed(n, t - 1)'} =
        {n \in 1..Len(list) : list[n].size = MISSING /\ Needed(n, t - 1)}
          \cup (IF list'[f].size = MISSING THEN {f} ELSE {})
    BY <1>3, <1>4, <1>8
  <2>4. \A n \in 1..Len(list) : list'[n].path = list[n].path
    BY <1>4
  <2> DEFINE A == {n \in 1..Len(list) : list[n].size = MISSING /\ Needed(n, t - 1)}
             B == IF list'[f].size = MISSING THEN {f} ELSE {}
  <2>5. A \subseteq 1..Len(list) /\ B \subseteq 1..Len(list)
    BY <1>3
  <2>6. (IF list'[f].size = MISSING THEN {list[f].path} ELSE {}) = {list[n].path : n \in B}
    OBVIOUS
  <2> HIDE DEF A, B
  <2>7. listed' = {list[n].path : n \in A} \cup {list[n].path : n \in B}
    BY <2>1, <2>2, <2>6 DEF A
  <2>8. listed' = {list[n].path : n \in A \cup B}
    BY <2>7
  <2>9. {list[n].path : n \in A \cup B} = {list'[n].path : n \in A \cup B}
    BY <2>4, <2>5
  <2> QED
    BY <2>3, <2>8, <2>9 DEF A, B
<1> QED
  BY <1>4, <1>9, <1>10 DEF LookedFor

\* Before the walk nothing has been looked for.
LEMMA MissEarly ==
  ASSUME Types, MissInv, ReadsInputs, ConstantsAssumption
  PROVE  MissInv'
<1>1. /\ opt' = opt /\ template' = template /\ Desc' = Desc /\ pc # "exit" /\ pc \in Early
      /\ t = 1 /\ t' = 1 /\ listed = {} /\ listed' = {} /\ list \in Seq(Entry)
  BY StepFrame, StepCases, ReadsInputsFrame DEF Desc, Types, FlagsOK, ListOK, Early, loopVars, outVars
<1>2. \A n : ~Needed(n, t - 1) /\ ~Needed(n, t - 1)'
  BY <1>1 DEF Needed
<1>3. (\A n \in 1..Len(list') : list'[n].size = MISSING => First(n)') => LookedFor'
  BY <1>1, <1>2 DEF LookedFor
<1>4. CASE UNCHANGED listVars
  BY <1>1, <1>4, MissSame DEF listVars
<1>5. CASE ParseLists
  <2>1. \A n \in 1..Len(list') : list'[n].size = UNKNOWN
    BY <1>5, ParsedList DEF Types, InputsOK
  <2> QED
    BY <1>3, <2>1 DEF MissInv, MISSING, UNKNOWN
<1>6. CASE PartListed
  <2>1. list' = list
    BY <1>1, <1>6 DEF PartListed, AddEntries
  <2> QED
    BY <1>1, <2>1, MissSame
<1>7. CASE (PartFound \/ PartNotFound) /\ pc' = "exit"
  <2>1. pc = "jigdo"
    BY <1>7 DEF PartFound, PartNotFound, AtNewPart, AtPart
  <2>2. RejectPart("ENOENT")
    BY <1>7, <2>1 DEF PartFound, PartNotFound, AddEntries
  <2> QED
    BY <1>1, <2>2, MissSame DEF RejectPart, listVars
<1>8. CASE (PartFound \/ PartNotFound) /\ pc' # "exit"
  <2>1. PICK e \in Entry : list' = Append(list, e) /\ find_file_in_list(e.sum) = 0
    BY <1>8, AddedEntry DEF Types
  <2>2. /\ Len(list) \in Nat /\ Len(list') = Len(list) + 1
        /\ \A n \in 1..Len(list) : list'[n] = list[n]
        /\ list'[Len(list) + 1] = e
    BY <1>1, <2>1
  <2>3. \A n \in 1..Len(list) : list[n].sum # e.sum
    BY <2>1, <2>2, FirstInList
  <2>4. ASSUME opt.missing, opt.start = 0, NEW n \in 1..Len(list'), list'[n].size = MISSING
        PROVE  First(n)'
    <3>1. CASE n \in 1..Len(list)
      <4>1. First(n)
        BY <1>1, <2>2, <2>4, <3>1 DEF MissInv, LookedFor
      <4>2. \A m \in 1..n - 1 : m \in 1..Len(list)
        BY <2>2, <3>1
      <4> QED
        BY <2>2, <3>1, <4>1, <4>2 DEF First
    <3>2. CASE n \notin 1..Len(list)
      <4>1. n = Len(list) + 1
        BY <2>2, <3>2
      <4>2. \A m \in 1..n - 1 : m \in 1..Len(list)
        BY <2>2, <4>1
      <4> QED
        BY <2>2, <2>3, <4>1, <4>2 DEF First
    <3> QED
      BY <3>1, <3>2
  <2> QED
    BY <1>1, <1>3, <2>4 DEF MissInv
<1> QED
  BY <1>4, <1>5, <1>6, <1>7, <1>8, ListSteps, StepCases, <1>1 DEF AtFile, At, Early

\* MissInv after every step of the program.
LEMMA StepMiss ==
  ASSUME ConstantsAssumption, Types, MissInv, Step
  PROVE  MissInv'
<1>1. /\ template' = template /\ opt' = opt /\ Desc' = Desc /\ IsTemplate(template)
      /\ InputsOK /\ ExtentOK /\ FlagsOK /\ list \in Seq(Entry) /\ Len(Desc) \in Nat
  BY StepFrame DEF Desc, Types, InputsOK, ListOK, IsTemplate
<1>2. CASE ReadsInputs
  BY <1>2, MissEarly
<1>3. CASE ScanAgain
  BY <1>1, <1>3, MissSame DEF ScanAgain, vars, loopVars, listVars, outVars
<1>4. CASE ~(opt.missing /\ opt.start = 0)
  BY <1>1, <1>4 DEF MissInv
<1>5. ASSUME t \in 1..Len(Desc), pc' = "exit", t' = t
      PROVE  MissInv'
  BY <1>1, <1>5 DEF MissInv
<1>6. CASE pc \in {"data", "skip", "file"}
  BY <1>1, <1>4, <1>6 DEF ExtentOK
<1>7. CASE Walks /\ pc = "loop" /\ opt.missing /\ opt.start = 0
  <2>1. ASSUME t \in 1..Len(Desc)
        PROVE  InRange
    <3>1. Desc[t].len \in Nat /\ output_offset \in Nat
      BY <1>1, <2>1, DescEntry DEF ExtentOK
    <3> QED
      BY <1>7, <3>1 DEF InRange
  <2>2. ASSUME NEW type, At(type)
        PROVE  t \in 1..Len(Desc) /\ Desc[t].type = type /\ InRange
    BY <1>1, <2>1, <2>2 DEF At, ExtentOK
  <2>3. CASE ImageEntry \/ PassOver
    <3>1. /\ list' = list /\ listed' = listed /\ EndExtent(error)
          /\ \/ At("image") \/ At("data")
             \/ At("file") /\ ~InRange
      BY <2>3 DEF ImageEntry, PassOver, listVars, outVars
    <3>2. t \in 1..Len(Desc) /\ Desc[t].type # "file" /\ t' = t + 1
      BY <2>2, <3>1 DEF EndExtent
    <3> QED
      BY <1>1, <1>7, <3>1, <3>2, MissOther
  <2>4. CASE FileFails \/ MissingCrash
    <3>1. At("file") /\ pc' = "exit" /\ t' = t
      BY <2>4 DEF FileFails, MissingCrash, AtFile, Exit, loopVars
    <3> QED
      BY <1>5, <2>2, <3>1
  <2>5. CASE OpenFile
    <3>1. /\ At("file") /\ Usable /\ list' = Sized /\ EndExtent(FALSE) /\ listed' = listed
      BY <1>7, <2>5 DEF OpenFile, AtFile, outVars
    <3>2. t \in 1..Len(Desc) /\ Desc[t].type = "file" /\ t' = t + 1
      BY <2>2, <3>1 DEF EndExtent
    <3>3. FileEntry # 0 /\ Sized[FileEntry].size \in Nat
      BY <1>1, <3>1, <3>2, DescEntry DEF Usable
    <3>4. MISSING \notin Nat /\ UNKNOWN \notin Nat
      BY DEF MISSING, UNKNOWN
    <3> QED
      BY <1>1, <1>7, <3>1, <3>2, <3>3, <3>4, MissFile
  <2>6. CASE WriteMissing
    <3>1. /\ At("file") /\ list' = Sized /\ FileEntry # 0 /\ Sized[FileEntry].size = MISSING
      BY <2>6 DEF WriteMissing, AtFile
    <3>2. t \in 1..Len(Desc) /\ Desc[t].type = "file"
      BY <2>2, <3>1
    <3>3. CASE pc' = "exit"
      <4>1. UNCHANGED loopVars
        BY <2>6, <3>3 DEF WriteMissing, EndExtent
      <4> QED
        BY <1>5, <3>2, <3>3, <4>1 DEF loopVars
    <3>4. CASE pc' # "exit"
      <4>1. EndExtent(FALSE) /\ listed' = listed \cup {list[FileEntry].path}
        BY <2>6, <3>4 DEF WriteMissing, Exit
      <4>2. t' = t + 1 /\ MISSING # UNKNOWN
        BY <4>1 DEF EndExtent, MISSING, UNKNOWN
      <4> QED
        BY <1>1, <1>7, <3>1, <3>2, <4>1, <4>2, MissFile
    <3> QED
      BY <3>3, <3>4
  <2>7. CASE Finish \/ StaleError \/ WriteFails \/ StartData
    <3>1. t' = t /\ list' = list /\ listed' = listed
      BY <2>7 DEF Finish, StaleError, WriteFails, StartData, loopVars, listVars, outVars
    <3> QED
      BY <1>1, <1>7, <3>1, MissSame
  <2>8. ~ (ReadBlock \/ ReadBlockFails \/ WriteData \/ WriteNothing \/ SkipData \/ EndData
           \/ CopyPiece \/ ShortRead \/ EndFile)
    BY <1>7 DEF ReadBlock, ReadBlockFails, NeedsBlock, WriteData, WriteNothing, SkipData,
       EndData, CopyPiece, ShortRead, EndFile
  <2> QED
    BY <1>7, <2>3, <2>4, <2>5, <2>6, <2>7, <2>8 DEF Walks, InData, InFile
<1> QED
  BY <1>2, <1>3, <1>4, <1>6, <1>7, WalksFrame, StepCases DEF Walk
-----------------------------------------------------------------------------
(* The end. *)

\* When the walk is over the output is one piece of the image that begins in front
\* of the range and ends behind it.
LEMMA FinishedPiece ==
  ASSUME ConstantsAssumption, Types, Describes(template), PlaceInv, OutInv, Finish,
         ~opt.missing, ~dropped, Trusted
  PROVE  \E a \in 0..Len(Image) : \E b \in a..Len(Image) :
           out = SubSeq(Image, a + 1, b) /\ Covers(a, b)
<1>1. /\ pc = "loop" /\ t \in 1..Len(Desc) + 1 /\ (t > Len(Desc) \/ PastEnd)
      /\ IsTemplate(template) /\ opt.start \in Nat
  BY DEF Finish, Types, ExtentOK, InputsOK, AnyOption
<1>2. /\ template.at[t] \in Nat /\ template.at[t] <= Len(Image) /\ Len(Image) \in Nat
      /\ Image \in Seq(Byte) /\ Len(Desc) \in Nat /\ template.at[Len(Desc) + 1] = Len(Image)
  BY <1>1, Places
<1>3. PICK a \in 0..template.at[t] : Begun(a)
  BY <1>1 DEF OutInv, Walk
<1>4. a \in Nat /\ a <= template.at[t] /\ a <= opt.start /\ Extra = << >>
      /\ out = SubSeq(Image, a + 1, template.at[t]) \o << >>
  <2>1. Extra = << >>
    BY <1>1 DEF Extra
  <2>2. a \in Nat /\ a <= template.at[t]
    BY <1>2, <1>3
  <2> QED
    BY <1>3, <2>1, <2>2 DEF Begun
<1>5. SubSeq(Image, a + 1, template.at[t]) \in Seq(Byte)
  BY <1>2, <1>4, ByteSequences
<1>6. out = SubSeq(Image, a + 1, template.at[t])
  BY <1>4, <1>5, ByteSequences
<1>7. template.at[t] = Len(Image) \/ (opt.end # 0 /\ template.at[t] > opt.end)
  <2>1. CASE t = Len(Desc) + 1
    BY <1>2, <2>1
  <2>2. CASE t # Len(Desc) + 1
    <3>1. t <= Len(Desc)
      BY <1>1, <1>2, <2>2
    <3>2. output_offset = template.at[t]
      BY <1>1, <3>1 DEF PlaceInv, Walk
    <3> QED
      BY <1>1, <1>2, <3>1, <3>2 DEF PastEnd
  <2> QED
    BY <2>1, <2>2
<1>8. a \in 0..Len(Image) /\ template.at[t] \in a..Len(Image)
  BY <1>2, <1>4
<1> QED
  BY <1>4, <1>6, <1>7, <1>8 DEF Covers

\* Only the end of the walk makes an image that passes for written.
LEMMA WrittenAtEnd ==
  ASSUME Types, Step, Written'
  PROVE  Finish /\ ~opt.missing /\ pc' = "exit"
<1>1. opt' = opt /\ status' = "ok" /\ ~opt.missing /\ ~opt.sizeonly
  BY StepFrame DEF Written
<1>2. pc # "exit" => status = "none"
  BY DEF Types, FlagsOK
<1>3. CASE ReadsInputs
  BY <1>1, <1>2, <1>3, ReadsInputsFrame DEF Running, Early
<1>4. CASE ScanAgain
  BY <1>1, <1>2, <1>4 DEF ScanAgain, vars
<1>5. CASE Walks
  BY <1>1, <1>2, <1>5, WalksFrame DEF Running, Walk
<1> QED
  BY <1>3, <1>4, <1>5, StepCases

\* ImageRebuilt and RangeWritten after every step of the program.
LEMMA StepEnd ==
  ASSUME ConstantsAssumption, Types, Describes(template), PlaceInv, OutInv, Step
  PROVE  ImageRebuilt' /\ RangeWritten'
<1> SUFFICES ASSUME Written'
             PROVE  ImageRebuilt' /\ RangeWritten'
  BY DEF ImageRebuilt, RangeWritten
<1>1. /\ template' = template /\ opt' = opt /\ Desc' = Desc /\ Image' = Image
      /\ (quick' <=> quick) /\ IsTemplate(template) /\ opt \in AnyOption
  BY StepFrame DEF Desc, Image, quick, Types, InputsOK
<1>2. Finish /\ ~opt.missing /\ out' = out /\ dropped' = dropped /\ (Trusted' => Trusted)
  BY WrittenAtEnd, WalkTrusted DEF Finish, outVars, Walks
<1>3. Image \in Seq(Byte) /\ Len(Image) \in Nat /\ Len(Desc) \in Nat /\ Len(Desc) > 0
  BY <1>1, Places
<1>4. ASSUME ~dropped', Trusted'
      PROVE  \E a \in 0..Len(Image) : \E b \in a..Len(Image) :
               out' = SubSeq(Image, a + 1, b) /\ Covers(a, b)
  BY <1>2, <1>4, FinishedPiece
<1>5. RangeWritten'
  <2> SUFFICES ASSUME ~dropped', MirrorTrue', ~rewritten'
               PROVE  \E a \in 0..Len(Image) : \E b \in a..Len(Image) :
                        out' = SubSeq(Image, a + 1, b) /\ Covers(a, b)
    BY <1>1 DEF RangeWritten, Covers
  <2> QED
    BY <1>4 DEF Trusted
<1>6. ASSUME ~quick, opt.verbose
      PROVE  out' = Image
  <2>1. BytesOK' /\ Compared'
    BY <1>1, <1>6, StepBytes DEF Compared
  <2>2. Len(Desc) \in ImageEntries' /\ Desc[Len(Desc)].sum.of = Image
    <3>1. Len(Desc) \in 1..Len(Desc) /\ Desc[Len(Desc)].type = "image"
      BY <1>3 DEF Describes, Desc
    <3> QED
      BY <1>1, <3>1, ExtentFacts DEF ImageEntries
  <2> QED
    BY <1>1, <2>1, <2>2 DEF BytesOK
<1>7. ASSUME ~quick, ~dropped'
      PROVE  out' = Image
  <2>1. opt.start = 0 /\ opt.end = 0 /\ Trusted'
    BY <1>1, <1>7 DEF quick, Trusted
  <2>2. PICK a \in 0..Len(Image) : \E b \in a..Len(Image) :
               out' = SubSeq(Image, a + 1, b) /\ Covers(a, b)
    BY <1>4, <1>7, <2>1
  <2>3. PICK b \in a..Len(Image) : out' = SubSeq(Image, a + 1, b) /\ Covers(a, b)
    BY <2>2
  <2>4. a = 0 /\ b = Len(Image)
    BY <2>1, <2>3 DEF Covers
  <2>5. out' = SubSeq(Image, 1, Len(Image))
    BY <2>3, <2>4
  <2> QED
    BY <1>3, <2>5
<1> QED
  BY <1>1, <1>5, <1>6, <1>7 DEF ImageRebuilt

\* The invariant after every step of the program.
LEMMA StepInv ==
  ASSUME ConstantsAssumption, IInv, Describes(template), Step
  PROVE  IInv' /\ Describes(template)'
<1>1. template' = template
  BY StepFrame
<1> QED
  BY <1>1, StepTypes, StepPlace, StepSync, StepOut, StepMiss, StepEnd DEF IInv

\* The invariant after another program has written to the mirror: no file is
\* trusted from then on that is not checked.
LEMMA RewriteInv ==
  ASSUME ConstantsAssumption, IInv, Describes(template), Rewrite
  PROVE  IInv' /\ Describes(template)'
<1>1. /\ pc # "exit" /\ rewritten' = TRUE
      /\ UNCHANGED <<pc, status, argVars, listVars, loopVars, zipVars,
                     remaining, fileVars, outVars, lost>>
  BY RewriteFrame DEF IInv, Types
<1>2. /\ Desc' = Desc /\ Blocks' = Blocks /\ Image' = Image /\ (quick' <=> quick)
      /\ template' = template /\ opt' = opt
  BY <1>1 DEF Desc, Blocks, Image, quick, argVars
<1>3. Types'
  BY RewriteTypes DEF IInv
<1>4. PlaceInv'
  BY <1>1, <1>2 DEF IInv, PlaceInv, loopVars
<1>5. Done' = Done
  BY <1>1, <1>2 DEF Done, loopVars
<1>6. SyncInv'
  <2>1. /\ Pos' = Pos /\ Reached' = Reached /\ (BlockReadable' <=> BlockReadable)
        /\ (Damaged' <=> Damaged) /\ zip' = zip
    BY <1>1, <1>2, <1>5 DEF Pos, Reached, BlockReadable, Damaged, loopVars, zipVars
  <2>2. (InStep' <=> InStep) /\ (Stuck' <=> Stuck)
    BY <1>2, <2>1 DEF InStep, Stuck
  <2> QED
    BY <1>1, <1>2, <2>2 DEF IInv, SyncInv, outVars
<1>7. OutInv'
  <2>1. Extra' = Extra
    BY <1>1, <1>2, <1>5 DEF Extra, Copied, loopVars, fileVars
  <2>2. Trusted' => Trusted
    BY <1>1, <1>2 DEF Trusted
  <2>3. \A a : Begun(a)' <=> Begun(a)
    BY <1>1, <1>2, <2>1 DEF Begun, loopVars, outVars
  <2> QED
    BY <1>1, <1>2, <2>2, <2>3 DEF IInv, OutInv, loopVars, outVars
<1>8. MissInv'
  BY <1>1, <1>2, MissSame DEF IInv, loopVars, listVars, outVars
<1>9. status' # "ok"
  BY <1>1 DEF IInv, Types, FlagsOK
<1>10. ImageRebuilt' /\ RangeWritten'
  BY <1>9 DEF ImageRebuilt, RangeWritten, Written
<1> QED
  BY <1>2, <1>3, <1>4, <1>6, <1>7, <1>8, <1>10 DEF IInv

\* The invariant when nothing changes.
LEMMA StutterInv ==
  ASSUME IInv, Describes(template), UNCHANGED vars
  PROVE  IInv' /\ Describes(template)'
<1>1. /\ UNCHANGED <<pc, status, opt, template, jigdo, disk, rewritten, list, part, t,
                     output_offset, error, zip, block, remaining, input, file_sum,
                     image_sum, out, listed, dropped, lost>>
  BY DEF vars, argVars, mirrorVars, listVars, loopVars, zipVars, fileVars, outVars
<1>2. Types'
  BY StutterTypes DEF IInv
<1>3. /\ Desc' = Desc /\ Blocks' = Blocks /\ Image' = Image /\ (quick' <=> quick)
      /\ (MirrorTrue' <=> MirrorTrue)
  BY <1>1 DEF Desc, Blocks, Image, quick, MirrorTrue
<1>4. /\ Done' = Done /\ Reached' = Reached /\ (BlockReadable' <=> BlockReadable)
      /\ (Damaged' <=> Damaged)
  BY <1>1, <1>3 DEF Done, Reached, BlockReadable, Damaged
<1>5. Pos' = Pos /\ Extra' = Extra /\ (Trusted' <=> Trusted)
  BY <1>1, <1>3, <1>4 DEF Pos, Extra, Copied, Trusted
<1>6. PlaceInv' /\ SyncInv'
  BY <1>1, <1>3, <1>4, <1>5 DEF IInv, PlaceInv, SyncInv, InStep, Stuck
<1>7. OutInv'
  BY <1>1, <1>3, <1>5 DEF IInv, OutInv, Begun
<1>8. MissInv'
  BY <1>1, <1>3 DEF IInv, MissInv, LookedFor, First, Needed
<1>9. (Written' <=> Written) /\ ImageRebuilt'
  BY <1>1, <1>3 DEF IInv, ImageRebuilt, Written
<1>10. RangeWritten'
  BY <1>1, <1>3, <1>9 DEF IInv, RangeWritten, Covers
<1> QED
  BY <1>1, <1>2, <1>6, <1>7, <1>8, <1>9, <1>10 DEF IInv

\* The invariant after every step.
LEMMA NextInv ==
  ASSUME ConstantsAssumption, IInv, Describes(template), [Next]_vars
  PROVE  IInv' /\ Describes(template)'
BY StepInv, RewriteInv, StutterInv DEF Next, Exited

\* The invariant when the program is started.
LEMMA StartedInv ==
  ASSUME Started, InputsOK
  PROVE  IInv
<1>1. Types
  BY StartedTypes
<1>2. /\ pc = "lists" /\ status = "none" /\ list = << >> /\ listed = {} /\ t = 1
  BY DEF Started
<1>3. PlaceInv /\ SyncInv /\ OutInv
  BY <1>2 DEF PlaceInv, SyncInv, OutInv, Walk
<1>4. MissInv
  BY <1>2 DEF MissInv, LookedFor
<1>5. ImageRebuilt /\ RangeWritten
  BY <1>2 DEF ImageRebuilt, RangeWritten, Written
<1> QED
  BY <1>1, <1>3, <1>4, <1>5 DEF IInv

\* The invariant holds in every state of the program.
LEMMA Invariant == Spec => [](IInv /\ Describes(template))
<1>1. Init => IInv /\ Describes(template)
  BY ConstantsAssumption, InitInputs, StartedInv
<1>2. IInv /\ Describes(template) /\ [Next]_vars => IInv' /\ Describes(template)'
  BY ConstantsAssumption, NextInv
<1> QED
  BY <1>1, <1>2, PTL DEF Spec

\* A whole image that was checked is the image, whoever rewrites the mirror
\* meanwhile, whatever the template has lost and however long the buffers are.
THEOREM ImageIsRebuilt == Spec => []ImageRebuilt
BY Invariant, PTL DEF IInv

\* From an honest mirror the output is one piece of the image, and it holds what
\* -s and -e ask for, also when parts of the unmatched data had to be skipped.
THEOREM RangeIsWritten == Spec => []RangeWritten
BY Invariant, PTL DEF IInv

\* What -M has listed when it has walked through the template are the files that are
\* needed and missing.
THEOREM MissingAreListed == Spec => []MissingListed
<1>1. IInv => MissingListed
  <2> SUFFICES ASSUME IInv, opt.missing, pc = "exit", t > Len(Desc), opt.start = 0
               PROVE  listed = {list[n].path : n \in
                        {n \in 1..Len(list) :
                          /\ list[n].size = MISSING
                          /\ \E k \in 1..Len(Desc) : /\ Desc[k].type = "file"
                                                     /\ Desc[k].sum = list[n].sum}}
    BY DEF MissingListed
  <2>1. LookedFor
    BY DEF IInv, MissInv
  <2>2. t - 1 = Len(Desc)
    <3>1. t \in 1..Len(Desc) + 1 /\ Len(Desc) \in Nat
      BY DEF IInv, Types, ExtentOK, InputsOK, IsTemplate, Desc
    <3> QED
      BY <3>1
  <2> QED
    BY <2>1, <2>2 DEF LookedFor, Needed
<1> QED
  BY <1>1, Invariant, PTL
-----------------------------------------------------------------------------
(* A program in whose way nothing is comes to a good end. *)

\* The inputs stay what they are.
LEMMA SuppliedFrame ==
  ASSUME opt' = opt, template' = template, jigdo' = jigdo, disk' = disk
  PROVE  Supplied' <=> Supplied
<1>1. Blocks' = Blocks /\ Desc' = Desc /\ (Damaged' <=> Damaged)
  BY DEF Blocks, Desc, Damaged
<1>2. \A e : Present(e)' <=> Present(e)
  BY DEF Present
<1>3. \A p : Hits(p)' = Hits(p) /\ find_file_in_mirror(p)' = find_file_in_mirror(p)
  BY DEF Hits, find_file_in_mirror
<1> QED
  BY <1>1, <1>2, <1>3 DEF Supplied, Present

\* The list still leads to the files after a part has been looked up.
LEMMA LeadsPart ==
  ASSUME ConstantsAssumption, Types, Supplied, LeadsInv, AtPart, jigdo' = jigdo, disk' = disk,
         pc' = "jigdo", part' = part + 1,
         \/ list' = list /\ Known(jigdo.parts[part].sum)
         \/ \E e \in Entry : /\ list' = Append(list, e) /\ Leads(e)
                             /\ e.sum = jigdo.parts[part].sum
  PROVE  LeadsInv'
<1>1. /\ list \in Seq(Entry) /\ Len(list) \in Nat /\ part \in 1..Len(jigdo.parts)
      /\ Len(jigdo.parts) \in Nat
  BY DEF Types, ListOK, AtPart, InputsOK, IsJigdo
<1>2. /\ \A n \in 1..Len(list) : Leads(list[n])
      /\ \A n \in 1..part - 1 : Known(jigdo.parts[n].sum)
  BY DEF LeadsInv
<1>3. \A n \in 1..(part + 1) - 1 : n = part \/ n \in 1..part - 1
  BY <1>1
<1>4. CASE list' = list /\ Known(jigdo.parts[part].sum)
  <2>1. \A n \in 1..Len(list) : Leads(list[n])'
    BY <1>2, <1>4 DEF Leads, Present
  <2>2. \A n \in 1..(part + 1) - 1 : Known(jigdo.parts[n].sum)
    BY <1>2, <1>3, <1>4
  <2>3. \A sum : Known(sum)' <=> Known(sum)
    BY <1>4 DEF Known
  <2> QED
    BY <1>4, <2>1, <2>2, <2>3 DEF LeadsInv, Walk
<1>5. CASE \E e \in Entry : /\ list' = Append(list, e) /\ Leads(e)
                            /\ e.sum = jigdo.parts[part].sum
  <2>1. PICK e \in Entry : /\ list' = Append(list, e) /\ Leads(e)
                           /\ e.sum = jigdo.parts[part].sum
    BY <1>5
  <2>2. /\ Len(list') = Len(list) + 1
        /\ \A n \in 1..Len(list) + 1 : list'[n] = IF n = Len(list) + 1 THEN e ELSE list[n]
    BY <1>1, <2>1
  <2>3. \A n \in 1..Len(list) + 1 : n = Len(list) + 1 \/ n \in 1..Len(list)
    BY <1>1
  <2>4. \A n \in 1..Len(list') : Leads(list'[n])
    BY <1>2, <2>1, <2>2, <2>3
  <2>5. \A n \in 1..Len(list') : Leads(list[n])'
    BY <2>4 DEF Leads, Present
  <2>6. ASSUME NEW sum, Known(sum) \/ sum = e.sum
        PROVE  \E n \in 1..Len(list') : list'[n].sum = sum
    <3>1. CASE sum = e.sum
      <4>1. Len(list) + 1 \in 1..Len(list) + 1
        BY <1>1
      <4>2. Len(list) + 1 \in 1..Len(list') /\ list'[Len(list) + 1] = e
        BY <2>2, <4>1
      <4> QED
        BY <3>1, <4>2
    <3>2. CASE Known(sum)
      <4>1. PICK n \in 1..Len(list) : list[n].sum = sum
        BY <3>2 DEF Known
      <4>2. n \in 1..Len(list') /\ list'[n] = list[n]
        BY <1>1, <2>2, <4>1
      <4> QED
        BY <4>1, <4>2
    <3> QED
      BY <2>6, <3>1, <3>2
  <2>7. \A n \in 1..(part + 1) - 1 : \E m \in 1..Len(list') : list'[m].sum = jigdo.parts[n].sum
    BY <1>2, <1>3, <2>1, <2>6
  <2> QED
    BY <2>5, <2>7 DEF LeadsInv, Known, Walk
<1> QED
  BY <1>4, <1>5

\* Reading the inputs meets no error.
LEMMA ReadWorks ==
  ASSUME ConstantsAssumption, Types, Supplied, Works, ReadsInputs
  PROVE  Works'
<1>1. /\ pc \in Early /\ UNCHANGED <<loopVars, zipVars, remaining, fileVars, outVars>>
      /\ status = "none" /\ jigdo' = jigdo /\ disk' = disk /\ LeadsInv /\ ListOK /\ InputsOK
  BY ReadsInputsFrame, StepFrame, StepCases DEF Types, FlagsOK, Early, Works
<1>2. Len(list) \in Nat /\ list \in Seq(Entry) /\ part \in 1..Len(jigdo.parts) + 1
      /\ Len(jigdo.parts) \in Nat
  BY <1>1 DEF ListOK, InputsOK, IsJigdo
<1>3. /\ "input" \notin Faults /\ template.tail = "good"
      /\ \A n \in 1..Len(jigdo.parts) : /\ jigdo.parts[n].wellformed
                                        /\ Hits(jigdo.parts[n]) # {}
  BY DEF Supplied
<1>4. ASSUME LeadsInv', pc' = "exit" => status' = "ok", pc' # "file"
      PROVE  Works'
  BY <1>1, <1>4 DEF Works, loopVars, zipVars, outVars
<1>5. ~InputFails /\ ~PartMalformed /\ ~PartNotFound
  <2>1. AtPart => part \in 1..Len(jigdo.parts)
    BY <1>2 DEF AtPart
  <2> QED
    BY <1>3, <2>1 DEF InputFails, PartMalformed, PartNotFound, AtNewPart
<1>6. CASE ParseLists
  <2>1. /\ part' = 1 /\ pc' = "jigdo" /\ status' = status
        /\ list' = [n \in 1..Len(jigdo.list) |->
                      [sum |-> jigdo.list[n].sum, path |-> jigdo.list[n].path,
                       size |-> UNKNOWN]]
    BY <1>1, <1>6 DEF ParseLists, Running, LeadsInv
  <2>2. Len(list') = Len(jigdo.list) /\ Len(jigdo.list) \in Nat
    BY <1>1, <2>1 DEF InputsOK, IsJigdo
  <2>3. \A n \in 1..Len(jigdo.list) : Leads(list'[n])
    BY <2>1 DEF Supplied, Leads, Present
  <2>4. \A n \in 1..Len(list') : Leads(list[n])'
    BY <1>1, <2>2, <2>3 DEF Leads, Present
  <2>5. \A n \in 1..part' - 1 : Known(jigdo.parts[n].sum)'
    BY <2>1
  <2>6. LeadsInv'
    BY <2>1, <2>4, <2>5 DEF LeadsInv, Walk
  <2> QED
    BY <1>1, <1>4, <2>1, <2>6
<1>7. CASE PartListed
  <2>1. /\ AtPart /\ list' = list \o << >> /\ part' = part + 1 /\ pc' = pc /\ status' = status
        /\ find_file_in_list(jigdo.parts[part].sum) # 0
    BY <1>7 DEF PartListed, AtNewPart, AddEntries, Running
  <2>2. list' = list /\ pc' = "jigdo"
    BY <1>2, <2>1 DEF AtPart
  <2>3. Known(jigdo.parts[part].sum)
    BY <1>2, <2>1, FirstInList DEF Known
  <2>4. LeadsInv'
    BY <1>1, <2>1, <2>2, <2>3, LeadsPart
  <2> QED
    BY <1>1, <1>4, <2>1, <2>2, <2>4
<1>8. CASE PartFound
  <2> DEFINE p == jigdo.parts[part]
             path == find_file_in_mirror(p)
             e == [sum |-> p.sum, path |-> path, size |-> get_file_size(path)]
  <2>1. /\ AtPart /\ part' = part + 1 /\ pc' = "jigdo" /\ status' = status
        /\ list' = list \o <<e>>
    BY <1>8 DEF PartFound, AtNewPart, AtPart, AddEntries, Running
  <2>2. part \in 1..Len(jigdo.parts)
    BY <1>2, <2>1 DEF AtPart
  <2>3. p.sum \in Checksum /\ p.name \in STRING /\ Hits(p) # {}
    BY <1>1, <1>3, <2>2, PartFields DEF InputsOK
  <2>4. path \in FilePath /\ get_file_size(path) \in Nat \cup {MISSING}
    BY <1>1, <2>3, MirrorPath, FileSize
  <2>5. e \in Entry
    BY <2>3, <2>4 DEF Entry
  <2>6. path \in DOMAIN disk /\ path \notin Unreadable /\ disk[path] = p.sum.of
    BY <2>2 DEF Supplied, Present
  <2>7. Leads(e)
    BY <2>6 DEF Leads, Present, get_file_size
  <2>8. e.sum = p.sum
    OBVIOUS
  <2> HIDE DEF e, p
  <2>9. list' = Append(list, e)
    BY <1>2, <2>1, <2>5
  <2>10. LeadsInv'
    BY <1>1, <2>1, <2>5, <2>7, <2>8, <2>9, LeadsPart DEF p
  <2> QED
    BY <1>1, <1>4, <2>1, <2>10
<1>9. CASE JigdoParsed
  <2>1. part = Len(jigdo.parts) + 1 /\ pc' = "scan" /\ status' = status /\ UNCHANGED listVars
    BY <1>2, <1>9 DEF JigdoParsed, Running
  <2>2. LeadsInv'
    BY <1>1, <2>1 DEF LeadsInv, Leads, Present, Known, listVars
  <2> QED
    BY <1>1, <1>4, <2>1, <2>2
<1>10. CASE Scan
  <2>1. /\ pc = "scan" /\ pc' \in {"loop", "exit"} /\ (pc' = "exit" => status' = "ok")
        /\ UNCHANGED listVars
    BY <1>3, <1>10 DEF Scan, Exit, Running
  <2>2. LeadsInv'
    BY <1>1, <2>1 DEF LeadsInv, Leads, Present, Known, listVars
  <2> QED
    BY <1>1, <1>4, <2>1, <2>2
<1> QED
  BY <1>5, <1>6, <1>7, <1>8, <1>9, <1>10 DEF ReadsInputs

\* The walk keeps the list.
LEMMA LeadsWalk ==
  ASSUME Types, LeadsInv, Walks
  PROVE  LeadsInv'
<1>1. /\ pc \in Walk /\ pc' \in Walk \cup {"exit"} /\ part' = part /\ Step
      /\ jigdo' = jigdo /\ disk' = disk /\ list \in Seq(Entry) /\ InputsOK
  BY WalksFrame, StepFrame, StepCases DEF Types, ListOK
<1>2. /\ Len(list') = Len(list)
      /\ \A n \in 1..Len(list) : list'[n].sum = list[n].sum /\ list'[n].path = list[n].path
  BY <1>1, WalkList
<1>3. ASSUME NEW n \in 1..Len(list), Leads(list[n])
      PROVE  Leads(list[n])'
  <2>1. \/ list'[n].size = list[n].size
        \/ list[n].size = UNKNOWN /\ list'[n].size = get_file_size(list[n].path)
    <3>1. CASE UNCHANGED listVars
      BY <3>1 DEF listVars
    <3>2. CASE list' = Sized
      BY <1>1, <3>2, SizedList
    <3>3. ~ (ParseLists \/ PartListed \/ PartFound \/ PartNotFound)
      BY <1>1 DEF Walk, ParseLists, PartListed, PartFound, PartNotFound, AtNewPart, AtPart
    <3> QED
      BY <1>1, <3>1, <3>2, <3>3, ListSteps
  <2>2. Present(list[n]) => get_file_size(list[n].path) = Len(list[n].sum.of)
    BY DEF Present, get_file_size
  <2>3. Present(list[n])' <=> Present(list[n])
    BY <1>1, <1>2 DEF Present
  <2> QED
    BY <1>2, <1>3, <2>1, <2>2, <2>3 DEF Leads
<1>4. \A n \in 1..Len(list') : Leads(list[n])'
  BY <1>2, <1>3 DEF LeadsInv
<1>5. \A sum : Known(sum) => Known(sum)'
  BY <1>2 DEF Known
<1> QED
  BY <1>1, <1>4, <1>5 DEF LeadsInv, Walk

\* The list leads to the file that the extent at t names.
LEMMA FileThere ==
  ASSUME ConstantsAssumption, Types, Describes(template), Supplied, LeadsInv,
         pc = "loop", t \in 1..Len(Desc), Desc[t].type = "file"
  PROVE  Usable /\ FileEntry # 0 /\ list[FileEntry].path \notin Unreadable
<1>1. /\ list \in Seq(Entry) /\ Len(list) \in Nat /\ InputsOK /\ IsTemplate(template)
      /\ Len(jigdo.parts) \in Nat
  BY DEF Types, ListOK, InputsOK, IsJigdo
<1>2. PICK n \in 1..Len(jigdo.parts) : jigdo.parts[n].sum = Desc[t].sum
  BY DEF Supplied
<1>3. n \in 1..part - 1
  BY <1>1, <1>2 DEF LeadsInv, Walk
<1>4. Known(Desc[t].sum)
  BY <1>2, <1>3 DEF LeadsInv
<1>5. FileEntry \in 1..Len(list) /\ list[FileEntry].sum = Desc[t].sum
  BY <1>1, <1>4, FirstInList DEF Known, FileEntry
<1>6. Desc[t].sum.of # << >> /\ Len(Desc[t].sum.of) = Desc[t].len
  BY <1>1, MatchedLength DEF Supplied
<1>7. Present(list[FileEntry]) /\ list[FileEntry].size \in {UNKNOWN, Desc[t].len}
  BY <1>5, <1>6 DEF LeadsInv, Leads
<1>8. get_file_size(list[FileEntry].path) = Desc[t].len
  BY <1>5, <1>6, <1>7 DEF Present, get_file_size
<1>9. Sized[FileEntry].size = Desc[t].len
  BY <1>1, <1>5, <1>7, <1>8, SizedList
<1> QED
  BY <1>5, <1>7, <1>9 DEF Usable, Present

\* The next piece of the file that is open is there.
LEMMA FileGoesOn ==
  ASSUME ConstantsAssumption, Types, Describes(template), Supplied, Works, pc = "file"
  PROVE  /\ Len(Found) = Size
         /\ CopyPiece /\ ~quick => file_sum' = SubSeq(Desc[t].sum.of, 1, Done')
         /\ ~quick /\ remaining = 0 => FileChecked
<1>1. /\ Size \in Nat /\ Size <= remaining /\ remaining \in Nat
      /\ Done \in Nat /\ Done + remaining = Desc[t].len /\ t \in 1..Len(Desc)
  BY PieceSize
<1>2. /\ input \in 1..Len(list) /\ list[input].sum = Desc[t].sum
      /\ Desc[t].type = "file" /\ IsTemplate(template)
  BY DEF Types, InputsOK, ExtentOK
<1>3. Desc[t].sum.of # << >> /\ LeadsInv /\ (~quick => file_sum = SubSeq(Desc[t].sum.of, 1, Done))
  BY <1>1, <1>2 DEF Supplied, Works
<1>4. disk[list[input].path] = Desc[t].sum.of
  BY <1>2, <1>3 DEF LeadsInv, Leads, Present
<1>5. Len(Desc[t].sum.of) = Desc[t].len /\ Desc[t].sum.of \in Seq(Byte)
  BY <1>1, <1>2, MatchedLength
<1>6. PICK s \in Seq(Byte), i \in Nat, p \in Nat, r \in Nat :
        s = Desc[t].sum.of /\ i = Done /\ p = Size /\ r = remaining
  BY <1>1, <1>5
<1>7. i + r = Len(s) /\ p <= r /\ Len(s) \in Nat
  BY <1>1, <1>5, <1>6
<1>8. i + p <= Len(s)
  BY <1>6, <1>7
<1>9. Min(i + p, Len(s)) = i + p
  BY <1>6, <1>7, <1>8 DEF Min
<1>10. Found = SubSeq(s, i + 1, i + p)
  BY <1>4, <1>6, <1>9 DEF Found, Done
<1>11. Len(SubSeq(s, i + 1, i + p)) = p
  BY <1>6, <1>8
<1>12. ASSUME CopyPiece, ~quick
       PROVE  file_sum' = SubSeq(Desc[t].sum.of, 1, Done')
  <2>1. /\ Desc' = Desc /\ t' = t /\ remaining' = r - p /\ file_sum' = file_sum \o Found
    BY <1>6, <1>12, StepFrame DEF Desc, CopyPiece, loopVars, Step
  <2>2. Done' = Len(s) - (r - p)
    BY <1>5, <1>6, <2>1 DEF Done
  <2>3. Done' = i + p
    BY <1>6, <1>7, <2>2
  <2>4. SubSeq(s, 1, i + p) = SubSeq(s, 1, i) \o SubSeq(s, i + 1, i + p)
    BY <1>6, <1>8, FileGrows, Zenon
  <2> QED
    BY <1>3, <1>6, <1>10, <1>12, <2>1, <2>3, <2>4
<1>13. ASSUME ~quick, remaining = 0
       PROVE  FileChecked
  <2>1. i = Len(s)
    BY <1>6, <1>7, <1>13
  <2>2. SubSeq(s, 1, Len(s)) = s
    BY <1>6
  <2> QED
    BY <1>3, <1>6, <1>13, <2>1, <2>2 DEF FileChecked
<1> QED
  BY <1>6, <1>10, <1>11, <1>12, <1>13

\* What has been fed to the checksum of the image at the end is the image.
LEMMA NoMismatch ==
  ASSUME ConstantsAssumption, Types, Describes(template), PlaceInv, OutInv, Finish,
         ~opt.missing, ~dropped
  PROVE  ~Mismatch
<1> SUFFICES ASSUME Compared, NEW k \in ImageEntries
             PROVE  Desc[k].sum.of = image_sum
  BY DEF Mismatch
<1>1. ~quick /\ opt.start = 0 /\ opt.end = 0 /\ Trusted
  BY DEF Compared, quick, Trusted
<1>2. IsTemplate(template) /\ image_sum = out
  BY <1>1 DEF Types, InputsOK, BytesOK
<1>3. Image \in Seq(Byte) /\ Len(Image) \in Nat
  BY <1>2, Places
<1>4. PICK a \in 0..Len(Image) : \E b \in a..Len(Image) :
             out = SubSeq(Image, a + 1, b) /\ Covers(a, b)
  BY <1>1, FinishedPiece
<1>5. PICK b \in a..Len(Image) : out = SubSeq(Image, a + 1, b) /\ Covers(a, b)
  BY <1>4
<1>6. a = 0 /\ b = Len(Image)
  BY <1>1, <1>5 DEF Covers
<1>7. out = SubSeq(Image, 1, Len(Image))
  BY <1>5, <1>6
<1>8. Desc[k].sum.of = Image
  BY <1>2, ExtentFacts DEF ImageEntries
<1> QED
  BY <1>2, <1>3, <1>7, <1>8

\* The walk meets no error.
LEMMA WalkWorks ==
  ASSUME ConstantsAssumption, IInv, Describes(template), Supplied, Works, Walks
  PROVE  Works'
<1>1. /\ Types /\ pc \in Walk /\ status = "none" /\ ~opt.missing /\ ~Damaged
      /\ "write" \notin Faults /\ ~error /\ ~dropped /\ listed = {}
      /\ (zip.null \/ zip.rest # << >>)
  BY WalksFrame DEF IInv, Types, FlagsOK, Walk, Early, Works, Supplied
<1>2. LeadsInv /\ LeadsInv'
  BY <1>1, LeadsWalk DEF Works
<1>3. ASSUME NEW e, EndExtent(e)
      PROVE  pc' = "loop" /\ status' = "none" /\ error' = e
  BY <1>1, <1>3 DEF EndExtent, Running
<1>4. ASSUME pc' = "exit" => status' = "ok", pc' # "file", error' = FALSE,
             dropped' = dropped, listed' = listed, zip' = zip
      PROVE  Works'
  BY <1>1, <1>2, <1>4 DEF Works
<1>5. AtFile => Usable /\ FileEntry # 0 /\ list[FileEntry].path \notin Unreadable
  BY <1>1, <1>2, FileThere DEF AtFile, At, Types, ExtentOK
<1>6. ~StaleError /\ ~WriteFails /\ ~WriteMissing /\ ~MissingCrash /\ ~WriteNothing
      /\ ~FileFails
  BY <1>1, <1>5 DEF StaleError, WriteFails, WriteMissing, MissingCrash, WriteNothing,
     FileFails, HasPiece
<1>7. ~ShortRead
  <2>1. ShortRead => pc = "file" /\ Len(Found) < Size
    BY DEF ShortRead
  <2>2. pc = "file" => Len(Found) = Size /\ Size \in Nat
    BY <1>1, FileGoesOn, PieceSize
  <2>3. \A n \in Nat : ~ (n < n)
    OBVIOUS
  <2> QED
    BY <2>1, <2>2, <2>3
<1>8. ~ReadBlockFails
  <2>1. InStep \/ Stuck
    BY <1>1 DEF IInv, SyncInv
  <2>2. InStep
    BY <1>1, <2>1 DEF Stuck
  <2>3. zip.null => zip.rest = << >>
    BY <1>1 DEF Types, ZipOK
  <2>4. NeedsBlock => BlockReadable
    BY <1>1, <2>2, <2>3, NothingLeft DEF NeedsBlock
  <2> QED
    BY <2>4 DEF ReadBlockFails
<1>9. CASE ImageEntry \/ PassOver
  <2>1. /\ EndExtent(error) /\ dropped' = dropped /\ listed' = listed /\ zip' = zip
        /\ error \in BOOLEAN
    BY <1>1, <1>9 DEF ImageEntry, PassOver, outVars, zipVars, Types, FlagsOK
  <2> QED
    BY <1>1, <1>3, <1>4, <2>1
<1>10. CASE StartData
  <2>1. /\ pc' \in {"data", "skip"} /\ status' = status /\ error' = error
        /\ dropped' = dropped /\ listed' = listed /\ zip' = zip /\ error \in BOOLEAN
    BY <1>1, <1>10 DEF StartData, Running, outVars, zipVars, loopVars, Types, FlagsOK
  <2> QED
    BY <1>1, <1>4, <2>1
<1>11. CASE ReadBlock
  <2>1. /\ pc' \in {"data", "skip"} /\ status' = status /\ error' = error
        /\ dropped' = dropped /\ listed' = listed /\ zip'.rest = Blocks[block]
        /\ BlockReadable
    BY <1>1, <1>11 DEF ReadBlock, NeedsBlock, Running, outVars, loopVars
  <2>2. block \in 1..Len(Blocks)
    BY <1>1, <2>1 DEF BlockReadable, Types, ZipOK
  <2>3. zip'.rest # << >>
    BY <2>1, <2>2 DEF Supplied
  <2> QED
    BY <1>1, <1>2, <2>1, <2>3 DEF Works
<1>12. CASE WriteData \/ SkipData
  <2>1. /\ pc' \in {"data", "skip"} /\ status' = status /\ error' = error
        /\ dropped' = dropped /\ listed' = listed /\ Consume(Piece)
        /\ pc \in {"data", "skip", "file"}
    BY <1>1, <1>12 DEF WriteData, SkipData, Running, outVars, loopVars
  <2>2. zip'.null \/ zip'.rest # << >>
    <3>1. /\ Piece \in Nat /\ Piece <= Len(zip.rest) /\ zip.rest \in Seq(Byte)
          /\ Len(zip.rest) \in Nat
      BY <1>1, <2>1, PieceSize DEF Types, ZipOK
    <3>2. PICK z \in Seq(Byte), n \in Nat : z = zip.rest /\ n = Piece
      BY <3>1
    <3>3. /\ zip'.null = (n = Len(z)) /\ zip'.rest = SubSeq(z, n + 1, Len(z))
      BY <2>1, <3>2 DEF Consume
    <3>4. n # Len(z) => Len(SubSeq(z, n + 1, Len(z))) = Len(z) - n /\ Len(z) - n > 0
      BY <3>1, <3>2
    <3>5. ASSUME n # Len(z), SubSeq(z, n + 1, Len(z)) = << >>
          PROVE  FALSE
      <4>1. Len(<< >>) = 0 /\ Len(SubSeq(z, n + 1, Len(z))) = Len(<< >>)
        BY <3>5
      <4>2. Len(SubSeq(z, n + 1, Len(z))) > 0
        BY <3>4, <3>5
      <4> QED
        BY <4>1, <4>2
    <3> QED
      BY <3>3, <3>5
  <2> QED
    BY <1>1, <1>2, <2>1, <2>2 DEF Works
<1>13. CASE EndData
  <2>1. EndExtent(FALSE) /\ dropped' = dropped /\ listed' = listed /\ zip' = zip
    BY <1>13 DEF EndData, outVars, zipVars
  <2> QED
    BY <1>3, <1>4, <2>1
<1>14. CASE OpenFile
  <2>1. /\ pc = "loop" /\ pc' = "file" /\ status' = status /\ error' = error /\ t' = t
        /\ dropped' = dropped /\ listed' = listed /\ zip' = zip /\ remaining' = Desc[t].len
        /\ file_sum' = << >> /\ Desc' = Desc /\ Desc[t].type = "file" /\ t <= Len(Desc)
    BY <1>1, <1>14, StepFrame DEF OpenFile, AtFile, At, Running, outVars, zipVars, loopVars,
       Desc, Step
  <2>2. t \in 1..Len(Desc) /\ IsTemplate(template)
    BY <1>1, <2>1 DEF Types, ExtentOK, InputsOK
  <2>3. Desc[t].len \in Nat /\ Desc[t].sum.of \in Seq(Byte)
    BY <2>2, DescEntry
  <2>4. Done' = 0
    BY <2>1, <2>3 DEF Done
  <2>5. SubSeq(Desc[t].sum.of, 1, 0) = << >>
    BY <2>3
  <2> QED
    BY <1>1, <1>2, <2>1, <2>4, <2>5 DEF Works
<1>15. CASE CopyPiece
  <2>1. /\ pc = "file" /\ pc' = pc /\ status' = status /\ error' = error /\ t' = t
        /\ dropped' = dropped /\ listed' = listed /\ zip' = zip
        /\ Desc' = Desc /\ (quick' <=> quick)
    BY <1>15, StepFrame DEF CopyPiece, Running, zipVars, loopVars, Desc, quick, Step
  <2>2. ~quick => file_sum' = SubSeq(Desc[t].sum.of, 1, Done')
    BY <1>1, <1>15, <2>1, FileGoesOn
  <2> QED
    BY <1>1, <1>2, <2>1, <2>2 DEF Works
<1>16. CASE EndFile
  <2>1. quick \/ FileChecked
    BY <1>1, <1>16, FileGoesOn DEF EndFile
  <2>2. EndExtent(FALSE) /\ dropped' = dropped /\ listed' = listed /\ zip' = zip
    BY <1>16, <2>1 DEF EndFile, outVars, zipVars
  <2> QED
    BY <1>3, <1>4, <2>2
<1>17. CASE Finish
  <2>1. ~Mismatch
    BY <1>1, <1>17, NoMismatch DEF IInv
  <2>2. /\ pc' = "exit" /\ status' = "ok" /\ error' = error /\ error \in BOOLEAN
        /\ dropped' = dropped /\ listed' = listed /\ zip' = zip
    BY <1>1, <1>17, <2>1 DEF Finish, Exit, outVars, zipVars, loopVars, Types, FlagsOK
  <2> QED
    BY <1>1, <1>4, <2>2
<1> QED
  BY <1>6, <1>7, <1>8, <1>9, <1>10, <1>11, <1>12, <1>13, <1>14, <1>15, <1>16, <1>17
     DEF Walks, InData, InFile

\* What the program needs, and how it fares, after every step of its own.
LEMMA StepWorks ==
  ASSUME ConstantsAssumption, IInv, Describes(template), Supplied, Works, Step
  PROVE  Supplied' /\ Works'
<1>1. Supplied'
  BY StepFrame, SuppliedFrame
<1>2. CASE ReadsInputs
  BY <1>1, <1>2, ReadWorks DEF IInv
<1>3. CASE Walks
  BY <1>1, <1>3, WalkWorks
<1>4. CASE ScanAgain
  BY <1>4 DEF ScanAgain, Supplied
<1> QED
  BY <1>1, <1>2, <1>3, <1>4, StepCases

\* And when it is started.
LEMMA StartedWorks ==
  ASSUME Started
  PROVE  Works
<1>1. \A n \in 1..part - 1 : FALSE
  BY DEF Started
<1>2. \A n \in 1..Len(list) : FALSE
  BY DEF Started
<1> QED
  BY <1>1, <1>2 DEF Started, Works, LeadsInv, Walk

\* A program in whose way nothing is, whatever it was told and given.
LEMMA NextWorks ==
  ASSUME ConstantsAssumption, IInv, Describes(template), WorkInv, [Next]_vars
  PROVE  WorkInv'
<1>1. CASE Step
  <2>1. rewritten' = rewritten /\ (Supplied' <=> Supplied)
    BY <1>1, StepFrame, SuppliedFrame
  <2> QED
    BY <1>1, <2>1, StepWorks DEF WorkInv
<1>2. CASE Rewrite
  BY <1>2 DEF Rewrite, WorkInv
<1>3. CASE UNCHANGED vars
  <2>1. UNCHANGED <<pc, status, opt, template, jigdo, disk, rewritten, list, part, t,
                    error, zip, remaining, file_sum, listed, dropped>>
    BY <1>3 DEF vars, argVars, mirrorVars, listVars, loopVars, zipVars, fileVars, outVars
  <2>2. Supplied' <=> Supplied
    BY <2>1, SuppliedFrame
  <2>3. Desc' = Desc /\ (quick' <=> quick)
    BY <2>1 DEF Desc, quick
  <2>4. LeadsInv' <=> LeadsInv
    BY <2>1 DEF LeadsInv, Leads, Present, Known
  <2>5. Works' <=> Works
    BY <2>1, <2>3, <2>4 DEF Works, Done
  <2> QED
    BY <2>1, <2>2, <2>5 DEF WorkInv
<1> QED
  BY <1>1, <1>2, <1>3 DEF Next, Exited

\* With a whole template, every needed file in the mirror and no call that fails,
\* jigit-mkimage makes what it is asked for and says so: it takes no step that ends
\* in an error (mkimage.c:1000-1312).
THEOREM SuppliedSucceeds ==
  Spec => [](pc = "exit" /\ Supplied /\ ~rewritten => status = "ok")
<1>1. Init => WorkInv
  BY StartedWorks DEF Init, WorkInv
<1>2. IInv /\ Describes(template) /\ WorkInv /\ [Next]_vars => WorkInv'
  BY ConstantsAssumption, NextWorks
<1>3. WorkInv => (pc = "exit" /\ Supplied /\ ~rewritten => status = "ok")
  BY DEF WorkInv, Works
<1> QED
  BY <1>1, <1>2, <1>3, Invariant, PTL DEF Spec

=============================================================================
