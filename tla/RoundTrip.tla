----------------------------- MODULE RoundTrip -----------------------------
(***************************************************************************)
(* The tools at work on one image: an application makes it with libjte     *)
(* (Jte), jigdo-gen-checksum-list lists the files of a mirror              *)
(* (GenChecksumList), jigit-mkimage makes the image again from the         *)
(* template, the .jigdo, that list and the mirror (MkImage), jigdump and   *)
(* extract-data look at the template (JigDump, ExtractData), jigsum sums   *)
(* files of the mirror and jigsum -c checks them (JigSum).  A file of the  *)
(* mirror may be rewritten while one of the tools reads it.                *)
(*                                                                         *)
(* The steps of each tool are those of its module.  This module adds what  *)
(* they hand to each other: the template, byte counts included, the .jigdo *)
(* and the lists.  The lists of jigsum are for jigsum -c alone: they have  *)
(* base64 checksums and no size, which -f and -F do not understand.        *)
(***************************************************************************)
EXTENDS Integers, Sequences, FiniteSets

CONSTANTS
  Byte, Zero, File, Content, Name, ChecksumList, MinSize, Excluded, Demanded,
  Setups, UncompSize, Chunk, MaxImage,          \* see Jte
  MatchList, Options, Disks, Unreadable, Rewrites, Faults,  \* see MkImage
  Alg, Directories, Broken, ReadSize, Statuses,  \* see JigSum
  GenArgs, Below,                               \* see GenChecksumList
  BUF_SIZE,                                     \* see JigDump
  FullDisk,                                     \* see ExtractData
  BufSize,       \* how much libjte and jigit-mkimage read of a file at once
  Part,          \* where the .jigdo says each entry of ChecksumList is
  SumArgs,       \* the arguments of jigsum
  OtherLists,    \* what jigsum -c may be given besides: sequences of lists
  HeaderSize     \* bytes of a template's header

VARIABLES
  phase,         \* the tool at work: "write", "list", "make", "sum", "check",
                 \* "dump", "extract", or "end"
  \* Jte
  setup, app, left, image, image_size, include_in_jigdo, iso, uncomp_buf, data,
  ends, torn, entries, num_matches, num_chunks, desc,
  \* MkImage
  pc, status, opt, template, jigdo, disk, rewritten, list, part, t,
  output_offset, error, zip, block, remaining, input, file_sum, image_sum, out,
  listed, dropped, lost,
  \* GenChecksumList
  gen_arg, items, item, summed, generated, gen_state,
  \* JigSum
  mode, arg, line, reading, fed, printed, others, sum_error, exit_status,
  \* JigDump
  pieces, template_size, named, state, offset, desc_offset, shown, mismatch,
  \* ExtractData
  part_at, extracted, unwritten, extract_done

J == INSTANCE Jte
M == INSTANCE MkImage WITH Templates <- {}, Jigdos <- {}
G == INSTANCE GenChecksumList
S == INSTANCE JigSum WITH Args <- SumArgs, error <- sum_error
D == INSTANCE JigDump
X == INSTANCE ExtractData

ASSUME ConstantsAssumption ==
  /\ J!ConstantsAssumption /\ M!ConstantsAssumption
  /\ Part \in [1..Len(ChecksumList) -> [match : STRING, name : STRING]]
  /\ Alg \in {"md5", "sha256"} /\ ReadSize \in Nat \ {0} /\ Statuses \in Nat \ {0}
  /\ SumArgs \in Seq(STRING \X STRING) /\ Directories \subseteq STRING \X STRING
  /\ GenArgs \in Seq(STRING \X STRING) /\ GenArgs # << >>
  /\ Below \in [Directories -> SUBSET (STRING \X STRING)]
  /\ OtherLists \subseteq Seq([there : BOOLEAN, lines : Seq(S!Lines)])
  /\ HeaderSize \in Nat \ {0}

writeVars == <<setup, app, left, image, image_size, include_in_jigdo, iso,
               uncomp_buf, data, ends, torn, entries, num_matches, num_chunks,
               desc>>
makeVars == <<pc, status, opt, template, jigdo, rewritten, list, part, t,
              output_offset, error, zip, block, remaining, input, file_sum,
              image_sum, out, listed, dropped, lost>>
genVars == <<gen_arg, items, item, summed, generated, gen_state>>
sumVars == <<mode, arg, line, reading, fed, printed, others, sum_error, exit_status>>
dumpVars == <<pieces, template_size, named, state, offset, desc_offset, shown,
              mismatch>>
extractVars == <<part_at, extracted, unwritten, extract_done>>
vars == <<phase, writeVars, makeVars, disk, genVars, sumVars, dumpVars, extractVars>>

NoTemplate == [desc |-> << >>, blocks |-> << >>, tail |-> "good", corrupt |-> {},
               image |-> << >>, stream |-> << >>, at |-> << >>, from |-> << >>,
               ends |-> << >>]

Init ==
  /\ phase = "write"
  /\ J!Init
  /\ M!Started /\ opt = "none" /\ template = NoTemplate
  /\ jigdo = [list |-> << >>, parts |-> << >>]
  /\ disk \in Disks /\ rewritten = FALSE
  /\ G!Launched
  /\ S!Begins("calc") /\ printed = << >> /\ others = << >>
  /\ D!Launched /\ pieces = << >> /\ template_size = 0 /\ named = TRUE
  /\ X!Ready
-----------------------------------------------------------------------------
(* What the tools hand over. *)

\* The content of the DATA parts.
Blocks == [k \in 1..Len(ends) |->
             SubSeq(data, (IF k = 1 THEN 0 ELSE ends[k - 1]) + 1, ends[k])]

Sum(content) == [alg |-> setup.algo, of |-> content]

\* The DESC part, as jigit-mkimage reads it.
DescEntries ==
  [k \in 1..Len(desc.entries) |->
     LET e == desc.entries[k] IN
     IF e.type = "FILE_MATCH"
       THEN [type |-> "file", len |-> e.len, sum |-> Sum(ChecksumList[e.file].content)]
       ELSE [type |-> "data", len |-> e.len, sum |-> Sum(<< >>)]]
  \o <<[type |-> "image", len |-> desc.image_len, sum |-> Sum(desc.sum)]>>

\* Where the extents and, last, the image entry begin in the image and in the
\* unmatched data.
Begin(k) == IF k <= Len(desc.entries) THEN desc.entries[k].at ELSE Len(image)
BeginData(k) == IF k <= Len(desc.entries) THEN desc.entries[k].from ELSE Len(data)

\* The template, of which the DATA parts in c cannot be read.
Template(c) ==
  [desc |-> DescEntries, blocks |-> Blocks, tail |-> "good", corrupt |-> c,
   image |-> image, stream |-> data,
   at |-> [k \in 1..Len(desc.entries) + 2 |-> Begin(k)],
   from |-> [k \in 1..Len(desc.entries) + 2 |-> BeginData(k)],
   ends |-> ends]

\* [Parts] has a line for each matched file, in their order.
Matched == {k \in 1..Len(desc.entries) : desc.entries[k].type = "FILE_MATCH"}
Ordered(ks) == {f \in [1..Cardinality(ks) -> ks] : \A i, j \in DOMAIN f : i < j => f[i] < f[j]}
Parts(order) ==
  [k \in DOMAIN order |->
     LET n == desc.entries[order[k]].file IN
     [sum |-> Sum(ChecksumList[n].content), match |-> Part[n].match,
      name |-> Part[n].name, wellformed |-> TRUE]]

\* The pieces of the template file.
Header == <<[tag |-> "header", len |-> HeaderSize]>>
DataPieces == [k \in 1..Len(ends) |-> [tag |-> "DATA", len |-> 16 + Len(Blocks[k])]]
EntryPiece(e) ==
  IF e.type = "NOMATCH" THEN [tag |-> "NOMATCH", len |-> 7]
  ELSE [tag |-> IF setup.algo = "md5" THEN "MATCH_MD5" ELSE "MATCH_SHA256",
        len |-> J!file_entry_len]
DescPieces ==
  <<[tag |-> "DESC", len |-> 10]>>
  \o [k \in 1..Len(desc.entries) |-> EntryPiece(desc.entries[k])]
  \o <<[tag |-> IF setup.algo = "md5" THEN "IMAGE_MD5" ELSE "IMAGE_SHA256",
        len |-> J!image_entry_len],
       [tag |-> "pointer", len |-> 6, to |-> desc.len]>>

\* Once a flush has written only a part of itself, the DATA part at that place
\* and those behind it cannot be read any more.
Unreadables(n) == IF torn THEN {{m \in 1..n : m >= k} : k \in 1..n + 1} ELSE {{}}
-----------------------------------------------------------------------------
(* The application and libjte. *)

Write ==
  /\ phase = "write"
  /\ J!Step /\ UNCHANGED setup
  /\ UNCHANGED <<phase, makeVars, disk, genVars, sumVars, dumpVars, extractVars>>

\* A template is finished.
Finished ==
  /\ phase = "write" /\ app = "done"
  /\ \E c \in Unreadables(Len(Blocks)) : template' = Template(c)
  /\ pieces' = Header \o DataPieces \o DescPieces
  /\ template_size' = D!Size(pieces') /\ named' \in BOOLEAN
  /\ phase' \in {"list", "sum", "extract"} \cup (IF torn THEN {} ELSE {"dump"})
  /\ phase' = "dump" \/ named'
  /\ UNCHANGED <<writeVars, pc, status, opt, jigdo, rewritten, list, part, t,
                 output_offset, error, zip, block, remaining, input, file_sum,
                 image_sum, out, listed, dropped, lost, disk, genVars, sumVars, state,
                 offset, desc_offset, shown, mismatch, extractVars>>

\* The application has given up and somebody looks at the file it has left,
\* which may end in the middle of a DATA part.
LeftBehind ==
  /\ phase = "write" /\ app = "failed"
  /\ pieces' = Header \o DataPieces
                 \o (IF torn THEN <<[tag |-> "DATA", len |-> 18]>> ELSE << >>)
  /\ template_size' = D!Size(pieces') - (IF torn THEN 1 ELSE 0)
  /\ phase' = "dump"
  /\ UNCHANGED <<writeVars, makeVars, disk, genVars, sumVars, named, state, offset,
                 desc_offset, shown, mismatch, extractVars>>
-----------------------------------------------------------------------------
(* The tools that read. *)

Summing ==
  /\ phase \in {"sum", "check"}
  /\ S!Next
  /\ UNCHANGED <<phase, writeVars, makeVars, genVars, dumpVars, extractVars>>

Listing ==
  /\ phase = "list"
  /\ G!Next
  /\ UNCHANGED <<phase, writeVars, makeVars, sumVars, dumpVars, extractVars>>

\* What jigdo-gen-checksum-list has printed is what -f is given: the hexadecimal
\* digits, the size and the path are where parse_md5_entry() takes them from.
\* Somebody chooses the other options.
Listed ==
  /\ phase = "list" /\ gen_state = "ok"
  /\ \E order \in Ordered(Matched) :
       jigdo' = [list |-> generated, parts |-> Parts(order)]
  /\ opt' \in Options
  /\ phase' = "make"
  /\ UNCHANGED <<writeVars, pc, status, template, rewritten, list, part, t,
                 output_offset, error, zip, block, remaining, input, file_sum,
                 image_sum, out, listed, dropped, lost, disk, genVars, sumVars, dumpVars,
                 extractVars>>

\* It has ended with its usage, which is on stdout, too: nobody gives that to -f.
ListFailed ==
  /\ phase = "list" /\ gen_state = "failed"
  /\ phase' = "end"
  /\ UNCHANGED <<writeVars, makeVars, disk, genVars, sumVars, dumpVars, extractVars>>

Making ==
  /\ phase = "make"
  /\ M!Step
  /\ UNCHANGED <<phase, writeVars, genVars, sumVars, dumpVars, extractVars>>

Rewriting ==
  /\ phase \in {"list", "make", "sum"}
  /\ M!Rewrite
  /\ UNCHANGED <<phase, writeVars, genVars, sumVars, dumpVars, extractVars>>

Made ==
  /\ phase = "make" /\ pc = "exit"
  /\ phase' = "end"
  /\ UNCHANGED <<writeVars, makeVars, disk, genVars, sumVars, dumpVars, extractVars>>

\* jigsum is started again later, with -c, its own list and perhaps others.
Rechecked ==
  /\ phase = "sum" /\ mode = "ended"
  /\ phase' = "check"
  /\ mode' = "check" /\ arg' = 1 /\ line' = 1 /\ reading' = FALSE
  /\ fed' = << >> /\ sum_error' = 0 /\ exit_status' = 0
  /\ others' \in OtherLists
  /\ UNCHANGED <<writeVars, makeVars, disk, genVars, printed, dumpVars, extractVars>>

Checked ==
  /\ phase = "check" /\ mode = "ended"
  /\ phase' = "end"
  /\ UNCHANGED <<writeVars, makeVars, disk, genVars, sumVars, dumpVars, extractVars>>

Dumping ==
  /\ phase = "dump"
  /\ D!Next
  /\ UNCHANGED <<phase, writeVars, makeVars, disk, genVars, sumVars, extractVars>>

Dumped ==
  /\ phase = "dump" /\ state \in {"DONE", "ERROR", "EINVAL"}
  /\ phase' = "end"
  /\ UNCHANGED <<writeVars, makeVars, disk, genVars, sumVars, dumpVars, extractVars>>

Extracting ==
  /\ phase = "extract"
  /\ X!Extract \/ X!Stop
  /\ UNCHANGED <<phase, writeVars, pc, status, opt, jigdo, rewritten, list, part,
                 t, output_offset, error, zip, block, remaining, input, file_sum,
                 image_sum, out, listed, dropped, lost, disk, genVars, sumVars, dumpVars>>

Extracted ==
  /\ phase = "extract" /\ extract_done
  /\ phase' = "end"
  /\ UNCHANGED <<writeVars, makeVars, disk, genVars, sumVars, dumpVars, extractVars>>

Over == phase = "end" /\ UNCHANGED vars

Progress == \/ Finished \/ LeftBehind \/ Summing \/ Rechecked \/ Listing \/ Listed
            \/ ListFailed \/ Making \/ Made \/ Dumping \/ Dumped \/ Extracting \/ Extracted \/ Checked

Next == Write \/ Progress \/ Rewriting \/ Over

\* The tools that read keep running; the application need not go on.
Spec == Init /\ [][Next]_vars /\ WF_vars(Progress)
-----------------------------------------------------------------------------
(* Properties. *)

TypeOK ==
  /\ phase \in {"write", "list", "make", "sum", "check", "dump", "extract", "end"}
  /\ J!TypeOK
  /\ gen_arg \in Nat \ {0} /\ items \subseteq DOMAIN disk
  /\ item \in DOMAIN disk \cup {G!NoItem} /\ summed \in Seq(Byte)
  /\ generated \in Seq(G!Lines) /\ gen_state \in {"run", "ok", "failed"}
  /\ mode \in {"calc", "check", "ended"} /\ arg \in Nat /\ line \in Nat
  /\ reading \in BOOLEAN /\ fed \in Seq(Byte) /\ printed \in Seq(S!Lines)
  /\ sum_error \in Nat /\ exit_status \in 0..Statuses-1
  /\ state \in {"STARTING", "IN_DATA", "IN_DESC", "DUMP_DESC", "DUMP_DESC_PTR",
                "DONE", "ERROR", "EINVAL"}
  /\ offset \in Nat /\ desc_offset \in 0..template_size
  /\ Len(shown) <= Len(pieces)
  /\ part_at \in 1..Len(Blocks)+1 /\ extracted \in Seq(Byte)

\* The application sees every failure there may be: not that of a read or a
\* flush under the simplified API (libjte.c:543,556), of padding that could not
\* be stored (jte.c:1458) or of fclose() (libjte.c:419).
Careful ==
  /\ "close" \notin setup.faults
  /\ "flush" \in setup.faults => setup.api = "traditional" /\ setup.sector = 1
  /\ setup.failing # {} => setup.api = "traditional"

\* libjte feeds a matched file to the checksum of the image as it is, unless it
\* tells the application (jte.c:1418-1450).
ReadsTrue ==
  /\ \A f \in File : \A r \in J!ReadFile(f) : r.ok => r.bytes = Content[f]
  /\ setup.failing # {} => setup.api = "traditional"

\* An image that jigit-mkimage has made and compared with its checksum (-v) is
\* the image the application wrote, even if libjte did not tell it that a chunk
\* was lost (libjte.c:556) or padding could not be stored (jte.c:1458), and
\* whatever happens to the mirror, also while jigdo-gen-checksum-list makes the
\* list for -f; without -v it is if the application saw every failure and no file
\* was cut off while it was copied (mkimage.c:793).
Rebuilt ==
  /\ M!Written /\ ~M!quick /\ ReadsTrue
  /\ opt.verbose \/ (Careful /\ ~dropped)
  => out = image

\* A file with a matched file's content is where the .jigdo leads to, and can be
\* opened.
Served ==
  \A k \in 1..Len(jigdo.parts) :
    LET p == jigdo.parts[k] IN
    /\ M!Hits(p) # {}
    /\ M!find_file_in_mirror(p) \notin Unreadable
    /\ disk[M!find_file_in_mirror(p)] = p.sum.of

\* No call of jigit-mkimage fails, and nobody writes to the mirror meanwhile.
Undisturbed == Faults \subseteq {"flush"} /\ ~rewritten

\* What was written can be read: with a template that was finished without an
\* unseen failure, a mirror that serves its files and any list that
\* jigdo-gen-checksum-list has made without complaint, lines with blanks for a
\* checksum included, jigit-mkimage succeeds when it is asked for an image, or for
\* a range of it.  Both sides count the same entries, lengths and DATA parts
\* (jte.c:1022-1121, mkimage.c:1000-1312).
Readable ==
  /\ pc = "exit" /\ Careful /\ ReadsTrue /\ Served /\ Undisturbed /\ ~opt.missing
  => status = "ok"

\* jigdump shows every DATA part and every entry of a finished template once,
\* in order and at its offset, and says that the pointers do not match if and
\* only if the name has misled it (jigdump.c:347,420,448).  Of a file
\* that was left behind it shows every DATA part.
From == IF named THEN 2 ELSE Len(pieces) - Len(desc.entries) - 2
PieceShown(k) == [tag |-> pieces[k].tag, at |-> D!Start(k), len |-> pieces[k].len]
DumpRight ==
  state \in {"DONE", "ERROR", "EINVAL"} /\ (named => D!DataParts # {}) =>
    /\ shown = [k \in 1..Len(pieces) - From + 1 |-> PieceShown(From + k - 1)]
    /\ mismatch = ~named
    /\ state = "ERROR" <=> torn

\* The bytes of the image that no matched file has.
Unmatched ==
  LET bytes[k \in 0..Len(desc.entries)] ==
        IF k = 0 THEN << >>
        ELSE LET e == desc.entries[k] IN
             IF e.type = "FILE_MATCH" THEN bytes[k - 1]
             ELSE bytes[k - 1] \o SubSeq(image, e.at + 1, e.at + e.len)
  IN  bytes[Len(desc.entries)]

\* extract-data writes the unmatched bytes of the image, in their order, if
\* the template is whole and they can be written (extract-data.c:54).
ExtractedRight ==
  extract_done /\ Careful /\ ~unwritten => extracted = Unmatched

\* What a line of a list to be checked says is so.
LineTrue(l) == /\ l.path \in (DOMAIN disk \ Unreadable) \cup Directories
           /\ l.sum.of = IF l.path \in Directories THEN << >> ELSE disk[l.path]
ToCheck == UNION {{S!Lists[k].lines[n] : n \in 1..Len(S!Lists[k].lines)} :
                    k \in {k \in 1..Len(S!Lists) : S!Lists[k].there}}

\* jigsum -c notices every file that has changed since it was listed, that is
\* missing or cannot be read, and every list that is missing, as long as its
\* errors add up to less than 256; and it does not complain without a reason
\* (jigsum.c:172-227,286).
CheckRight ==
  phase = "check" /\ mode = "ended" =>
    /\ exit_status = 0 /\ sum_error < Statuses =>
         /\ \A l \in ToCheck : l.wellformed => LineTrue(l)
         /\ \A k \in 1..Len(S!Lists) : S!Lists[k].there
    /\ exit_status # 0 =>
         \/ \E l \in ToCheck : l.wellformed /\ (~LineTrue(l) \/ l.path \in Broken)
         \/ \E k \in 1..Len(S!Lists) : ~S!Lists[k].there

\* Once a template is finished every tool that reads it comes to its end.
ToolsEnd == app = "done" ~> phase = "end"
=============================================================================
