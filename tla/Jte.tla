-------------------------------- MODULE Jte --------------------------------
(***************************************************************************)
(* The template engine of libjte (jte.c) under its two data file APIs      *)
(* (libjte.c), driven by an application that writes an image and stops at  *)
(* the first call that reports a failure.                                  *)
(*                                                                         *)
(* Bytes are the members of Byte.  A checksum is the sequence of bytes it  *)
(* was computed from: equal checksums mean equal content.  Compression is  *)
(* abstracted to its input, so "data" is the uncompressed content of the   *)
(* DATA parts of the template, in order; "torn" says that the template has *)
(* a part that was not written completely.                                 *)
(***************************************************************************)
EXTENDS Integers, Sequences, FiniteSets

CONSTANTS Byte, Zero,
          File, Content, Name,  \* local files: their content and base name
          ChecksumList,  \* checksum_list: base name and content of each file
          MinSize,       \* jte_min_size
          Excluded,      \* files that an exclude pattern matches
          Demanded,      \* files that an include pattern matches
          Setups,        \* what an execution is like; the fields are
                         \*   api: "simple" or "traditional"
                         \*   algo: "md5" or "sha256", check_algos[checksum_algo]
                         \*   sector: alignment of file ends in the image
                         \*   faults: may go wrong: "open", "flush", "desc", "close"
                         \*   failing: files whose reading may fail
          BufSize,       \* sizeof(buf) in write_jt_match_record()
          UncompSize,    \* uncomp_size
          Chunk,         \* payload chunks that are not file content
          MaxImage       \* bound: bytes in the image

ASSUME ConstantsAssumption ==
  /\ Zero \in Byte
  /\ Content \in [File -> Seq(Byte)]
  /\ ChecksumList \in Seq([name : {Name[f] : f \in File}, content : Seq(Byte)])
  /\ MinSize \in Nat \ {0}
  /\ Excluded \subseteq File /\ Demanded \subseteq File
  /\ \A s \in Setups :
       /\ s.api \in {"simple", "traditional"} /\ s.algo \in {"md5", "sha256"}
       /\ s.sector \in Nat \ {0} /\ s.failing \subseteq File
       /\ s.faults \subseteq {"open", "flush", "desc", "close"}
  /\ BufSize \in Nat \ {0} /\ UncompSize \in Nat \ {0}
  /\ Chunk \subseteq Seq(Byte) \ {<< >>}
  /\ MaxImage \in Nat

VARIABLES
  setup,        \* the member of Setups that this execution is
  app,          \* "setup", "payload", "file", "sized", "done" or "failed"
  left,         \* bytes of the announced file that are still to be shown
  image,        \* the bytes the application has written to the image
  image_size, include_in_jigdo,
  iso,          \* bytes fed to iso_context
  uncomp_buf,   \* uncomp_buf[0 .. uncomp_buf_used - 1]
  data, ends,   \* the template's DATA parts, and where in data each of them ends
  torn,
  entries, num_matches, num_chunks,
  desc          \* the DESC part: its length field, its entries, image length
                \* and image checksum

vars == <<setup, app, left, image, image_size, include_in_jigdo, iso, uncomp_buf,
          data, ends, torn, entries, num_matches, num_chunks, desc>>
entryVars == <<entries, num_matches, num_chunks>>
templateVars == <<uncomp_buf, data, ends, torn>>

NoDesc == [len |-> 0, entries |-> << >>, image_len |-> 0, sum |-> << >>]

Init ==
  /\ setup \in Setups /\ app = "setup" /\ left = << >> /\ image = << >>
  /\ image_size = 0 /\ include_in_jigdo = FALSE /\ iso = << >>
  /\ uncomp_buf = << >> /\ data = << >> /\ ends = << >> /\ torn = FALSE
  /\ entries = << >> /\ num_matches = 0 /\ num_chunks = 0
  /\ desc = NoDesc
-----------------------------------------------------------------------------
(* jte.c: the list of extents.  at and from are history: the offsets of    *)
(* the extent in the image and, for unmatched data, in the DATA parts.     *)

EndAt(es) == IF es = << >> THEN 0 ELSE es[Len(es)].at + es[Len(es)].len
EndFrom(es) ==
  IF es = << >> THEN 0
  ELSE es[Len(es)].from
         + (IF es[Len(es)].type = "NOMATCH" THEN es[Len(es)].len ELSE 0)

NewEntry(es, type, len, file) ==
  [type |-> type, len |-> len, file |-> file, at |-> EndAt(es),
   from |-> EndFrom(es)]

\* Mutant: any last extent is extended, a matched file too.
ExtendAny(es) == es # << >>

CanExtend(es) == es # << >> /\ es[Len(es)].type = "NOMATCH"

add_unmatched_entry(es, n) ==
  IF CanExtend(es) THEN [es EXCEPT ![Len(es)].len = @ + n]
                   ELSE Append(es, NewEntry(es, "NOMATCH", n, 0))

add_file_entry(es, n, file) == Append(es, NewEntry(es, "FILE_MATCH", n, file))
-----------------------------------------------------------------------------
(* jte.c: buffering and flushing of unmatched data. *)

\* Mutant: a chunk larger than the buffer is not split.
NoDirectFlush(n) == 0

\* How often a chunk of n bytes is flushed from without being buffered.
DirectFlushes(n) == IF n > UncompSize THEN (n - 1) \div UncompSize ELSE 0

\* Where k DATA parts of UncompSize bytes end that are written after n bytes.
DirectEnds(n, k) == [m \in 1..k |-> n + m * UncompSize]

\* What is buffered is flushed before a chunk b that does not fit behind it.
Overflows(b) == Len(uncomp_buf) + Len(b) > UncompSize
Flushed(b) == IF Overflows(b) THEN uncomp_buf ELSE << >>
Kept(b) == IF Overflows(b) THEN << >> ELSE uncomp_buf

\* data and ends after that flush and the first k direct flushes from b.
DataUpto(b, k) == data \o Flushed(b) \o SubSeq(b, 1, k * UncompSize)
EndsUpto(b, k) ==
  LET n == Len(data \o Flushed(b)) IN
  ends \o (IF Flushed(b) = << >> THEN << >> ELSE <<n>>) \o DirectEnds(n, k)

Chunked(ok, d, e, t, buf) ==
  [ok |-> ok, data |-> d, ends |-> e, torn |-> t, buf |-> buf]
Stored(b) ==
  LET k == DirectFlushes(Len(b)) IN
  Chunked(TRUE, DataUpto(b, k), EndsUpto(b, k), torn,
          Kept(b) \o SubSeq(b, k * UncompSize + 1, Len(b)))

\* A flush that fails has written nothing (no memory) or part of itself.
FlushFails(b) ==
  IF Flushed(b) = << >> THEN {}
  ELSE {Chunked(FALSE, data, ends, t, uncomp_buf) : t \in {torn, TRUE}}
DirectFails(b) ==
  UNION {{Chunked(FALSE, DataUpto(b, k), EndsUpto(b, k), t, << >>) :
            t \in {torn, TRUE}} : k \in 0..DirectFlushes(Len(b))-1}

\* What write_compressed_chunk() may do with a chunk b of at least one byte.
write_compressed_chunk(b) ==
  {Stored(b)} \cup (IF "flush" \in setup.faults
                      THEN FlushFails(b) \cup DirectFails(b) ELSE {})

Store(w) ==
  data' = w.data /\ ends' = w.ends /\ torn' = w.torn /\ uncomp_buf' = w.buf

\* jtwrite() of chunk b; it returns > 0 iff w.ok.
jtwrite(b, w) ==
  /\ iso' = iso \o b
  /\ Store(w)
  /\ IF w.ok
       THEN /\ entries' = add_unmatched_entry(entries, Len(b))
            /\ num_chunks' = num_chunks + (IF CanExtend(entries) THEN 0 ELSE 1)
       ELSE UNCHANGED <<entries, num_chunks>>
  /\ UNCHANGED num_matches
-----------------------------------------------------------------------------
(* jte.c: files. *)

Padding(n) == IF n % setup.sector = 0 THEN << >>
              ELSE [k \in 1 .. setup.sector - (n % setup.sector) |-> Zero]

\* The bytes of file f in the image.
Padded(f) == Content[f] \o Padding(Len(Content[f]))

\* The entry of the checksum list that file f matches, 0 if there is none.
Listed(f) == {n \in 1..Len(ChecksumList) :
                /\ Len(ChecksumList[n].content) = Len(Content[f])
                /\ ChecksumList[n].name = Name[f]}
SameSum(f) == {n \in Listed(f) : ChecksumList[n].content = Content[f]}
First(S) == CHOOSE n \in S : \A m \in S : n <= m

\* check_checksum_file_match(): no match for a file that must have one.
Unlisted(f) == IF f \in Demanded THEN -1 ELSE 0

\* The possible results of list_file_in_jigdo(): -1, 0, or the list entry.
list_file_in_jigdo(f) ==
  IF Len(Content[f]) < MinSize \/ f \in Excluded THEN {0}
  ELSE {IF SameSum(f) = {} THEN Unlisted(f) ELSE First(SameSum(f))}
       \cup (IF f \in setup.failing /\ Listed(f) # {} THEN {-1, Unlisted(f)} ELSE {})

\* Mutant: an error is taken for the end of the file.
ReadErrorIsEnd(f) ==
  {[ok |-> TRUE, bytes |-> SubSeq(Content[f], 1, n)] :
     n \in IF f \in setup.failing THEN 0..Len(Content[f]) ELSE {Len(Content[f])}}

\* What the loop over fread() may feed to the image's checksum.  It reads
\* BufSize bytes at a time and only takes a count of 0 for an error: after a
\* short count the rest of the zero-initialised or reused buffer is used.
ReadFile(f) ==
  LET c == Content[f]
      blocks(n) == n % BufSize = 0
      blockEnd(n) == IF ((n \div BufSize) + 1) * BufSize > Len(c) THEN Len(c)
                     ELSE ((n \div BufSize) + 1) * BufSize
      stale(k) == IF k > BufSize THEN c[k - BufSize] ELSE Zero
      short(n) == [k \in 1..blockEnd(n) |-> IF k <= n THEN c[k] ELSE stale(k)]
  IN  {[ok |-> TRUE, bytes |-> c]}
      \cup (IF f \notin setup.failing THEN {}
            ELSE {[ok |-> FALSE, bytes |-> SubSeq(c, 1, n)] :
                    n \in {n \in 0..Len(c)-1 : blocks(n)}}
                 \cup {[ok |-> blockEnd(n) = Len(c), bytes |-> short(n)] :
                         n \in {n \in 0..Len(c)-1 : ~blocks(n)}})

\* write_jt_match_record() of file f, which is entry m of the list; it
\* returns > 0 iff r.ok.  A failure of fopen() is a read of no bytes.
write_jt_match_record(f, m, r) ==
  LET pad == Padding(Len(Content[f]))
      es  == add_file_entry(entries, Len(Content[f]), m)
  IN  IF ~r.ok
        THEN /\ iso' = iso \o r.bytes
             /\ UNCHANGED <<templateVars, entryVars>>
        ELSE /\ iso' = iso \o r.bytes \o pad
             /\ num_matches' = num_matches + 1
             /\ IF pad = << >>
                  THEN /\ entries' = es
                       /\ UNCHANGED <<templateVars, num_chunks>>
                  ELSE /\ \E w \in write_compressed_chunk(pad) : Store(w)
                       /\ entries' = add_unmatched_entry(es, Len(pad))
                       /\ num_chunks' = num_chunks + 1
-----------------------------------------------------------------------------
(* libjte.c: the header. *)

\* libjte_write_header(), and the application's answer to its result.
WriteHeader ==
  /\ app = "setup"
  /\ app' \in {"payload"} \cup (IF "open" \in setup.faults THEN {"failed"} ELSE {})
  /\ UNCHANGED <<left, image, image_size, include_in_jigdo, iso, templateVars,
                 entryVars, desc>>
-----------------------------------------------------------------------------
(* libjte.c: the simplified data file API. *)

\* libjte_show_data_chunk(): the result of jtwrite() is not looked at.
ShowDataChunk(b) ==
  /\ image' = image \o b
  /\ image_size' = image_size + Len(b)
  /\ IF include_in_jigdo
       THEN UNCHANGED <<iso, templateVars, entryVars>>
       ELSE \E w \in write_compressed_chunk(b) : jtwrite(b, w)
  /\ UNCHANGED <<app, include_in_jigdo, desc>>

ShowPayload ==
  /\ setup.api = "simple" /\ app = "payload"
  /\ \E b \in Chunk : /\ Len(image) + Len(b) <= MaxImage
                      /\ ShowDataChunk(b)
  /\ UNCHANGED left

\* The application shows the file, its padding included, in any pieces.
ShowFile ==
  /\ setup.api = "simple" /\ app = "file"
  /\ \E n \in 1..Len(left) : /\ ShowDataChunk(SubSeq(left, 1, n))
                             /\ left' = SubSeq(left, n + 1, Len(left))

\* libjte_begin_data_file(): the result of write_jt_match_record() is not
\* looked at.
BeginDataFile ==
  /\ setup.api = "simple" /\ app = "payload"
  /\ \E f \in File : \E d \in list_file_in_jigdo(f) :
       /\ Len(image) + Len(Padded(f)) <= MaxImage
       /\ \/ /\ d = -1 /\ app' = "failed"
             /\ UNCHANGED <<left, include_in_jigdo, iso, templateVars, entryVars>>
          \/ /\ d = 0 /\ app' = "file" /\ left' = Padded(f)
             /\ include_in_jigdo' = FALSE
             /\ UNCHANGED <<iso, templateVars, entryVars>>
          \/ /\ d \notin {-1, 0} /\ app' = "file" /\ left' = Padded(f)
             /\ include_in_jigdo' = TRUE
             /\ \E r \in ReadFile(f) : write_jt_match_record(f, d, r)
  /\ UNCHANGED <<image, image_size, desc>>

\* libjte_end_data_file().
EndDataFile ==
  /\ setup.api = "simple" /\ app = "file" /\ left = << >>
  /\ app' = "payload" /\ include_in_jigdo' = FALSE
  /\ UNCHANGED <<left, image, image_size, iso, templateVars, entryVars, desc>>
-----------------------------------------------------------------------------
(* libjte.c: the traditional data file API. *)

\* libjte_write_unmatched().
Write(b) ==
  /\ image' = image \o b
  /\ \E w \in write_compressed_chunk(b) :
       /\ jtwrite(b, w)
       /\ app' = IF w.ok THEN app ELSE "failed"
  /\ UNCHANGED <<left, image_size, include_in_jigdo, desc>>

WriteUnmatched ==
  /\ setup.api = "traditional" /\ app = "payload"
  /\ \E b \in Chunk : Len(image) + Len(b) <= MaxImage /\ Write(b)

\* libjte_decide_file_jigdo2(), then libjte_write_match_record2() if it
\* returned 1, or libjte_write_unmatched() of the padded file if it returned 0.
WriteFile ==
  /\ setup.api = "traditional" /\ app = "payload"
  /\ \E f \in File : \E d \in list_file_in_jigdo(f) :
       /\ Padded(f) # << >> /\ Len(image) + Len(Padded(f)) <= MaxImage
       /\ \/ /\ d = -1 /\ app' = "failed"
             /\ UNCHANGED <<left, image, image_size, iso, desc, include_in_jigdo,
                            templateVars, entryVars>>
          \/ d = 0 /\ Write(Padded(f))
          \/ /\ d \notin {-1, 0}
             /\ \E r \in ReadFile(f) :
                  /\ write_jt_match_record(f, d, r)
                  /\ app' = IF r.ok THEN app ELSE "failed"
                  /\ image' = IF r.ok THEN image \o Padded(f) ELSE image
             /\ UNCHANGED <<left, image_size, include_in_jigdo, desc>>

\* libjte_set_image_size().
SetImageSize ==
  /\ setup.api = "traditional" /\ app = "payload"
  /\ image_size' = Len(image) /\ app' = "sized"
  /\ UNCHANGED <<left, image, include_in_jigdo, iso, templateVars, entryVars,
                 desc>>
-----------------------------------------------------------------------------
(* libjte.c: the footer. *)

\* Bytes of the entries of matched files and of the image (jte.h).
file_entry_len == IF setup.algo = "md5" THEN 31 ELSE 47
image_entry_len == IF setup.algo = "md5" THEN 27 ELSE 43

\* Mutant: the image entry is not counted.
desc_lenNoImage(matches, chunks) == 16 + file_entry_len * matches + 7 * chunks

\* Bytes of a DESC part: its tag and two length fields, then its entries, the
\* image entry last.
desc_len(matches, chunks) ==
  16 + file_entry_len * matches + 7 * chunks + image_entry_len

\* Mutant: what is buffered is not flushed.
WriteDescNoFlush ==
  /\ desc' = [len |-> desc_len(num_matches, num_chunks), entries |-> entries,
              image_len |-> image_size, sum |-> iso]
  /\ UNCHANGED <<data, ends, uncomp_buf, entryVars>>

\* write_template_desc_entries(): flush what is buffered, write the DESC part.
WriteDesc ==
  /\ data' = data \o uncomp_buf
  /\ ends' = IF uncomp_buf = << >> THEN ends ELSE Append(ends, Len(data \o uncomp_buf))
  /\ desc' = [len |-> desc_len(num_matches, num_chunks), entries |-> entries,
              image_len |-> image_size, sum |-> iso]
  /\ UNCHANGED <<uncomp_buf, entryVars>>

\* libjte_write_footer() succeeds; what fclose() returns is not looked at.
WriteFooter ==
  /\ app = (IF setup.api = "simple" THEN "payload" ELSE "sized")
  /\ WriteDesc
  /\ torn' \in {torn} \cup (IF "close" \in setup.faults THEN {TRUE} ELSE {})
  /\ app' = "done"
  /\ UNCHANGED <<left, image, image_size, include_in_jigdo, iso>>

\* A flush, a template_fwrite() or an allocation of the footer fails.
WriteFooterFails ==
  /\ app = (IF setup.api = "simple" THEN "payload" ELSE "sized")
  /\ "desc" \in setup.faults
  /\ torn' \in {torn, TRUE}
  /\ app' = "failed"
  /\ UNCHANGED <<left, image, image_size, include_in_jigdo, iso, uncomp_buf,
                 data, ends, entryVars, desc>>
-----------------------------------------------------------------------------
\* The application has called libjte_destroy().
Ended == app \in {"done", "failed"} /\ UNCHANGED vars

Step == \/ WriteHeader
        \/ ShowPayload \/ BeginDataFile \/ ShowFile \/ EndDataFile
        \/ WriteUnmatched \/ WriteFile \/ SetImageSize
        \/ WriteFooter \/ WriteFooterFails

Next == (Step /\ UNCHANGED setup) \/ Ended

Spec == Init /\ [][Next]_vars
-----------------------------------------------------------------------------
(* Properties. *)

Entry == [type : {"FILE_MATCH", "NOMATCH"}, len : Nat,
          file : 0..Len(ChecksumList), at : Nat, from : Nat]

TypeOK ==
  /\ setup \in Setups
  /\ app \in {"setup", "payload", "file", "sized", "done", "failed"}
  /\ left \in Seq(Byte) /\ image \in Seq(Byte)
  /\ image_size \in Nat /\ include_in_jigdo \in BOOLEAN
  /\ iso \in Seq(Byte)
  /\ uncomp_buf \in Seq(Byte) /\ Len(uncomp_buf) <= UncompSize
  /\ data \in Seq(Byte) /\ ends \in Seq(Nat) /\ torn \in BOOLEAN
  /\ entries \in Seq(Entry) /\ num_matches \in Nat /\ num_chunks \in Nat
  /\ desc \in [len : Nat, entries : Seq(Entry), image_len : Nat,
               sum : Seq(Byte)]

\* The extents follow each other and cover an image of n bytes and a stream
\* of s bytes of unmatched data.
Contiguous(es, n, s) ==
  /\ \A k \in 1..Len(es) : /\ es[k].at = EndAt(SubSeq(es, 1, k - 1))
                           /\ es[k].from = EndFrom(SubSeq(es, 1, k - 1))
  /\ EndAt(es) = n /\ EndFrom(es) = s

\* What jigit-mkimage puts in the image for an extent.
Extent(e, stream) ==
  IF e.type = "FILE_MATCH" THEN ChecksumList[e.file].content
                           ELSE SubSeq(stream, e.from + 1, e.from + e.len)

\* The extents, the files they name and the unmatched data make up img.
Makes(es, stream, img) ==
  /\ Contiguous(es, Len(img), Len(stream))
  /\ \A k \in 1..Len(es) :
       SubSeq(img, es[k].at + 1, es[k].at + es[k].len) = Extent(es[k], stream)

\* At every moment between two files, the extents, the flushed DATA parts and
\* the buffered bytes describe exactly the image written so far: no chunk is
\* lost, doubled, or put in another order by the buffering (jte.c:965-1018),
\* by merging extents (jte.c:1308-1336) or by the padding of matched files
\* (jte.c:1446-1459).
ImageTracked ==
  app \in {"payload", "sized"} => Makes(entries, data \o uncomp_buf, image)

\* "@return >0 = ok" of libjte_write_footer() (libjte.h:297): the finished
\* template is whole, and with the files it names it makes the image.
ImageDescribed ==
  app = "done" => /\ ~torn
                  /\ Makes(desc.entries, data, image)

\* The image's checksum is computed from the image's bytes, in their order,
\* although jte.c reads matched files on its own (jte.c:1418-1450).
ImageSummed == app \in {"payload", "sized", "done"} => iso = image

\* Bytes that write_template_desc_entries() writes for these extents.
Written(es) ==
  4 + 6 + file_entry_len * Cardinality({k \in 1..Len(es) : es[k].type = "FILE_MATCH"})
        + 7 * Cardinality({k \in 1..Len(es) : es[k].type = "NOMATCH"})
        + image_entry_len + 6

\* The length field, by which a reader finds the DESC part from the end of
\* the template, is the length of what follows it, and the image entry has
\* the length and checksum of the image (jte.c:1022-1121).
DescTrue ==
  app = "done" => /\ desc.len = Written(desc.entries)
                  /\ desc.image_len = Len(image) /\ desc.sum = image
============================================================================
