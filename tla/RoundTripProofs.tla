-------------------------- MODULE RoundTripProofs --------------------------
(***************************************************************************)
(* Proofs about RoundTrip for every set of files, every setup of the       *)
(* application and every mirror, however the files in it are rewritten.    *)
(*                                                                         *)
(* What is proved about libjte (JteProofs) and about jigit-mkimage         *)
(* (MkImageProofs) is used as it is: the invariant of the one holds when   *)
(* the template is handed over, and is what that of the other asks for.    *)
(***************************************************************************)
EXTENDS RoundTrip, DataLemmas, FiniteSetTheorems

JP == INSTANCE JteProofs
MP == INSTANCE MkImageProofs WITH Templates <- {}, Jigdos <- {}
-----------------------------------------------------------------------------
(* The two modules of proofs speak of the steps that RoundTrip takes. *)

\* What libjte and the application are given is what JteProofs assumes.
LEMMA JConstants == JP!ConstantsAssumption
BY ConstantsAssumption DEF J!ConstantsAssumption, JP!ConstantsAssumption

\* What jigit-mkimage is given is what MkImageProofs assumes.
LEMMA MConstants == MP!ConstantsAssumption
BY ConstantsAssumption DEF M!ConstantsAssumption, MP!ConstantsAssumption

\* The calls of the application are the same in both.
LEMMA SameCalls == J!Step <=> JP!Step
BY DEF J!entryVars, J!templateVars, J!EndAt, J!EndFrom, J!NewEntry, J!CanExtend,
   J!add_unmatched_entry, J!add_file_entry, J!DirectFlushes, J!DirectEnds,
   J!Overflows, J!Flushed, J!Kept, J!DataUpto, J!EndsUpto, J!Chunked, J!Stored,
   J!FlushFails, J!DirectFails, J!write_compressed_chunk, J!Store, J!jtwrite,
   J!Padding, J!Padded, J!Listed, J!SameSum, J!First, J!Unlisted,
   J!list_file_in_jigdo, J!ReadFile, J!write_jt_match_record, J!WriteHeader,
   J!ShowDataChunk, J!ShowPayload, J!ShowFile, J!BeginDataFile, J!EndDataFile,
   J!Write, J!WriteUnmatched, J!WriteFile, J!SetImageSize, J!file_entry_len,
   J!image_entry_len, J!desc_len, J!WriteDesc, J!WriteFooter, J!WriteFooterFails,
   J!Step, JP!entryVars, JP!templateVars, JP!EndAt, JP!EndFrom, JP!NewEntry,
   JP!CanExtend, JP!add_unmatched_entry, JP!add_file_entry, JP!DirectFlushes,
   JP!DirectEnds, JP!Overflows, JP!Flushed, JP!Kept, JP!DataUpto, JP!EndsUpto,
   JP!Chunked, JP!Stored, JP!FlushFails, JP!DirectFails, JP!write_compressed_chunk,
   JP!Store, JP!jtwrite, JP!Padding, JP!Padded, JP!Listed, JP!SameSum, JP!First,
   JP!Unlisted, JP!list_file_in_jigdo, JP!ReadFile, JP!write_jt_match_record,
   JP!WriteHeader, JP!ShowDataChunk, JP!ShowPayload, JP!ShowFile, JP!BeginDataFile,
   JP!EndDataFile, JP!Write, JP!WriteUnmatched, JP!WriteFile, JP!SetImageSize,
   JP!file_entry_len, JP!image_entry_len, JP!desc_len, JP!WriteDesc, JP!WriteFooter,
   JP!WriteFooterFails, JP!Step

\* So are the kinds of executions.
LEMMA SameKinds == (Careful <=> JP!Reported) /\ (ReadsTrue <=> JP!ReadsTrue)
BY DEF Careful, ReadsTrue, J!ReadFile, JP!Reported, JP!ReadsTrue, JP!ReadFile

\* The steps of jigit-mkimage are the same in both.
LEMMA SameMaking == M!Step <=> MP!Step
BY ZenonT(30) DEF M!MISSING, M!UNKNOWN, M!NoDir, M!argVars, M!mirrorVars, M!listVars,
   M!loopVars, M!zipVars, M!fileVars, M!outVars, M!vars, M!Desc, M!Blocks, M!Image,
   M!Min, M!Least, M!quick, M!Exit, M!Running, M!find_file_in_list, M!get_file_size,
   M!Hits, M!find_file_in_mirror, M!InputFails, M!ParseLists, M!AddEntries,
   M!RejectPart, M!AtPart, M!AtNewPart, M!PartListed, M!PartMalformed, M!PartFound,
   M!PartNotFound, M!JigdoParsed, M!Scan, M!ScanAgain, M!PastEnd, M!At, M!InRange,
   M!EndExtent, M!ImageEntry, M!PassOver, M!StaleError, M!StartData, M!NeedsBlock,
   M!BlockReadable, M!ReadBlock, M!ReadBlockFails, M!Piece, M!Consume, M!HasPiece,
   M!WriteData, M!WriteNothing, M!SkipData, M!EndData, M!WriteFails, M!FileEntry,
   M!Sized, M!AtFile, M!Usable, M!OpenFile, M!FileFails, M!WriteMissing,
   M!MissingCrash, M!Size, M!Found, M!CopyPiece, M!ShortRead, M!FileChecked,
   M!EndFile, M!ImageEntries, M!Compared, M!Mismatch, M!Finish, M!Step, MP!MISSING,
   MP!UNKNOWN, MP!NoDir, MP!argVars, MP!mirrorVars, MP!listVars, MP!loopVars,
   MP!zipVars, MP!fileVars, MP!outVars, MP!vars, MP!Desc, MP!Blocks, MP!Image,
   MP!Min, MP!Least, MP!quick, MP!Exit, MP!Running, MP!find_file_in_list,
   MP!get_file_size, MP!Hits, MP!find_file_in_mirror, MP!InputFails, MP!ParseLists,
   MP!AddEntries, MP!RejectPart, MP!AtPart, MP!AtNewPart, MP!PartListed,
   MP!PartMalformed, MP!PartFound, MP!PartNotFound, MP!JigdoParsed, MP!Scan,
   MP!ScanAgain, MP!PastEnd, MP!At, MP!InRange, MP!EndExtent, MP!ImageEntry,
   MP!PassOver, MP!StaleError, MP!StartData, MP!NeedsBlock, MP!BlockReadable,
   MP!ReadBlock, MP!ReadBlockFails, MP!Piece, MP!Consume, MP!HasPiece, MP!WriteData,
   MP!WriteNothing, MP!SkipData, MP!EndData, MP!WriteFails, MP!FileEntry, MP!Sized,
   MP!AtFile, MP!Usable, MP!OpenFile, MP!FileFails, MP!WriteMissing,
   MP!MissingCrash, MP!Size, MP!Found, MP!CopyPiece, MP!ShortRead, MP!FileChecked,
   MP!EndFile, MP!ImageEntries, MP!Compared, MP!Mismatch, MP!Finish, MP!Step

\* So is what other programs do to the mirror.
LEMMA SameRewriting == M!Rewrite <=> MP!Rewrite
BY DEF M!Rewrite, M!argVars, M!listVars, M!loopVars, M!zipVars, M!fileVars,
   M!outVars, MP!Rewrite, MP!argVars, MP!listVars, MP!loopVars, MP!zipVars,
   MP!fileVars, MP!outVars

\* So are its start and its end.
LEMMA SameEnds == (M!Started <=> MP!Started) /\ (M!Written <=> MP!Written) /\ (M!quick <=> MP!quick)
BY DEF M!Started, MP!Started, M!Written, MP!Written, M!quick, MP!quick

\* A program that has just been started is not finished.
LEMMA Unfinished == MP!Started => ~M!Written
BY DEF MP!Started, M!Written
-----------------------------------------------------------------------------
(* What is proved about libjte and jigit-mkimage, in the terms of RoundTrip. *)

\* The invariant of JteProofs, and where the DATA parts are.
EngineInv == JP!IInv /\ JP!PartsInv

\* At first it holds.
LEMMA EngineFirst == J!Init => EngineInv
<1>1. J!Init => JP!Init
  BY DEF J!Init, JP!Init, J!NoDesc, JP!NoDesc
<1> QED
  BY <1>1, JConstants, JP!InitInv, JP!InitParts
     DEF EngineInv, JP!InitInv, JP!InitParts, JP!ConstantsAssumption

\* It holds after every call of the application.
LEMMA EngineStep == EngineInv /\ J!Step /\ setup' = setup => EngineInv'
<1> SUFFICES ASSUME EngineInv, J!Step, setup' = setup
             PROVE  EngineInv'
  OBVIOUS
<1>1. JP!IInv /\ JP!PartsInv /\ JP!Step
  BY SameCalls DEF EngineInv
<1>2. JP!TypeOK
  BY <1>1 DEF JP!IInv
<1>3. JP!IInv'
  BY <1>1, JConstants, JP!StepInv DEF JP!StepInv, JP!ConstantsAssumption
<1>4. JP!PartsInv'
  BY <1>1, <1>2, JConstants, JP!StepParts DEF JP!StepParts, JP!ConstantsAssumption
<1> QED
  BY <1>3, <1>4 DEF EngineInv

\* It goes on to hold when the application is done.
LEMMA EngineKept == EngineInv /\ UNCHANGED writeVars => EngineInv'
<1> SUFFICES ASSUME EngineInv, UNCHANGED writeVars
             PROVE  EngineInv'
  OBVIOUS
<1>1. UNCHANGED JP!vars
  BY DEF writeVars, JP!vars
<1>2. JP!IInv'
  BY <1>1, JConstants, JP!StutterInv DEF EngineInv, JP!StutterInv, JP!ConstantsAssumption
<1>3. JP!PartsInv'
  BY DEF EngineInv, writeVars, JP!PartsInv, JP!Ascending, JP!Named
<1> QED
  BY <1>2, <1>3 DEF EngineInv
-----------------------------------------------------------------------------
(* The template that is handed over. *)

\* What is known when the footer has been written.
LEMMA FooterFacts ==
  ASSUME EngineInv, app = "done"
  PROVE  /\ desc.entries = entries /\ entries \in Seq(JP!Entry) /\ Len(entries) \in Nat
         /\ image \in Seq(Byte) /\ data \in Seq(Byte) /\ ends \in Seq(Nat)
         /\ setup.algo \in {"md5", "sha256"}
         /\ desc.image_len \in Nat /\ desc.sum \in Seq(Byte)
         /\ JP!Ascending(ends, 0, Len(data)) /\ JP!Named(entries)
         /\ Careful => JP!Tracks(entries, data, image)
         /\ ReadsTrue => desc.sum = image
<1>1. /\ JP!TypeOK /\ JP!CountInv /\ JP!SumInv /\ JP!TrackInv
      /\ JP!Ascending(ends, 0, Len(data)) /\ JP!Named(entries)
  BY DEF EngineInv, JP!IInv, JP!PartsInv
<1>2. /\ setup \in Setups /\ image \in Seq(Byte) /\ data \in Seq(Byte) /\ ends \in Seq(Nat)
      /\ entries \in Seq(JP!Entry) /\ image_size \in Nat /\ iso \in Seq(Byte)
  BY <1>1 DEF JP!TypeOK
<1>3. setup.algo \in {"md5", "sha256"}
  BY <1>2, JConstants DEF JP!ConstantsAssumption
<1>4. desc.entries = entries /\ desc.sum = iso /\ desc.image_len = image_size
  BY <1>1 DEF JP!CountInv
<1>5. JP!Described = image /\ JP!Stream = data
  BY DEF JP!Described, JP!Stream
<1>6. ReadsTrue => iso = image
  BY <1>1, <1>5, SameKinds DEF JP!SumInv
<1>7. Careful => JP!Tracks(entries, data, image)
  BY <1>1, <1>5, SameKinds DEF JP!TrackInv
<1> QED
  BY <1>1, <1>2, <1>3, <1>4, <1>6, <1>7

\* What each extent says.
LEMMA EntryFacts ==
  ASSUME EngineInv, app = "done", NEW k \in 1..Len(entries)
  PROVE  LET e == entries[k] IN
         /\ e.type \in {"FILE_MATCH", "NOMATCH"} /\ e.len \in Nat /\ e.at \in Nat
         /\ e.from \in Nat
         /\ e.type = "FILE_MATCH" => /\ e.file \in 1..Len(ChecksumList) /\ e.len > 0
                                     /\ ChecksumList[e.file].content \in Seq(Byte)
<1>1. entries \in Seq(JP!Entry) /\ JP!Named(entries)
  BY FooterFacts
<1>2. entries[k] \in JP!Entry
  BY <1>1, ElementOfSeq
<1>3. PICK e \in JP!Entry : e = entries[k]
  BY <1>2
<1>4. /\ e.type \in {"FILE_MATCH", "NOMATCH"} /\ e.len \in Nat /\ e.at \in Nat
      /\ e.from \in Nat /\ e.file \in 0..Len(ChecksumList)
  BY DEF JP!Entry
<1>5. ASSUME e.type = "FILE_MATCH"
      PROVE  /\ e.file \in 1..Len(ChecksumList) /\ e.len > 0
             /\ ChecksumList[e.file].content \in Seq(Byte)
  <2>1. e.file # 0 /\ e.len > 0
    BY <1>1, <1>3, <1>5 DEF JP!Named
  <2>2. Len(ChecksumList) \in Nat
    BY JConstants DEF JP!ConstantsAssumption
  <2>3. PICK m \in 1..Len(ChecksumList) : m = e.file
    BY <1>4, <2>1, <2>2
  <2>4. ChecksumList[m].content \in Seq(Byte)
    BY JConstants, JP!ListContent DEF JP!ListContent, JP!ConstantsAssumption
  <2> QED
    BY <2>1, <2>3, <2>4
<1> QED
  BY <1>3, <1>4, <1>5

\* The DESC part as jigit-mkimage reads it has an entry for each extent, of its
\* length, and one for the image.
LEMMA DescFacts ==
  ASSUME EngineInv, app = "done"
  PROVE  LET n == Len(entries) IN
         /\ DescEntries \in Seq([type : {"data", "file", "image"}, len : Nat,
                                 sum : MP!Checksum])
         /\ Len(DescEntries) = n + 1
         /\ \A k \in 1..n :
              /\ DescEntries[k].len = entries[k].len
              /\ DescEntries[k].type = IF entries[k].type = "FILE_MATCH" THEN "file" ELSE "data"
              /\ entries[k].type = "FILE_MATCH" =>
                   /\ DescEntries[k].sum.of = ChecksumList[entries[k].file].content
                   /\ DescEntries[k].sum = Sum(ChecksumList[entries[k].file].content)
         /\ DescEntries[n + 1].type = "image" /\ DescEntries[n + 1].sum.of = desc.sum
<1> DEFINE R == [type : {"data", "file", "image"}, len : Nat, sum : MP!Checksum]
           n == Len(entries)
           entry(e) ==
             IF e.type = "FILE_MATCH"
               THEN [type |-> "file", len |-> e.len,
                     sum |-> Sum(ChecksumList[e.file].content)]
               ELSE [type |-> "data", len |-> e.len, sum |-> Sum(<< >>)]
           a == [k \in 1..n |-> entry(entries[k])]
           i == [type |-> "image", len |-> desc.image_len, sum |-> Sum(desc.sum)]
<1>1. n \in Nat /\ desc.entries = entries
  BY FooterFacts
<1>2. DescEntries = a \o <<i>>
  BY <1>1 DEF DescEntries
<1>3. \A c \in Seq(Byte) : Sum(c) \in MP!Checksum /\ Sum(c).of = c
  BY FooterFacts DEF Sum, MP!Checksum
<1>4. i \in R /\ i.type = "image" /\ i.sum.of = desc.sum
  BY <1>3, FooterFacts
<1>5. ASSUME NEW k \in 1..n
      PROVE  /\ entry(entries[k]) \in R
             /\ entry(entries[k]).len = entries[k].len
             /\ entry(entries[k]).type = IF entries[k].type = "FILE_MATCH" THEN "file" ELSE "data"
             /\ entries[k].type = "FILE_MATCH" =>
                  /\ entry(entries[k]).sum.of = ChecksumList[entries[k].file].content
                  /\ entry(entries[k]).sum = Sum(ChecksumList[entries[k].file].content)
  <2>1. PICK e : e = entries[k]
    OBVIOUS
  <2>2. /\ e.type \in {"FILE_MATCH", "NOMATCH"} /\ e.len \in Nat
        /\ e.type = "FILE_MATCH" => ChecksumList[e.file].content \in Seq(Byte)
    BY <2>1, EntryFacts
  <2>3. CASE e.type = "FILE_MATCH"
    BY <1>3, <2>1, <2>2, <2>3
  <2>4. CASE e.type = "NOMATCH"
    <3>1. << >> \in Seq(Byte)
      OBVIOUS
    <3>2. Sum(<< >>) \in MP!Checksum
      BY <1>3, <3>1
    <3> QED
      BY <2>1, <2>2, <2>4, <3>2
  <2> QED
    BY <2>2, <2>3, <2>4
<1> HIDE DEF R, n, entry, i
<1>6. a \in Seq(R) /\ Len(a) = n /\ \A k \in 1..n : a[k] = entry(entries[k])
  <2>1. a \in [1..n -> R]
    BY <1>5
  <2> QED
    BY <1>1, <2>1
<1> HIDE DEF a
<1>7. <<i>> \in Seq(R) /\ Len(<<i>>) = 1 /\ <<i>>[1] = i
  BY <1>4
<1>8. /\ a \o <<i>> \in Seq(R) /\ Len(a \o <<i>>) = n + 1
      /\ \A k \in 1..n + 1 : (a \o <<i>>)[k] = IF k <= n THEN a[k] ELSE <<i>>[k - n]
  BY <1>6, <1>7, ConcatProperties
<1>9. \A k \in 1..n : DescEntries[k] = entry(entries[k])
  BY <1>1, <1>2, <1>6, <1>8
<1>10. DescEntries[n + 1] = i
  <2>1. n + 1 \in 1..n + 1 /\ ~(n + 1 <= n) /\ (n + 1) - n = 1
    BY <1>1
  <2> QED
    BY <1>2, <1>7, <1>8, <2>1
<1> QED
  BY <1>2, <1>4, <1>5, <1>8, <1>9, <1>10, SMTT(30) DEF R, n

\* The DATA parts are pieces of the unmatched data, each where the last one ended;
\* none is empty and nothing is left behind the last one.
LEMMA BlockFacts ==
  ASSUME EngineInv
  PROVE  /\ Blocks \in Seq(Seq(Byte)) /\ Len(Blocks) = Len(ends) /\ Len(ends) \in Nat
         /\ \A m \in 1..Len(ends) :
              LET a == IF m = 1 THEN 0 ELSE ends[m - 1] IN
              /\ a \in Nat /\ ends[m] \in Nat /\ a < ends[m] /\ ends[m] <= Len(data)
              /\ Blocks[m] = SubSeq(data, a + 1, ends[m])
              /\ Blocks[m] \in Seq(Byte) /\ Len(Blocks[m]) = ends[m] - a
         /\ IF Len(ends) = 0 THEN Len(data) = 0 ELSE ends[Len(ends)] = Len(data)
<1>1. data \in Seq(Byte) /\ ends \in Seq(Nat) /\ JP!Ascending(ends, 0, Len(data))
  BY DEF EngineInv, JP!IInv, JP!TypeOK, JP!PartsInv
<1>2. Len(ends) \in Nat /\ Len(data) \in Nat
  BY <1>1
<1> DEFINE begin(m) == IF m = 1 THEN 0 ELSE ends[m - 1]
           cut(m) == SubSeq(data, begin(m) + 1, ends[m])
<1>3. ASSUME NEW m \in 1..Len(ends)
      PROVE  /\ begin(m) \in Nat /\ ends[m] \in Nat /\ begin(m) < ends[m]
             /\ ends[m] <= Len(data) /\ cut(m) \in Seq(Byte)
             /\ Len(cut(m)) = ends[m] - begin(m)
  <2>1. /\ ends[m] \in Nat /\ ends[m] <= Len(data) /\ 0 < ends[m]
        /\ m > 1 => ends[m - 1] < ends[m]
    BY <1>1, ElementOfSeq DEF JP!Ascending
  <2>2. m # 1 => m > 1 /\ m - 1 \in 1..Len(ends)
    BY <1>2
  <2>3. m # 1 => ends[m - 1] \in Nat
    BY <1>1, <2>2, ElementOfSeq
  <2>4. begin(m) \in Nat /\ begin(m) < ends[m]
    BY <2>1, <2>2, <2>3
  <2>5. PICK a \in Nat, b \in Nat : a = begin(m) /\ b = ends[m]
    BY <2>1, <2>4
  <2>6. b \in a..Len(data)
    BY <1>2, <2>1, <2>4, <2>5
  <2>7. SubSeq(data, a + 1, b) \in Seq(Byte) /\ Len(SubSeq(data, a + 1, b)) = b - a
    BY <1>1, <2>6, Cut
  <2> QED
    BY <2>1, <2>4, <2>5, <2>7
<1>4. Blocks = [m \in 1..Len(ends) |-> cut(m)]
  BY DEF Blocks
<1> HIDE DEF cut
<1>5. Blocks \in [1..Len(ends) -> Seq(Byte)]
  BY <1>3, <1>4
<1>6. Blocks \in Seq(Seq(Byte)) /\ Len(Blocks) = Len(ends)
  BY <1>2, <1>5
<1>7. IF Len(ends) = 0 THEN Len(data) = 0 ELSE ends[Len(ends)] = Len(data)
  BY <1>1, <1>2, EmptySeq DEF JP!Ascending
<1>8. \A m \in 1..Len(ends) : Blocks[m] = cut(m)
  BY <1>4
<1> QED
  BY <1>2, <1>3, <1>6, <1>7, <1>8 DEF cut

\* The extents follow each other, and the pieces they name are there.
LEMMA PlaceFacts ==
  ASSUME EngineInv, app = "done", Careful
  PROVE  LET n == Len(entries) IN
         /\ Begin(1) = 0 /\ BeginData(1) = 0
         /\ Begin(n + 1) = Len(image) /\ Begin(n + 2) = Len(image)
         /\ BeginData(n + 1) = Len(data) /\ BeginData(n + 2) = Len(data)
         /\ \A k \in 1..n :
              LET e == entries[k] IN
              /\ Begin(k) = e.at /\ BeginData(k) = e.from
              /\ Begin(k + 1) = e.at + e.len /\ Begin(k + 1) <= Len(image)
              /\ BeginData(k + 1) = e.from + (IF e.type = "NOMATCH" THEN e.len ELSE 0)
              /\ BeginData(k + 1) <= Len(data)
              /\ SubSeq(image, e.at + 1, e.at + e.len) =
                   IF e.type = "FILE_MATCH" THEN ChecksumList[e.file].content
                   ELSE SubSeq(data, e.from + 1, e.from + e.len)
<1> DEFINE n == Len(entries)
<1>1. /\ desc.entries = entries /\ entries \in Seq(JP!Entry) /\ n \in Nat
      /\ image \in Seq(Byte) /\ data \in Seq(Byte) /\ JP!Tracks(entries, data, image)
  BY FooterFacts
<1>2. /\ JP!EndAt(entries) = Len(image) /\ JP!EndFrom(entries) = Len(data)
      /\ JP!Follow(entries) /\ \A k \in 1..n : JP!Holds(entries[k], data, image)
  BY <1>1 DEF JP!Tracks
<1>3. JP!Makes(entries, data, image)
  BY <1>1, JConstants, JP!TracksMakes DEF JP!TracksMakes, JP!ConstantsAssumption
<1>4. \A k \in 1..n : Begin(k) = entries[k].at /\ BeginData(k) = entries[k].from
  BY <1>1 DEF Begin, BeginData
<1>5. /\ Begin(n + 1) = Len(image) /\ Begin(n + 2) = Len(image)
      /\ BeginData(n + 1) = Len(data) /\ BeginData(n + 2) = Len(data)
  BY <1>1 DEF Begin, BeginData
<1>6. Begin(1) = 0 /\ BeginData(1) = 0
  <2>1. CASE n = 0
    <3>1. entries = << >>
      BY <1>1, <2>1, EmptySeq
    <3>2. Len(image) = 0 /\ Len(data) = 0
      BY <1>2, <3>1 DEF JP!EndAt, JP!EndFrom
    <3> QED
      BY <1>5, <2>1, <3>2
  <2>2. CASE n # 0
    <3>1. 1 \in 1..n
      BY <1>1, <2>2
    <3>2. entries[1].at = 0 /\ entries[1].from = 0
      BY <1>2, <3>1 DEF JP!Follow
    <3> QED
      BY <1>4, <3>1, <3>2
  <2> QED
    BY <2>1, <2>2
<1>7. ASSUME NEW k \in 1..n
      PROVE  /\ Begin(k + 1) = JP!AfterAt(entries[k])
             /\ BeginData(k + 1) = JP!AfterFrom(entries[k])
  <2>1. CASE k = n
    <3>1. entries # << >>
      BY <1>1, EmptySeq
    <3>2. JP!EndAt(entries) = JP!AfterAt(entries[n]) /\ JP!EndFrom(entries) = JP!AfterFrom(entries[n])
      BY <3>1 DEF JP!EndAt, JP!EndFrom, JP!AfterAt, JP!AfterFrom
    <3> QED
      BY <1>2, <1>5, <2>1, <3>2
  <2>2. CASE k # n
    <3>1. k + 1 \in 1..n /\ k + 1 # 1 /\ (k + 1) - 1 = k
      BY <1>1, <2>2
    <3>2. /\ entries[k + 1].at = JP!AfterAt(entries[k])
          /\ entries[k + 1].from = JP!AfterFrom(entries[k])
      BY <1>2, <3>1 DEF JP!Follow
    <3> QED
      BY <1>4, <3>1, <3>2
  <2> QED
    BY <2>1, <2>2
<1>8. ASSUME NEW k \in 1..n
      PROVE  /\ JP!AfterAt(entries[k]) <= Len(image)
             /\ JP!AfterFrom(entries[k]) <= Len(data)
  <2>1. PICK e : e = entries[k]
    OBVIOUS
  <2>2. JP!Holds(e, data, image) /\ e.type \in {"FILE_MATCH", "NOMATCH"} /\ e.from \in Nat
    BY <1>2, <2>1, EntryFacts
  <2>3. JP!AfterAt(e) <= Len(image)
    BY <2>2 DEF JP!Holds
  <2>4. CASE e.type = "FILE_MATCH"
    BY <2>1, <2>2, <2>3, <2>4 DEF JP!Holds, JP!AfterFrom
  <2>5. CASE e.type = "NOMATCH"
    BY <2>1, <2>2, <2>3, <2>5 DEF JP!Holds, JP!HoldsData, JP!AfterFrom
  <2> QED
    BY <2>2, <2>4, <2>5
<1>9. \A k \in 1..n : SubSeq(image, entries[k].at + 1, entries[k].at + entries[k].len) =
                        IF entries[k].type = "FILE_MATCH" THEN ChecksumList[entries[k].file].content
                        ELSE SubSeq(data, entries[k].from + 1, entries[k].from + entries[k].len)
  BY <1>3 DEF JP!Makes, JP!Extent
<1> QED
  BY <1>4, <1>5, <1>6, <1>7, <1>8, <1>9 DEF JP!AfterAt, JP!AfterFrom

\* A template that has been finished is one that jigit-mkimage can be given.
LEMMA TemplateTyped ==
  ASSUME EngineInv, app = "done", NEW c \in Unreadables(Len(Blocks))
  PROVE  MP!IsTemplate(Template(c))
<1> DEFINE n == Len(entries)
           R == [type : {"data", "file", "image"}, len : Nat, sum : MP!Checksum]
<1>1. /\ n \in Nat /\ desc.entries = entries /\ image \in Seq(Byte) /\ data \in Seq(Byte)
      /\ ends \in Seq(Nat)
  BY FooterFacts
<1>2. DescEntries \in Seq(R)
  BY DescFacts
<1>3. Blocks \in Seq(Seq(Byte)) /\ Len(Blocks) \in Nat
  BY BlockFacts
<1>4. c \subseteq Nat
  BY <1>3 DEF Unreadables
<1>5. \A k \in 1..n + 2 : Begin(k) \in Nat /\ BeginData(k) \in Nat
  <2> TAKE k \in 1..n + 2
  <2>1. CASE k <= n
    <3>1. k \in 1..n
      BY <1>1, <2>1
    <3> QED
      BY <1>1, <2>1, <3>1, EntryFacts DEF Begin, BeginData
  <2>2. CASE ~(k <= n)
    BY <1>1, <2>2 DEF Begin, BeginData
  <2> QED
    BY <2>1, <2>2
<1>6. /\ [k \in 1..n + 2 |-> Begin(k)] \in Seq(Nat)
      /\ [k \in 1..n + 2 |-> BeginData(k)] \in Seq(Nat)
  BY <1>1, <1>5
<1>7. /\ Template(c).desc = DescEntries /\ Template(c).blocks = Blocks
      /\ Template(c).tail = "good" /\ Template(c).corrupt = c
      /\ Template(c).image = image /\ Template(c).stream = data
      /\ Template(c).at = [k \in 1..n + 2 |-> Begin(k)]
      /\ Template(c).from = [k \in 1..n + 2 |-> BeginData(k)]
      /\ Template(c).ends = ends
  BY <1>1 DEF Template
<1> QED
  BY <1>1, <1>2, <1>3, <1>4, <1>6, <1>7 DEF MP!IsTemplate

\* If the application has seen every failure, it describes the image that the
\* application has written.
LEMMA TemplateDescribes ==
  ASSUME EngineInv, app = "done", Careful, ReadsTrue, NEW c
  PROVE  MP!Describes(Template(c))
<1> DEFINE n == Len(entries)
           b == Template(c)
           Place(k) ==
             LET e == b.desc[k]
                 piece == SubSeq(b.image, b.at[k] + 1, b.at[k + 1])
             IN  /\ b.at[k + 1] = b.at[k] + (IF e.type = "image" THEN 0 ELSE e.len)
                 /\ b.from[k + 1] = b.from[k] + (IF e.type = "data" THEN e.len ELSE 0)
                 /\ b.at[k + 1] <= Len(b.image) /\ b.from[k + 1] <= Len(b.stream)
                 /\ e.type = "data" => piece = SubSeq(b.stream, b.from[k] + 1, b.from[k + 1])
                 /\ e.type = "file" => piece = e.sum.of
                 /\ e.type = "image" => k = Len(b.desc) /\ e.sum.of = b.image
<1>1. /\ n \in Nat /\ desc.entries = entries /\ image \in Seq(Byte) /\ data \in Seq(Byte)
      /\ Len(image) \in Nat /\ Len(data) \in Nat /\ desc.sum = image
  BY FooterFacts
<1>2. /\ b.desc = DescEntries /\ b.blocks = Blocks /\ b.image = image /\ b.stream = data
      /\ b.at = [k \in 1..n + 2 |-> Begin(k)]
      /\ b.from = [k \in 1..n + 2 |-> BeginData(k)]
      /\ b.ends = ends
  BY <1>1 DEF Template
<1> HIDE DEF b, n
<1>3. Len(b.desc) = n + 1 /\ Len(b.at) = n + 2 /\ Len(b.from) = n + 2
  <2>1. Len(DescEntries) = n + 1
    BY DescFacts DEF n
  <2>2. n + 2 \in Nat
    BY <1>1
  <2> QED
    BY <1>2, <2>1, <2>2
<1>4. \A k \in 1..n + 2 : b.at[k] = Begin(k) /\ b.from[k] = BeginData(k)
  BY <1>2
<1>5. b.at[1] = 0 /\ b.from[1] = 0 /\ b.at[n + 2] = Len(image)
  <2>1. 1 \in 1..n + 2 /\ n + 2 \in 1..n + 2
    BY <1>1
  <2>2. Begin(1) = 0 /\ BeginData(1) = 0 /\ Begin(n + 2) = Len(image)
    BY PlaceFacts DEF n
  <2> QED
    BY <1>4, <2>1, <2>2
<1>6. b.desc[n + 1].type = "image" /\ b.desc[n + 1].sum.of = image
  BY <1>1, <1>2, DescFacts DEF n
<1>7. ASSUME NEW k \in 1..n PROVE Place(k)
  <2>1. k \in 1..n + 2 /\ k + 1 \in 1..n + 2
    BY <1>1
  <2>2. PICK e, d : e = entries[k] /\ d = DescEntries[k]
    OBVIOUS
  <2>3. /\ e.type \in {"FILE_MATCH", "NOMATCH"} /\ e.len \in Nat /\ e.at \in Nat
        /\ e.from \in Nat
    BY <2>2, EntryFacts DEF n
  <2>4. /\ d.len = e.len /\ d.type = IF e.type = "FILE_MATCH" THEN "file" ELSE "data"
        /\ e.type = "FILE_MATCH" => d.sum.of = ChecksumList[e.file].content
    BY <2>2, DescFacts DEF n
  <2>5. /\ Begin(k) = e.at /\ BeginData(k) = e.from
        /\ Begin(k + 1) = e.at + e.len /\ Begin(k + 1) <= Len(image)
        /\ BeginData(k + 1) = e.from + (IF e.type = "NOMATCH" THEN e.len ELSE 0)
        /\ BeginData(k + 1) <= Len(data)
        /\ SubSeq(image, e.at + 1, e.at + e.len) =
             IF e.type = "FILE_MATCH" THEN ChecksumList[e.file].content
             ELSE SubSeq(data, e.from + 1, e.from + e.len)
    BY <2>2, PlaceFacts DEF n
  <2>6. /\ b.at[k] = e.at /\ b.at[k + 1] = e.at + e.len
        /\ b.from[k] = e.from
        /\ b.from[k + 1] = e.from + (IF e.type = "NOMATCH" THEN e.len ELSE 0)
        /\ b.at[k + 1] <= Len(image) /\ b.from[k + 1] <= Len(data) /\ b.desc[k] = d
    BY <1>2, <1>4, <2>1, <2>2, <2>5
  <2>7. CASE e.type = "FILE_MATCH"
    <3>1. d.type = "file" /\ d.sum.of = SubSeq(image, b.at[k] + 1, b.at[k + 1])
      BY <2>4, <2>5, <2>6, <2>7
    <3> QED
      BY <1>2, <2>3, <2>4, <2>6, <2>7, <3>1
  <2>8. CASE e.type = "NOMATCH"
    <3>1. /\ d.type = "data" /\ b.from[k + 1] = e.from + e.len
          /\ SubSeq(image, b.at[k] + 1, b.at[k + 1]) = SubSeq(data, b.from[k] + 1, b.from[k + 1])
      BY <2>4, <2>5, <2>6, <2>8
    <3> QED
      BY <1>2, <2>3, <2>4, <2>6, <2>8, <3>1
  <2> QED
    BY <2>3, <2>7, <2>8
<1>8. Place(n + 1)
  <2>1. n + 1 \in 1..n + 2 /\ (n + 1) + 1 \in 1..n + 2 /\ (n + 1) + 1 = n + 2
    BY <1>1
  <2>2. /\ Begin(n + 1) = Len(image) /\ Begin(n + 2) = Len(image)
        /\ BeginData(n + 1) = Len(data) /\ BeginData(n + 2) = Len(data)
    BY PlaceFacts DEF n
  <2>3. /\ b.at[n + 1] = Len(image) /\ b.at[(n + 1) + 1] = Len(image)
        /\ b.from[n + 1] = Len(data) /\ b.from[(n + 1) + 1] = Len(data)
    BY <1>4, <2>1, <2>2
  <2> QED
    BY <1>1, <1>2, <1>3, <1>6, <2>3
<1>9. \A k \in 1..Len(b.desc) : Place(k)
  <2> TAKE k \in 1..Len(b.desc)
  <2>1. k \in 1..n \/ k = n + 1
    BY <1>1, <1>3
  <2> QED
    BY <1>7, <1>8, <2>1
<1>10. Len(b.ends) = Len(b.blocks) /\ Len(b.blocks) = Len(ends)
  BY <1>2, BlockFacts
<1>11. \A m \in 1..Len(b.blocks) :
         /\ MP!Start(b, m) <= b.ends[m] /\ b.ends[m] <= Len(b.stream)
         /\ b.blocks[m] = SubSeq(b.stream, MP!Start(b, m) + 1, b.ends[m])
  BY <1>2, <1>10, BlockFacts DEF MP!Start
<1>12. /\ Len(b.at) = Len(b.desc) + 1 /\ Len(b.from) = Len(b.desc) + 1
       /\ Len(b.desc) > 0 /\ b.desc[Len(b.desc)].type = "image"
       /\ b.at[1] = 0 /\ b.from[1] = 0 /\ b.at[Len(b.at)] = Len(b.image)
  BY <1>1, <1>2, <1>3, <1>5, <1>6
<1> HIDE DEF Place
<1>13. MP!Describes(b)
  BY <1>9, <1>10, <1>11, <1>12 DEF MP!Describes, Place
<1> QED
  BY <1>13 DEF b

\* Its last entry has the checksum of that image, whatever else was lost.
LEMMA TemplateSum ==
  ASSUME EngineInv, app = "done", ReadsTrue, NEW c
  PROVE  LET b == Template(c) IN
         \E k \in 1..Len(b.desc) : b.desc[k].type = "image" /\ b.desc[k].sum.of = image
<1>1. Template(c).desc = DescEntries /\ desc.sum = image /\ Len(entries) \in Nat
  BY FooterFacts DEF Template
<1>2. /\ Len(DescEntries) = Len(entries) + 1
      /\ DescEntries[Len(entries) + 1].type = "image"
      /\ DescEntries[Len(entries) + 1].sum.of = desc.sum
  BY DescFacts
<1>3. Len(entries) + 1 \in 1..Len(DescEntries)
  BY <1>1, <1>2
<1> QED
  BY <1>1, <1>2, <1>3
-----------------------------------------------------------------------------
(* The invariant. *)

\* The variables of jigit-mkimage, except for what it is given and the mirror.
runVars == <<pc, status, list, part, t, output_offset, error, zip, block,
             remaining, input, file_sum, image_sum, out, listed, dropped, lost>>

\* The regular files of the mirror.
DiskInv ==
  /\ DOMAIN disk \subseteq MP!Paths /\ \A p \in DOMAIN disk : disk[p] \in Seq(Byte)
  /\ rewritten \in BOOLEAN

\* Nothing reads the template before it is finished, and jigit-mkimage does not
\* run before it is called.
PhaseInv ==
  /\ phase \in {"write", "list", "make", "sum", "check", "dump", "extract", "end"}
  /\ phase \in {"list", "make", "sum", "check"} => app = "done"
  /\ phase \notin {"make", "end"} => MP!Started

\* The template that has been handed over.
TemplateInv ==
  phase \in {"list", "make"} =>
    /\ \E c \in Unreadables(Len(Blocks)) : template = Template(c)
    /\ MP!IsTemplate(template) /\ template.image = image
    /\ ReadsTrue => \E k \in 1..Len(template.desc) :
                      /\ template.desc[k].type = "image"
                      /\ template.desc[k].sum.of = image
    /\ Careful /\ ReadsTrue => MP!Describes(template)

\* jigit-mkimage at work: what is known of any template, and what of one that
\* describes an image.
MakeInv ==
  phase = "make" => MP!Types /\ (Careful /\ ReadsTrue => MP!IInv)

\* An image is to be made and everything has gone well: then nothing is in the way
\* of jigit-mkimage, and it does not get into trouble.
Ready == Careful /\ ReadsTrue /\ Served /\ Undisturbed /\ ~opt.missing
ReadyInv ==
  phase = "make" => /\ Careful /\ ReadsTrue => MP!WorkInv
                    /\ Ready => MP!Supplied

EndInv == phase = "end" => Rebuilt /\ Readable

\* jigsum: a file it reads is one that it was asked for and could open.
SumInv ==
  /\ arg \in Nat \ {0} /\ line \in Nat \ {0} /\ reading \in BOOLEAN
  /\ fed \in Seq(Byte) /\ printed \in Seq(S!Lines) /\ sum_error \in Nat
  /\ reading => S!AtFile /\ S!Openable

\* jigsum -c has seen the lists before arg, and of that the lines before line.
Seen(k, n) == k < arg \/ (k = arg /\ n < line)
SeenTrue ==
  \A k \in 1..Len(S!Lists) :
    /\ k < arg => S!Lists[k].there
    /\ \A n \in 1..Len(S!Lists[k].lines) :
         Seen(k, n) /\ S!Lists[k].lines[n].wellformed => LineTrue(S!Lists[k].lines[n])
Reason ==
  \/ \E l \in ToCheck : l.wellformed /\ (~LineTrue(l) \/ l.path \in Broken)
  \/ \E k \in 1..Len(S!Lists) : ~S!Lists[k].there

\* jigsum -c has found no error as long as all it has seen is true, and found one
\* only if there was a reason.
Checks ==
  /\ mode \in {"check", "ended"}
  /\ reading => /\ Len(fed) <= Len(S!FileContent)
                /\ fed = SubSeq(S!FileContent, 1, Len(fed))
  /\ ~reading => fed = << >>
  /\ sum_error = 0 => SeenTrue
  /\ sum_error # 0 => Reason
  /\ mode = "ended" => arg > Len(S!Lists) /\ exit_status = sum_error % Statuses

CheckInv == phase = "check" => others \in OtherLists /\ Checks

\* jigdo-gen-checksum-list: the files it is about to list are there.
GenInv ==
  /\ gen_arg \in Nat \ {0} /\ gen_state \in {"run", "ok", "failed"}
  /\ items \subseteq DOMAIN disk \cap (STRING \X STRING)
  /\ item \in (DOMAIN disk \cap (STRING \X STRING)) \cup {G!NoItem}
  /\ summed \in Seq(Byte) /\ generated \in Seq(G!Lines)

\* What md5sum has read is the beginning of its file, and every line that was printed
\* is true of a file that can be opened, or has the checksum of nothing or none at all.
ListTrue ==
  /\ G!Open => /\ Len(summed) <= Len(disk[item])
               /\ summed = SubSeq(disk[item], 1, Len(summed))
  /\ ~G!Open => summed = << >>
  /\ \A n \in 1..Len(generated) : MP!Present(generated[n]) \/ generated[n].sum.of = << >>

\* That is so until somebody writes to one of them.
ListInv == phase \in {"write", "list"} => rewritten \/ ListTrue

\* Where jigsum is, and what it returns.
ModeInv == mode \in {"calc", "check", "ended"} /\ exit_status \in 0..Statuses - 1

Tags == {"header", "DATA", "DESC", "NOMATCH", "MATCH_MD5", "MATCH_SHA256", "IMAGE_MD5",
         "IMAGE_SHA256", "pointer"}
Plain == [tag : Tags, len : Nat]
Pointing == [tag : Tags, len : Nat, to : Nat]
Piece == Plain \cup Pointing

\* The file that a finished template is, and the one that is left behind.
WholePieces == Header \o DataPieces \o DescPieces
LeftPieces ==
  Header \o DataPieces \o (IF torn THEN <<[tag |-> "DATA", len |-> 18]>> ELSE << >>)
Whole == app = "done" /\ pieces = WholePieces /\ template_size = D!Size(pieces)
LeftOver == /\ app = "failed" /\ pieces = LeftPieces /\ named
            /\ template_size = D!Size(pieces) - (IF torn THEN 1 ELSE 0)

\* What jigdump has printed before it comes to piece j.
Shown(j) == [i \in 1..j - From |-> PieceShown(From + i - 1)]

\* Where the DESC part of a finished template begins.
DescAt == D!Start(Len(ends) + 2)

\* jigdump has come to piece j, or to the end if there is no such piece.
Walked(j) ==
  LET n == Len(ends)
      m == Len(entries)
      last == Len(pieces) + 1 IN
  /\ j \in From..last
  /\ shown = Shown(j)
  /\ offset = D!Start(j)
  /\ app = "done" => ~torn
  /\ desc_offset = 0 \/ (app = "done" /\ desc_offset = DescAt)
  /\ state \in {"IN_DATA", "IN_DESC", "DUMP_DESC", "DUMP_DESC_PTR", "DONE", "ERROR"}
  /\ state \in {"DUMP_DESC", "DUMP_DESC_PTR"} =>
       app = "done" /\ desc_offset = IF named THEN DescAt ELSE 0
  /\ state \in {"IN_DATA", "IN_DESC"} => desc_offset = 0
  /\ state = "IN_DATA" => named /\ (app = "done" => j <= n + 2) /\ (j = last => torn)
  /\ state = "IN_DESC" => ~named /\ j = From
  /\ state = "DUMP_DESC" => j \in n + 3..n + m + 3
  /\ state = "DUMP_DESC_PTR" => j = n + m + 4
  /\ state \in {"DONE", "ERROR"} => /\ j = last /\ mismatch = ~named
                                    /\ state = "ERROR" <=> torn
  /\ state \notin {"DONE", "ERROR"} => mismatch = FALSE

\* It has not found a DATA part.
NothingFound ==
  /\ named /\ D!DataParts = {} /\ state \in {"DONE", "EINVAL"}
  /\ offset = 0 /\ desc_offset = 0 /\ shown = << >> /\ mismatch = FALSE

DumpInv ==
  /\ phase = "write" => named /\ pieces = << >> /\ template_size = 0
  /\ phase # "write" => Whole \/ LeftOver
  /\ phase = "dump" /\ app = "done" => ~torn
  /\ phase \notin {"dump", "end"} => D!Launched
  /\ D!Launched \/ NothingFound \/ \E j \in 1..Len(pieces) + 1 : Walked(j)

\* Where the DATA parts before part k end in the unmatched data.
Upto(k) == IF k = 1 THEN 0 ELSE ends[k - 1]

\* extract-data has written the unmatched data up to the part it is at; it comes to
\* the last one if the application has seen every failure.
ExtractInv ==
  /\ phase \notin {"extract", "end"} => X!Ready
  /\ phase = "extract" => /\ app = "done"
                          /\ \E c \in Unreadables(Len(Blocks)) : template = Template(c)
  /\ extract_done => app = "done"
  /\ part_at \in 1..Len(ends) + 1 /\ extracted \in Seq(Byte)
  /\ ~unwritten => extracted = SubSeq(data, 1, Upto(part_at))
  /\ extract_done /\ Careful => part_at = Len(ends) + 1

IInv == /\ EngineInv /\ DiskInv /\ PhaseInv /\ TemplateInv /\ MakeInv /\ ReadyInv
        /\ EndInv /\ SumInv /\ ModeInv /\ CheckInv /\ GenInv /\ ListInv /\ DumpInv
        /\ ExtractInv
-----------------------------------------------------------------------------
(* What each step leaves alone. *)

\* Only the application writes an image.
LEMMA WriteFrame ==
  ASSUME [Next]_vars
  PROVE  Write \/ UNCHANGED writeVars
BY DEF Next, Progress, Finished, LeftBehind, Summing, Listing, Listed, ListFailed,
   Making, Rewriting,
   Made, Rechecked, Checked, Dumping, Dumped, Extracting, Extracted, Over, vars

\* Only other programs change the mirror.
LEMMA DiskFrame ==
  ASSUME [Next]_vars
  PROVE  Rewriting \/ (disk' = disk /\ rewritten' = rewritten)
<1>1. Making => disk' = disk /\ rewritten' = rewritten
  BY SameMaking, MConstants, MP!StepFrame
     DEF Making, MP!StepFrame, MP!ConstantsAssumption
<1>2. Summing => disk' = disk /\ rewritten' = rewritten
  BY DEF Summing, makeVars, S!Next, S!Open, S!OpenFails, S!Read, S!ReadFails,
     S!EndOfFile, S!MalformedLine, S!ListFails, S!ListEnds, S!Return, S!FileDone
<1>3. Listing => disk' = disk /\ rewritten' = rewritten
  BY DEF Listing, makeVars, G!Next, G!Directory, G!RegularFile, G!Usage, G!NextItem,
     G!ReadPiece, G!Summed, G!SumFails, G!AddLine, G!ExitOk
<1> QED
  BY <1>1, <1>2, <1>3 DEF Next, Progress, Write, Finished, LeftBehind, Listed,
     ListFailed, Made,
     Rechecked, Checked, Dumping, Dumped, Extracting, Extracted, Over, vars, makeVars

\* Only jigit-mkimage works on its state.
LEMMA RunFrame ==
  ASSUME [Next]_vars
  PROVE  Making \/ UNCHANGED runVars
<1>1. Rewriting => UNCHANGED runVars
  BY DEF Rewriting, M!Rewrite, M!argVars, M!listVars, M!loopVars, M!zipVars,
     M!fileVars, M!outVars, runVars
<1> QED
  BY <1>1 DEF Next, Progress, Write, Finished, LeftBehind, Summing, Listing, Listed,
     ListFailed, Made,
     Rechecked, Checked, Dumping, Dumped, Extracting, Extracted, Over, vars,
     makeVars, runVars

\* Only jigsum works on its own.
LEMMA SumFrame ==
  ASSUME [Next]_vars
  PROVE  Summing \/ Rechecked \/ UNCHANGED sumVars
BY DEF Next, Progress, Write, Finished, LeftBehind, Listing, Listed, ListFailed,
   Making, Rewriting,
   Made, Checked, Dumping, Dumped, Extracting, Extracted, Over, vars

\* Only jigdo-gen-checksum-list works on its own.
LEMMA GenFrame ==
  ASSUME [Next]_vars
  PROVE  Listing \/ UNCHANGED genVars
BY DEF Next, Progress, Write, Finished, LeftBehind, Summing, Listed, ListFailed,
   Making, Rewriting,
   Made, Rechecked, Checked, Dumping, Dumped, Extracting, Extracted, Over, vars

\* How the tools follow each other.
LEMMA PhaseFrame ==
  ASSUME [Next]_vars
  PROVE  \/ phase' = phase
         \/ Finished \/ LeftBehind \/ Listed \/ ListFailed \/ Rechecked
         \/ Made \/ Checked \/ Dumped \/ Extracted
BY DEF Next, Progress, Write, Summing, Listing, Making, Rewriting, Dumping, Extracting,
   Over, vars

\* The template stays as it is while it is used.
LEMMA TemplateFrame ==
  ASSUME [Next]_vars, phase \in {"list", "make"}
  PROVE  template' = template /\ (phase' = "make" => Listed \/ (opt' = opt /\ jigdo' = jigdo))
<1>1. Making => template' = template /\ opt' = opt /\ jigdo' = jigdo
  BY SameMaking, MConstants, MP!StepFrame
     DEF Making, MP!StepFrame, MP!ConstantsAssumption
<1>2. Rewriting => template' = template /\ opt' = opt /\ jigdo' = jigdo
  BY DEF Rewriting, M!Rewrite, M!argVars
<1> QED
  BY <1>1, <1>2 DEF Next, Progress, Write, Finished, LeftBehind, Summing, Listing,
     Listed, ListFailed,
     Made, Rechecked, Checked, Dumping, Dumped, Extracting, Extracted, Over, vars,
     makeVars

\* What the application has met is settled when the image is written.
LEMMA SameExecution ==
  ASSUME UNCHANGED writeVars
  PROVE  /\ image' = image /\ app' = app
         /\ (Careful' <=> Careful) /\ (ReadsTrue' <=> ReadsTrue)
BY DEF writeVars, Careful, ReadsTrue, J!ReadFile
-----------------------------------------------------------------------------
(* The invariant is preserved: libjte, the mirror, the order of the tools. *)

\* libjte.
LEMMA NextEngine ==
  ASSUME EngineInv, [Next]_vars
  PROVE  EngineInv'
<1>1. CASE Write
  BY <1>1, EngineStep DEF Write
<1>2. CASE UNCHANGED writeVars
  BY <1>2, EngineKept
<1> QED
  BY <1>1, <1>2, WriteFrame

\* The mirror.
LEMMA NextDisk ==
  ASSUME DiskInv, [Next]_vars
  PROVE  DiskInv'
<1>1. CASE Rewriting
  <2>1. PICK r \in Rewrites : r.path \in DOMAIN disk /\ disk' = [disk EXCEPT ![r.path] = r.content]
    BY <1>1 DEF Rewriting, M!Rewrite
  <2>2. r.content \in Seq(Byte)
    BY MConstants DEF MP!ConstantsAssumption
  <2>3. DOMAIN disk' = DOMAIN disk /\ \A p \in DOMAIN disk : disk'[p] \in Seq(Byte)
    BY <2>1, <2>2 DEF DiskInv
  <2>4. rewritten' = TRUE
    BY <1>1 DEF Rewriting, M!Rewrite
  <2> QED
    BY <2>3, <2>4 DEF DiskInv, MP!Paths
<1>2. CASE disk' = disk /\ rewritten' = rewritten
  BY <1>2 DEF DiskInv, MP!Paths
<1> QED
  BY <1>1, <1>2, DiskFrame

\* The order of the tools.
LEMMA NextPhase ==
  ASSUME PhaseInv, [Next]_vars
  PROVE  PhaseInv'
<1>1. phase' \in {"write", "list", "make", "sum", "check", "dump", "extract", "end"}
  BY PhaseFrame DEF PhaseInv, Finished, LeftBehind, Listed, ListFailed, Rechecked, Made,
     Checked, Dumped, Extracted
<1>2. phase' \in {"list", "make", "sum", "check"} => app' = "done"
  <2> SUFFICES ASSUME phase' \in {"list", "make", "sum", "check"}
               PROVE  app' = "done"
    OBVIOUS
  <2>1. ~Write
    BY DEF Write
  <2>2. app' = app
    BY <2>1, WriteFrame, SameExecution
  <2>3. app = "done"
    BY PhaseFrame DEF PhaseInv, Finished, LeftBehind, Listed, ListFailed, Rechecked, Made,
       Checked, Dumped, Extracted
  <2> QED
    BY <2>2, <2>3
<1>3. phase' \notin {"make", "end"} => MP!Started'
  <2> SUFFICES ASSUME phase' \notin {"make", "end"}
               PROVE  MP!Started'
    OBVIOUS
  <2>1. phase \notin {"make", "end"}
    BY PhaseFrame DEF PhaseInv, Finished, LeftBehind, Listed, ListFailed, Rechecked, Made,
       Checked, Dumped, Extracted
  <2>2. UNCHANGED runVars
    BY <2>1, RunFrame DEF Making
  <2> QED
    BY <2>1, <2>2 DEF PhaseInv, MP!Started, runVars
<1> QED
  BY <1>1, <1>2, <1>3 DEF PhaseInv
-----------------------------------------------------------------------------
(* The invariant is preserved: the template, and jigit-mkimage. *)

\* The template.
LEMMA NextTemplate ==
  ASSUME EngineInv, TemplateInv, [Next]_vars
  PROVE  TemplateInv'
<1> SUFFICES ASSUME phase' \in {"list", "make"}
             PROVE  /\ \E c \in Unreadables(Len(Blocks))' : template' = Template(c)'
                    /\ MP!IsTemplate(template') /\ template'.image = image'
                    /\ ReadsTrue' => \E k \in 1..Len(template'.desc) :
                                       /\ template'.desc[k].type = "image"
                                       /\ template'.desc[k].sum.of = image'
                    /\ Careful' /\ ReadsTrue' => MP!Describes(template')
  BY DEF TemplateInv
<1>1. UNCHANGED writeVars
  BY WriteFrame DEF Write
<1>2. image' = image /\ (Careful' <=> Careful) /\ (ReadsTrue' <=> ReadsTrue)
  BY <1>1, SameExecution
<1>3. \A c : Template(c)' = Template(c)
  BY <1>1 DEF Template, DescEntries, Begin, BeginData, Blocks, Sum, writeVars
<1>4. Unreadables(Len(Blocks))' = Unreadables(Len(Blocks))
  BY <1>1 DEF Unreadables, Blocks, writeVars
<1>5. CASE Finished
  <2>1. PICK c \in Unreadables(Len(Blocks)) : template' = Template(c)
    BY <1>5 DEF Finished
  <2>2. app = "done"
    BY <1>5 DEF Finished
  <2>3. Template(c).image = image
    BY DEF Template
  <2> QED
    BY <1>2, <1>3, <1>4, <2>1, <2>2, <2>3, TemplateTyped, TemplateDescribes, TemplateSum
<1>6. CASE ~Finished
  <2>1. phase \in {"list", "make"}
    BY <1>6, PhaseFrame DEF LeftBehind, Listed, ListFailed, Rechecked, Made, Checked,
       Dumped, Extracted
  <2>2. template' = template
    BY <2>1, TemplateFrame
  <2> QED
    BY <1>2, <1>3, <1>4, <2>1, <2>2 DEF TemplateInv
<1> QED
  BY <1>5, <1>6

\* Where the .jigdo finds the matched files is what jigit-mkimage can be given.
LEMMA PartsTyped ==
  ASSUME EngineInv, app = "done", NEW order \in Ordered(Matched)
  PROVE  /\ Parts(order) \in Seq([sum : MP!Checksum, match : STRING, name : STRING,
                                  wellformed : BOOLEAN])
         /\ \A k \in 1..Len(Parts(order)) : Parts(order)[k].wellformed
<1> DEFINE R == [sum : MP!Checksum, match : STRING, name : STRING, wellformed : BOOLEAN]
           n == Cardinality(Matched)
           at(k) == desc.entries[order[k]].file
           line_at(k) == [sum |-> Sum(ChecksumList[at(k)].content), match |-> Part[at(k)].match,
                          name |-> Part[at(k)].name, wellformed |-> TRUE]
<1>1. desc.entries = entries /\ Len(entries) \in Nat /\ setup.algo \in {"md5", "sha256"}
  BY FooterFacts
<1>2. n \in Nat
  <2>1. IsFiniteSet(1..Len(entries)) /\ Matched \in SUBSET (1..Len(entries))
    BY <1>1, FS_Interval DEF Matched
  <2> QED
    BY <2>1, FS_Subset, FS_CardinalityType
<1>3. order \in [1..n -> Matched]
  BY DEF Ordered
<1>4. ASSUME NEW k \in 1..n
      PROVE  line_at(k) \in R /\ line_at(k).wellformed
  <2>1. PICK m : m = order[k]
    OBVIOUS
  <2>2. m \in Matched
    BY <1>3, <2>1
  <2>3. m \in 1..Len(entries) /\ entries[m].type = "FILE_MATCH"
    BY <1>1, <2>2 DEF Matched
  <2>4. entries[m].file \in 1..Len(ChecksumList) /\ ChecksumList[entries[m].file].content \in Seq(Byte)
    BY <2>3, EntryFacts
  <2>5. PICK f \in 1..Len(ChecksumList) : f = at(k) /\ ChecksumList[f].content \in Seq(Byte)
    BY <1>1, <2>1, <2>4
  <2>6. Part[f] \in [match : STRING, name : STRING]
    BY ConstantsAssumption
  <2>7. Sum(ChecksumList[f].content) \in MP!Checksum
    BY <1>1, <2>5 DEF Sum, MP!Checksum
  <2> QED
    BY <2>5, <2>6, <2>7
<1>5. Parts(order) = [k \in 1..n |-> line_at(k)]
  BY <1>3 DEF Parts
<1> HIDE DEF line_at, R, n
<1>6. Parts(order) \in [1..n -> R]
  BY <1>4, <1>5
<1>7. Parts(order) \in Seq(R) /\ Len(Parts(order)) = n
  BY <1>2, <1>6
<1> QED
  BY <1>4, <1>5, <1>7 DEF R

\* The list, the template, the mirror and the options are what jigit-mkimage expects.
LEMMA ListedInputs ==
  ASSUME EngineInv, DiskInv, TemplateInv, GenInv, app = "done", Listed
  PROVE  MP!InputsOK'
<1>1. PICK order \in Ordered(Matched) : jigdo' = [list |-> generated, parts |-> Parts(order)]
  BY DEF Listed
<1>2. /\ phase = "list" /\ opt' \in Options /\ template' = template /\ disk' = disk
      /\ rewritten' = rewritten
  BY DEF Listed
<1>3. MP!IsJigdo(jigdo')
  <2>1. jigdo'.list = generated /\ jigdo'.parts = Parts(order)
    BY <1>1
  <2>2. generated \in Seq(G!Lines)
    BY DEF GenInv
  <2>3. ASSUME NEW n \in 1..Len(generated)
        PROVE  generated[n].sum \in MP!Checksum /\ generated[n].path \in MP!FilePath
    <3>1. generated[n] \in G!Lines
      BY <2>2, ElementOfSeq
    <3>2. PICK l \in G!Lines : l = generated[n]
      BY <3>1
    <3>3. l.sum \in [alg : {Alg, "none"}, of : Seq(Byte)] /\ l.path \in STRING \X STRING
      BY DEF G!Lines
    <3>4. l.sum \in MP!Checksum
      BY <3>3, ConstantsAssumption DEF MP!Checksum
    <3> QED
      BY <3>2, <3>3, <3>4 DEF MP!FilePath, MP!NoDir
  <2>4. Len(generated) \in Nat
    BY <2>2
  <2> QED
    BY <2>1, <2>3, <2>4, PartsTyped DEF MP!IsJigdo
<1>4. opt' \in MP!AnyOption
  BY <1>2, MConstants DEF MP!ConstantsAssumption, MP!AnyOption
<1>5. MP!IsTemplate(template')
  BY <1>2 DEF TemplateInv
<1> QED
  BY <1>2, <1>3, <1>4, <1>5 DEF DiskInv, MP!InputsOK, MP!Paths

\* A program that has been started on such inputs has the invariants.
LEMMA StartedFacts == MP!Started /\ MP!InputsOK => MP!Types /\ MP!IInv
BY MConstants, MP!StartedTypes, MP!StartedInv
   DEF MP!StartedTypes, MP!StartedInv, MP!ConstantsAssumption

\* What jigit-mkimage does, and what happens to the mirror meanwhile.
LEMMA MakeSteps ==
  ASSUME [Next]_vars, phase = "make", phase' = "make"
  PROVE  MP!Step \/ MP!Rewrite \/ UNCHANGED MP!vars
<1>1. Making => MP!Step
  BY SameMaking DEF Making
<1>2. Rewriting => MP!Rewrite
  BY SameRewriting DEF Rewriting
<1>3. UNCHANGED vars => UNCHANGED MP!vars
  BY DEF vars, makeVars, MP!vars, MP!argVars, MP!mirrorVars, MP!listVars, MP!loopVars,
     MP!zipVars, MP!fileVars, MP!outVars
<1> QED
  BY <1>1, <1>2, <1>3 DEF Next, Progress, Write, Finished, LeftBehind, Summing,
     Listing, Listed, ListFailed,
     Made, Rechecked, Checked, Dumping, Dumped, Extracting, Extracted, Over

\* Each of them keeps the types, and the invariant if the template describes an image.
LEMMA StepFacts ==
  ASSUME MP!Types, MP!Step \/ MP!Rewrite \/ UNCHANGED MP!vars
  PROVE  MP!Types' /\ (MP!IInv /\ MP!Describes(template) => MP!IInv')
<1>1. CASE MP!Step
  BY <1>1, MConstants, MP!StepTypes, MP!StepInv
     DEF MP!StepTypes, MP!StepInv, MP!ConstantsAssumption
<1>2. CASE MP!Rewrite
  BY <1>2, MConstants, MP!RewriteTypes, MP!RewriteInv
     DEF MP!RewriteTypes, MP!RewriteInv, MP!ConstantsAssumption
<1>3. CASE UNCHANGED MP!vars
  BY <1>3, MConstants, MP!StutterTypes, MP!StutterInv
     DEF MP!StutterTypes, MP!StutterInv, MP!ConstantsAssumption
<1> QED
  BY <1>1, <1>2, <1>3

\* jigit-mkimage.
LEMMA NextMake ==
  ASSUME IInv, [Next]_vars
  PROVE  MakeInv'
<1> SUFFICES ASSUME phase' = "make"
             PROVE  MP!Types' /\ (Careful' /\ ReadsTrue' => MP!IInv')
  BY DEF MakeInv
<1>1. EngineInv /\ DiskInv /\ PhaseInv /\ TemplateInv /\ MakeInv /\ GenInv
  BY DEF IInv
<1>2. CASE Listed
  <2>1. phase = "list" /\ UNCHANGED runVars
    BY <1>2 DEF Listed, ListFailed, runVars
  <2>2. MP!Started' /\ app = "done"
    BY <1>1, <2>1 DEF PhaseInv, MP!Started, runVars
  <2>3. MP!InputsOK'
    BY <1>1, <1>2, <2>2, ListedInputs
  <2>4. (MP!Started /\ MP!InputsOK => MP!Types /\ MP!IInv)'
    BY StartedFacts, PTL
  <2> QED
    BY <2>2, <2>3, <2>4
<1>3. CASE ~Listed
  <2>1. phase = "make"
    BY <1>3, PhaseFrame DEF Finished, LeftBehind, ListFailed, Rechecked, Made, Checked,
       Dumped, Extracted
  <2>2. UNCHANGED writeVars
    BY <2>1, WriteFrame DEF Write
  <2>3. (Careful' <=> Careful) /\ (ReadsTrue' <=> ReadsTrue)
    BY <2>2, SameExecution
  <2>4. MP!Types' /\ (MP!IInv /\ MP!Describes(template) => MP!IInv')
    BY <1>1, <2>1, MakeSteps, StepFacts DEF MakeInv
  <2> QED
    BY <1>1, <2>1, <2>3, <2>4 DEF MakeInv, TemplateInv
<1> QED
  BY <1>2, <1>3

\* Every matched file has its line in [Parts].
LEMMA EachPart ==
  ASSUME EngineInv, app = "done", NEW order \in Ordered(Matched), NEW k \in Matched
  PROVE  \E n \in 1..Len(Parts(order)) :
           Parts(order)[n].sum = Sum(ChecksumList[entries[k].file].content)
<1> DEFINE m == Cardinality(Matched)
<1>1. desc.entries = entries /\ Len(entries) \in Nat
  BY FooterFacts
<1>2. IsFiniteSet(Matched) /\ m \in Nat
  <2>1. IsFiniteSet(1..Len(entries)) /\ Matched \in SUBSET (1..Len(entries))
    BY <1>1, FS_Interval DEF Matched
  <2> QED
    BY <2>1, FS_Subset, FS_CardinalityType
<1>3. order \in [1..m -> Matched] /\ \A i, j \in 1..m : i < j => order[i] < order[j]
  BY DEF Ordered
<1>4. Cardinality(1..m) = m
  BY <1>2, FS_Interval
<1> HIDE DEF m
<1>5. order \in Injection(1..m, Matched)
  <2>1. ASSUME NEW i \in 1..m, NEW j \in 1..m, order[i] = order[j]
        PROVE  i = j
    <3>1. order[i] \in Nat /\ order[j] \in Nat
      BY <1>3 DEF Matched
    <3>2. ~(i < j) /\ ~(j < i)
      BY <1>3, <2>1, <3>1
    <3> QED
      BY <3>2
  <2> QED
    BY <1>3, <2>1 DEF Injection, IsInjective
<1>6. order \in Surjection(1..m, Matched)
  BY <1>2, <1>4, <1>5, FS_Injection DEF m
<1>7. PICK n \in 1..m : order[n] = k
  BY <1>6 DEF Surjection
<1>8. Len(Parts(order)) = m /\ Parts(order)[n].sum = Sum(ChecksumList[entries[k].file].content)
  BY <1>1, <1>2, <1>3, <1>7 DEF Parts
<1> QED
  BY <1>8

\* The template of an application that has seen every failure can be read to its end.
LEMMA TemplateWhole ==
  ASSUME EngineInv, app = "done", Careful, NEW c \in Unreadables(Len(Blocks))
  PROVE  LET b == Template(c) IN
         /\ b.tail = "good" /\ b.corrupt = {}
         /\ MP!Start(b, Len(b.blocks) + 1) = Len(b.stream)
         /\ \A m \in 1..Len(b.blocks) : b.blocks[m] # << >>
<1>1. ~torn
  BY SameKinds DEF EngineInv, JP!IInv, JP!TrackInv
<1>2. /\ Template(c).blocks = Blocks /\ Template(c).stream = data /\ Template(c).ends = ends
      /\ Template(c).tail = "good" /\ Template(c).corrupt = c
  BY DEF Template
<1>3. c = {}
  BY <1>1 DEF Unreadables
<1>4. /\ Len(Blocks) = Len(ends) /\ Len(ends) \in Nat
      /\ IF Len(ends) = 0 THEN Len(data) = 0 ELSE ends[Len(ends)] = Len(data)
  BY BlockFacts
<1>5. MP!Start(Template(c), Len(Blocks) + 1) = Len(data)
  <2>1. CASE Len(ends) = 0
    BY <1>2, <1>4, <2>1 DEF MP!Start
  <2>2. CASE Len(ends) # 0
    <3>1. Len(ends) + 1 # 1 /\ (Len(ends) + 1) - 1 = Len(ends)
      BY <1>4, <2>2
    <3> QED
      BY <1>2, <1>4, <2>2, <3>1 DEF MP!Start
  <2> QED
    BY <2>1, <2>2
<1>6. ASSUME NEW m \in 1..Len(Blocks) PROVE Blocks[m] # << >>
  <2>1. PICK a \in Nat, b \in Nat : a < b /\ Len(Blocks[m]) = b - a
    BY <1>4, BlockFacts, ZenonT(30)
  <2>2. Len(<< >>) = 0 /\ b - a # 0
    BY <2>1
  <2> QED
    BY <2>1, <2>2
<1> QED
  BY <1>2, <1>3, <1>5, <1>6

\* The files that it names are not empty, and the .jigdo has a part for each.
LEMMA TemplateNames ==
  ASSUME EngineInv, app = "done", Careful, ReadsTrue, NEW c \in Unreadables(Len(Blocks)),
         NEW order \in Ordered(Matched), NEW k \in 1..Len(Template(c).desc),
         Template(c).desc[k].type = "file"
  PROVE  /\ Template(c).desc[k].sum.of # << >>
         /\ \E n \in 1..Len(Parts(order)) : Parts(order)[n].sum = Template(c).desc[k].sum
<1> DEFINE n == Len(entries)
<1>1. Template(c).desc = DescEntries /\ desc.entries = entries /\ n \in Nat
  BY FooterFacts DEF Template
<1>2. Len(DescEntries) = n + 1 /\ DescEntries[n + 1].type = "image"
  BY DescFacts
<1>3. k \in 1..n
  BY <1>1, <1>2
<1>4. PICK e : e = entries[k]
  OBVIOUS
<1>5. /\ e.type = "FILE_MATCH" /\ DescEntries[k].len = e.len
      /\ DescEntries[k].sum = Sum(ChecksumList[e.file].content)
      /\ DescEntries[k].sum.of = ChecksumList[e.file].content
  <2>1. DescEntries[k].type = IF e.type = "FILE_MATCH" THEN "file" ELSE "data"
    BY <1>3, <1>4, DescFacts
  <2>2. e.type = "FILE_MATCH"
    BY <1>1, <2>1
  <2> QED
    BY <1>3, <1>4, <2>2, DescFacts
<1>6. e.len \in Nat /\ e.len > 0 /\ e.at \in Nat
  BY <1>3, <1>4, <1>5, EntryFacts
<1>7. SubSeq(image, e.at + 1, e.at + e.len) = ChecksumList[e.file].content /\ e.at + e.len <= Len(image)
  BY <1>3, <1>4, <1>5, PlaceFacts
<1>8. Len(ChecksumList[e.file].content) = e.len
  <2>1. image \in Seq(Byte)
    BY FooterFacts
  <2>2. PICK a \in Nat, m \in Nat : a = e.at /\ m = e.len
    BY <1>6
  <2>3. a + m <= Len(image) /\ SubSeq(image, a + 1, a + m) = ChecksumList[e.file].content
    BY <1>7, <2>2
  <2> HIDE DEF n
  <2>4. Len(SubSeq(image, a + 1, a + m)) = m
    BY ONLY <2>1, <2>3, Behind
  <2> QED
    BY <2>2, <2>3, <2>4
<1>9. Template(c).desc[k].sum.of # << >>
  <2>1. Len(<< >>) = 0
    OBVIOUS
  <2> QED
    BY <1>1, <1>5, <1>6, <1>8, <2>1
<1>10. k \in Matched
  BY <1>1, <1>3, <1>4, <1>5 DEF Matched
<1> QED
  BY <1>1, <1>4, <1>5, <1>9, <1>10, EachPart

\* When jigit-mkimage is called and everything has gone well, nothing is in its way.
LEMMA ListedReady ==
  ASSUME IInv, Listed, Ready'
  PROVE  MP!Supplied'
<1>1. PICK order \in Ordered(Matched) : jigdo' = [list |-> generated, parts |-> Parts(order)]
  BY DEF Listed
<1>2. jigdo'.list = generated /\ jigdo'.parts = Parts(order)
  BY <1>1
<1>3. /\ phase = "list" /\ template' = template /\ disk' = disk /\ rewritten' = rewritten
      /\ UNCHANGED writeVars
  BY DEF Listed
<1>4. EngineInv /\ TemplateInv /\ ListInv /\ app = "done"
  BY <1>3 DEF IInv, PhaseInv
<1>5. Careful /\ ReadsTrue /\ Faults \subseteq {"flush"} /\ ~rewritten /\ ~opt'.missing
  BY <1>3, SameExecution DEF Ready, Undisturbed
<1>6. PICK c \in Unreadables(Len(Blocks)) : template = Template(c)
  BY <1>3, <1>4 DEF TemplateInv
<1>7. /\ template'.tail = "good" /\ ~MP!Damaged'
      /\ \A m \in 1..Len(MP!Blocks') : MP!Blocks'[m] # << >>
  BY <1>3, <1>4, <1>5, <1>6, TemplateWhole DEF MP!Damaged, MP!Blocks
<1>8. \A l : MP!Present(l)' <=> MP!Present(l)
  BY <1>3 DEF MP!Present
<1>9. \A n \in 1..Len(jigdo'.list) : MP!Present(jigdo.list[n])' \/ jigdo'.list[n].sum.of = << >>
  BY <1>2, <1>3, <1>4, <1>5, <1>8 DEF ListInv, ListTrue
<1>10. ASSUME NEW n \in 1..Len(jigdo'.parts), NEW p, p = jigdo'.parts[n]
       PROVE  /\ p.wellformed /\ MP!Hits(p)' # {}
              /\ MP!Present([path |-> MP!find_file_in_mirror(p), sum |-> p.sum])'
  <2>1. p \in [sum : MP!Checksum, match : STRING, name : STRING, wellformed : BOOLEAN]
    BY <1>2, <1>4, <1>10, PartsTyped, ElementOfSeq
  <2>2. p.wellformed
    BY <1>2, <1>4, <1>10, PartsTyped
  <2>3. /\ MP!Hits(p)' = MP!Hits(p) /\ MP!Hits(p) = M!Hits(p)
        /\ MP!find_file_in_mirror(p)' = MP!find_file_in_mirror(p)
        /\ MP!find_file_in_mirror(p) = M!find_file_in_mirror(p)
    BY <1>3 DEF MP!Hits, M!Hits, MP!find_file_in_mirror, M!find_file_in_mirror, MP!Least, M!Least
  <2>4. /\ M!Hits(p)' # {} /\ M!find_file_in_mirror(p)' \notin Unreadable
        /\ disk'[M!find_file_in_mirror(p)'] = p.sum.of
    BY <1>10 DEF Ready, Served
  <2>5. M!Hits(p)' = M!Hits(p) /\ M!find_file_in_mirror(p)' = M!find_file_in_mirror(p)
    BY <1>3 DEF M!Hits, M!find_file_in_mirror
  <2>6. MP!find_file_in_mirror(p) \in DOMAIN disk
    BY <2>1, <2>3, <2>4, <2>5, MConstants, MP!MirrorPath
       DEF MP!MirrorPath, MP!ConstantsAssumption
  <2> QED
    BY <1>3, <2>2, <2>3, <2>4, <2>5, <2>6 DEF MP!Present
<1>11. \A k \in 1..Len(MP!Desc') : MP!Desc'[k].type = "file" =>
         /\ MP!Desc'[k].sum.of # << >>
         /\ \E n \in 1..Len(jigdo'.parts) : jigdo'.parts[n].sum = MP!Desc'[k].sum
  <2>1. MP!Desc' = Template(c).desc
    BY <1>3, <1>6 DEF MP!Desc
  <2> QED
    BY <1>2, <1>4, <1>5, <2>1, TemplateNames
<1> QED
  BY <1>5, <1>7, <1>9, <1>10, <1>11 DEF MP!Supplied

\* What jigit-mkimage is given stays as it is, unless somebody writes to the mirror.
LEMMA ReadyKept ==
  ASSUME phase = "make", phase' = "make", [Next]_vars, Ready'
  PROVE  Ready /\ (MP!Supplied' <=> MP!Supplied)
<1>1. ~rewritten'
  BY DEF Ready, Undisturbed
<1>2. ~Rewriting
  BY <1>1 DEF Rewriting, M!Rewrite
<1>3. /\ opt' = opt /\ jigdo' = jigdo /\ template' = template /\ disk' = disk
      /\ rewritten' = rewritten
  BY <1>2, TemplateFrame, DiskFrame DEF Listed
<1>4. (Careful' <=> Careful) /\ (ReadsTrue' <=> ReadsTrue)
  BY WriteFrame, SameExecution DEF Write
<1>5. Served' <=> Served
  <2>1. \A p : M!Hits(p)' = M!Hits(p) /\ M!find_file_in_mirror(p)' = M!find_file_in_mirror(p)
    BY <1>3 DEF M!Hits, M!find_file_in_mirror
  <2> QED
    BY <1>3, <2>1 DEF Served
<1>6. MP!Supplied' <=> MP!Supplied
  BY <1>3, MConstants, MP!SuppliedFrame DEF MP!SuppliedFrame, MP!ConstantsAssumption
<1> QED
  BY <1>3, <1>4, <1>5, <1>6 DEF Ready, Undisturbed

\* A program that has just been started works.
LEMMA StartWorks == MP!Started => MP!Works
BY MConstants, MP!StartedWorks DEF MP!StartedWorks, MP!ConstantsAssumption

\* jigit-mkimage, when everything has gone well.
LEMMA NextReady ==
  ASSUME IInv, [Next]_vars
  PROVE  ReadyInv'
<1> SUFFICES ASSUME phase' = "make"
             PROVE  /\ Careful' /\ ReadsTrue' => MP!WorkInv'
                    /\ Ready' => MP!Supplied'
  BY DEF ReadyInv
<1>1. CASE Listed
  <2>1. phase = "list" /\ UNCHANGED runVars
    BY <1>1 DEF Listed, ListFailed, runVars
  <2>2. MP!Started'
    BY <2>1 DEF IInv, PhaseInv, MP!Started, runVars
  <2>3. (MP!Started => MP!Works)'
    BY StartWorks, PTL
  <2>4. MP!WorkInv'
    BY <2>2, <2>3 DEF MP!WorkInv
  <2> QED
    BY <1>1, <2>4, ListedReady
<1>2. CASE ~Listed
  <2>1. phase = "make"
    BY <1>2, PhaseFrame DEF Finished, LeftBehind, ListFailed, Rechecked, Made, Checked,
       Dumped, Extracted
  <2>2. (Careful' <=> Careful) /\ (ReadsTrue' <=> ReadsTrue)
    BY <2>1, WriteFrame, SameExecution DEF Write
  <2>3. ASSUME Careful', ReadsTrue' PROVE MP!WorkInv'
    <3>1. MP!IInv /\ MP!Describes(template) /\ MP!WorkInv
      BY <2>1, <2>2, <2>3 DEF IInv, MakeInv, TemplateInv, ReadyInv
    <3>2. [MP!Next]_MP!vars
      BY <2>1, MakeSteps DEF MP!Next
    <3> QED
      BY <3>1, <3>2, MConstants, MP!NextWorks DEF MP!NextWorks, MP!ConstantsAssumption
  <2>4. Ready' => MP!Supplied'
    BY <2>1, ReadyKept DEF IInv, ReadyInv
  <2> QED
    BY <2>3, <2>4
<1> QED
  BY <1>1, <1>2

\* How jigit-mkimage has ended.
LEMMA MadeReadable ==
  ASSUME ReadyInv, phase = "make"
  PROVE  Readable
<1> SUFFICES ASSUME pc = "exit", Ready
             PROVE  status = "ok"
  BY DEF Readable, Ready
<1>1. MP!WorkInv /\ MP!Supplied /\ ~rewritten
  BY DEF ReadyInv, Ready, Undisturbed
<1> QED
  BY <1>1 DEF MP!WorkInv, MP!Works

\* The image that has been made.
LEMMA MadeRight ==
  ASSUME TemplateInv, MakeInv, phase = "make"
  PROVE  Rebuilt
<1> SUFFICES ASSUME M!Written, ~M!quick, ReadsTrue, opt.verbose \/ (Careful /\ ~dropped)
             PROVE  out = image
  BY DEF Rebuilt
<1>1. MP!Written /\ ~MP!quick
  BY SameEnds
<1>2. CASE opt.verbose
  <2>1. MP!BytesOK
    BY DEF MakeInv, MP!Types
  <2>2. PICK k \in 1..Len(template.desc) :
          template.desc[k].type = "image" /\ template.desc[k].sum.of = image
    BY DEF TemplateInv
  <2>3. k \in MP!ImageEntries /\ MP!Desc[k].sum.of = image
    BY <2>2 DEF MP!ImageEntries, MP!Desc
  <2>4. MP!Compared
    BY <1>1, <1>2 DEF MP!Compared
  <2> QED
    BY <1>1, <2>1, <2>3, <2>4 DEF MP!BytesOK
<1>3. CASE Careful /\ ~dropped
  <2>1. MP!ImageRebuilt
    BY <1>3 DEF MakeInv, MP!IInv
  <2>2. out = MP!Image
    BY <1>1, <1>3, <2>1 DEF MP!ImageRebuilt
  <2> QED
    BY <2>2 DEF TemplateInv, MP!Image
<1> QED
  BY <1>2, <1>3

\* At the end nothing happens any more.
LEMMA EndFrame ==
  ASSUME [Next]_vars, phase = "end"
  PROVE  UNCHANGED vars
BY DEF Next, Progress, Write, Finished, LeftBehind, Summing, Listing, Listed,
   ListFailed, Making, Rewriting,
   Made, Rechecked, Checked, Dumping, Dumped, Extracting, Extracted, Over

\* The end.
LEMMA NextEnd ==
  ASSUME PhaseInv, TemplateInv, MakeInv, ReadyInv, EndInv, [Next]_vars
  PROVE  EndInv'
<1> SUFFICES ASSUME phase' = "end"
             PROVE  Rebuilt' /\ Readable'
  BY DEF EndInv
<1>1. ASSUME UNCHANGED makeVars, disk' = disk, UNCHANGED writeVars, Rebuilt, Readable
      PROVE  Rebuilt' /\ Readable'
  <2>1. UNCHANGED <<pc, status, lost, opt, jigdo, rewritten, dropped, out>>
    BY <1>1 DEF makeVars
  <2>2. image' = image /\ (Careful' <=> Careful) /\ (ReadsTrue' <=> ReadsTrue)
    BY <1>1, SameExecution
  <2>3. Rebuilt'
    BY <1>1, <2>1, <2>2 DEF Rebuilt, M!Written, M!quick
  <2>4. \A p : M!Hits(p)' = M!Hits(p) /\ M!find_file_in_mirror(p)' = M!find_file_in_mirror(p)
    BY <1>1 DEF M!Hits, M!find_file_in_mirror
  <2>5. Served' <=> Served
    BY <1>1, <2>1, <2>4 DEF Served
  <2>6. Readable'
    BY <1>1, <2>1, <2>2, <2>5 DEF Readable, Undisturbed
  <2> QED
    BY <2>3, <2>6
<1>2. CASE phase = "end"
  BY <1>1, <1>2, EndFrame DEF EndInv, vars
<1>3. CASE phase = "make"
  <2>1. Made
    BY <1>3, PhaseFrame DEF Finished, LeftBehind, Listed, ListFailed, Rechecked,
       Checked, Dumped, Extracted
  <2> QED
    BY <1>1, <1>3, <2>1, MadeRight, MadeReadable DEF Made
<1>4. CASE phase \notin {"make", "end"}
  <2>1. MP!Started
    BY <1>4 DEF PhaseInv
  <2>2. UNCHANGED runVars
    BY <1>4, RunFrame DEF Making
  <2> QED
    BY <2>1, <2>2 DEF MP!Started, runVars, Rebuilt, Readable, M!Written
<1> QED
  BY <1>2, <1>3, <1>4
-----------------------------------------------------------------------------
(* The invariant is preserved: jigsum. *)

\* A file that can be opened has content.
LEMMA ContentTyped ==
  ASSUME DiskInv, S!Openable
  PROVE  S!FileContent \in Seq(Byte) /\ Len(S!FileContent) \in Nat
<1>1. S!FileContent \in Seq(Byte)
  BY DEF DiskInv, S!Openable, S!FileContent
<1> QED
  BY <1>1

\* The piece of a file with content c that is read after s.
NextOf(c, s) == SubSeq(c, Len(s) + 1, IF Len(s) + ReadSize < Len(c) THEN Len(s) + ReadSize
                                                                    ELSE Len(c))

\* The piece that is read next is behind what was read.
LEMMA PieceBehind ==
  ASSUME NEW c \in Seq(Byte), NEW s \in Seq(Byte), NextOf(c, s) # << >>
  PROVE  \E b \in Len(s)..Len(c) :
           /\ NextOf(c, s) = SubSeq(c, Len(s) + 1, b)
           /\ NextOf(c, s) \in Seq(Byte) /\ Len(NextOf(c, s)) = b - Len(s)
<1>2. PICK a \in Nat, r \in Nat, n \in Nat : a = Len(s) /\ r = ReadSize /\ n = Len(c)
  <2>1. Len(s) \in Nat /\ Len(c) \in Nat
    OBVIOUS
  <2>2. ReadSize \in Nat
    BY ConstantsAssumption
  <2> QED
    BY <2>1, <2>2
<1> DEFINE b == IF a + r < n THEN a + r ELSE n
<1>3. NextOf(c, s) = SubSeq(c, a + 1, b) /\ b \in Nat /\ b <= n
  BY <1>2 DEF NextOf
<1>4. a <= b
  <2>1. SUFFICES ASSUME ~(a <= b) PROVE FALSE
    OBVIOUS
  <2>2. a + 1 > b /\ a + 1 \in Int /\ b \in Int
    BY <1>2, <1>3, <2>1
  <2> HIDE DEF b
  <2>3. SubSeq(c, a + 1, b) = << >>
    BY <2>2, SubSeqProperties
  <2> QED
    BY <1>3, <2>3
<1> HIDE DEF b
<1>5. b \in a..Len(c)
  BY <1>2, <1>3, <1>4
<1>6. SubSeq(c, a + 1, b) \in Seq(Byte) /\ Len(SubSeq(c, a + 1, b)) = b - a
  BY <1>5, Cut
<1> QED
  BY <1>2, <1>3, <1>5, <1>6

\* With it, what was read is still the beginning of the file.
LEMMA ReadOn ==
  ASSUME NEW c \in Seq(Byte), NEW s \in Seq(Byte), NextOf(c, s) # << >>
  PROVE  /\ s \o NextOf(c, s) \in Seq(Byte) /\ Len(s \o NextOf(c, s)) <= Len(c)
         /\ s = SubSeq(c, 1, Len(s)) =>
              s \o NextOf(c, s) = SubSeq(c, 1, Len(s \o NextOf(c, s)))
<1> DEFINE p == NextOf(c, s)
<1>1. PICK b \in Len(s)..Len(c) :
        p = SubSeq(c, Len(s) + 1, b) /\ p \in Seq(Byte) /\ Len(p) = b - Len(s)
  BY PieceBehind, Zenon
<1> HIDE DEF p
<1>2. PICK a \in Nat, m \in Nat : a = Len(s) /\ m = Len(c) /\ a <= b /\ b <= m
  BY <1>1
<1>3. SubSeq(c, 1, a) \o SubSeq(c, a + 1, b) = SubSeq(c, 1, b)
  <2>1. 0 + 1 = 1 /\ 0 <= a /\ a <= b /\ b \in Nat /\ 0 \in Nat /\ b <= Len(c)
    BY <1>2
  <2>2. SubSeq(c, 0 + 1, a) \o SubSeq(c, a + 1, b) = SubSeq(c, 0 + 1, b)
    BY <2>1, Joined
  <2> QED
    BY <2>1, <2>2
<1>4. s \o p \in Seq(Byte) /\ Len(s \o p) = b
  <2>1. s \o p \in Seq(Byte) /\ Len(s \o p) = Len(s) + Len(p)
    BY <1>1, ConcatProperties
  <2> QED
    BY <1>1, <1>2, <2>1
<1>5. ASSUME s = SubSeq(c, 1, Len(s))
      PROVE  s \o p = SubSeq(c, 1, b)
  BY <1>1, <1>2, <1>3, <1>5, Zenon
<1>6. /\ s \o p \in Seq(Byte) /\ Len(s \o p) <= Len(c)
      /\ s = SubSeq(c, 1, Len(s)) => s \o p = SubSeq(c, 1, Len(s \o p))
  BY <1>2, <1>4, <1>5
<1> QED
  BY <1>6 DEF p

\* When there is no further piece, all of the file has been read.
LEMMA NoMore ==
  ASSUME NEW c \in Seq(Byte), NEW s \in Seq(Byte),
         NextOf(c, s) = << >>,
         Len(s) <= Len(c), s = SubSeq(c, 1, Len(s))
  PROVE  s = c
<1>2. PICK a \in Nat, r \in Nat \ {0}, n \in Nat : a = Len(s) /\ r = ReadSize /\ n = Len(c)
  <2>1. Len(s) \in Nat /\ Len(c) \in Nat
    OBVIOUS
  <2>2. ReadSize \in Nat \ {0}
    BY ConstantsAssumption
  <2> QED
    BY <2>1, <2>2
<1> DEFINE b == IF a + r < n THEN a + r ELSE n
<1>3. SubSeq(c, a + 1, b) = << >> /\ a <= n
  BY <1>2 DEF NextOf
<1>4. a # n => a < b /\ b \in Nat /\ b <= n
  <2>1. r > 0 /\ a <= n
    BY <1>3
  <2> QED
    BY <2>1
<1> HIDE DEF b
<1>5. ASSUME a # n PROVE FALSE
  <2>1. b \in a..Len(c) /\ b - a # 0
    <3>1. b \in a..n /\ b - a # 0
      BY <1>4, <1>5
    <3> QED
      BY <1>2, <3>1
  <2>2. Len(SubSeq(c, a + 1, b)) = b - a
    BY <2>1, Cut
  <2>3. Len(<< >>) = 0
    BY EmptySeq
  <2> QED
    BY <1>3, <2>1, <2>2, <2>3
<1>8. SubSeq(c, 1, Len(c)) = c
  BY SubSeqFull
<1> QED
  BY <1>2, <1>5, <1>8

\* jigsum reads in such pieces.
LEMMA PieceTyped ==
  ASSUME DiskInv, S!Openable, fed \in Seq(Byte), S!NextPiece # << >>
  PROVE  \E b \in Len(fed)..Len(S!FileContent) :
           /\ S!NextPiece = SubSeq(S!FileContent, Len(fed) + 1, b)
           /\ S!NextPiece \in Seq(Byte) /\ Len(S!NextPiece) = b - Len(fed)
<1>1. S!FileContent \in Seq(Byte)
  BY ContentTyped
<1>2. S!NextPiece = NextOf(S!FileContent, fed)
  BY DEF S!NextPiece, NextOf
<1> QED
  BY <1>1, <1>2, PieceBehind, Zenon

\* It has read all of a file when there is no further piece.
LEMMA AllRead ==
  ASSUME DiskInv, S!Openable, fed \in Seq(Byte), S!NextPiece = << >>,
         Len(fed) <= Len(S!FileContent), fed = SubSeq(S!FileContent, 1, Len(fed))
  PROVE  fed = S!FileContent
<1>1. S!FileContent \in Seq(Byte)
  BY ContentTyped
<1>2. S!NextPiece = NextOf(S!FileContent, fed)
  BY DEF S!NextPiece, NextOf
<1> QED
  BY <1>1, <1>2, NoMore, Zenon

\* The lists to be checked.
LEMMA ListsTyped ==
  ASSUME SumInv, others \in OtherLists
  PROVE  /\ S!Lists \in Seq([there : BOOLEAN, lines : Seq(S!Lines)])
         /\ Len(S!Lists) \in Nat
<1> DEFINE L == [there : BOOLEAN, lines : Seq(S!Lines)]
<1>1. [there |-> TRUE, lines |-> printed] \in L
  BY DEF SumInv
<1>2. others \in Seq(L)
  BY ConstantsAssumption
<1> HIDE DEF L
<1>3. <<[there |-> TRUE, lines |-> printed]>> \in Seq(L)
  BY <1>1
<1>4. S!Lists \in Seq(L)
  BY <1>2, <1>3, ConcatProperties DEF S!Lists
<1> QED
  BY <1>4 DEF L

\* When a file is finished, or cannot be opened, its line is printed or not.
LEMMA DoneTyped ==
  ASSUME SumInv, S!AtFile, NEW e \in Nat, NEW sum,
         mode = "calc" /\ e = 0 => sum \in [alg : {Alg}, of : Seq(Byte)],
         S!FileDone(e, sum)
  PROVE  SumInv'
<1>1. /\ arg \in Nat \ {0} /\ line \in Nat \ {0} /\ fed \in Seq(Byte)
      /\ printed \in Seq(S!Lines) /\ sum_error \in Nat
  BY DEF SumInv
<1>2. reading' = FALSE /\ fed' = << >>
  BY DEF S!FileDone
<1>3. arg' \in Nat \ {0} /\ line' \in Nat \ {0}
  BY <1>1 DEF S!FileDone
<1>4. sum_error' \in Nat
  BY <1>1 DEF S!FileDone, S!Counted
<1>5. printed' \in Seq(S!Lines)
  <2>1. CASE mode = "calc" /\ e = 0
    <3>1. S!Path \in STRING \X STRING
      <4>1. arg \in 1..Len(SumArgs) /\ S!Path = SumArgs[arg]
        BY <1>1, <2>1, ConstantsAssumption DEF S!AtFile, S!AtLine, S!AtList, S!Path
      <4> QED
        BY <4>1, ConstantsAssumption, ElementOfSeq
    <3>2. S!Line(sum, S!Path) \in S!Lines
      BY <2>1, <3>1 DEF S!Line, S!Lines
    <3>3. printed' = Append(printed, S!Line(sum, S!Path))
      BY <2>1 DEF S!FileDone
    <3> QED
      BY <1>1, <3>2, <3>3, AppendProperties
  <2>2. CASE ~(mode = "calc" /\ e = 0)
    BY <1>1, <2>2 DEF S!FileDone
  <2> QED
    BY <2>1, <2>2
<1>6. fed' \in Seq(Byte)
  BY <1>2, EmptySeq
<1> QED
  BY <1>2, <1>3, <1>4, <1>5, <1>6 DEF SumInv

\* jigsum takes a step.
LEMMA SummingTyped ==
  ASSUME SumInv, DiskInv, S!Next
  PROVE  SumInv'
<1>1. /\ arg \in Nat \ {0} /\ line \in Nat \ {0} /\ fed \in Seq(Byte) /\ reading \in BOOLEAN
      /\ printed \in Seq(S!Lines) /\ sum_error \in Nat
      /\ reading => S!AtFile /\ S!Openable
  BY DEF SumInv
<1>2. CASE S!Open
  BY <1>1, <1>2 DEF S!Open, SumInv, S!AtFile, S!AtLine, S!AtList, S!ThisLine, S!Lists,
     S!Path, S!Openable
<1>3. CASE S!OpenFails
  <2>1. PICK e \in Nat : e # 0 /\ S!FileDone(e, << >>)
    BY <1>3 DEF S!OpenFails, S!EACCES, S!ENOENT
  <2> QED
    BY <1>3, <2>1, DoneTyped DEF S!OpenFails
<1>4. CASE S!Read
  <2>1. reading /\ S!NextPiece # << >> /\ fed' = fed \o S!NextPiece
    BY <1>4 DEF S!Read
  <2>2. S!NextPiece \in Seq(Byte)
    BY <1>1, <2>1, PieceTyped
  <2>3. fed' \in Seq(Byte)
    BY <1>1, <2>1, <2>2, ConcatProperties
  <2> QED
    BY <1>1, <1>4, <2>3 DEF S!Read, SumInv, S!AtFile, S!AtLine, S!AtList, S!ThisLine,
       S!Lists, S!Path, S!Openable
<1>5. CASE S!ReadFails
  BY <1>1, <1>5, DoneTyped DEF S!ReadFails, S!EIO
<1>6. CASE S!EndOfFile
  BY <1>1, <1>6, DoneTyped DEF S!EndOfFile
<1>7. CASE S!MalformedLine
  <2>1. ~reading
    BY <1>1, <1>7 DEF S!MalformedLine, S!AtFile, S!AtLine, S!AtList
  <2> QED
    BY <1>1, <1>7, <2>1 DEF S!MalformedLine, SumInv
<1>8. CASE S!ListFails
  <2>1. ~reading
    BY <1>1, <1>8 DEF S!ListFails, S!AtFile, S!AtLine, S!AtList
  <2> QED
    BY <1>1, <1>8, <2>1 DEF S!ListFails, SumInv, S!ENOENT
<1>9. CASE S!ListEnds
  <2>1. ~reading
    <3>1. mode = "check" /\ line > Len(S!Lists[arg].lines)
      BY <1>9 DEF S!ListEnds, S!AtList
    <3>2. ~S!AtFile
      <4>1. ~S!AtLine
        <5>1. SUFFICES ASSUME S!AtLine PROVE FALSE
          OBVIOUS
        <5>2. line <= Len(S!Lists[arg].lines)
          BY <5>1 DEF S!AtLine
        <5> QED
          BY <1>1, <3>1, <5>2
      <4> QED
        BY <3>1, <4>1 DEF S!AtFile
    <3> QED
      BY <1>1, <3>2
  <2> QED
    BY <1>1, <1>9, <2>1 DEF S!ListEnds, SumInv
<1>10. CASE S!Return
  <2>1. ~reading
    BY <1>1, <1>10 DEF S!Return, S!AtFile, S!AtLine, S!AtList
  <2> QED
    BY <1>1, <1>10, <2>1 DEF S!Return, SumInv
<1> QED
  BY <1>2, <1>3, <1>4, <1>5, <1>6, <1>7, <1>8, <1>9, <1>10 DEF S!Next

\* The state of jigsum after every step.
LEMMA NextSum ==
  ASSUME SumInv, DiskInv, [Next]_vars
  PROVE  SumInv'
<1>1. CASE Summing
  BY <1>1, SummingTyped DEF Summing
<1>2. CASE Rechecked
  <2>1. /\ arg' = 1 /\ line' = 1 /\ reading' = FALSE /\ fed' = << >> /\ sum_error' = 0
        /\ printed' = printed
    BY <1>2 DEF Rechecked
  <2>2. fed' \in Seq(Byte)
    BY <2>1, EmptySeq
  <2>3. arg' \in Nat \ {0} /\ line' \in Nat \ {0} /\ sum_error' \in Nat
    BY <2>1
  <2>4. printed' \in Seq(S!Lines)
    BY <2>1 DEF SumInv
  <2> QED
    BY <2>1, <2>2, <2>3, <2>4, Zenon DEF SumInv
<1>3. CASE UNCHANGED sumVars
  <2>1. DOMAIN disk' = DOMAIN disk
    BY DiskFrame DEF Rewriting, M!Rewrite
  <2> QED
    BY <1>3, <2>1 DEF sumVars, SumInv, S!AtFile, S!AtLine, S!AtList, S!ThisLine, S!Lists,
       S!Path, S!Openable
<1> QED
  BY <1>1, <1>2, <1>3, SumFrame
-----------------------------------------------------------------------------
(* The invariant is preserved: jigsum -c. *)

\* While lists are checked they and the mirror stay as they are.
LEMMA CheckFrame ==
  ASSUME S!Next, mode # "calc"
  PROVE  /\ disk' = disk /\ others' = others /\ printed' = printed
         /\ S!Lists' = S!Lists /\ (Reason' <=> Reason)
<1>1. disk' = disk /\ others' = others /\ printed' = printed
  BY DEF S!Next, S!Open, S!OpenFails, S!Read, S!ReadFails, S!EndOfFile,
     S!MalformedLine, S!ListFails, S!ListEnds, S!Return, S!FileDone
<1>2. S!Lists' = S!Lists
  BY <1>1 DEF S!Lists
<1>3. \A l : (LineTrue(l))' <=> LineTrue(l)
  BY <1>1 DEF LineTrue
<1>4. ToCheck' = ToCheck
  BY <1>2 DEF ToCheck
<1> QED
  BY <1>1, <1>2, <1>3, <1>4 DEF Reason

\* Where jigsum -c is in its lists.
LEMMA LineFacts ==
  ASSUME SumInv, others \in OtherLists, S!AtLine
  PROVE  /\ arg \in 1..Len(S!Lists) /\ S!Lists[arg].there
         /\ line \in 1..Len(S!Lists[arg].lines)
         /\ S!ThisLine = S!Lists[arg].lines[line] /\ S!ThisLine \in S!Lines
         /\ S!ThisLine \in ToCheck
<1>1. /\ arg \in Nat \ {0} /\ line \in Nat \ {0}
      /\ arg <= Len(S!Lists) /\ S!Lists[arg].there /\ line <= Len(S!Lists[arg].lines)
  BY DEF SumInv, S!AtLine, S!AtList
<1>2. /\ S!Lists \in Seq([there : BOOLEAN, lines : Seq(S!Lines)]) /\ Len(S!Lists) \in Nat
  BY ListsTyped
<1>3. arg \in 1..Len(S!Lists)
  BY <1>1, <1>2
<1>4. S!Lists[arg] \in [there : BOOLEAN, lines : Seq(S!Lines)]
  BY <1>2, <1>3, ElementOfSeq
<1>5. PICK ls \in Seq(S!Lines) : ls = S!Lists[arg].lines
  BY <1>4
<1>6. Len(ls) \in Nat
  OBVIOUS
<1>7. line \in 1..Len(ls)
  BY <1>1, <1>5, <1>6
<1>8. S!ThisLine = ls[line]
  BY <1>5 DEF S!ThisLine
<1>9. ls[line] \in S!Lines
  BY <1>7, ElementOfSeq
<1>10. ls[line] \in ToCheck
  BY <1>1, <1>3, <1>5, <1>7 DEF ToCheck
<1> QED
  BY <1>1, <1>3, <1>5, <1>7, <1>8, <1>9, <1>10

\* A line that is not true, or whose file could not be read, is a reason to
\* complain.
LEMMA LineReason ==
  ASSUME SumInv, others \in OtherLists, S!AtLine, S!ThisLine.wellformed,
         ~LineTrue(S!ThisLine) \/ S!ThisLine.path \in Broken
  PROVE  Reason
BY LineFacts DEF Reason

\* A line has been dealt with and nothing was wrong with it.
LEMMA SeenLine ==
  ASSUME SumInv, others \in OtherLists, SeenTrue, S!AtLine,
         S!ThisLine.wellformed => LineTrue(S!ThisLine),
         S!Lists' = S!Lists, disk' = disk, arg' = arg, line' = line + 1
  PROVE  SeenTrue'
<1>1. \A l : (LineTrue(l))' <=> LineTrue(l)
  BY DEF LineTrue
<1>2. /\ arg \in 1..Len(S!Lists) /\ line \in 1..Len(S!Lists[arg].lines)
      /\ S!ThisLine = S!Lists[arg].lines[line] /\ line \in Nat
  BY LineFacts DEF SumInv
<1>3. ASSUME NEW k \in 1..Len(S!Lists)
      PROVE  /\ k < arg => S!Lists[k].there
             /\ \A n \in 1..Len(S!Lists[k].lines) :
                  (k < arg \/ (k = arg /\ n < line + 1)) /\ S!Lists[k].lines[n].wellformed
                    => LineTrue(S!Lists[k].lines[n])
  <2>1. k < arg => S!Lists[k].there
    BY DEF SeenTrue
  <2>2. ASSUME NEW n \in 1..Len(S!Lists[k].lines), S!Lists[k].lines[n].wellformed,
               k < arg \/ (k = arg /\ n < line + 1)
        PROVE  LineTrue(S!Lists[k].lines[n])
    <3>1. CASE k = arg /\ n = line
      BY <1>2, <2>2, <3>1
    <3>2. CASE ~(k = arg /\ n = line)
      <4>1. n < line + 1 /\ n # line => n < line
        BY <1>2
      <4>2. Seen(k, n)
        BY <2>2, <3>2, <4>1 DEF Seen
      <4> QED
        BY <2>2, <4>2 DEF SeenTrue
    <3> QED
      BY <3>1, <3>2
  <2> QED
    BY <2>1, <2>2
<1> QED
  BY <1>1, <1>3 DEF SeenTrue, Seen

\* A list has been dealt with.
LEMMA SeenList ==
  ASSUME SumInv, others \in OtherLists, SeenTrue, S!AtList,
         line > Len(S!Lists[arg].lines),
         S!Lists' = S!Lists, disk' = disk, arg' = arg + 1, line' = 1
  PROVE  SeenTrue'
<1>1. \A l : (LineTrue(l))' <=> LineTrue(l)
  BY DEF LineTrue
<1>2. /\ arg \in Nat /\ line \in Nat /\ arg \in 1..Len(S!Lists) /\ S!Lists[arg].there
      /\ S!Lists \in Seq([there : BOOLEAN, lines : Seq(S!Lines)])
  BY ListsTyped DEF SumInv, S!AtList
<1>3. Len(S!Lists[arg].lines) \in Nat
  <2>1. S!Lists[arg] \in [there : BOOLEAN, lines : Seq(S!Lines)]
    BY <1>2, ElementOfSeq
  <2>2. PICK ls \in Seq(S!Lines) : ls = S!Lists[arg].lines
    BY <2>1
  <2> QED
    BY <2>2
<1>4. ASSUME NEW k \in 1..Len(S!Lists)
      PROVE  /\ k < arg + 1 => S!Lists[k].there
             /\ \A n \in 1..Len(S!Lists[k].lines) :
                  (k < arg + 1 \/ (k = arg + 1 /\ n < 1)) /\ S!Lists[k].lines[n].wellformed
                    => LineTrue(S!Lists[k].lines[n])
  <2>1. k < arg + 1 <=> k < arg \/ k = arg
    BY <1>2
  <2>2. k < arg + 1 => S!Lists[k].there
    BY <1>2, <2>1 DEF SeenTrue
  <2>3. ASSUME NEW n \in 1..Len(S!Lists[k].lines), S!Lists[k].lines[n].wellformed,
               k < arg + 1 \/ (k = arg + 1 /\ n < 1)
        PROVE  LineTrue(S!Lists[k].lines[n])
    <3>1. k < arg \/ k = arg
      BY <2>1, <2>3
    <3>2. k = arg => n < line
      BY <1>2, <1>3
    <3>3. Seen(k, n)
      BY <3>1, <3>2 DEF Seen
    <3> QED
      BY <2>3, <3>3 DEF SeenTrue
  <2> QED
    BY <2>2, <2>3
<1> QED
  BY <1>1, <1>4 DEF SeenTrue, Seen

\* The file of a line has been read, or could not be: an error is counted if and
\* only if the line is not true or the file cannot be read.
LEMMA CheckedLine ==
  ASSUME SumInv, others \in OtherLists, mode = "check", S!AtLine, S!ThisLine.wellformed,
         sum_error = 0 => SeenTrue, sum_error # 0 => Reason,
         NEW e \in Nat, NEW sum, S!FileDone(e, sum),
         S!Lists' = S!Lists, disk' = disk, Reason' <=> Reason,
         e # 0 => ~LineTrue(S!ThisLine) \/ S!ThisLine.path \in Broken,
         e = 0 => (sum = S!ThisLine.sum <=> LineTrue(S!ThisLine))
  PROVE  /\ reading' = FALSE /\ fed' = << >> /\ mode' = "check"
         /\ sum_error' = 0 => SeenTrue'
         /\ sum_error' # 0 => Reason'
<1>1. reading' = FALSE /\ fed' = << >> /\ mode' = "check" /\ arg' = arg /\ line' = line + 1
  BY DEF S!FileDone
<1>2. sum_error \in Nat
  BY DEF SumInv
<1>3. sum_error' = sum_error + (IF e # 0 THEN e ELSE IF sum # S!ThisLine.sum THEN 1 ELSE 0)
  BY DEF S!FileDone, S!Counted
<1>4. CASE e = 0 /\ sum = S!ThisLine.sum
  <2>1. sum_error' = sum_error /\ LineTrue(S!ThisLine)
    BY <1>2, <1>3, <1>4
  <2> QED
    BY <1>1, <2>1, SeenLine
<1>5. CASE ~(e = 0 /\ sum = S!ThisLine.sum)
  <2>1. sum_error' # 0
    BY <1>2, <1>3, <1>5
  <2>2. Reason
    BY <1>5, LineReason
  <2> QED
    BY <1>1, <2>1, <2>2
<1> QED
  BY <1>4, <1>5

\* A line is true if and only if its file can be opened and has the content that it
\* says.
LEMMA LineOf ==
  ASSUME mode = "check"
  PROVE  LineTrue(S!ThisLine) <=> S!Openable /\ S!ThisLine.sum.of = S!FileContent
BY DEF LineTrue, S!Openable, S!FileContent, S!Path

\* jigsum -c takes a step.
LEMMA CheckStep ==
  ASSUME SumInv, DiskInv, others \in OtherLists, Checks, S!Next
  PROVE  Checks'
<1>1. /\ arg \in Nat \ {0} /\ line \in Nat \ {0} /\ fed \in Seq(Byte) /\ reading \in BOOLEAN
      /\ sum_error \in Nat /\ reading => S!AtFile /\ S!Openable
  BY DEF SumInv
<1>2. /\ mode \in {"check", "ended"} /\ mode # "calc"
      /\ sum_error = 0 => SeenTrue
      /\ sum_error # 0 => Reason
      /\ ~reading => fed = << >>
      /\ reading => Len(fed) <= Len(S!FileContent) /\ fed = SubSeq(S!FileContent, 1, Len(fed))
  BY DEF Checks
<1>3. /\ disk' = disk /\ others' = others /\ printed' = printed
      /\ S!Lists' = S!Lists /\ (Reason' <=> Reason)
  BY <1>2, CheckFrame
<1>4. S!AtFile => mode = "check" /\ S!AtLine /\ S!ThisLine.wellformed
  BY <1>2 DEF S!AtFile, S!AtLine, S!AtList
<1>5. S!AtList => arg \in 1..Len(S!Lists)
  BY <1>1, ListsTyped DEF S!AtList
<1>6. reading => /\ mode = "check" /\ S!AtLine /\ S!AtList /\ S!ThisLine.wellformed
                  /\ S!Openable
  <2>1. reading => S!AtFile /\ S!Openable
    BY DEF SumInv
  <2> QED
    BY <1>4, <2>1 DEF S!AtLine
<1>7. sum_error \in Nat /\ line \in Nat
  BY DEF SumInv
<1>8. ASSUME arg' = arg, line' = line
      PROVE  SeenTrue' <=> SeenTrue
  <2>1. \A l : (LineTrue(l))' <=> LineTrue(l)
    BY <1>3 DEF LineTrue
  <2> QED
    BY <1>3, <1>8, <2>1 DEF SeenTrue, Seen
<1>9. ASSUME mode' = mode, arg' = arg, line' = line
      PROVE  S!FileContent' = S!FileContent
  BY <1>3, <1>9 DEF S!FileContent, S!Path, S!ThisLine
<1>10. CASE S!Open
  <2>1. /\ reading' = TRUE /\ fed' = << >> /\ mode' = mode /\ arg' = arg /\ line' = line
        /\ sum_error' = sum_error /\ mode = "check" /\ S!Openable
    BY <1>2, <1>4, <1>10 DEF S!Open
  <2>2. S!FileContent' = S!FileContent
    BY <1>9, <2>1
  <2>3. Len(S!FileContent) \in Nat
    BY <2>1, ContentTyped
  <2>4. Len(<< >>) = 0 /\ SubSeq(S!FileContent, 1, 0) = << >>
    BY SubSeqEmpty
  <2>5. Len(fed') <= Len(S!FileContent') /\ fed' = SubSeq(S!FileContent', 1, Len(fed'))
    BY <2>1, <2>2, <2>3, <2>4
  <2> QED
    BY <1>2, <1>3, <1>8, <2>1, <2>5 DEF Checks
<1>11. CASE S!OpenFails
  <2>1. mode = "check" /\ S!AtLine /\ S!ThisLine.wellformed /\ ~S!Openable
    BY <1>4, <1>11 DEF S!OpenFails
  <2>2. PICK e \in Nat : e # 0 /\ S!FileDone(e, << >>)
    BY <1>11 DEF S!OpenFails, S!EACCES, S!ENOENT
  <2>3. ~LineTrue(S!ThisLine)
    BY <2>1, LineOf
  <2>4. /\ reading' = FALSE /\ fed' = << >> /\ mode' = "check"
        /\ sum_error' = 0 => SeenTrue'
        /\ sum_error' # 0 => Reason'
    BY <1>2, <1>3, <2>1, <2>2, <2>3, CheckedLine
  <2> QED
    BY <2>4 DEF Checks
<1>12. CASE S!Read
  <2>1. /\ reading /\ reading' = reading /\ fed' = fed \o S!NextPiece
        /\ mode' = mode /\ arg' = arg /\ line' = line /\ sum_error' = sum_error
        /\ S!NextPiece # << >>
    BY <1>12 DEF S!Read
  <2>2. S!FileContent' = S!FileContent /\ S!Openable /\ mode = "check"
    BY <1>9, <1>6, <2>1
  <2>3. PICK c \in Seq(Byte) : c = S!FileContent
    BY <2>2, ContentTyped
  <2>4. PICK b \in Len(fed)..Len(c) :
          /\ S!NextPiece = SubSeq(c, Len(fed) + 1, b)
          /\ S!NextPiece \in Seq(Byte) /\ Len(S!NextPiece) = b - Len(fed)
    BY <1>1, <2>1, <2>2, <2>3, PieceTyped
  <2>5. PICK a \in Nat, m \in Nat : a = Len(fed) /\ m = Len(c) /\ a <= b /\ b <= m
    BY <1>1
  <2>6. fed = SubSeq(c, 1, a)
    BY <1>2, <2>1, <2>3, <2>5
  <2>7. SubSeq(c, 1, a) \o SubSeq(c, a + 1, b) = SubSeq(c, 1, b)
    <3>1. 0 + 1 = 1 /\ 0 <= a /\ a <= b /\ b \in Nat /\ 0 \in Nat /\ b <= Len(c)
      BY <2>5
    <3>2. SubSeq(c, 0 + 1, a) \o SubSeq(c, a + 1, b) = SubSeq(c, 0 + 1, b)
      BY <3>1, Joined
    <3> QED
      BY <3>1, <3>2
  <2>8. fed' = SubSeq(c, 1, b)
    BY <2>1, <2>4, <2>5, <2>6, <2>7
  <2>9. Len(fed') = b
    <3>1. Len(fed') = Len(fed) + Len(S!NextPiece)
      BY <1>1, <2>1, <2>4, ConcatProperties
    <3> QED
      BY <2>4, <2>5, <3>1
  <2>10. Len(fed') <= Len(S!FileContent') /\ fed' = SubSeq(S!FileContent', 1, Len(fed'))
    BY <2>2, <2>3, <2>5, <2>8, <2>9
  <2> QED
    BY <1>2, <1>3, <1>8, <2>1, <2>2, <2>10 DEF Checks
<1>13. CASE S!ReadFails
  <2>1. mode = "check" /\ S!AtLine /\ S!ThisLine.wellformed /\ S!ThisLine.path \in Broken
    BY <1>13, <1>6 DEF S!ReadFails, S!Path
  <2>2. PICK e \in Nat : e # 0 /\ S!FileDone(e, << >>)
    BY <1>13 DEF S!ReadFails, S!EIO
  <2>3. /\ reading' = FALSE /\ fed' = << >> /\ mode' = "check"
        /\ sum_error' = 0 => SeenTrue'
        /\ sum_error' # 0 => Reason'
    BY <1>2, <1>3, <2>1, <2>2, CheckedLine
  <2> QED
    BY <2>3 DEF Checks
<1>14. CASE S!EndOfFile
  <2> DEFINE sum == [alg |-> Alg, of |-> fed]
  <2>1. /\ mode = "check" /\ S!AtLine /\ S!ThisLine.wellformed /\ S!Openable
        /\ reading /\ S!NextPiece = << >> /\ S!FileDone(0, sum)
    BY <1>14, <1>6 DEF S!EndOfFile
  <2>2. PICK c \in Seq(Byte) : c = S!FileContent
    BY <2>1, ContentTyped
  <2>3. Len(fed) <= Len(c) /\ fed = SubSeq(c, 1, Len(fed))
    BY <1>2, <2>1, <2>2
  <2>4. fed = c
    BY <1>1, <2>1, <2>2, <2>3, AllRead
  <2>5. sum = S!ThisLine.sum <=> LineTrue(S!ThisLine)
    <3>1. S!ThisLine \in S!Lines
      BY <2>1, LineFacts
    <3>2. S!ThisLine.sum \in [alg : {Alg}, of : Seq(Byte)]
      BY <3>1 DEF S!Lines
    <3>3. sum = S!ThisLine.sum <=> fed = S!ThisLine.sum.of
      BY <3>2
    <3> QED
      BY <2>1, <2>2, <2>4, <3>3, LineOf
  <2> HIDE DEF sum
  <2>6. /\ reading' = FALSE /\ fed' = << >> /\ mode' = "check"
        /\ sum_error' = 0 => SeenTrue'
        /\ sum_error' # 0 => Reason'
    BY <1>2, <1>3, <2>1, <2>5, CheckedLine
  <2> QED
    BY <2>6 DEF Checks
<1>15. CASE S!MalformedLine
  <2>1. /\ S!AtLine /\ ~S!ThisLine.wellformed /\ line' = line + 1 /\ arg' = arg
        /\ reading' = reading /\ fed' = fed /\ mode' = mode /\ sum_error' = sum_error
    BY <1>15 DEF S!MalformedLine
  <2>2. ~reading /\ mode = "check"
    BY <1>6, <2>1 DEF S!AtLine, S!AtList
  <2>3. SeenTrue => SeenTrue'
    BY <1>3, <2>1, SeenLine
  <2> QED
    BY <1>2, <1>3, <2>1, <2>2, <2>3 DEF Checks
<1>16. CASE S!ListFails
  <2>1. /\ mode = "check" /\ arg <= Len(S!Lists) /\ ~S!Lists[arg].there
        /\ sum_error' = sum_error + 2 /\ reading' = reading /\ fed' = fed /\ mode' = mode
    BY <1>16 DEF S!ListFails, S!ENOENT
  <2>2. ~reading
    BY <1>6, <2>1 DEF S!AtList
  <2>3. sum_error' # 0
    BY <1>7, <2>1
  <2>4. Reason
    <3>1. arg \in 1..Len(S!Lists)
      BY <1>1, <2>1, ListsTyped
    <3> QED
      BY <2>1, <3>1 DEF Reason
  <2> QED
    BY <1>2, <1>3, <2>1, <2>2, <2>3, <2>4 DEF Checks
<1>17. CASE S!ListEnds
  <2>1. /\ S!AtList /\ line > Len(S!Lists[arg].lines) /\ arg' = arg + 1 /\ line' = 1
        /\ reading' = reading /\ fed' = fed /\ mode' = mode /\ sum_error' = sum_error
    BY <1>17 DEF S!ListEnds
  <2>2. ~reading /\ mode = "check"
    <3>1. ~S!AtLine
      <4>1. SUFFICES ASSUME S!AtLine PROVE FALSE
        OBVIOUS
      <4>2. line \in 1..Len(S!Lists[arg].lines)
        BY <4>1, LineFacts
      <4> QED
        BY <1>7, <2>1, <4>2
    <3> QED
      BY <1>6, <2>1, <3>1 DEF S!AtList
  <2>3. SeenTrue => SeenTrue'
    BY <1>3, <2>1, SeenList
  <2> QED
    BY <1>2, <1>3, <2>1, <2>2, <2>3 DEF Checks
<1>18. CASE S!Return
  <2>1. /\ mode = "check" /\ arg > Len(S!Lists) /\ arg' = arg /\ line' = line
        /\ mode' = "ended" /\ exit_status' = sum_error % Statuses
        /\ reading' = reading /\ fed' = fed /\ sum_error' = sum_error
    BY <1>2, <1>18 DEF S!Return
  <2>2. ~reading
    <3>1. ~S!AtList
      <4>1. SUFFICES ASSUME S!AtList PROVE FALSE
        OBVIOUS
      <4> QED
        BY <1>1, <1>5, <2>1, <4>1, ListsTyped
    <3> QED
      BY <1>6, <3>1
  <2> QED
    BY <1>2, <1>3, <1>8, <2>1, <2>2 DEF Checks
<1> QED
  BY <1>10, <1>11, <1>12, <1>13, <1>14, <1>15, <1>16, <1>17, <1>18 DEF S!Next

\* jigsum -c after every step.
LEMMA NextCheck ==
  ASSUME SumInv, DiskInv, CheckInv, [Next]_vars
  PROVE  CheckInv'
<1> SUFFICES ASSUME phase' = "check"
             PROVE  others' \in OtherLists /\ Checks'
  BY DEF CheckInv
<1>1. CASE Rechecked
  <2>1. /\ mode' = "check" /\ arg' = 1 /\ line' = 1 /\ reading' = FALSE
        /\ fed' = << >> /\ sum_error' = 0 /\ others' \in OtherLists
    BY <1>1 DEF Rechecked
  <2>2. SeenTrue'
    <3>1. \A k \in 1..Len(S!Lists') : \A n \in 1..Len(S!Lists'[k].lines) :
            ~(k < 1) /\ ~(k = 1 /\ n < 1)
      OBVIOUS
    <3> QED
      BY <2>1, <3>1 DEF SeenTrue, Seen
  <2> QED
    BY <2>1, <2>2 DEF Checks
<1>2. CASE ~Rechecked
  <2>1. phase = "check"
    BY <1>2, PhaseFrame DEF Finished, LeftBehind, Listed, ListFailed, Made, Checked,
       Dumped, Extracted
  <2>2. others \in OtherLists /\ Checks
    BY <2>1 DEF CheckInv
  <2>3. CASE Summing
    <3>1. S!Next /\ mode # "calc"
      BY <2>2, <2>3 DEF Summing, Checks
    <3>2. others' = others
      BY <3>1, CheckFrame
    <3> QED
      BY <2>2, <3>1, <3>2, CheckStep
  <2>4. CASE UNCHANGED sumVars
    <3>1. disk' = disk
      BY <2>1, DiskFrame DEF Rewriting
    <3>2. /\ mode' = mode /\ arg' = arg /\ line' = line /\ reading' = reading /\ fed' = fed
          /\ printed' = printed /\ others' = others /\ sum_error' = sum_error
          /\ exit_status' = exit_status
      BY <2>4 DEF sumVars
    <3>3. \A l : (LineTrue(l))' <=> LineTrue(l)
      BY <3>1 DEF LineTrue
    <3>4. S!Lists' = S!Lists
      BY <3>2 DEF S!Lists
    <3>5. ToCheck' = ToCheck
      BY <3>4 DEF ToCheck
    <3>6. (SeenTrue' <=> SeenTrue) /\ (Reason' <=> Reason)
      BY <3>2, <3>3, <3>4, <3>5 DEF SeenTrue, Seen, Reason
    <3>7. S!FileContent' = S!FileContent
      BY <3>1, <3>2, <3>4 DEF S!FileContent, S!Path, S!ThisLine
    <3> QED
      BY <2>2, <3>2, <3>4, <3>6, <3>7 DEF Checks
  <2> QED
    BY <1>2, <2>3, <2>4, SumFrame
<1> QED
  BY <1>1, <1>2
-----------------------------------------------------------------------------
(* The invariant is preserved: jigdo-gen-checksum-list. *)

\* A line is printed: the file that was read is the only one it could be wrong about.
LEMMA AddLineTyped ==
  ASSUME GenInv, G!Open \/ item # G!NoItem,
         NEW sum \in [alg : {Alg, "none"}, of : Seq(Byte)], G!AddLine(sum)
  PROVE  GenInv'
<1> DEFINE l == [sum |-> sum, path |-> item]
<1>1. item \in STRING \X STRING
  BY DEF GenInv, G!Open
<1>2. l \in G!Lines
  BY <1>1 DEF G!Lines
<1>3. generated' = Append(generated, l) /\ item' = G!NoItem /\ summed' = << >>
  BY DEF G!AddLine
<1> HIDE DEF l
<1>4. generated' \in Seq(G!Lines)
  BY <1>2, <1>3, AppendProperties DEF GenInv
<1>5. summed' \in Seq(Byte)
  BY <1>3, EmptySeq
<1>6. UNCHANGED <<disk, gen_arg, items, gen_state>>
  BY DEF G!AddLine
<1> QED
  BY <1>3, <1>4, <1>5, <1>6 DEF GenInv

\* The next piece of the file is read.
LEMMA ReadPieceFacts ==
  ASSUME GenInv, DiskInv, G!ReadPiece
  PROVE  /\ summed' \in Seq(Byte)
         /\ summed = SubSeq(disk[item], 1, Len(summed)) =>
              /\ Len(summed') <= Len(disk[item])
              /\ summed' = SubSeq(disk[item], 1, Len(summed'))
<1>1. item \in DOMAIN disk /\ G!NextPiece # << >> /\ summed' = summed \o G!NextPiece
  BY DEF G!ReadPiece, G!Open, GenInv
<1>2. disk[item] \in Seq(Byte) /\ summed \in Seq(Byte)
  BY <1>1 DEF DiskInv, GenInv
<1>3. G!NextPiece = NextOf(disk[item], summed)
  BY DEF G!NextPiece, NextOf
<1> QED
  BY <1>1, <1>2, <1>3, ReadOn, Zenon

\* What it is about to list and what it has printed stay of their types.
LEMMA NextGen ==
  ASSUME GenInv, DiskInv, [Next]_vars
  PROVE  GenInv'
<1>1. CASE Listing
  <2>1. G!Next /\ disk' = disk
    BY <1>1, DiskFrame DEF Listing, Rewriting, makeVars, M!Rewrite
  <2>2. CASE G!Directory \/ G!RegularFile
    <3>1. /\ gen_arg \in 1..Len(GenArgs) /\ gen_arg' = gen_arg + 1
          /\ UNCHANGED <<item, summed, generated, gen_state>>
      BY <2>2, ConstantsAssumption DEF GenInv, G!AtArgument, G!Directory, G!RegularFile
    <3>2. G!Argument \in STRING \X STRING
      BY <3>1, ConstantsAssumption, ElementOfSeq DEF G!Argument
    <3>3. items' \subseteq DOMAIN disk \cap (STRING \X STRING)
      <4>1. CASE G!Directory
        BY <4>1, ConstantsAssumption DEF G!Directory
      <4>2. CASE G!RegularFile
        BY <3>2, <4>2 DEF G!RegularFile
      <4> QED
        BY <2>2, <4>1, <4>2
    <3> QED
      BY <2>1, <3>1, <3>3 DEF GenInv
  <2>3. CASE G!Usage \/ G!ExitOk
    BY <2>1, <2>3 DEF G!Usage, G!ExitOk, GenInv
  <2>4. CASE G!NextItem
    BY <2>1, <2>4 DEF G!NextItem, GenInv
  <2>5. CASE G!ReadPiece
    <3>1. summed' \in Seq(Byte)
      BY <2>5, ReadPieceFacts
    <3> QED
      BY <2>1, <2>5, <3>1 DEF G!ReadPiece, GenInv
  <2>6. CASE G!Summed
    <3>1. [alg |-> Alg, of |-> summed] \in [alg : {Alg, "none"}, of : Seq(Byte)]
      BY DEF GenInv
    <3> QED
      BY <2>6, <3>1, AddLineTyped DEF G!Summed
  <2>7. CASE G!SumFails
    <3>1. G!NoDigits \in [alg : {Alg, "none"}, of : Seq(Byte)]
      BY EmptySeq DEF G!NoDigits
    <3> QED
      BY <2>7, <3>1, AddLineTyped DEF G!SumFails
  <2> QED
    BY <2>1, <2>2, <2>3, <2>4, <2>5, <2>6, <2>7 DEF G!Next
<1>2. CASE UNCHANGED genVars
  <2>1. /\ UNCHANGED <<gen_arg, items, item, summed, generated, gen_state>>
        /\ DOMAIN disk' = DOMAIN disk
    <3>1. DOMAIN disk' = DOMAIN disk
      <4>1. CASE Rewriting
        BY <4>1 DEF Rewriting, M!Rewrite
      <4>2. CASE ~Rewriting
        BY <4>2, DiskFrame
      <4> QED
        BY <4>1, <4>2
    <3> QED
      BY <1>2, <3>1 DEF genVars
  <2> QED
    BY <2>1 DEF GenInv
<1> QED
  BY <1>1, <1>2, GenFrame

\* A line that is true, or has no checksum of anything, is added.
LEMMA AddLineTrue ==
  ASSUME GenInv, ListTrue, NEW sum, G!AddLine(sum),
         MP!Present([sum |-> sum, path |-> item]) \/ sum.of = << >>
  PROVE  ListTrue'
<1> DEFINE l == [sum |-> sum, path |-> item]
<1>1. /\ generated' = Append(generated, l) /\ item' = G!NoItem /\ summed' = << >>
      /\ disk' = disk
  BY DEF G!AddLine
<1>2. l.sum.of = sum.of
  OBVIOUS
<1>3. generated \in Seq(G!Lines) /\ Len(generated) \in Nat
  BY DEF GenInv
<1>4. MP!Present(l) \/ l.sum.of = << >>
  BY <1>2
<1> HIDE DEF l
<1>5. /\ Len(generated') = Len(generated) + 1
      /\ \A n \in 1..Len(generated) : generated'[n] = generated[n]
      /\ generated'[Len(generated) + 1] = l
  BY <1>1, <1>3, AppendProperties
<1>6. \A n \in 1..Len(generated') : MP!Present(generated'[n]) \/ generated'[n].sum.of = << >>
  <2> TAKE n \in 1..Len(generated')
  <2>1. n \in 1..Len(generated) \/ n = Len(generated) + 1
    BY <1>3, <1>5
  <2> QED
    BY <1>4, <1>5, <2>1 DEF ListTrue
<1>7. \A n \in 1..Len(generated') : MP!Present(generated[n])' \/ generated'[n].sum.of = << >>
  BY <1>1, <1>6 DEF MP!Present
<1>8. ~G!Open'
  BY <1>1 DEF G!Open
<1> QED
  BY <1>1, <1>7, <1>8 DEF ListTrue

\* jigdo-gen-checksum-list takes a step.
LEMMA ListStep ==
  ASSUME GenInv, DiskInv, ListTrue, G!Next, disk' = disk
  PROVE  ListTrue'
<1>1. \A l : MP!Present(l)' <=> MP!Present(l)
  BY DEF MP!Present
<1>2. ASSUME generated' = generated
      PROVE  \A n \in 1..Len(generated') :
               MP!Present(generated[n])' \/ generated'[n].sum.of = << >>
  BY <1>1, <1>2 DEF ListTrue
<1>3. CASE G!Directory \/ G!RegularFile \/ G!Usage \/ G!ExitOk
  <2>1. UNCHANGED <<item, summed, generated>>
    BY <1>3 DEF G!Directory, G!RegularFile, G!Usage, G!ExitOk
  <2> QED
    BY <1>2, <2>1 DEF ListTrue, G!Open
<1>4. CASE G!NextItem
  <2>1. summed = << >> /\ summed' = << >> /\ generated' = generated
    BY <1>4 DEF G!NextItem, G!Open, ListTrue
  <2>2. item' \in DOMAIN disk
    BY <1>4 DEF G!NextItem, GenInv
  <2>3. PICK c \in Seq(Byte) : c = disk[item']
    BY <2>2 DEF DiskInv
  <2>4. Len(<< >>) = 0 /\ SubSeq(c, 1, 0) = << >> /\ 0 <= Len(c)
    BY SubSeqEmpty
  <2> QED
    BY <1>2, <2>1, <2>3, <2>4 DEF ListTrue
<1>5. CASE G!ReadPiece
  <2>1. G!Open /\ item' = item /\ generated' = generated /\ (G!Open' <=> G!Open)
    BY <1>5 DEF G!ReadPiece, G!Open
  <2>2. /\ Len(summed') <= Len(disk[item])
        /\ summed' = SubSeq(disk[item], 1, Len(summed'))
    BY <1>5, <2>1, ReadPieceFacts DEF ListTrue
  <2> QED
    BY <1>2, <2>1, <2>2 DEF ListTrue
<1>6. CASE G!Summed
  <2> DEFINE sum == [alg |-> Alg, of |-> summed]
  <2>1. /\ G!Open /\ G!NextPiece = << >> /\ G!AddLine(sum) /\ item \in DOMAIN disk
        /\ summed \in Seq(Byte)
    BY <1>6 DEF G!Summed, G!Open, GenInv
  <2>2. disk[item] \in Seq(Byte)
    BY <2>1 DEF DiskInv
  <2>3. /\ NextOf(disk[item], summed) = << >>
        /\ Len(summed) <= Len(disk[item]) /\ summed = SubSeq(disk[item], 1, Len(summed))
    BY <2>1 DEF G!NextPiece, NextOf, ListTrue
  <2>4. summed = disk[item]
    BY <2>1, <2>2, <2>3, NoMore, Zenon
  <2>5. MP!Present([sum |-> sum, path |-> item])
    BY <2>1, <2>4 DEF G!Open, MP!Present
  <2> HIDE DEF sum
  <2> QED
    BY <2>1, <2>5, AddLineTrue
<1>7. CASE G!SumFails
  <2>1. G!AddLine(G!NoDigits) /\ G!NoDigits.of = << >>
    BY <1>7 DEF G!SumFails, G!NoDigits
  <2> QED
    BY <2>1, AddLineTrue
<1> QED
  BY <1>3, <1>4, <1>5, <1>6, <1>7 DEF G!Next

\* The list for -f, after every step.
LEMMA NextList ==
  ASSUME GenInv, DiskInv, ListInv, [Next]_vars
  PROVE  ListInv'
<1> SUFFICES ASSUME phase' \in {"write", "list"}
             PROVE  rewritten' \/ ListTrue'
  BY DEF ListInv
<1>1. phase \in {"write", "list"}
  BY PhaseFrame DEF Finished, LeftBehind, Listed, ListFailed, Rechecked, Made, Checked,
     Dumped, Extracted
<1>2. rewritten \/ ListTrue
  BY <1>1 DEF ListInv
<1>3. CASE Rewriting
  BY <1>3 DEF Rewriting, M!Rewrite
<1>4. CASE ~Rewriting
  <2>1. disk' = disk /\ rewritten' = rewritten
    BY <1>4, DiskFrame
  <2>2. CASE Listing
    BY <1>2, <2>1, <2>2, ListStep DEF Listing
  <2>3. CASE UNCHANGED genVars
    <3>1. UNCHANGED <<item, summed, generated>>
      BY <2>3 DEF genVars
    <3>2. \A l : MP!Present(l)' <=> MP!Present(l)
      BY <2>1 DEF MP!Present
    <3> QED
      BY <1>2, <2>1, <3>1, <3>2 DEF ListTrue, G!Open
  <2> QED
    BY <2>2, <2>3, GenFrame
<1> QED
  BY <1>3, <1>4

\* At first nothing is printed.
LEMMA InitGen == Init => GenInv /\ ListInv
<1> SUFFICES ASSUME Init PROVE GenInv /\ ListInv
  OBVIOUS
<1>1. /\ gen_arg = 1 /\ items = {} /\ item = G!NoItem /\ summed = << >>
      /\ generated = << >> /\ gen_state = "run"
  BY DEF Init, G!Launched
<1>2. generated \in Seq(G!Lines) /\ summed \in Seq(Byte) /\ Len(generated) = 0
  BY <1>1, EmptySeq
<1> QED
  BY <1>1, <1>2 DEF GenInv, ListInv, ListTrue, G!Open
-----------------------------------------------------------------------------
(* Where the pieces of a template lie, and jigdump. *)

\* Where each piece ends is defined, however many there are: where the one before
\* it ends, and its length behind that.
LEMMA EndFacts ==
  ASSUME NEW n \in Nat, NEW ps, Len(ps) = n, \A k \in 1..n : ps[k].len \in Nat
  PROVE  /\ D!End(ps)[0] = 0
         /\ \A k \in 0..n : D!End(ps)[k] \in Nat
         /\ \A k \in 1..n : D!End(ps)[k] = D!End(ps)[k - 1] + ps[k].len
<1> DEFINE Ends(f) == f = [k \in 0..n |-> IF k = 0 THEN 0 ELSE f[k - 1] + ps[k].len]
           next == [x \in (1..n) \X Nat |-> x[2] + ps[x[1]].len]
<1>1. next \in [(1..n) \X Nat -> Nat]
  OBVIOUS
<1>2. PICK f \in [0..n -> Nat] : Builds(f, n, 0, next)
  <2> HIDE DEF next
  <2>1. 0 \in Nat
    OBVIOUS
  <2> QED
    BY <1>1, <2>1, Built
<1>3. ASSUME NEW k \in 1..n PROVE f[k] = f[k - 1] + ps[k].len
  <2>1. k - 1 \in 0..n
    OBVIOUS
  <2>2. f[k - 1] \in Nat
    BY <2>1
  <2> QED
    BY <1>2, <2>2 DEF Builds
<1>4. Ends(f)
  <2>1. f = [k \in 0..n |-> f[k]]
    OBVIOUS
  <2>2. \A k \in 0..n : f[k] = IF k = 0 THEN 0 ELSE f[k - 1] + ps[k].len
    BY <1>2, <1>3 DEF Builds
  <2> QED
    BY <2>1, <2>2
<1> DEFINE g == CHOOSE f_1 : Ends(f_1)
<1>5. Ends(g)
  <2> HIDE DEF Ends
  <2> QED
    BY <1>4
<1>6. g = D!End(ps)
  BY DEF D!End
<1> HIDE DEF g, next
<1>7. /\ g[0] = 0
      /\ \A k \in 1..n : g[k] = g[k - 1] + ps[k].len
  BY <1>5
<1> DEFINE P == {k \in 0..n : g[k] \in Nat}
<1>8. 0 \in P
  BY <1>7
<1>9. ASSUME NEW k \in 0..n-1, k \in P PROVE k + 1 \in P
  <2>1. k + 1 \in 1..n /\ (k + 1) - 1 = k /\ k + 1 \in 0..n
    OBVIOUS
  <2>2. g[k + 1] = g[k] + ps[k + 1].len /\ ps[k + 1].len \in Nat
    BY <1>7, <2>1
  <2> QED
    BY <1>9, <2>1, <2>2
<1> HIDE DEF P
<1>10. \A k \in 0..n : k \in P
  BY <1>8, <1>9, Climb
<1>11. \A k \in 0..n : g[k] \in Nat
  BY <1>10 DEF P
<1> QED
  BY <1>6, <1>7, <1>11

\* Which pieces there are, as far as both files have the same.
LEMMA FirstPieces ==
  ASSUME EngineInv
  PROVE  LET a == Header \o DataPieces
             n == Len(ends) IN
         /\ n \in Nat
         /\ a \in Seq(Piece) /\ Len(a) = n + 1
         /\ a[1].len = HeaderSize /\ a[1].tag = "header"
         /\ \A k \in 2..n + 1 : /\ a[k].tag = "DATA" /\ a[k].len \in Nat \ {0}
<1> DEFINE n == Len(ends)
           h == [tag |-> "header", len |-> HeaderSize]
           d(k) == [tag |-> "DATA", len |-> 16 + Len(Blocks[k])]
<1>1. n \in Nat /\ \A k \in 1..n : Len(Blocks[k]) \in Nat
  BY BlockFacts
<1>2. h \in Piece
  <2>1. HeaderSize \in Nat
    BY ConstantsAssumption
  <2>2. h \in Plain
    BY <2>1 DEF Plain, Tags
  <2> QED
    BY <2>2 DEF Piece
<1>3. \A k \in 1..n : d(k) \in Piece /\ d(k).tag = "DATA" /\ d(k).len \in Nat \ {0}
  <2> TAKE k \in 1..n
  <2>1. 16 + Len(Blocks[k]) \in Nat \ {0}
    BY <1>1
  <2>2. d(k) \in Plain
    BY <2>1 DEF Plain, Tags
  <2> QED
    BY <2>1, <2>2 DEF Piece
<1>4. Header = <<h>> /\ DataPieces = [k \in 1..n |-> d(k)]
  BY DEF Header, DataPieces
<1>5. h.tag = "header" /\ h.len = HeaderSize
  OBVIOUS
<1> HIDE DEF n, h, d
<1>6. Header \in Seq(Piece) /\ Len(Header) = 1 /\ Header[1] = h
  BY <1>2, <1>4
<1>7. DataPieces \in Seq(Piece) /\ Len(DataPieces) = n /\ \A k \in 1..n : DataPieces[k] = d(k)
  <2>1. DataPieces \in [1..n -> Piece]
    BY <1>3, <1>4
  <2> QED
    BY <1>1, <1>4, <2>1
<1> DEFINE a == Header \o DataPieces
<1>8. /\ a \in Seq(Piece) /\ Len(a) = 1 + n
      /\ \A k \in 1..1 : a[k] = Header[k]
      /\ \A k \in 1..n : a[1 + k] = DataPieces[k]
  <2>1. PICK p \in Nat, q \in Nat : p = 1 /\ q = n
    BY <1>1 DEF n
  <2>2. PICK x \in Seq(Piece), y \in Seq(Piece) : x = Header /\ y = DataPieces
    BY <1>6, <1>7
  <2>3. Len(x) = p /\ Len(y) = q
    BY <1>6, <1>7, <2>1, <2>2
  <2>4. /\ x \o y \in Seq(Piece) /\ Len(x \o y) = p + q
        /\ \A k \in 1..p : (x \o y)[k] = x[k]
        /\ \A k \in 1..q : (x \o y)[p + k] = y[k]
    <3>1. x \o y \in Seq(Piece) /\ Joins(x \o y, x, y, p, q)
      BY <2>3, InARow
    <3> QED
      BY <3>1 DEF Joins
  <2>5. a = x \o y
    BY <2>2
  <2> HIDE DEF a
  <2> QED
    BY <2>1, <2>2, <2>4, <2>5
<1> HIDE DEF a
<1>9. a[1] = h
  BY <1>6, <1>8
<1>10. \A k \in 2..n + 1 : a[k] = d(k - 1) /\ k - 1 \in 1..n
  <2> TAKE k \in 2..n + 1
  <2>1. k - 1 \in 1..n /\ 1 + (k - 1) = k
    BY <1>1 DEF n
  <2> QED
    BY <1>7, <1>8, <2>1
<1> QED
  BY <1>1, <1>3, <1>5, <1>8, <1>9, <1>10 DEF a, n

\* Which pieces a finished template has.
LEMMA WholeFacts ==
  ASSUME EngineInv, app = "done"
  PROVE  LET n == Len(ends)
             m == Len(entries)
             ps == WholePieces IN
         /\ n \in Nat /\ m \in Nat /\ desc.entries = entries
         /\ ps \in Seq(Piece) /\ Len(ps) = n + m + 4
         /\ ps[1].len = HeaderSize /\ ps[1].tag = "header"
         /\ \A k \in 2..n + 1 : /\ ps[k].tag = "DATA" /\ ps[k].len \in Nat \ {0}
         /\ ps[n + 2].tag = "DESC" /\ ps[n + 2].len = 10
         /\ \A k \in 1..m : ps[n + 2 + k] = EntryPiece(entries[k])
         /\ ps[n + m + 3].tag = IF setup.algo = "md5" THEN "IMAGE_MD5" ELSE "IMAGE_SHA256"
         /\ ps[n + m + 3].len = J!image_entry_len
         /\ ps[n + m + 4].tag = "pointer" /\ ps[n + m + 4].len = 6
         /\ ps[n + m + 4].to = desc.len
<1> DEFINE n == Len(ends)
           m == Len(entries)
           a == Header \o DataPieces
           h == [tag |-> "DESC", len |-> 10]
           e == [k \in 1..m |-> EntryPiece(entries[k])]
           i == [tag |-> IF setup.algo = "md5" THEN "IMAGE_MD5" ELSE "IMAGE_SHA256",
                 len |-> J!image_entry_len]
           p == [tag |-> "pointer", len |-> 6, to |-> desc.len]
<1>1. m \in Nat /\ desc.entries = entries /\ setup.algo \in {"md5", "sha256"}
  BY FooterFacts
<1>2. /\ n \in Nat
      /\ a \in Seq(Piece) /\ Len(a) = n + 1
      /\ a[1].len = HeaderSize /\ a[1].tag = "header"
      /\ \A k \in 2..n + 1 : /\ a[k].tag = "DATA" /\ a[k].len \in Nat \ {0}
  BY FirstPieces
<1>3. J!image_entry_len \in Nat /\ J!file_entry_len \in Nat
  BY DEF J!image_entry_len, J!file_entry_len
<1>4. h \in Piece /\ i \in Piece /\ \A x : EntryPiece(x) \in Piece
  <2>1. h \in Plain /\ i \in Plain
    BY <1>3 DEF Plain, Tags
  <2>2. \A x : EntryPiece(x) \in Plain
    BY <1>3 DEF Plain, Tags, EntryPiece
  <2> QED
    BY <2>1, <2>2 DEF Piece
<1>5. p \in Piece
  <2>1. desc.len \in Nat
    BY DEF EngineInv, JP!IInv, JP!TypeOK
  <2>2. p \in Pointing
    BY <2>1 DEF Pointing, Tags
  <2> QED
    BY <2>2 DEF Piece
<1>6. /\ h.tag = "DESC" /\ h.len = 10 /\ p.tag = "pointer" /\ p.len = 6 /\ p.to = desc.len
      /\ i.tag = IF setup.algo = "md5" THEN "IMAGE_MD5" ELSE "IMAGE_SHA256"
      /\ i.len = J!image_entry_len
  OBVIOUS
<1>7. WholePieces = a \o ((<<h>> \o e) \o <<i, p>>)
  BY <1>1 DEF WholePieces, DescPieces
<1>8. e \in Seq(Piece) /\ Len(e) = m /\ \A k \in 1..m : e[k] = EntryPiece(entries[k])
  <2>1. e \in [1..m -> Piece]
    BY <1>4
  <2> QED
    BY <1>1, <2>1
<1> HIDE DEF n, m, h, i, p, e, a
<1>9. /\ <<h>> \in Seq(Piece) /\ Len(<<h>>) = 1 /\ <<h>>[1] = h
      /\ <<i, p>> \in Seq(Piece) /\ Len(<<i, p>>) = 2 /\ <<i, p>>[1] = i /\ <<i, p>>[2] = p
  BY <1>4, <1>5
<1> DEFINE b == <<h>> \o e
           c == b \o <<i, p>>
           w == a \o c
<1>15. /\ n \in Nat /\ m \in Nat /\ n + 1 \in Nat /\ m + 1 \in Nat /\ m + 3 \in Nat
       /\ 1 + m = m + 1 /\ (m + 1) + 2 = m + 3
  BY <1>1, <1>2 DEF m, n
<1>10. /\ b \in Seq(Piece) /\ Len(b) = m + 1
       /\ \A k \in 1..1 : b[k] = <<h>>[k]
       /\ \A k \in 1..m : b[1 + k] = e[k]
  <2>1. b \in Seq(Piece) /\ Joins(b, <<h>>, e, 1, m)
    BY <1>8, <1>9, <1>15, InARow
  <2> QED
    BY <2>1, <1>15 DEF Joins
<1> HIDE DEF b
<1>11. /\ c \in Seq(Piece) /\ Len(c) = m + 3
       /\ \A k \in 1..m + 1 : c[k] = b[k]
       /\ \A k \in 1..2 : c[(m + 1) + k] = <<i, p>>[k]
  <2>1. c \in Seq(Piece) /\ Joins(c, b, <<i, p>>, m + 1, 2)
    BY <1>9, <1>10, <1>15, InARow
  <2> QED
    BY <2>1, <1>15 DEF Joins
<1> HIDE DEF c
<1>12. /\ w \in Seq(Piece) /\ Len(w) = (n + 1) + (m + 3)
       /\ \A k \in 1..n + 1 : w[k] = a[k]
       /\ \A k \in 1..m + 3 : w[(n + 1) + k] = c[k]
  <2>1. PICK x \in Nat, y \in Nat : x = n + 1 /\ y = m + 3
    BY <1>15
  <2>2. Len(a) = x /\ Len(c) = y /\ a \in Seq(Piece) /\ c \in Seq(Piece)
    BY <1>2, <1>11, <2>1 DEF n
  <2>3. /\ w \in Seq(Piece) /\ Len(w) = x + y
        /\ \A k \in 1..x : w[k] = a[k]
        /\ \A k \in 1..y : w[x + k] = c[k]
    <3>1. w \in Seq(Piece) /\ Joins(w, a, c, x, y)
      BY <2>2, InARow
    <3> QED
      BY <3>1 DEF Joins
  <2> HIDE DEF w
  <2> QED
    BY <2>1, <2>3
<1>13. w = WholePieces
  BY <1>7 DEF b, c
<1> HIDE DEF w
<1>14. Len(w) = n + m + 4
  BY <1>12, <1>15
<1>17. w[n + 2] = h
  <2>1. 1 \in 1..m + 3 /\ (n + 1) + 1 = n + 2 /\ 1 \in 1..m + 1 /\ 1 \in 1..1
    BY <1>15
  <2>2. w[(n + 1) + 1] = c[1] /\ c[1] = b[1] /\ b[1] = <<h>>[1]
    BY <1>10, <1>11, <1>12, <2>1
  <2> QED
    BY <1>9, <2>1, <2>2
<1>18. ASSUME NEW k \in 1..m PROVE w[n + 2 + k] = EntryPiece(entries[k])
  <2>1. 1 + k \in 1..m + 3 /\ (n + 1) + (1 + k) = n + 2 + k /\ 1 + k \in 1..m + 1
    BY <1>15
  <2>2. w[(n + 1) + (1 + k)] = c[1 + k] /\ c[1 + k] = b[1 + k] /\ b[1 + k] = e[k]
    BY <1>10, <1>11, <1>12, <2>1
  <2> QED
    BY <1>8, <2>1, <2>2
<1>19. w[n + m + 3] = i
  <2>1. (m + 1) + 1 \in 1..m + 3 /\ (n + 1) + ((m + 1) + 1) = n + m + 3 /\ 1 \in 1..2
    BY <1>15
  <2>2. w[(n + 1) + ((m + 1) + 1)] = c[(m + 1) + 1] /\ c[(m + 1) + 1] = <<i, p>>[1]
    BY <1>11, <1>12, <2>1
  <2> QED
    BY <1>9, <2>1, <2>2
<1>20. w[n + m + 4] = p
  <2>1. (m + 1) + 2 \in 1..m + 3 /\ (n + 1) + ((m + 1) + 2) = n + m + 4 /\ 2 \in 1..2
    BY <1>15
  <2>2. w[(n + 1) + ((m + 1) + 2)] = c[(m + 1) + 2] /\ c[(m + 1) + 2] = <<i, p>>[2]
    BY <1>11, <1>12, <2>1
  <2> QED
    BY <1>9, <2>1, <2>2
<1>21. /\ w[1].len = HeaderSize /\ w[1].tag = "header"
       /\ \A k \in 2..n + 1 : /\ w[k].tag = "DATA" /\ w[k].len \in Nat \ {0}
  <2>1. 1 \in 1..n + 1 /\ \A k \in 2..n + 1 : k \in 1..n + 1
    BY <1>15
  <2> QED
    BY <1>2, <1>12, <2>1 DEF n
<1> QED
  BY <1>1, <1>6, <1>12, <1>13, <1>14, <1>15, <1>17, <1>18, <1>19, <1>20, <1>21 DEF n, m

\* Which pieces a template has that was left behind.
LEMMA LeftFacts ==
  ASSUME EngineInv
  PROVE  LET n == Len(ends)
             l == n + (IF torn THEN 2 ELSE 1)
             ps == LeftPieces IN
         /\ n \in Nat /\ torn \in BOOLEAN
         /\ ps \in Seq(Piece) /\ Len(ps) = l
         /\ ps[1].len = HeaderSize /\ ps[1].tag = "header"
         /\ \A k \in 2..l : /\ ps[k].tag = "DATA" /\ ps[k].len \in Nat \ {0}
         /\ torn => ps[l].len = 18
<1> DEFINE n == Len(ends)
           a == Header \o DataPieces
           b == [tag |-> "DATA", len |-> 18]
<1>1. /\ n \in Nat
      /\ a \in Seq(Piece) /\ Len(a) = n + 1
      /\ a[1].len = HeaderSize /\ a[1].tag = "header"
      /\ \A k \in 2..n + 1 : /\ a[k].tag = "DATA" /\ a[k].len \in Nat \ {0}
  BY FirstPieces
<1>2. torn \in BOOLEAN
  BY DEF EngineInv, JP!IInv, JP!TypeOK
<1>3. b \in Piece /\ b.tag = "DATA" /\ b.len = 18
  <2>1. b \in Plain
    BY DEF Plain, Tags
  <2> QED
    BY <2>1 DEF Piece
<1>4. LeftPieces = a \o (IF torn THEN <<b>> ELSE << >>)
  BY DEF LeftPieces
<1> HIDE DEF n, a, b
<1>5. CASE torn
  <2>1. <<b>> \in Seq(Piece) /\ Len(<<b>>) = 1 /\ <<b>>[1] = b
    BY <1>3
  <2>2. PICK p \in Nat, q \in Nat : p = n + 1 /\ q = 1
    BY <1>1 DEF n
  <2> DEFINE w == a \o <<b>>
  <2>3. /\ w \in Seq(Piece) /\ Len(w) = p + q
        /\ \A k \in 1..p : w[k] = a[k]
        /\ \A k \in 1..q : w[p + k] = <<b>>[k]
    <3>1. a \in Seq(Piece) /\ Len(a) = p /\ Len(<<b>>) = q
      BY <1>1, <2>1, <2>2 DEF n
    <3>2. w \in Seq(Piece) /\ Joins(w, a, <<b>>, p, q)
      BY <2>1, <3>1, InARow
    <3> QED
      BY <3>2 DEF Joins
  <2> HIDE DEF w
  <2>4. w = LeftPieces
    BY <1>4, <1>5 DEF w
  <2>5. n \in Nat
    BY <1>1 DEF n
  <2>6. Len(w) = n + 2 /\ w[n + 2] = b
    <3>1. p + 1 = n + 2 /\ p + q = n + 2 /\ 1 \in 1..q
      BY <2>2, <2>5
    <3>2. w[p + 1] = <<b>>[1]
      BY <2>3, <3>1
    <3> QED
      BY <2>1, <2>3, <3>1, <3>2
  <2>7. w[1] = a[1] /\ \A k \in 2..n + 1 : w[k] = a[k]
    <3>1. 1 \in 1..p /\ \A k \in 2..n + 1 : k \in 1..p
      BY <2>2, <2>5
    <3> QED
      BY <2>3, <3>1
  <2>8. \A k \in 2..n + 2 : w[k].tag = "DATA" /\ w[k].len \in Nat \ {0}
    <3> TAKE k \in 2..n + 2
    <3>1. CASE k = n + 2
      BY <1>3, <2>6, <3>1
    <3>2. CASE k # n + 2
      <4>1. k \in 2..n + 1
        BY <2>5, <3>2
      <4> QED
        BY <1>1, <2>7, <4>1 DEF n
    <3> QED
      BY <3>1, <3>2
  <2> QED
    BY <1>1, <1>2, <1>3, <1>5, <2>3, <2>4, <2>5, <2>6, <2>7, <2>8 DEF n
<1>6. CASE ~torn
  <2>1. LeftPieces = a
    BY <1>1, <1>4, <1>6, ConcatEmptySeq
  <2> QED
    BY <1>1, <1>2, <1>6, <2>1 DEF n
<1> QED
  BY <1>2, <1>5, <1>6

\* Pieces that have a length end one behind the other.
LEMMA EndsRise ==
  ASSUME NEW n \in Nat, NEW ps, Len(ps) = n, \A k \in 1..n : ps[k].len \in Nat \ {0}
  PROVE  \A i \in 0..n, j \in 0..n : i < j => D!End(ps)[i] < D!End(ps)[j]
<1> DEFINE f == D!End(ps)
           P == {j \in 0..n : \A i \in 0..n : i < j => f[i] < f[j]}
<1>1. /\ \A k \in 0..n : f[k] \in Nat
      /\ \A k \in 1..n : f[k] = f[k - 1] + ps[k].len
  BY EndFacts
<1> HIDE DEF f
<1>2. 0 \in P
  OBVIOUS
<1>3. ASSUME NEW k \in 0..n-1, k \in P PROVE k + 1 \in P
  <2>1. k + 1 \in 1..n /\ k + 1 \in 0..n /\ (k + 1) - 1 = k /\ k \in 0..n
    OBVIOUS
  <2>2. f[k] \in Nat /\ ps[k + 1].len \in Nat \ {0} /\ f[k + 1] = f[k] + ps[k + 1].len
    BY <1>1, <2>1
  <2>3. f[k] < f[k + 1]
    BY <2>2
  <2>4. ASSUME NEW i \in 0..n, i < k + 1 PROVE f[i] < f[k + 1]
    <3>1. f[i] \in Nat /\ f[k + 1] \in Nat
      BY <1>1, <2>1
    <3>2. CASE i = k
      BY <2>3, <3>2
    <3>3. CASE i # k
      <4>1. i < k
        BY <2>4, <3>3
      <4>2. f[i] < f[k]
        BY <1>3, <4>1
      <4> QED
        BY <2>2, <2>3, <3>1, <4>2
    <3> QED
      BY <3>2, <3>3
  <2> QED
    BY <2>1, <2>4
<1> HIDE DEF P
<1>4. \A k \in 0..n : k \in P
  BY <1>2, <1>3, Climb
<1> QED
  BY <1>4 DEF P, f

\* The pieces lie one behind the other in the file, from its beginning to its end;
\* what was cut off of the last one is less than its length.
Laid(l) ==
  /\ l \in Nat \ {0} /\ Len(pieces) = l
  /\ \A k \in 1..l : pieces[k].len \in Nat \ {0}
  /\ D!Start(1) = 0 /\ \A k \in 1..l + 1 : D!Start(k) \in Nat
  /\ \A k \in 1..l : D!Start(k + 1) = D!Start(k) + pieces[k].len
  /\ \A i \in 1..l + 1, j \in 1..l + 1 : i < j => D!Start(i) < D!Start(j)
  /\ \A j \in 1..l : D!Start(j) < template_size
  /\ template_size = D!Start(l + 1) - (IF app = "failed" /\ torn THEN 1 ELSE 0)

\* Such a file is a finished template, and one that was left behind.
LEMMA PieceFacts ==
  ASSUME EngineInv, Whole \/ LeftOver
  PROVE  Laid(Len(pieces))
<1> DEFINE l == Len(pieces)
           n == Len(ends)
           m == Len(entries)
           f == D!End(pieces)
<1>1. /\ l \in Nat \ {0}
      /\ \A k \in 1..l : pieces[k].len \in Nat \ {0}
      /\ app = "failed" /\ torn => pieces[l].len = 18
  <2>1. CASE Whole
    <3>1. /\ n \in Nat /\ m \in Nat /\ l = n + m + 4
          /\ pieces[1].len = HeaderSize
          /\ \A k \in 2..n + 1 : /\ pieces[k].tag = "DATA" /\ pieces[k].len \in Nat \ {0}
          /\ pieces[n + 2].len = 10
          /\ \A k \in 1..m : pieces[n + 2 + k] = EntryPiece(entries[k])
          /\ pieces[n + m + 3].len = J!image_entry_len /\ pieces[n + m + 4].len = 6
      BY <2>1, WholeFacts DEF Whole
    <3>2. \A x : EntryPiece(x).len \in Nat \ {0}
      BY DEF EntryPiece, J!file_entry_len
    <3>3. J!image_entry_len \in Nat \ {0} /\ HeaderSize \in Nat \ {0}
      BY ConstantsAssumption DEF J!image_entry_len
    <3> HIDE DEF l, n, m
    <3>4. ASSUME NEW k \in 1..l PROVE pieces[k].len \in Nat \ {0}
      <4>1. \/ k = 1 \/ k \in 2..n + 1 \/ k = n + 2
            \/ k = n + m + 3 \/ k = n + m + 4
            \/ k - (n + 2) \in 1..m /\ n + 2 + (k - (n + 2)) = k
        BY <3>1
      <4>2. ASSUME k - (n + 2) \in 1..m /\ n + 2 + (k - (n + 2)) = k
            PROVE  pieces[k].len \in Nat \ {0}
        <5>1. PICK i \in 1..m : n + 2 + i = k
          BY <4>2
        <5> QED
          BY <3>1, <3>2, <5>1
      <4> QED
        BY <3>1, <3>3, <4>1, <4>2
    <3> QED
      BY <2>1, <3>1, <3>4 DEF Whole, l
  <2>2. CASE LeftOver
    <3>1. /\ n \in Nat /\ torn \in BOOLEAN
          /\ l = n + (IF torn THEN 2 ELSE 1)
          /\ pieces[1].len = HeaderSize
          /\ \A k \in 2..l : /\ pieces[k].tag = "DATA" /\ pieces[k].len \in Nat \ {0}
          /\ torn => pieces[l].len = 18
      BY <2>2, LeftFacts DEF LeftOver
    <3>2. HeaderSize \in Nat \ {0}
      BY ConstantsAssumption
    <3> HIDE DEF l, n, m
    <3>3. l \in Nat \ {0} /\ \A k \in 1..l : k = 1 \/ k \in 2..l
      BY <3>1
    <3> QED
      BY <3>1, <3>2, <3>3 DEF l
  <2> QED
    BY <2>1, <2>2
<1>2. /\ f[0] = 0
      /\ \A k \in 0..l : f[k] \in Nat
      /\ \A k \in 1..l : f[k] = f[k - 1] + pieces[k].len
  BY <1>1, EndFacts
<1>3. \A i \in 0..l, j \in 0..l : i < j => f[i] < f[j]
  BY <1>1, EndsRise
<1>4. template_size = f[l] - (IF app = "failed" /\ torn THEN 1 ELSE 0)
  <2>1. f[l] \in Nat
    <3> HIDE DEF f, l
    <3> QED
      BY <1>1, <1>2
  <2>2. D!Size(pieces) = f[l]
    BY DEF D!Size
  <2>3. \/ app # "failed" /\ template_size = f[l]
        \/ app = "failed" /\ template_size = f[l] - (IF torn THEN 1 ELSE 0)
    BY <2>2 DEF Whole, LeftOver
  <2> HIDE DEF f, l
  <2> QED
    BY <2>1, <2>3
<1>5. \A k : D!Start(k) = f[k - 1]
  BY DEF D!Start
<1> HIDE DEF l, f
<1>6. D!Start(1) = 0 /\ \A k \in 1..l + 1 : D!Start(k) \in Nat
  <2>1. \A k \in 1..l + 1 : k - 1 \in 0..l
    BY <1>1
  <2> QED
    BY <1>2, <1>5, <2>1
<1>7. \A k \in 1..l : D!Start(k + 1) = D!Start(k) + pieces[k].len
  <2> TAKE k \in 1..l
  <2>1. (k + 1) - 1 = k
    BY <1>1
  <2> QED
    BY <1>2, <1>5, <2>1
<1>8. \A i \in 1..l + 1, j \in 1..l + 1 : i < j => D!Start(i) < D!Start(j)
  <2> TAKE i \in 1..l + 1, j \in 1..l + 1
  <2>1. i - 1 \in 0..l /\ j - 1 \in 0..l /\ (i < j => i - 1 < j - 1)
    BY <1>1
  <2> QED
    BY <1>3, <1>5, <2>1
<1>9. D!Start(l + 1) = f[l]
  <2>1. (l + 1) - 1 = l
    BY <1>1
  <2> QED
    BY <1>5, <2>1
<1>10. \A j \in 1..l : D!Start(j) < template_size
  <2>1. l \in 1..l /\ l \in 1..l + 1 /\ l + 1 \in 1..l + 1
    BY <1>1
  <2>2. D!Start(l) \in Nat /\ D!Start(l + 1) \in Nat /\ D!Start(l + 1) = D!Start(l) + pieces[l].len
    BY <1>6, <1>7, <2>1
  <2>3. D!Start(l) < template_size
    <3>1. CASE app = "failed" /\ torn
      BY <1>1, <1>4, <1>9, <2>2, <3>1
    <3>2. CASE ~(app = "failed" /\ torn)
      <4>1. pieces[l].len \in Nat \ {0}
        BY <1>1, <2>1
      <4> QED
        BY <1>4, <1>9, <2>2, <3>2, <4>1
    <3> QED
      BY <3>1, <3>2
  <2>4. template_size \in Int
    BY <1>4, <1>9, <2>2
  <2> TAKE j \in 1..l
  <2>5. j = l \/ j < l
    BY <1>1
  <2>6. j \in 1..l + 1
    BY <1>1
  <2> QED
    BY <1>6, <1>8, <2>1, <2>2, <2>3, <2>4, <2>5, <2>6
<1> QED
  BY <1>1, <1>4, <1>6, <1>7, <1>8, <1>9, <1>10 DEF Laid, l

\* Both modules count in the same way.
LEMMA SameCount == \A set : JP!Cardinality(set) = Cardinality(set)
BY DEF JP!Cardinality, Cardinality

\* The DESC part of a finished template is as long as it says: it begins that much
\* before the end of the file.
LEMMA DescBegins ==
  ASSUME EngineInv, Whole
  PROVE  template_size - desc.len = DescAt
<1> DEFINE n == Len(ends)
           m == Len(entries)
           fe == J!file_entry_len
           ie == J!image_entry_len
           F(i) == {k \in 1..i : entries[k].type = "FILE_MATCH"}
           C(i) == {k \in 1..i : entries[k].type = "NOMATCH"}
           at(k) == D!Start(k)
           P == {i \in 0..m : at(n + 3 + i) = at(n + 3) + fe * Cardinality(F(i)) + 7 * Cardinality(C(i))}
<1>1. /\ n \in Nat /\ m \in Nat /\ Len(pieces) = n + m + 4
      /\ pieces[n + 2].len = 10
      /\ \A k \in 1..m : pieces[n + 2 + k] = EntryPiece(entries[k])
      /\ pieces[n + m + 3].len = ie /\ pieces[n + m + 4].len = 6
  BY WholeFacts DEF Whole
<1>2. Laid(n + m + 4)
  BY <1>1, PieceFacts
<1>3. /\ \A k \in 1..n + m + 5 : at(k) \in Nat
      /\ \A k \in 1..n + m + 4 : at(k + 1) = at(k) + pieces[k].len
      /\ template_size = at(n + m + 5)
  <2>1. (n + m + 4) + 1 = n + m + 5
    BY <1>1
  <2>2. at(n + m + 5) \in Nat /\ app # "failed"
    <3>1. n + m + 5 \in 1..(n + m + 4) + 1
      BY <1>1
    <3> QED
      BY <1>2, <2>1, <3>1 DEF Laid, Whole
  <2> QED
    BY <1>2, <2>1, <2>2 DEF Laid
<1>4. fe \in Nat /\ ie \in Nat /\ \A x : EntryPiece(x).len = IF x.type = "NOMATCH" THEN 7 ELSE fe
  BY DEF J!file_entry_len, J!image_entry_len, EntryPiece
<1>5. desc.len = 16 + fe * Cardinality(F(m)) + 7 * Cardinality(C(m)) + ie
  <2>1. JP!CountInv /\ app = "done"
    BY DEF EngineInv, JP!IInv, Whole
  <2>2. desc.len = JP!desc_len(num_matches, num_chunks)
    BY <2>1 DEF JP!CountInv
  <2>3. num_matches = Cardinality(F(m)) /\ num_chunks = Cardinality(C(m))
    <3>1. JP!Matches(entries) = F(m) /\ JP!Chunks(entries) = C(m)
      BY DEF JP!Matches, JP!Chunks
    <3>2. /\ num_matches = JP!Cardinality(JP!Matches(entries))
          /\ num_chunks = JP!Cardinality(JP!Chunks(entries))
      BY <2>1 DEF JP!CountInv
    <3> HIDE DEF F, C
    <3> QED
      BY <3>1, <3>2, SameCount
  <2> QED
    BY <2>2, <2>3 DEF JP!desc_len, JP!file_entry_len, JP!image_entry_len,
                      J!file_entry_len, J!image_entry_len
<1>6. \A k \in 1..m : entries[k].type \in {"FILE_MATCH", "NOMATCH"}
  BY EntryFacts DEF Whole
<1>7. ASSUME NEW i \in 0..m
      PROVE  /\ IsFiniteSet(F(i)) /\ IsFiniteSet(C(i))
             /\ Cardinality(F(i)) \in Nat /\ Cardinality(C(i)) \in Nat
  <2>1. IsFiniteSet(1..i)
    BY FS_Interval
  <2>2. IsFiniteSet(F(i)) /\ IsFiniteSet(C(i))
    BY <2>1, FS_Subset
  <2> QED
    BY <2>2, FS_CardinalityType
<1> HIDE DEF n, m, fe, ie, at
<1>8. 0 \in P
  <2>1. F(0) = {} /\ C(0) = {}
    OBVIOUS
  <2>2. Cardinality(F(0)) = 0 /\ Cardinality(C(0)) = 0
    BY <2>1, FS_EmptySet
  <2>3. n + 3 \in 1..n + m + 5 /\ n + 3 + 0 = n + 3 /\ 0 \in 0..m
    BY <1>1
  <2> HIDE DEF F, C
  <2> QED
    BY <1>3, <1>4, <2>2, <2>3
<1>9. ASSUME NEW i \in 0..m-1, i \in P PROVE i + 1 \in P
  <2>0. n \in Nat /\ m \in Nat
    BY <1>1
  <2>1. /\ i \in 0..m /\ i + 1 \in 1..m /\ i + 1 \in 0..m /\ i \in Nat
        /\ n + 2 + (i + 1) \in 1..n + m + 4 /\ n + 2 + (i + 1) = n + 3 + i
        /\ (n + 3 + i) + 1 = n + 3 + (i + 1) /\ n + 3 + i \in 1..n + m + 5
        /\ n + 3 \in 1..n + m + 5
    BY <2>0
  <2>2. PICK x : x = entries[i + 1]
    OBVIOUS
  <2>3. at(n + 3 + (i + 1)) = at(n + 3 + i) + (IF x.type = "NOMATCH" THEN 7 ELSE fe)
    BY <1>1, <1>3, <1>4, <2>1, <2>2, ZenonT(30)
  <2>4. at(n + 3 + i) = at(n + 3) + fe * Cardinality(F(i)) + 7 * Cardinality(C(i))
    BY <1>9
  <2>5. i + 1 \notin F(i) /\ i + 1 \notin C(i)
    BY <2>1
  <2>6. F(i + 1) = F(i) \cup (IF x.type = "FILE_MATCH" THEN {i + 1} ELSE {})
    BY <2>1, <2>2
  <2>7. C(i + 1) = C(i) \cup (IF x.type = "NOMATCH" THEN {i + 1} ELSE {})
    BY <2>1, <2>2
  <2>8. x.type \in {"FILE_MATCH", "NOMATCH"}
    BY <1>6, <2>1, <2>2
  <2> HIDE DEF F, C
  <2>9. /\ Cardinality(F(i) \cup {i + 1}) = Cardinality(F(i)) + 1
        /\ Cardinality(C(i) \cup {i + 1}) = Cardinality(C(i)) + 1
    BY <1>7, <2>1, <2>5, FS_AddElement
  <2>10. PICK p \in Nat, q \in Nat, a \in Nat, b \in Nat :
           /\ p = Cardinality(F(i)) /\ q = Cardinality(C(i))
           /\ a = at(n + 3 + i) /\ b = at(n + 3)
    BY <1>3, <1>7, <2>1
  <2>11. CASE x.type = "FILE_MATCH"
    <3>1. Cardinality(F(i + 1)) = p + 1 /\ Cardinality(C(i + 1)) = q
      <4>1. F(i + 1) = F(i) \cup {i + 1} /\ C(i + 1) = C(i)
        BY <2>6, <2>7, <2>11
      <4> QED
        BY <2>9, <2>10, <4>1
    <3>2. at(n + 3 + (i + 1)) = a + fe
      BY <2>3, <2>10, <2>11
    <3>3. a = b + fe * p + 7 * q
      BY <2>4, <2>10
    <3>4. a + fe = b + fe * (p + 1) + 7 * q
      BY <1>4, <3>3
    <3> QED
      BY <2>1, <2>10, <3>1, <3>2, <3>4
  <2>12. CASE x.type = "NOMATCH"
    <3>1. Cardinality(F(i + 1)) = p /\ Cardinality(C(i + 1)) = q + 1
      <4>1. F(i + 1) = F(i) /\ C(i + 1) = C(i) \cup {i + 1}
        BY <2>6, <2>7, <2>12
      <4> QED
        BY <2>9, <2>10, <4>1
    <3>2. at(n + 3 + (i + 1)) = a + 7
      BY <2>3, <2>10, <2>12
    <3>3. a = b + fe * p + 7 * q
      BY <2>4, <2>10
    <3>4. a + 7 = b + fe * p + 7 * (q + 1)
      <4>1. fe * p \in Nat
        BY <1>4
      <4> QED
        BY <3>3, <4>1
    <3> QED
      BY <2>1, <2>10, <3>1, <3>2, <3>4
  <2> QED
    BY <2>8, <2>11, <2>12
<1> HIDE DEF P
<1>10. m \in P
  <2>1. m \in Nat /\ m \in 0..m
    BY <1>1
  <2>2. \A i \in 0..m : i \in P
    BY <1>8, <1>9, <2>1, Climb
  <2> QED
    BY <2>1, <2>2
<1>12. at(n + 3 + m) = at(n + 3) + fe * Cardinality(F(m)) + 7 * Cardinality(C(m))
  BY <1>10 DEF P
<1> HIDE DEF F, C
<1>13. PICK u \in Nat, v \in Nat : u = fe * Cardinality(F(m)) /\ v = 7 * Cardinality(C(m))
  <2>1. m \in 0..m
    BY <1>1
  <2>2. Cardinality(F(m)) \in Nat /\ Cardinality(C(m)) \in Nat
    BY <1>7, <2>1
  <2>3. fe * Cardinality(F(m)) \in Nat
    BY <1>4, <2>2
  <2> QED
    BY <2>2, <2>3
<1>14. at(n + 3 + m) = at(n + 3) + u + v /\ desc.len = 16 + u + v + ie
  BY <1>5, <1>12, <1>13
<1>15. /\ at(n + 2) \in Nat
       /\ at(n + 3) = at(n + 2) + 10
       /\ at(n + m + 4) = at(n + 3 + m) + ie
       /\ at(n + m + 5) = at(n + m + 4) + 6
  <2>1. /\ n + 2 \in 1..n + m + 5 /\ n + 2 \in 1..n + m + 4 /\ (n + 2) + 1 = n + 3
        /\ n + m + 3 \in 1..n + m + 4 /\ n + 3 + m = n + m + 3 /\ (n + m + 3) + 1 = n + m + 4
        /\ n + m + 4 \in 1..n + m + 4 /\ (n + m + 4) + 1 = n + m + 5
    BY <1>1
  <2> QED
    BY <1>1, <1>3, <2>1
<1>16. template_size - desc.len = at(n + 2)
  BY <1>3, <1>4, <1>14, <1>15
<1> QED
  BY <1>16 DEF at, n, DescAt

\* What the application has left for jigdump does not change while it is read.
LEMMA FileKept ==
  ASSUME UNCHANGED writeVars, UNCHANGED <<pieces, template_size, named>>
  PROVE  /\ From' = From /\ (Whole' <=> Whole) /\ (LeftOver' <=> LeftOver)
         /\ D!DataParts' = D!DataParts /\ DescAt' = DescAt
         /\ \A k : D!Start(k)' = D!Start(k) /\ Shown(k)' = Shown(k)
<1>1. From' = From /\ D!DataParts' = D!DataParts /\ DescAt' = DescAt
  BY DEF writeVars, From, D!DataParts, DescAt, D!Start, D!End
<1>2. WholePieces' = WholePieces /\ LeftPieces' = LeftPieces
  BY DEF writeVars, WholePieces, LeftPieces, Header, DataPieces, DescPieces, Blocks,
         EntryPiece, J!file_entry_len, J!image_entry_len
<1>3. D!Size(pieces)' = D!Size(pieces)
  BY DEF D!Size, D!End
<1>4. (Whole' <=> Whole) /\ (LeftOver' <=> LeftOver)
  BY <1>2, <1>3 DEF Whole, LeftOver, writeVars
<1>5. \A k : D!Start(k)' = D!Start(k)
  BY DEF D!Start, D!End
<1>6. \A k : Shown(k)' = Shown(k)
  BY DEF Shown, PieceShown, From, D!Start, D!End, writeVars
<1> QED
  BY <1>1, <1>4, <1>5, <1>6

\* The next piece is printed behind those before it.
LEMMA ShownNext ==
  ASSUME NEW f \in Nat, f = From, NEW j \in Nat, f <= j
  PROVE  Append(Shown(j), PieceShown(j)) = Shown(j + 1) /\ Shown(f) = << >>
<1> DEFINE n == j - f
           p(i) == PieceShown(f + i - 1)
           V == {p(i) : i \in 1..n + 1}
           a == [i \in 1..n |-> p(i)]
           b == [i \in 1..n + 1 |-> p(i)]
           e == p(n + 1)
<1>1. n \in Nat /\ f + (n + 1) - 1 = j /\ (j + 1) - f = n + 1 /\ f - f = 0
  OBVIOUS
<1>2. Shown(j) = a /\ Shown(j + 1) = b
  BY <1>1 DEF Shown
<1>3. PieceShown(j) = e
  BY <1>1
<1>4. Shown(f) = << >>
  <2>1. Shown(f) = [i \in 1..0 |-> p(i)]
    BY <1>1 DEF Shown
  <2> QED
    BY <2>1
<1>5. a \in [1..n -> V] /\ b \in [1..n + 1 -> V] /\ e \in V
  <2>1. \A i \in 1..n : i \in 1..n + 1
    BY <1>1
  <2>2. n + 1 \in 1..n + 1
    BY <1>1
  <2> QED
    BY <2>1, <2>2
<1>6. \A i \in 1..n : a[i] = b[i]
  BY <1>1
<1>7. b[n + 1] = e
  BY <1>1
<1> HIDE DEF n, p, V, a, b, e
<1>8. a \in Seq(V) /\ b \in Seq(V) /\ Len(a) = n /\ Len(b) = n + 1
  BY <1>1, <1>5
<1> DEFINE c == Append(a, e)
<1>9. c \in Seq(V) /\ Len(c) = n + 1 /\ c[n + 1] = e /\ \A i \in 1..n : c[i] = a[i]
  BY <1>1, <1>5, <1>8, AppendProperties
<1> HIDE DEF c
<1>10. \A i \in 1..n + 1 : c[i] = b[i]
  <2> TAKE i \in 1..n + 1
  <2>1. i = n + 1 \/ i \in 1..n
    BY <1>1
  <2> QED
    BY <1>6, <1>7, <1>9, <2>1
<1>11. c = b
  BY <1>8, <1>9, <1>10, SeqEqual
<1> QED
  BY <1>2, <1>3, <1>4, <1>11 DEF c

\* The piece where jigdump is, is the one it has come to.
LEMMA HereFacts ==
  ASSUME EngineInv, Whole \/ LeftOver, NEW j \in 1..Len(pieces) + 1,
         offset = D!Start(j), D!Here # 0
  PROVE  D!Here = j /\ j \in 1..Len(pieces)
<1> DEFINE l == Len(pieces)
           at == {k \in 1..l : D!Start(k) = offset /\ offset < template_size}
<1>1. Laid(l)
  BY PieceFacts
<1>2. /\ l \in Nat /\ \A k \in 1..l + 1 : D!Start(k) \in Nat
      /\ \A i, k \in 1..l + 1 : i < k => D!Start(i) < D!Start(k)
  BY <1>1 DEF Laid
<1>3. D!Here = IF at = {} THEN 0 ELSE CHOOSE k \in at : TRUE
  BY DEF D!Here
<1>4. \A k \in at : k = j
  <2> TAKE k \in at
  <2>1. k \in 1..l /\ k \in 1..l + 1 /\ D!Start(k) = D!Start(j) /\ j \in 1..l + 1
    BY <1>2
  <2>2. ~(D!Start(k) < D!Start(j)) /\ ~(D!Start(j) < D!Start(k))
    BY <1>2, <2>1
  <2>3. ~(k < j) /\ ~(j < k)
    BY <1>2, <2>1, <2>2
  <2> QED
    BY <2>1, <2>3
<1>5. D!Here \in at
  BY <1>3
<1> QED
  BY <1>4, <1>5

\* Which pieces of a finished template have which tag, and that jigdump moves on
\* from an entry by its length.
LEMMA WholeTags ==
  ASSUME EngineInv, Whole, NEW j \in 1..Len(pieces)
  PROVE  LET n == Len(ends)
             m == Len(entries)
             p == pieces[j] IN
         /\ n \in Nat /\ m \in Nat /\ Len(pieces) = n + m + 4
         /\ p.tag = "DATA" => j \in 2..n + 1
         /\ p.tag = "DESC" => j = n + 2 /\ p.len = 10
         /\ p.tag \in D!Entries => j \in n + 3..n + m + 3 /\ p.len = D!entry_len(p.tag)
         /\ p.tag = "pointer" => j = n + m + 4 /\ p.len = 6 /\ p.to = desc.len
<1> DEFINE n == Len(ends)
           m == Len(entries)
           l == Len(pieces)
<1>1. /\ n \in Nat /\ m \in Nat /\ l = n + m + 4
      /\ pieces[1].tag = "header"
      /\ \A k \in 2..n + 1 : pieces[k].tag = "DATA"
      /\ pieces[n + 2].tag = "DESC" /\ pieces[n + 2].len = 10
      /\ \A k \in 1..m : pieces[n + 2 + k] = EntryPiece(entries[k])
      /\ pieces[n + m + 3].tag = IF setup.algo = "md5" THEN "IMAGE_MD5" ELSE "IMAGE_SHA256"
      /\ pieces[n + m + 3].len = J!image_entry_len
      /\ pieces[n + m + 4].tag = "pointer" /\ pieces[n + m + 4].len = 6
      /\ pieces[n + m + 4].to = desc.len
  BY WholeFacts DEF Whole
<1>2. \A x : EntryPiece(x).tag \in {"NOMATCH", "MATCH_MD5", "MATCH_SHA256"}
  BY DEF EntryPiece
<1>3. \A x : EntryPiece(x).len = D!entry_len(EntryPiece(x).tag)
  BY DEF EntryPiece, J!file_entry_len, D!entry_len
<1>4. /\ pieces[n + m + 3].tag \in {"IMAGE_MD5", "IMAGE_SHA256"}
      /\ pieces[n + m + 3].len = D!entry_len(pieces[n + m + 3].tag)
  <2>1. PICK t_1 \in {"IMAGE_MD5", "IMAGE_SHA256"} : t_1 = pieces[n + m + 3].tag
    BY <1>1
  <2>2. CASE setup.algo = "md5"
    <3>1. pieces[n + m + 3].tag = "IMAGE_MD5" /\ pieces[n + m + 3].len = 27
      BY <1>1, <2>2 DEF J!image_entry_len
    <3> QED
      BY <3>1 DEF D!entry_len
  <2>3. CASE setup.algo # "md5"
    <3>1. pieces[n + m + 3].tag = "IMAGE_SHA256" /\ pieces[n + m + 3].len = 43
      BY <1>1, <2>3 DEF J!image_entry_len
    <3> QED
      BY <3>1 DEF D!entry_len
  <2> QED
    BY <2>2, <2>3
<1> HIDE DEF n, m, l
<1>5. \/ j = 1 \/ j \in 2..n + 1 \/ j = n + 2 \/ j = n + m + 3 \/ j = n + m + 4
      \/ \E i \in 1..m : j = n + 2 + i
  <2>1. \/ j = 1 \/ j \in 2..n + 1 \/ j = n + 2 \/ j = n + m + 3 \/ j = n + m + 4
        \/ j - (n + 2) \in 1..m /\ j = n + 2 + (j - (n + 2))
    BY <1>1 DEF l
  <2> QED
    BY <2>1
<1>6. /\ pieces[j].tag = "DATA" => j \in 2..n + 1
      /\ pieces[j].tag = "DESC" => j = n + 2 /\ pieces[j].len = 10
      /\ pieces[j].tag \in D!Entries => j \in n + 3..n + m + 3
      /\ pieces[j].tag \in D!Entries => pieces[j].len = D!entry_len(pieces[j].tag)
      /\ pieces[j].tag = "pointer" => j = n + m + 4 /\ pieces[j].len = 6
      /\ pieces[j].tag = "pointer" => pieces[j].to = desc.len
  <2>1. CASE j = 1 \/ j \in 2..n + 1 \/ j = n + 2 \/ j = n + m + 4
    BY <1>1, <2>1 DEF D!Entries
  <2>2. CASE j = n + m + 3
    <3>1. n + m + 3 \in n + 3..n + m + 3
      BY <1>1
    <3>2. /\ pieces[j].tag \in {"IMAGE_MD5", "IMAGE_SHA256"}
          /\ pieces[j].len = D!entry_len(pieces[j].tag) /\ j \in n + 3..n + m + 3
      BY <1>4, <2>2, <3>1
    <3> QED
      BY <3>2 DEF D!Entries
  <2>3. CASE \E i \in 1..m : j = n + 2 + i
    <3>1. PICK i \in 1..m : j = n + 2 + i
      BY <2>3
    <3>2. j \in n + 3..n + m + 3
      <4>1. n \in Nat /\ m \in Nat
        BY <1>1
      <4> QED
        BY <3>1, <4>1
    <3>3. PICK x : x = entries[i]
      OBVIOUS
    <3>4. pieces[j] = EntryPiece(x)
      BY <1>1, <3>1, <3>3
    <3>5. /\ EntryPiece(x).tag \in {"NOMATCH", "MATCH_MD5", "MATCH_SHA256"}
          /\ EntryPiece(x).len = D!entry_len(EntryPiece(x).tag)
      BY <1>2, <1>3
    <3>6. /\ pieces[j].tag \in {"NOMATCH", "MATCH_MD5", "MATCH_SHA256"}
          /\ pieces[j].len = D!entry_len(pieces[j].tag) /\ j \in n + 3..n + m + 3
      BY <3>2, <3>4, <3>5
    <3> QED
      BY <3>6 DEF D!Entries
  <2> QED
    BY <1>5, <2>1, <2>2, <2>3
<1> QED
  BY <1>1, <1>6 DEF n, m, l

\* From is the number of a piece.
LEMMA FromFacts ==
  ASSUME EngineInv, Whole \/ LeftOver
  PROVE  /\ From \in Nat /\ Len(pieces) \in Nat
         /\ named => From = 2
         /\ ~named => Whole /\ From = Len(ends) + 2
<1>1. Laid(Len(pieces))
  BY PieceFacts
<1>2. Len(pieces) \in Nat
  BY <1>1 DEF Laid
<1>3. CASE named
  BY <1>2, <1>3 DEF From
<1>4. CASE ~named
  <2>1. Whole
    BY <1>4 DEF LeftOver
  <2>2. /\ Len(ends) \in Nat /\ Len(entries) \in Nat /\ desc.entries = entries
        /\ Len(pieces) = Len(ends) + Len(entries) + 4
    BY <2>1, WholeFacts DEF Whole
  <2>3. From = Len(ends) + 2
    BY <1>4, <2>2 DEF From
  <2> QED
    BY <1>2, <1>4, <2>1, <2>2, <2>3
<1> QED
  BY <1>3, <1>4

\* When jigdump has printed a piece it has come to the next one.
LEMMA PieceDone ==
  ASSUME EngineInv, Whole \/ LeftOver, NEW j \in 1..Len(pieces), D!Here = j,
         From <= j, shown = Shown(j), offset = D!Start(j), NEW other,
         D!Show(pieces[j].len), D!Advance(offset + pieces[j].len, other)
  PROVE  /\ j + 1 \in From..Len(pieces) + 1
         /\ shown' = Shown(j + 1) /\ offset' = D!Start(j + 1)
         /\ state' = IF j = Len(pieces) /\ ~(app = "failed" /\ torn) THEN "DONE" ELSE other
<1> DEFINE l == Len(pieces)
<1>1. /\ l \in Nat \ {0}
      /\ \A k \in 1..l + 1 : D!Start(k) \in Nat
      /\ \A k \in 1..l : D!Start(k + 1) = D!Start(k) + pieces[k].len
      /\ \A k \in 1..l : D!Start(k) < template_size
      /\ template_size = D!Start(l + 1) - (IF app = "failed" /\ torn THEN 1 ELSE 0)
  BY PieceFacts DEF Laid
<1>2. PICK f \in Nat : f = From
  BY FromFacts
<1>3. j \in Nat /\ j + 1 \in f..l + 1 /\ f <= j
  BY <1>1, <1>2
<1>4. shown' = Shown(j + 1)
  <2>1. PieceShown(j) = [tag |-> pieces[j].tag, at |-> D!Start(j), len |-> pieces[j].len]
    BY DEF PieceShown
  <2>2. shown' = Append(Shown(j), PieceShown(j))
    BY <2>1 DEF D!Show
  <2> QED
    BY <1>2, <1>3, <2>2, ShownNext
<1>5. offset' = D!Start(j + 1)
  BY <1>1 DEF D!Advance
<1>6. D!Start(j + 1) = template_size <=> j = l /\ ~(app = "failed" /\ torn)
  <2> DEFINE cut == IF app = "failed" /\ torn THEN 1 ELSE 0
             at == D!Start(j + 1)
             size == D!Start(l + 1)
  <2>1. template_size = size - cut
    BY <1>1
  <2>2. cut \in {0, 1} /\ (cut = 0 <=> ~(app = "failed" /\ torn))
    OBVIOUS
  <2>3. size \in Nat
    <3>1. l + 1 \in 1..l + 1
      BY <1>1
    <3> QED
      BY <1>1, <3>1
  <2>4. CASE j = l
    <3>1. at = size
      BY <2>4
    <3> HIDE DEF cut, at, size
    <3>2. at = template_size <=> cut = 0
      BY <2>1, <2>2, <2>3, <3>1
    <3> QED
      BY <2>2, <2>4, <3>2 DEF at
  <2>5. CASE j # l
    <3>1. j + 1 \in 1..l
      BY <1>1, <2>5
    <3>2. at < template_size /\ at \in Nat
      BY <1>1, <3>1
    <3> HIDE DEF cut, at, size
    <3>3. at # template_size
      BY <2>1, <2>2, <2>3, <3>2
    <3> QED
      BY <2>5, <3>3 DEF at
  <2> QED
    BY <2>4, <2>5
<1>7. offset + pieces[j].len = D!Start(j + 1)
  BY <1>1
<1>8. state' = IF D!Start(j + 1) = template_size THEN "DONE" ELSE other
  BY <1>7 DEF D!Advance
<1> HIDE DEF l
<1>9. state' = IF j = l /\ ~(app = "failed" /\ torn) THEN "DONE" ELSE other
  BY <1>6, <1>8
<1> QED
  BY <1>2, <1>3, <1>4, <1>5, <1>9 DEF l

\* What is known of the file is not changed by a step of jigdump, and what has to be
\* shown for the next piece it comes to.
LEMMA WalkFrame ==
  ASSUME UNCHANGED writeVars, UNCHANGED <<pieces, template_size, named>>,
         NEW i \in 1..Len(pieces) + 1, i \in From..Len(pieces) + 1,
         shown' = Shown(i), offset' = D!Start(i), app = "done" => ~torn,
         desc_offset' = 0 \/ (app = "done" /\ desc_offset' = DescAt),
         LET n == Len(ends)
             m == Len(entries)
             last == Len(pieces) + 1 IN
         \/ /\ state' = "IN_DATA" /\ named /\ (app = "done" => i <= n + 2)
            /\ (i = last => torn) /\ desc_offset' = 0 /\ mismatch' = FALSE
         \/ state' = "IN_DESC" /\ ~named /\ i = From /\ desc_offset' = 0 /\ mismatch' = FALSE
         \/ /\ state' = "DUMP_DESC" /\ i \in n + 3..n + m + 3 /\ app = "done"
            /\ desc_offset' = (IF named THEN DescAt ELSE 0) /\ mismatch' = FALSE
         \/ /\ state' = "DUMP_DESC_PTR" /\ i = n + m + 4 /\ app = "done"
            /\ desc_offset' = (IF named THEN DescAt ELSE 0) /\ mismatch' = FALSE
         \/ state' = "DONE" /\ i = last /\ mismatch' = ~named /\ ~torn
         \/ state' = "ERROR" /\ i = last /\ mismatch' = ~named /\ torn
  PROVE  \E k \in 1..Len(pieces') + 1 : Walked(k)'
<1>1. /\ From' = From /\ DescAt' = DescAt
      /\ D!Start(i)' = D!Start(i) /\ Shown(i)' = Shown(i)
  BY FileKept
<1>2. /\ ends' = ends /\ entries' = entries /\ app' = app /\ torn' = torn
      /\ pieces' = pieces /\ named' = named
  BY DEF writeVars
<1>3. Walked(i)'
  BY <1>1, <1>2 DEF Walked
<1> QED
  BY <1>2, <1>3

\* jigdump goes on from a piece it has come to.
LEMMA WalkStep ==
  ASSUME EngineInv, Whole \/ LeftOver, UNCHANGED writeVars,
         NEW j \in 1..Len(pieces) + 1, Walked(j), D!Next
  PROVE  \E k \in 1..Len(pieces') + 1 : Walked(k)'
<1> DEFINE n == Len(ends)
           m == Len(entries)
           l == Len(pieces)
<1>1. UNCHANGED <<pieces, template_size, named>>
  BY DEF D!Next, D!FindData, D!NoData, D!SeekDesc, D!ShowData, D!ShowDesc, D!ShowEntry,
         D!ShowPointer, D!ReadNothing
<1>2. /\ j \in From..l + 1 /\ shown = Shown(j) /\ offset = D!Start(j)
      /\ app = "done" => ~torn
      /\ desc_offset = 0 \/ (app = "done" /\ desc_offset = DescAt)
      /\ state \in {"IN_DATA", "IN_DESC", "DUMP_DESC", "DUMP_DESC_PTR", "DONE", "ERROR"}
      /\ state \in {"DUMP_DESC", "DUMP_DESC_PTR"} =>
           app = "done" /\ desc_offset = IF named THEN DescAt ELSE 0
      /\ state \in {"IN_DATA", "IN_DESC"} => desc_offset = 0
      /\ state = "IN_DATA" => named /\ (app = "done" => j <= n + 2) /\ (j = l + 1 => torn)
      /\ state = "IN_DESC" => ~named /\ j = From
      /\ state = "DUMP_DESC" => j \in n + 3..n + m + 3
      /\ state = "DUMP_DESC_PTR" => j = n + m + 4
      /\ state \notin {"DONE", "ERROR"} => mismatch = FALSE
  BY DEF Walked
<1>3. /\ l \in Nat \ {0}
      /\ \A k \in 1..l + 1 : D!Start(k) \in Nat
      /\ \A k \in 1..l : D!Start(k + 1) = D!Start(k) + pieces[k].len
      /\ \A i, k \in 1..l + 1 : i < k => D!Start(i) < D!Start(k)
      /\ \A k \in 1..l : D!Start(k) < template_size
      /\ template_size = D!Start(l + 1) - (IF app = "failed" /\ torn THEN 1 ELSE 0)
  BY PieceFacts DEF Laid
<1>4. From \in Nat /\ From <= j
  BY <1>2, <1>3, FromFacts
<1>5. n \in Nat /\ torn \in BOOLEAN
  BY LeftFacts
<1>6. ASSUME NEW tags, D!At(tags)
      PROVE  D!Here = j /\ j \in 1..l /\ pieces[j].tag \in tags
  BY <1>2, <1>6, HereFacts DEF D!At
<1>7. (Whole => app = "done") /\ (LeftOver => app = "failed" /\ named)
  BY DEF Whole, LeftOver
<1>8. ASSUME LeftOver, NEW k \in 1..l
      PROVE  pieces[k].tag \in {"header", "DATA"}
  <2>1. /\ l = n + (IF torn THEN 2 ELSE 1) /\ pieces[1].tag = "header"
        /\ \A i \in 2..l : pieces[i].tag = "DATA"
    BY <1>8, LeftFacts DEF LeftOver
  <2> HIDE DEF l, n
  <2>2. k = 1 \/ k \in 2..l
    BY <1>3
  <2> QED
    BY <2>1, <2>2
<1>9. CASE D!ShowData
  <2>1. /\ D!At({"DATA"}) /\ state = "IN_DATA" /\ D!Show(pieces[D!Here].len)
        /\ D!Advance(offset + pieces[D!Here].len, state)
        /\ desc_offset' = desc_offset /\ mismatch' = mismatch
    BY <1>9 DEF D!ShowData
  <2>2. D!Here = j /\ j \in 1..l /\ pieces[j].tag = "DATA"
    BY <1>6, <2>1
  <2>3. /\ j + 1 \in From..l + 1 /\ shown' = Shown(j + 1) /\ offset' = D!Start(j + 1)
        /\ state' = IF j = l /\ ~(app = "failed" /\ torn) THEN "DONE" ELSE "IN_DATA"
    BY <1>2, <1>4, <2>1, <2>2, PieceDone
  <2>4. j + 1 \in 1..l + 1
    BY <1>3, <2>2
  <2>5. CASE Whole
    <3>1. m \in Nat /\ l = n + m + 4 /\ j \in 2..n + 1
      BY <2>2, <2>5, WholeTags
    <3> HIDE DEF n, m, l
    <3>2. j # l /\ j + 1 <= n + 2 /\ j + 1 # l + 1
      BY <1>5, <3>1
    <3>3. state' = "IN_DATA"
      BY <2>3, <3>2
    <3> QED
      BY <1>1, <1>2, <2>1, <2>3, <2>4, <3>2, <3>3, WalkFrame DEF l, n, m
  <2>6. CASE LeftOver
    <3>1. app = "failed" /\ named
      BY <1>7, <2>6
    <3>2. CASE j = l /\ ~torn
      <4>1. state' = "DONE" /\ mismatch' = ~named
        BY <1>2, <2>1, <2>3, <3>1, <3>2
      <4> QED
        BY <1>1, <1>2, <2>1, <2>3, <2>4, <3>2, <4>1, WalkFrame
    <3>3. CASE ~(j = l /\ ~torn)
      <4>1. state' = "IN_DATA" /\ (j + 1 = l + 1 => torn)
        <5>1. j + 1 = l + 1 => j = l
          BY <1>3
        <5> QED
          BY <2>3, <3>1, <3>3, <5>1
      <4> QED
        BY <1>1, <1>2, <2>1, <2>3, <2>4, <3>1, <4>1, WalkFrame
    <3> QED
      BY <3>2, <3>3
  <2> QED
    BY <2>5, <2>6
<1>10. CASE D!ShowDesc
  <2>1. /\ D!At({"DESC"}) /\ state \in {"IN_DATA", "IN_DESC"} /\ D!Show(10)
        /\ D!Advance(offset + 10, "DUMP_DESC")
        /\ desc_offset' = IF state = "IN_DATA" THEN offset ELSE desc_offset
        /\ mismatch' = mismatch
    BY <1>10 DEF D!ShowDesc
  <2>2. D!Here = j /\ j \in 1..l /\ pieces[j].tag = "DESC"
    BY <1>6, <2>1
  <2>3. Whole
    BY <1>8, <2>2
  <2>4. m \in Nat /\ l = n + m + 4 /\ j = n + 2 /\ pieces[j].len = 10
    BY <2>2, <2>3, WholeTags
  <2>5. D!Show(pieces[j].len) /\ D!Advance(offset + pieces[j].len, "DUMP_DESC")
    BY <2>1, <2>4
  <2>6. /\ j + 1 \in From..l + 1 /\ shown' = Shown(j + 1) /\ offset' = D!Start(j + 1)
        /\ state' = IF j = l /\ ~(app = "failed" /\ torn) THEN "DONE" ELSE "DUMP_DESC"
    BY <1>2, <1>4, <2>2, <2>5, PieceDone
  <2>7. offset = DescAt
    BY <1>2, <2>4 DEF DescAt
  <2>8. desc_offset' = IF named THEN DescAt ELSE 0
    BY <1>2, <2>1, <2>7
  <2>9. app = "done" /\ mismatch' = FALSE
    BY <1>2, <1>7, <2>1, <2>3
  <2> HIDE DEF n, m, l
  <2>10. j + 1 \in 1..l + 1 /\ j # l /\ j + 1 \in n + 3..n + m + 3
    BY <1>5, <2>4
  <2>11. state' = "DUMP_DESC"
    BY <2>6, <2>10
  <2> QED
    BY <1>1, <1>2, <2>6, <2>8, <2>9, <2>10, <2>11, WalkFrame DEF n, m, l
<1>11. CASE D!ShowEntry
  <2> DEFINE len == D!entry_len(pieces[D!Here].tag)
             other == IF offset + len >= template_size - 6 THEN "DUMP_DESC_PTR" ELSE state
  <2>1. /\ D!At(D!Entries) /\ state = "DUMP_DESC" /\ D!Show(len) /\ D!Advance(offset + len, other)
        /\ desc_offset' = desc_offset /\ mismatch' = mismatch
    BY <1>11 DEF D!ShowEntry
  <2>2. D!Here = j /\ j \in 1..l /\ pieces[j].tag \in D!Entries
    BY <1>6, <2>1
  <2>3. Whole /\ app = "done"
    BY <1>2, <1>7, <2>1
  <2>4. /\ m \in Nat /\ l = n + m + 4 /\ j \in n + 3..n + m + 3
        /\ pieces[j].len = D!entry_len(pieces[j].tag)
    BY <2>2, <2>3, WholeTags
  <2>5. len = pieces[j].len
    BY <2>2, <2>4
  <2> HIDE DEF len, other
  <2>6. D!Show(pieces[j].len) /\ D!Advance(offset + pieces[j].len, other)
    BY <2>1, <2>5
  <2>7. /\ j + 1 \in From..l + 1 /\ shown' = Shown(j + 1) /\ offset' = D!Start(j + 1)
        /\ state' = IF j = l /\ ~(app = "failed" /\ torn) THEN "DONE" ELSE other
    BY <1>2, <1>4, <2>2, <2>6, PieceDone
  <2>8. l \in 1..l /\ pieces[l].len = 6
    <3>1. /\ pieces[n + m + 4].len = 6
      BY <2>3, WholeFacts DEF Whole
    <3> QED
      BY <1>3, <2>4, <3>1
  <2>9. offset + len = D!Start(j + 1) /\ template_size = D!Start(l) + 6
    <3>1. D!Start(l + 1) = D!Start(l) + 6 /\ D!Start(l + 1) \in Nat
      <4>1. l + 1 \in 1..l + 1
        BY <1>3
      <4> QED
        BY <1>3, <2>8, <4>1
    <3>2. template_size = D!Start(l + 1)
      BY <1>3, <2>3, <3>1
    <3> QED
      BY <1>2, <1>3, <2>2, <2>5, <3>1, <3>2
  <2>10. j + 1 \in 1..l + 1 /\ j # l /\ l \in 1..l + 1
    <3> HIDE DEF n, m, l
    <3> QED
      BY <1>3, <1>5, <2>2, <2>4
  <2>11. D!Start(j + 1) \in Nat /\ D!Start(l) \in Nat /\ (j + 1 < l => D!Start(j + 1) < D!Start(l))
    BY <1>3, <2>10
  <2>12. desc_offset' = (IF named THEN DescAt ELSE 0) /\ mismatch' = FALSE
    BY <1>2, <2>1
  <2>13. state' = other
    BY <2>7, <2>10
  <2>14. CASE j = n + m + 3
    <3>1. j + 1 = l /\ j + 1 = n + m + 4
      BY <1>5, <2>4, <2>14
    <3>2. offset + len >= template_size - 6
      BY <2>9, <2>11, <3>1
    <3>3. state' = "DUMP_DESC_PTR"
      BY <2>13, <3>2 DEF other
    <3> QED
      BY <1>1, <1>2, <2>3, <2>7, <2>10, <2>12, <3>1, <3>3, WalkFrame
  <2>15. CASE j # n + m + 3
    <3>1. j + 1 < l /\ j + 1 \in n + 3..n + m + 3
      BY <1>5, <2>4, <2>15
    <3>2. ~(offset + len >= template_size - 6)
      BY <2>9, <2>11, <3>1
    <3>3. state' = "DUMP_DESC"
      BY <2>1, <2>13, <3>2 DEF other
    <3> QED
      BY <1>1, <1>2, <2>3, <2>7, <2>10, <2>12, <3>1, <3>3, WalkFrame
  <2> QED
    BY <2>14, <2>15
<1>12. CASE D!ShowPointer
  <2>1. /\ D!At({"pointer"}) /\ state = "DUMP_DESC_PTR" /\ D!Show(6) /\ D!Advance(offset + 6, "DONE")
        /\ desc_offset' = desc_offset
        /\ mismatch' = (template_size - pieces[D!Here].to # desc_offset)
    BY <1>12 DEF D!ShowPointer
  <2>2. D!Here = j /\ j \in 1..l /\ pieces[j].tag = "pointer"
    BY <1>6, <2>1
  <2>3. Whole /\ app = "done" /\ ~torn
    BY <1>2, <1>7, <2>1
  <2>4. /\ m \in Nat /\ l = n + m + 4 /\ j = n + m + 4
        /\ pieces[j].len = 6 /\ pieces[j].to = desc.len
    BY <2>2, <2>3, WholeTags
  <2>5. D!Show(pieces[j].len) /\ D!Advance(offset + pieces[j].len, "DONE")
    BY <2>1, <2>4
  <2>6. /\ j + 1 \in From..l + 1 /\ shown' = Shown(j + 1) /\ offset' = D!Start(j + 1)
        /\ state' = IF j = l /\ ~(app = "failed" /\ torn) THEN "DONE" ELSE "DONE"
    BY <1>2, <1>4, <2>2, <2>5, PieceDone
  <2>7. template_size - pieces[D!Here].to = DescAt
    BY <2>2, <2>3, <2>4, DescBegins
  <2>8. DescAt # 0
    <3>1. n + 2 \in 1..l + 1 /\ 1 \in 1..l + 1 /\ 1 < n + 2
      BY <1>5, <2>4
    <3>2. D!Start(1) \in Nat /\ D!Start(n + 2) \in Nat /\ D!Start(1) < D!Start(n + 2)
      BY <1>3, <3>1
    <3> QED
      BY <3>2 DEF DescAt
  <2>9. mismatch' = ~named
    <3>1. mismatch' = (DescAt # desc_offset)
      BY <2>1, <2>7
    <3>2. desc_offset = IF named THEN DescAt ELSE 0
      BY <1>2, <2>1
    <3>3. (DescAt # desc_offset) <=> ~named
      BY <2>8, <3>2
    <3>4. (DescAt # desc_offset) \in BOOLEAN /\ (~named) \in BOOLEAN
      OBVIOUS
    <3> QED
      BY <3>1, <3>3, <3>4
  <2>10. j + 1 \in 1..l + 1 /\ j + 1 = l + 1
    BY <1>3, <2>4
  <2>11. state' = "DONE"
    BY <2>6
  <2>12. desc_offset' = 0 \/ (app = "done" /\ desc_offset' = DescAt)
    <3>1. desc_offset' = desc_offset
      BY <1>12 DEF D!ShowPointer
    <3> QED
      BY <1>2, <3>1
  <2> QED
    BY <1>1, <2>3, <2>6, <2>9, <2>10, <2>11, <2>12, WalkFrame
<1>13. CASE D!ReadNothing
  <2>1. /\ state \in {"IN_DATA", "DUMP_DESC", "DUMP_DESC_PTR"} /\ offset >= template_size
        /\ state' = "ERROR" /\ offset' = offset /\ shown' = shown /\ mismatch' = mismatch
        /\ desc_offset' = desc_offset
    BY <1>13 DEF D!ReadNothing
  <2>2. j = l + 1
    <3>1. ~(j \in 1..l)
      <4>1. SUFFICES ASSUME j \in 1..l PROVE FALSE
        OBVIOUS
      <4>2. j \in 1..l + 1
        BY <1>3
      <4>3. D!Start(j) < template_size /\ D!Start(j) \in Nat
        BY <1>3, <4>1, <4>2
      <4>4. template_size \in Int
        <5>1. l + 1 \in 1..l + 1
          BY <1>3
        <5>2. D!Start(l + 1) \in Nat
          BY <1>3, <5>1
        <5>3. (IF app = "failed" /\ torn THEN 1 ELSE 0) \in Nat
          OBVIOUS
        <5> QED
          BY <1>3, <5>2, <5>3
      <4> QED
        BY <1>2, <2>1, <4>3, <4>4
    <3> QED
      BY <1>3, <3>1
  <2>3. state = "IN_DATA"
    <3>1. SUFFICES ASSUME state # "IN_DATA" PROVE FALSE
      OBVIOUS
    <3>2. app = "done"
      BY <1>2, <2>1, <3>1
    <3>3. m \in Nat /\ l = n + m + 4
      <4>1. Whole
        BY <1>7, <3>2
      <4> QED
        BY <4>1, WholeFacts DEF Whole
    <3>4. j \in n + 3..n + m + 3 \/ j = n + m + 4
      BY <1>2, <2>1, <3>1
    <3> HIDE DEF n, m, l
    <3> QED
      BY <1>5, <2>2, <3>3, <3>4
  <2>4. torn /\ named /\ mismatch' = ~named
    BY <1>2, <2>1, <2>2, <2>3
  <2> QED
    BY <1>1, <1>2, <2>1, <2>2, <2>4, WalkFrame
<1>14. state # "STARTING"
  BY <1>2
<1> QED
  BY <1>9, <1>10, <1>11, <1>12, <1>13, <1>14 DEF D!Next, D!FindData, D!NoData, D!SeekDesc

\* Where jigdump begins.
LEMMA FirstLook ==
  ASSUME EngineInv, Whole \/ LeftOver, UNCHANGED writeVars, D!Launched, D!Next,
         app = "done" => ~torn
  PROVE  NothingFound' \/ \E k \in 1..Len(pieces') + 1 : Walked(k)'
<1> DEFINE n == Len(ends)
           m == Len(entries)
           l == Len(pieces)
<1>1. UNCHANGED <<pieces, template_size, named>>
  BY DEF D!Next, D!FindData, D!NoData, D!SeekDesc, D!ShowData, D!ShowDesc, D!ShowEntry,
         D!ShowPointer, D!ReadNothing
<1>2. /\ state = "STARTING" /\ offset = 0 /\ desc_offset = 0 /\ shown = << >>
      /\ mismatch = FALSE
  BY DEF D!Launched
<1>3. l \in Nat \ {0} /\ n \in Nat
  BY PieceFacts, LeftFacts DEF Laid
<1>4. /\ From \in Nat /\ (named => From = 2) /\ (~named => Whole /\ From = n + 2)
  BY FromFacts
<1>5. Shown(From) = << >>
  BY <1>4, ShownNext
<1>6. CASE D!FindData
  <2>1. /\ named /\ D!DataParts # {} /\ offset' = D!Start(2) /\ state' = "IN_DATA"
        /\ desc_offset' = desc_offset /\ shown' = shown /\ mismatch' = mismatch
    BY <1>6 DEF D!FindData
  <2>2. PICK k \in 1..l : pieces[k].tag = "DATA"
    BY <2>1 DEF D!DataParts
  <2>3. pieces[1].tag = "header"
    BY WholeFacts, LeftFacts DEF Whole, LeftOver
  <2>4. k # 1
    BY <2>2, <2>3
  <2> HIDE DEF l, n
  <2>5. 2 \in 1..l + 1 /\ 2 \in 2..l + 1 /\ 2 # l + 1 /\ 2 <= n + 2
    BY <1>3, <2>4
  <2> QED
    BY <1>1, <1>2, <1>4, <1>5, <2>1, <2>5, WalkFrame DEF l, n
<1>7. CASE D!NoData
  <2>1. /\ named /\ D!DataParts = {} /\ state' \in {"DONE", "EINVAL"} /\ offset' = offset
        /\ desc_offset' = desc_offset /\ shown' = shown /\ mismatch' = mismatch
    BY <1>7 DEF D!NoData
  <2>2. D!DataParts' = D!DataParts
    BY <1>1, FileKept
  <2> QED
    BY <1>1, <1>2, <2>1, <2>2 DEF NothingFound
<1>8. CASE D!SeekDesc
  <2>1. /\ ~named /\ offset' = template_size - pieces[l].to /\ state' = "IN_DESC"
        /\ desc_offset' = desc_offset /\ shown' = shown /\ mismatch' = mismatch
    BY <1>8 DEF D!SeekDesc
  <2>2. Whole /\ From = n + 2
    BY <1>4, <2>1
  <2>3. m \in Nat /\ l = n + m + 4 /\ pieces[n + m + 4].to = desc.len
    BY <2>2, WholeFacts DEF Whole
  <2>4. offset' = D!Start(n + 2)
    BY <2>1, <2>2, <2>3, DescBegins DEF DescAt
  <2> HIDE DEF l, n
  <2>5. n + 2 \in 1..l + 1 /\ n + 2 \in From..l + 1
    BY <1>3, <2>2, <2>3
  <2> QED
    BY <1>1, <1>2, <1>4, <1>5, <2>1, <2>2, <2>4, <2>5, WalkFrame DEF l, n
<1> QED
  BY <1>2, <1>6, <1>7, <1>8 DEF D!Next, D!ShowData, D!ShowDesc, D!ShowEntry,
     D!ShowPointer, D!ReadNothing

\* jigdump.
LEMMA NextDump ==
  ASSUME EngineInv, PhaseInv, DumpInv, [Next]_vars
  PROVE  DumpInv'
<1>1. CASE Write
  <2>1. phase = "write" /\ phase' = phase /\ UNCHANGED dumpVars
    BY <1>1 DEF Write
  <2>2. D!Launched /\ named /\ pieces = << >> /\ template_size = 0
    BY <2>1 DEF DumpInv
  <2>3. D!Launched' /\ named' /\ pieces' = << >> /\ template_size' = 0
    BY <2>1, <2>2 DEF D!Launched, dumpVars
  <2> QED
    BY <2>1, <2>3 DEF DumpInv
<1>2. CASE Finished
  <2>1. /\ phase = "write" /\ app = "done" /\ UNCHANGED writeVars
        /\ pieces' = Header \o DataPieces \o DescPieces /\ template_size' = D!Size(pieces')
        /\ phase' \in {"list", "sum", "extract", "dump"} /\ (phase' = "dump" => ~torn)
        /\ UNCHANGED <<state, offset, desc_offset, shown, mismatch>>
    BY <1>2 DEF Finished
  <2>2. D!Launched'
    BY <2>1 DEF DumpInv, D!Launched
  <2>3. WholePieces' = WholePieces
    BY <2>1 DEF writeVars, WholePieces, Header, DataPieces, DescPieces, Blocks,
           EntryPiece, J!file_entry_len, J!image_entry_len
  <2>4. app' = "done" /\ torn' = torn
    BY <2>1 DEF writeVars
  <2>5. D!Size(pieces)' = D!Size(pieces')
    BY DEF D!Size, D!End
  <2>6. pieces' = WholePieces'
    BY <2>1, <2>3 DEF WholePieces
  <2>7. Whole'
    BY <2>1, <2>4, <2>5, <2>6 DEF Whole
  <2> QED
    BY <2>1, <2>2, <2>4, <2>7 DEF DumpInv
<1>3. CASE LeftBehind
  <2>1. /\ phase = "write" /\ app = "failed" /\ UNCHANGED writeVars
        /\ pieces' = LeftPieces /\ phase' = "dump"
        /\ template_size' = D!Size(pieces') - (IF torn THEN 1 ELSE 0)
        /\ UNCHANGED <<named, state, offset, desc_offset, shown, mismatch>>
    BY <1>3 DEF LeftBehind, LeftPieces
  <2>2. D!Launched' /\ named'
    BY <2>1 DEF DumpInv, D!Launched
  <2>3. LeftPieces' = LeftPieces
    BY <2>1 DEF writeVars, LeftPieces, Header, DataPieces, Blocks
  <2>4. app' = "failed" /\ torn' = torn
    BY <2>1 DEF writeVars
  <2>5. D!Size(pieces)' = D!Size(pieces')
    BY DEF D!Size, D!End
  <2>6. LeftOver'
    BY <2>1, <2>2, <2>3, <2>4, <2>5 DEF LeftOver
  <2> QED
    BY <2>1, <2>2, <2>4, <2>6 DEF DumpInv
<1>4. CASE Dumping
  <2>1. phase = "dump" /\ phase' = phase /\ UNCHANGED writeVars /\ D!Next
    BY <1>4 DEF Dumping
  <2>2. (Whole \/ LeftOver) /\ (app = "done" => ~torn)
    BY <2>1 DEF DumpInv
  <2>3. UNCHANGED <<pieces, template_size, named>>
    BY <2>1 DEF D!Next, D!FindData, D!NoData, D!SeekDesc, D!ShowData, D!ShowDesc,
           D!ShowEntry, D!ShowPointer, D!ReadNothing
  <2>4. (Whole \/ LeftOver)'
    BY <2>1, <2>2, <2>3, FileKept
  <2>5. NothingFound' \/ \E k \in 1..Len(pieces') + 1 : Walked(k)'
    <3>1. CASE D!Launched
      BY <2>1, <2>2, <3>1, FirstLook
    <3>2. CASE NothingFound
      BY <2>1, <3>2 DEF NothingFound, D!Next, D!FindData, D!NoData, D!SeekDesc,
         D!ShowData, D!ShowDesc, D!ShowEntry, D!ShowPointer, D!ReadNothing
    <3>3. CASE \E k \in 1..Len(pieces) + 1 : Walked(k)
      BY <2>1, <2>2, <3>3, WalkStep
    <3> QED
      BY <3>1, <3>2, <3>3 DEF DumpInv
  <2>6. app' = app /\ torn' = torn
    BY <2>1 DEF writeVars
  <2> QED
    BY <2>1, <2>2, <2>4, <2>5, <2>6 DEF DumpInv
<1>5. CASE ~Write /\ ~Finished /\ ~LeftBehind /\ ~Dumping
  <2>1. UNCHANGED writeVars /\ UNCHANGED dumpVars
    BY <1>5 DEF Next, Progress, Summing, Listing, Listed, ListFailed, Making,
       Rewriting, Made, Rechecked,
       Checked, Dumped, Extracting, Extracted, Over, vars
  <2>2. /\ phase' = "write" <=> phase = "write"
        /\ phase' = "dump" => phase = "dump"
        /\ phase' \notin {"dump", "end"} => phase \notin {"dump", "end"}
    BY <1>5, PhaseFrame DEF Listed, ListFailed, Rechecked, Made, Checked, Dumped, Extracted
  <2>3. UNCHANGED <<pieces, template_size, named>>
    BY <2>1 DEF dumpVars
  <2>4. /\ From' = From /\ (Whole' <=> Whole) /\ (LeftOver' <=> LeftOver)
        /\ D!DataParts' = D!DataParts /\ DescAt' = DescAt
        /\ \A k : D!Start(k)' = D!Start(k) /\ Shown(k)' = Shown(k)
    BY <2>1, <2>3, FileKept
  <2>5. (D!Launched => D!Launched') /\ (NothingFound => NothingFound')
    BY <2>1, <2>4 DEF D!Launched, NothingFound, dumpVars
  <2>6. \A k : Walked(k) => Walked(k)'
    <3> TAKE k
    <3> SUFFICES ASSUME Walked(k) PROVE Walked(k)'
      OBVIOUS
    <3>1. D!Start(k)' = D!Start(k) /\ Shown(k)' = Shown(k)
      BY <2>4
    <3> QED
      BY <2>1, <2>4, <3>1 DEF Walked, writeVars, dumpVars
  <2>7. /\ app' = app /\ torn' = torn /\ pieces' = pieces /\ named' = named
        /\ template_size' = template_size
    BY <2>1 DEF writeVars, dumpVars
  <2> QED
    BY <2>2, <2>4, <2>5, <2>6, <2>7 DEF DumpInv
<1> QED
  BY <1>1, <1>2, <1>3, <1>4, <1>5

\* jigdump has not been started at first.
LEMMA InitDump == Init => DumpInv
BY DEF Init, DumpInv

\* What jigdump has printed when it is at its end.
LEMMA DumpedRight ==
  ASSUME EngineInv, DumpInv
  PROVE  DumpRight
<1> SUFFICES ASSUME state \in {"DONE", "ERROR", "EINVAL"}, named => D!DataParts # {}
             PROVE  /\ shown = [k \in 1..Len(pieces) - From + 1 |-> PieceShown(From + k - 1)]
                    /\ mismatch = ~named
                    /\ state = "ERROR" <=> torn
  BY DEF DumpRight
<1>1. ~D!Launched /\ ~NothingFound
  BY DEF D!Launched, NothingFound
<1>2. PICK j \in 1..Len(pieces) + 1 : Walked(j)
  BY <1>1 DEF DumpInv
<1>3. phase # "write"
  BY <1>1 DEF DumpInv
<1>4. From \in Nat /\ Len(pieces) \in Nat
  BY <1>3, FromFacts DEF DumpInv
<1>5. state \in {"DONE", "ERROR"}
  BY <1>2 DEF Walked
<1>6. j = Len(pieces) + 1 /\ shown = Shown(j) /\ mismatch = ~named /\ (state = "ERROR" <=> torn)
  BY <1>2, <1>5 DEF Walked
<1>7. j - From = Len(pieces) - From + 1
  BY <1>4, <1>6
<1>8. shown = [k \in 1..Len(pieces) - From + 1 |-> PieceShown(From + k - 1)]
  BY <1>6, <1>7 DEF Shown
<1> QED
  BY <1>6, <1>8
-----------------------------------------------------------------------------
(* extract-data. *)

\* The bytes of the image that no matched file has are the content of the DATA parts,
\* if the application has seen every failure.
LEMMA UnmatchedFacts ==
  ASSUME EngineInv, app = "done", Careful
  PROVE  Unmatched = data
<1> DEFINE n == Len(desc.entries)
           piece(k) == SubSeq(image, entries[k].at + 1, entries[k].at + entries[k].len)
           own(k) == entries[k].type # "FILE_MATCH"
           V == Seq(Byte)
           next == [x \in (1..n) \X V |-> IF own(x[1]) THEN x[2] \o piece(x[1]) ELSE x[2]]
           Bytes(f) == f = [k \in 0..n |->
                              IF k = 0 THEN << >>
                              ELSE LET e == desc.entries[k] IN
                                   IF e.type = "FILE_MATCH" THEN f[k - 1]
                                   ELSE f[k - 1] \o SubSeq(image, e.at + 1, e.at + e.len)]
           g == CHOOSE f : Bytes(f)
           from(k) == BeginData(k)
<1>1. /\ desc.entries = entries /\ n \in Nat
      /\ image \in Seq(Byte) /\ data \in Seq(Byte) /\ Len(data) \in Nat
  BY FooterFacts
<1>2. /\ from(1) = 0 /\ from(n + 1) = Len(data)
      /\ \A k \in 1..n :
           /\ from(k) = entries[k].from
           /\ from(k + 1) = entries[k].from + (IF entries[k].type = "NOMATCH" THEN entries[k].len ELSE 0)
           /\ from(k + 1) <= Len(data)
           /\ entries[k].at + entries[k].len <= Len(image)
           /\ ~own(k) \/ piece(k) = SubSeq(data, entries[k].from + 1, entries[k].from + entries[k].len)
  BY <1>1, PlaceFacts
<1>3. \A k \in 1..n : /\ entries[k].at \in Nat /\ entries[k].len \in Nat /\ entries[k].from \in Nat
                      /\ own(k) <=> entries[k].type = "NOMATCH"
  BY <1>1, EntryFacts
<1>4. \A k \in 1..n : piece(k) \in V
  <2> TAKE k \in 1..n
  <2>1. PICK a \in Nat, b \in Nat : a = entries[k].at /\ b = entries[k].len
    BY <1>3
  <2>2. a + b <= Len(image)
    BY <1>2, <2>1
  <2>3. SubSeq(image, a + 1, a + b) \in Seq(Byte)
    BY <1>1, <2>2, Behind
  <2> QED
    BY <2>1, <2>3
<1>5. g = [k \in 0..n |->
             IF k = 0 THEN << >> ELSE IF own(k) THEN g[k - 1] \o piece(k) ELSE g[k - 1]]
  <2>1. next \in [(1..n) \X V -> V]
    <3>1. ASSUME NEW x \in (1..n) \X V
          PROVE  (IF own(x[1]) THEN x[2] \o piece(x[1]) ELSE x[2]) \in V
      <4>1. x[1] \in 1..n /\ x[2] \in V
        OBVIOUS
      <4>2. piece(x[1]) \in V
        BY <1>4, <4>1
      <4> HIDE DEF piece, own
      <4>3. x[2] \o piece(x[1]) \in V
        BY <4>1, <4>2, ConcatSeq
      <4> QED
        BY <4>1, <4>3
    <3> HIDE DEF piece, own, V
    <3> QED
      BY <3>1
  <2>2. << >> \in V
    BY EmptySeq
  <2>3. PICK f \in [0..n -> V] : Builds(f, n, << >>, next)
    <3> HIDE DEF next, V, n
    <3>1. n \in Nat
      BY <1>1
    <3> QED
      BY <2>1, <2>2, <3>1, Built
  <2>4. \A k \in 1..n : f[k] = IF own(k) THEN f[k - 1] \o piece(k) ELSE f[k - 1]
    <3> TAKE k \in 1..n
    <3>1. k - 1 \in 0..n
      BY <1>1
    <3>2. f[k - 1] \in V
      BY <3>1
    <3>3. f[k] = next[<<k, f[k - 1]>>]
      BY <2>3 DEF Builds
    <3> HIDE DEF piece, own, V
    <3> QED
      BY <3>2, <3>3
  <2>5. \A k \in 1..n : desc.entries[k] = entries[k]
    BY <1>1
  <2>6. f = [k \in 0..n |-> f[k]]
    OBVIOUS
  <2>7. \A k \in 0..n : f[k] = IF k = 0 THEN << >>
                               ELSE IF own(k) THEN f[k - 1] \o piece(k) ELSE f[k - 1]
    <3> TAKE k \in 0..n
    <3>1. k = 0 \/ k \in 1..n
      BY <1>1
    <3> HIDE DEF piece, own
    <3> QED
      BY <2>3, <2>4, <3>1 DEF Builds
  <2>8. ASSUME NEW h
        PROVE  Bytes(h) <=>
                 h = [k \in 0..n |-> IF k = 0 THEN << >>
                                     ELSE IF own(k) THEN h[k - 1] \o piece(k) ELSE h[k - 1]]
    BY <1>1
  <2>9. Bytes(f)
    <3>1. f = [k \in 0..n |-> IF k = 0 THEN << >>
                              ELSE IF own(k) THEN f[k - 1] \o piece(k) ELSE f[k - 1]]
      <4> HIDE DEF piece, own
      <4> QED
        BY <2>6, <2>7
    <3> HIDE DEF piece, own, Bytes
    <3> QED
      BY <2>8, <3>1
  <2>10. Bytes(g)
    <3> HIDE DEF Bytes
    <3> QED
      BY <2>9
  <2> HIDE DEF g, Bytes, piece, own
  <2> QED
    BY <2>8, <2>10
<1>6. Unmatched = g[n]
  BY DEF Unmatched
<1> HIDE DEF g, piece, own, V, Bytes, n
<1>7. g[0] = << >> /\ \A k \in 1..n : g[k] = IF own(k) THEN g[k - 1] \o piece(k) ELSE g[k - 1]
  <2>1. 0 \in 0..n /\ \A k \in 1..n : k \in 0..n /\ k # 0
    BY <1>1
  <2> QED
    BY <1>5, <2>1
<1> DEFINE P == {k \in 0..n : g[k] = SubSeq(data, 1, from(k + 1))}
<1>8. 0 \in P
  <2>1. SubSeq(data, 1, 0) = << >>
    BY <1>1
  <2>2. 0 \in 0..n /\ 0 + 1 = 1
    BY <1>1
  <2>3. from(0 + 1) = 0
    BY <1>2, <2>2
  <2>4. g[0] = SubSeq(data, 1, from(0 + 1))
    BY <1>7, <2>1, <2>3
  <2> HIDE DEF from
  <2> QED
    BY <2>2, <2>4
<1>9. ASSUME NEW k \in 0..n-1, k \in P PROVE k + 1 \in P
  <2>1. k + 1 \in 1..n /\ k + 1 \in 0..n /\ (k + 1) - 1 = k
    BY <1>1
  <2>2. PICK a \in Nat, b \in Nat : a = entries[k + 1].from /\ b = entries[k + 1].len
    BY <1>3, <2>1
  <2>3. g[k] = SubSeq(data, 1, a)
    BY <1>2, <1>9, <2>1, <2>2
  <2>4. CASE own(k + 1)
    <3>1. from((k + 1) + 1) = a + b /\ a + b <= Len(data)
      BY <1>2, <1>3, <2>1, <2>2, <2>4
    <3>2. g[k + 1] = SubSeq(data, 1, a) \o SubSeq(data, a + 1, a + b)
      BY <1>2, <1>7, <2>1, <2>2, <2>3, <2>4
    <3>3. 0 \in Nat /\ a + b \in Nat /\ 0 <= a /\ a <= a + b /\ 0 + 1 = 1
      OBVIOUS
    <3>4. SubSeq(data, 0 + 1, a) \o SubSeq(data, a + 1, a + b) = SubSeq(data, 0 + 1, a + b)
      BY <1>1, <3>1, <3>3, Joined
    <3> QED
      BY <2>1, <3>1, <3>2, <3>3, <3>4
  <2>5. CASE ~own(k + 1)
    <3>1. from((k + 1) + 1) = a
      <4>1. from((k + 1) + 1) = a + 0
        BY <1>2, <1>3, <2>1, <2>2, <2>5
      <4> QED
        BY <4>1
    <3> QED
      BY <1>7, <2>1, <2>3, <2>5, <3>1
  <2> QED
    BY <2>4, <2>5
<1> HIDE DEF P
<1>10. n \in P
  <2>1. n \in Nat /\ n \in 0..n
    BY <1>1 DEF n
  <2>2. \A k \in 0..n : k \in P
    BY <1>8, <1>9, <2>1, Climb
  <2> QED
    BY <2>1, <2>2
<1>11. g[n] = SubSeq(data, 1, Len(data))
  BY <1>2, <1>10 DEF P
<1>12. SubSeq(data, 1, Len(data)) = data
  BY <1>1
<1> QED
  BY <1>6, <1>11, <1>12

\* Where the part before ends is known, and what lies before it.
LEMMA UptoFacts ==
  ASSUME EngineInv, NEW k \in 1..Len(ends) + 1
  PROVE  /\ Upto(k) \in Nat /\ Upto(k) <= Len(data) /\ Len(ends) \in Nat
         /\ SubSeq(data, 1, Upto(k)) \in Seq(Byte)
         /\ k = Len(ends) + 1 => Upto(k) = Len(data)
         /\ k # Len(ends) + 1 => /\ Len(Blocks) = Len(ends) /\ Blocks[k] \in Seq(Byte)
                                 /\ SubSeq(data, 1, Upto(k)) \o Blocks[k] = SubSeq(data, 1, Upto(k + 1))
<1>1. data \in Seq(Byte) /\ Len(data) \in Nat
  BY DEF EngineInv, JP!IInv, JP!TypeOK
<1>2. /\ Len(Blocks) = Len(ends) /\ Len(ends) \in Nat
      /\ \A m \in 1..Len(ends) :
           LET a == IF m = 1 THEN 0 ELSE ends[m - 1] IN
           /\ a \in Nat /\ ends[m] \in Nat /\ a < ends[m] /\ ends[m] <= Len(data)
           /\ Blocks[m] = SubSeq(data, a + 1, ends[m]) /\ Blocks[m] \in Seq(Byte)
      /\ IF Len(ends) = 0 THEN Len(data) = 0 ELSE ends[Len(ends)] = Len(data)
  BY BlockFacts
<1>3. Upto(k) \in Nat /\ Upto(k) <= Len(data)
  <2>1. CASE k = 1
    BY <1>1, <2>1 DEF Upto
  <2>2. CASE k # 1
    <3>1. k - 1 \in 1..Len(ends)
      BY <1>2, <2>2
    <3> QED
      BY <1>2, <2>2, <3>1 DEF Upto
  <2> QED
    BY <2>1, <2>2
<1>4. PICK u \in Nat : u = Upto(k)
  BY <1>3
<1>5. SubSeq(data, 1, u) \in Seq(Byte)
  <2>1. u \in 0..Len(data) /\ 0 + 1 = 1 /\ 0 \in Nat
    BY <1>1, <1>3, <1>4
  <2>2. SubSeq(data, 0 + 1, u) \in Seq(Byte)
    BY <1>1, <2>1, Cut
  <2> QED
    BY <2>1, <2>2
<1>6. k = Len(ends) + 1 => Upto(k) = Len(data)
  <2>1. SUFFICES ASSUME k = Len(ends) + 1 PROVE Upto(k) = Len(data)
    OBVIOUS
  <2>2. (k = 1 <=> Len(ends) = 0) /\ k - 1 = Len(ends)
    BY <1>2, <2>1
  <2> QED
    BY <1>2, <2>2 DEF Upto
<1>7. ASSUME k # Len(ends) + 1
      PROVE  /\ Blocks[k] \in Seq(Byte)
             /\ SubSeq(data, 1, u) \o Blocks[k] = SubSeq(data, 1, Upto(k + 1))
  <2>1. k \in 1..Len(ends) /\ k + 1 # 1 /\ (k + 1) - 1 = k
    BY <1>2, <1>7
  <2>2. PICK v \in Nat : v = ends[k]
    BY <1>2, <2>1
  <2>3. u <= v /\ v <= Len(data) /\ Blocks[k] = SubSeq(data, u + 1, v) /\ Upto(k + 1) = v
    BY <1>2, <1>4, <2>1, <2>2 DEF Upto
  <2>4. 0 \in Nat /\ 0 <= u /\ 0 + 1 = 1
    OBVIOUS
  <2>5. SubSeq(data, 0 + 1, u) \o SubSeq(data, u + 1, v) = SubSeq(data, 0 + 1, v)
    BY <1>1, <2>3, <2>4, Joined
  <2> QED
    BY <1>2, <2>1, <2>3, <2>4, <2>5
<1> QED
  BY <1>2, <1>3, <1>4, <1>5, <1>6, <1>7

\* The unmatched data, and how many DATA parts it is in.
LEMMA DataTyped == EngineInv => data \in Seq(Byte) /\ Len(ends) \in Nat
BY BlockFacts DEF EngineInv, JP!IInv, JP!TypeOK

\* What is extracted is not changed by other tools.
LEMMA ExtractFrame ==
  ASSUME [Next]_vars
  PROVE  Extracting \/ UNCHANGED extractVars
BY DEF Next, Progress, Write, Finished, LeftBehind, Summing, Listing, Listed,
   ListFailed, Making, Rewriting,
   Made, Rechecked, Checked, Dumping, Dumped, Extracted, Over, vars

\* extract-data.
LEMMA NextExtract ==
  ASSUME EngineInv, ExtractInv, [Next]_vars
  PROVE  ExtractInv'
<1>1. CASE Extracting
  <2>1. /\ phase = "extract" /\ phase' = phase /\ UNCHANGED writeVars
        /\ X!Extract \/ X!Stop
    BY <1>1 DEF Extracting
  <2>2. /\ app = "done" /\ part_at \in 1..Len(ends) + 1 /\ extracted \in Seq(Byte)
        /\ ~unwritten => extracted = SubSeq(data, 1, Upto(part_at))
    BY <2>1 DEF ExtractInv
  <2>3. PICK c \in Unreadables(Len(Blocks)) : template = Template(c)
    BY <2>1 DEF ExtractInv
  <2>4. template.blocks = Blocks /\ template.corrupt = c
    BY <2>3 DEF Template
  <2>5. Len(Blocks) = Len(ends) /\ Len(ends) \in Nat
    BY BlockFacts
  <2>6. /\ template' = template /\ app' = app /\ ends' = ends /\ data' = data /\ torn' = torn
        /\ (Careful' <=> Careful)
    BY <2>1, SameExecution DEF X!Extract, X!Stop, writeVars
  <2>7. \E d \in Unreadables(Len(Blocks))' : template' = Template(d)'
    <3>1. Unreadables(Len(Blocks))' = Unreadables(Len(Blocks)) /\ Template(c)' = Template(c)
      BY <2>1 DEF Unreadables, Template, DescEntries, Begin, BeginData, Blocks, Sum, writeVars
    <3> QED
      BY <2>3, <2>6, <3>1
  <2>8. \A k : Upto(k)' = Upto(k)
    BY <2>6 DEF Upto
  <2>9. CASE X!Extract
    <3>1. /\ ~extract_done /\ extract_done' = extract_done
          /\ part_at <= Len(Blocks) /\ part_at' = part_at + 1
          /\ \/ extracted' = extracted \o Blocks[part_at] /\ unwritten' = unwritten
             \/ unwritten' = TRUE /\ extracted' = extracted
      BY <2>4, <2>9 DEF X!Extract, X!Readable
    <3>2. PICK k \in 1..Len(ends) + 1 : k = part_at
      BY <2>2
    <3>3. k # Len(ends) + 1 /\ k + 1 \in 1..Len(ends) + 1
      BY <2>5, <3>1, <3>2
    <3>4. /\ Blocks[k] \in Seq(Byte)
          /\ SubSeq(data, 1, Upto(k)) \o Blocks[k] = SubSeq(data, 1, Upto(k + 1))
      BY <3>3, UptoFacts
    <3>5. extracted' \in Seq(Byte)
      BY <2>2, <3>1, <3>2, <3>4, ConcatSeq
    <3>6. ~unwritten' => extracted' = SubSeq(data, 1, Upto(k + 1))
      <4> SUFFICES ASSUME ~unwritten' PROVE extracted' = SubSeq(data, 1, Upto(k + 1))
        OBVIOUS
      <4>1. \/ extracted' = extracted \o Blocks[part_at] /\ unwritten' = unwritten
            \/ unwritten' = TRUE
        BY <3>1, Zenon
      <4>2. unwritten' # TRUE
        BY Zenon
      <4>3. extracted' = extracted \o Blocks[part_at] /\ unwritten' = unwritten
        BY <4>1, <4>2, Zenon
      <4>4. extracted' = extracted \o Blocks[part_at] /\ ~unwritten
        BY <4>3, Zenon
      <4>5. extracted = SubSeq(data, 1, Upto(part_at))
        BY <2>2, <4>4, Zenon
      <4>6. extracted' = extracted \o Blocks[part_at]
        BY <4>4
      <4>7. extracted' = SubSeq(data, 1, Upto(k)) \o Blocks[k]
        BY <3>2, <4>5, <4>6
      <4> QED
        BY <3>4, <4>7
    <3>7. part_at' = k + 1 /\ Upto(k + 1)' = Upto(k + 1)
      BY <2>8, <3>1, <3>2
    <3>8. Upto(part_at)' = Upto(k + 1)
      BY <2>6, <3>7 DEF Upto
    <3> QED
      BY <2>1, <2>2, <2>6, <2>7, <3>1, <3>3, <3>5, <3>6, <3>7, <3>8 DEF ExtractInv
  <2>10. CASE X!Stop
    <3>1. /\ extract_done' = TRUE /\ ~X!Readable
          /\ UNCHANGED <<part_at, extracted, unwritten>>
      BY <2>10 DEF X!Stop
    <3>2. Careful => part_at = Len(ends) + 1
      <4> SUFFICES ASSUME Careful PROVE part_at = Len(ends) + 1
        OBVIOUS
      <4>1. ~torn
        BY <2>2, SameKinds DEF EngineInv, JP!IInv, JP!TrackInv
      <4>2. c = {}
        BY <4>1 DEF Unreadables
      <4>3. ~(part_at <= Len(Blocks))
        BY <2>4, <3>1, <4>2 DEF X!Readable
      <4> QED
        BY <2>2, <2>5, <4>3
    <3>3. Upto(part_at)' = Upto(part_at)
      BY <2>6, <3>1 DEF Upto
    <3> QED
      BY <2>1, <2>2, <2>6, <2>7, <3>1, <3>2, <3>3 DEF ExtractInv
  <2> QED
    BY <2>1, <2>9, <2>10
<1>2. CASE Write
  <2>1. phase = "write" /\ phase' = phase /\ UNCHANGED extractVars
    BY <1>2 DEF Write
  <2>2. X!Ready'
    BY <2>1 DEF ExtractInv, X!Ready, extractVars
  <2>3. EngineInv'
    BY NextEngine
  <2>4. (EngineInv => data \in Seq(Byte) /\ Len(ends) \in Nat)'
    BY DataTyped, PTL
  <2>5. data' \in Seq(Byte) /\ Len(ends') \in Nat
    BY <2>3, <2>4
  <2>6. part_at' = 1 /\ extracted' = << >> /\ extract_done' = FALSE /\ 1 \in 1..Len(ends') + 1
    BY <2>2, <2>5 DEF X!Ready
  <2>7. extracted' = SubSeq(data', 1, 0) /\ Upto(part_at)' = 0
    BY <2>5, <2>6 DEF Upto
  <2>8. extracted' \in Seq(Byte)
    BY <2>6, EmptySeq
  <2> QED
    BY <2>1, <2>2, <2>6, <2>7, <2>8 DEF ExtractInv
<1>3. CASE ~Extracting /\ ~Write
  <2>1. UNCHANGED extractVars /\ UNCHANGED writeVars
    BY <1>3, ExtractFrame, WriteFrame
  <2>2. /\ app' = app /\ ends' = ends /\ data' = data /\ (Careful' <=> Careful)
        /\ UNCHANGED <<part_at, extracted, unwritten, extract_done>>
    BY <2>1, SameExecution DEF writeVars, extractVars
  <2>3. Upto(part_at)' = Upto(part_at)
    BY <2>2 DEF Upto
  <2>4. phase' \notin {"extract", "end"} => X!Ready'
    <3>1. phase' \notin {"extract", "end"} => phase \notin {"extract", "end"}
      BY <1>3, PhaseFrame DEF Finished, LeftBehind, Listed, ListFailed, Rechecked,
         Made, Checked,
         Dumped, Extracted
    <3> QED
      BY <2>2, <3>1 DEF ExtractInv, X!Ready
  <2>5. phase' = "extract" => /\ app' = "done"
                              /\ \E d \in Unreadables(Len(Blocks))' : template' = Template(d)'
    <3> SUFFICES ASSUME phase' = "extract"
                 PROVE  /\ app' = "done"
                        /\ \E d \in Unreadables(Len(Blocks))' : template' = Template(d)'
      OBVIOUS
    <3>1. \A d : Template(d)' = Template(d)
      BY <2>1 DEF Template, DescEntries, Begin, BeginData, Blocks, Sum, writeVars
    <3>2. Unreadables(Len(Blocks))' = Unreadables(Len(Blocks))
      BY <2>1 DEF Unreadables, Blocks, writeVars
    <3>3. CASE Finished
      BY <2>2, <3>1, <3>2, <3>3 DEF Finished
    <3>4. CASE ~Finished
      <4>1. phase = "extract"
        BY <3>4, PhaseFrame DEF LeftBehind, Listed, ListFailed, Rechecked, Made,
           Checked, Dumped, Extracted
      <4>2. template' = template
        BY <1>3, <3>4, <4>1 DEF Next, Progress, LeftBehind, Summing, Listing, Listed,
           ListFailed, Making,
           Rewriting, Made, Rechecked, Checked, Dumping, Dumped, Extracted, Over, vars, makeVars
      <4>3. app = "done" /\ \E c \in Unreadables(Len(Blocks)) : template = Template(c)
        BY <4>1 DEF ExtractInv
      <4> QED
        BY <2>2, <3>1, <3>2, <4>2, <4>3
    <3> QED
      BY <3>3, <3>4
  <2> QED
    BY <2>2, <2>3, <2>4, <2>5 DEF ExtractInv
<1> QED
  BY <1>1, <1>2, <1>3

\* What has been extracted when there is nothing more to read.
LEMMA ExtractedFacts ==
  ASSUME EngineInv, ExtractInv
  PROVE  ExtractedRight
<1> SUFFICES ASSUME extract_done, Careful, ~unwritten
             PROVE  extracted = Unmatched
  BY DEF ExtractedRight
<1>1. /\ app = "done" /\ part_at = Len(ends) + 1 /\ part_at \in 1..Len(ends) + 1
      /\ extracted = SubSeq(data, 1, Upto(part_at))
  BY DEF ExtractInv
<1>2. Upto(part_at) = Len(data)
  BY <1>1, UptoFacts
<1>3. SubSeq(data, 1, Len(data)) = data
  BY DEF EngineInv, JP!IInv, JP!TypeOK
<1> QED
  BY <1>1, <1>2, <1>3, UnmatchedFacts
-----------------------------------------------------------------------------
(* Types. *)

\* jigsum's mode and exit status.
LEMMA NextMode ==
  ASSUME ModeInv, SumInv, [Next]_vars
  PROVE  ModeInv'
<1>1. CASE Summing
  <2>1. S!Next
    BY <1>1 DEF Summing
  <2>2. CASE S!Return
    <3>1. mode' = "ended" /\ exit_status' = sum_error % Statuses
      BY <2>2 DEF S!Return
    <3>2. PICK n \in Nat, m \in Nat \ {0} : n = sum_error /\ m = Statuses
      BY ConstantsAssumption DEF SumInv
    <3>3. n % m \in 0..m - 1
      OBVIOUS
    <3> QED
      BY <3>1, <3>2, <3>3 DEF ModeInv
  <2>3. CASE ~S!Return
    <3>1. mode' = mode /\ exit_status' = exit_status
      BY <2>1, <2>3 DEF S!Next, S!Open, S!OpenFails, S!Read, S!ReadFails, S!EndOfFile,
         S!MalformedLine, S!ListFails, S!ListEnds, S!FileDone
    <3> QED
      BY <3>1 DEF ModeInv
  <2> QED
    BY <2>2, <2>3
<1>2. CASE Rechecked
  <2>1. mode' = "check" /\ exit_status' = 0
    BY <1>2 DEF Rechecked
  <2>2. 0 \in 0..Statuses - 1
    BY ConstantsAssumption
  <2> QED
    BY <2>1, <2>2 DEF ModeInv
<1>3. CASE UNCHANGED sumVars
  BY <1>3 DEF sumVars, ModeInv
<1> QED
  BY <1>1, <1>2, <1>3, SumFrame

\* jigsum's mode and exit status at first.
LEMMA InitMode == Init => ModeInv
<1> SUFFICES ASSUME Init PROVE ModeInv
  OBVIOUS
<1>1. mode = "calc" /\ exit_status = 0
  BY DEF Init, S!Begins
<1>2. 0 \in 0..Statuses - 1
  BY ConstantsAssumption
<1> QED
  BY <1>1, <1>2 DEF ModeInv

\* The state of jigdump.
LEMMA DumpTyped ==
  ASSUME EngineInv, DumpInv
  PROVE  /\ state \in {"STARTING", "IN_DATA", "IN_DESC", "DUMP_DESC", "DUMP_DESC_PTR",
                       "DONE", "ERROR", "EINVAL"}
         /\ offset \in Nat /\ desc_offset \in 0..template_size
         /\ Len(shown) <= Len(pieces)
<1>1. CASE phase = "write"
  BY <1>1 DEF DumpInv, D!Launched
<1>2. CASE phase # "write"
  <2> DEFINE l == Len(pieces)
  <2>1. Whole \/ LeftOver
    BY <1>2 DEF DumpInv
  <2>2. /\ l \in Nat \ {0}
        /\ \A k \in 1..l + 1 : D!Start(k) \in Nat
        /\ \A k \in 1..l : D!Start(k) < template_size
        /\ template_size = D!Start(l + 1) - (IF app = "failed" /\ torn THEN 1 ELSE 0)
    BY <2>1, PieceFacts DEF Laid
  <2>3. template_size \in Nat
    <3>1. 1 \in 1..l /\ 1 \in 1..l + 1 /\ l + 1 \in 1..l + 1
      BY <2>2
    <3>2. D!Start(1) \in Nat /\ D!Start(1) < template_size /\ D!Start(l + 1) \in Nat
      BY <2>2, <3>1
    <3>3. (IF app = "failed" /\ torn THEN 1 ELSE 0) \in {0, 1}
      OBVIOUS
    <3>4. template_size \in Int
      BY <2>2, <3>2, <3>3
    <3> QED
      BY <3>2, <3>4
  <2>4. CASE D!Launched \/ NothingFound
    <3>1. /\ state \in {"STARTING", "DONE", "EINVAL"} /\ offset = 0 /\ desc_offset = 0
          /\ shown = << >>
      BY <2>4 DEF D!Launched, NothingFound
    <3> QED
      BY <2>2, <2>3, <3>1
  <2>5. CASE \E j \in 1..l + 1 : Walked(j)
    <3>1. PICK j \in 1..l + 1 : Walked(j)
      BY <2>5
    <3>2. /\ j \in From..l + 1 /\ shown = Shown(j) /\ offset = D!Start(j)
          /\ state \in {"IN_DATA", "IN_DESC", "DUMP_DESC", "DUMP_DESC_PTR", "DONE", "ERROR"}
          /\ desc_offset = 0 \/ (app = "done" /\ desc_offset = DescAt)
      BY <3>1 DEF Walked
    <3>3. From \in Nat
      BY <2>1, FromFacts
    <3>4. Len(shown) <= l
      <4>1. PICK f \in Nat : f = From
        BY <3>3
      <4>2. j - f \in Nat /\ j - f <= l
        <5>1. From >= 1
          BY <2>1, FromFacts, LeftFacts
        <5> QED
          BY <2>2, <3>2, <4>1, <5>1
      <4>3. Len(Shown(j)) = j - f
        BY <4>1, <4>2 DEF Shown
      <4> QED
        BY <3>2, <4>2, <4>3
    <3>5. app = "done" => DescAt \in 0..template_size
      <4> SUFFICES ASSUME app = "done" PROVE DescAt \in 0..template_size
        OBVIOUS
      <4>1. Whole
        BY <2>1 DEF LeftOver
      <4>2. Len(ends) \in Nat /\ Len(entries) \in Nat /\ l = Len(ends) + Len(entries) + 4
        BY <4>1, WholeFacts DEF Whole
      <4>3. Len(ends) + 2 \in 1..l /\ Len(ends) + 2 \in 1..l + 1
        BY <4>2
      <4> QED
        BY <2>2, <2>3, <4>3 DEF DescAt
    <3> QED
      BY <2>2, <2>3, <3>2, <3>4, <3>5
  <2> QED
    BY <2>4, <2>5 DEF DumpInv
<1> QED
  BY <1>1, <1>2

\* The state of extract-data at first.
LEMMA InitExtract == Init => ExtractInv
<1> SUFFICES ASSUME Init PROVE ExtractInv
  OBVIOUS
<1>1. phase = "write" /\ X!Ready /\ J!Init
  BY DEF Init
<1>2. data \in Seq(Byte) /\ Len(ends) \in Nat
  BY <1>1, EngineFirst, DataTyped
<1>3. part_at = 1 /\ extracted = << >> /\ extract_done = FALSE /\ 1 \in 1..Len(ends) + 1
  BY <1>1, <1>2 DEF X!Ready
<1>4. extracted = SubSeq(data, 1, 0) /\ Upto(part_at) = 0
  BY <1>2, <1>3 DEF Upto
<1>5. extracted \in Seq(Byte)
  BY <1>3, EmptySeq
<1> QED
  BY <1>1, <1>3, <1>4, <1>5 DEF ExtractInv

\* Every variable has its type.
LEMMA Typed ==
  ASSUME IInv
  PROVE  TypeOK
<1>1. J!TypeOK
  BY DEF IInv, EngineInv, JP!IInv, JP!TypeOK, J!TypeOK, JP!Entry, J!Entry
<1>2. /\ arg \in Nat /\ line \in Nat /\ reading \in BOOLEAN /\ fed \in Seq(Byte)
      /\ printed \in Seq(S!Lines) /\ sum_error \in Nat
  BY DEF IInv, SumInv
<1>6. /\ gen_arg \in Nat \ {0} /\ items \subseteq DOMAIN disk
      /\ item \in DOMAIN disk \cup {G!NoItem} /\ summed \in Seq(Byte)
      /\ generated \in Seq(G!Lines) /\ gen_state \in {"run", "ok", "failed"}
  BY DEF IInv, GenInv
<1>3. phase \in {"write", "list", "make", "sum", "check", "dump", "extract", "end"}
  BY DEF IInv, PhaseInv
<1>4. /\ state \in {"STARTING", "IN_DATA", "IN_DESC", "DUMP_DESC", "DUMP_DESC_PTR",
                    "DONE", "ERROR", "EINVAL"}
      /\ offset \in Nat /\ desc_offset \in 0..template_size
      /\ Len(shown) <= Len(pieces)
  BY DumpTyped DEF IInv
<1>5. part_at \in 1..Len(Blocks) + 1 /\ extracted \in Seq(Byte)
  <2>1. Len(Blocks) = Len(ends)
    BY BlockFacts DEF IInv
  <2> QED
    BY <2>1 DEF IInv, ExtractInv
<1> QED
  BY <1>1, <1>2, <1>3, <1>4, <1>5, <1>6 DEF TypeOK, IInv, ModeInv
-----------------------------------------------------------------------------
(* Together. *)

\* At first the invariant holds.
LEMMA InitInv == Init => IInv
<1> SUFFICES ASSUME Init
             PROVE  IInv
  OBVIOUS
<1>1. phase = "write" /\ J!Init /\ M!Started /\ disk \in Disks /\ rewritten = FALSE
  BY DEF Init
<1>2. /\ arg = 1 /\ line = 1 /\ reading = FALSE /\ fed = << >> /\ sum_error = 0
      /\ printed = << >>
  BY DEF Init, S!Begins
<1>3. EngineInv
  BY <1>1, EngineFirst
<1>4. DiskInv
  <2>1. disk \in [DOMAIN disk -> Seq(Byte)]
    BY <1>1, MConstants DEF MP!ConstantsAssumption
  <2>2. DOMAIN disk \subseteq MP!Paths
    BY <1>1 DEF MP!Paths
  <2> QED
    BY <1>1, <2>1, <2>2 DEF DiskInv
<1>5. PhaseInv
  BY <1>1, SameEnds DEF PhaseInv
<1>6. TemplateInv /\ MakeInv /\ ReadyInv /\ EndInv /\ CheckInv
  BY <1>1 DEF TemplateInv, MakeInv, ReadyInv, EndInv, CheckInv
<1>7. SumInv
  <2>1. fed \in Seq(Byte) /\ printed \in Seq(S!Lines)
    BY <1>2, EmptySeq
  <2>2. arg \in Nat \ {0} /\ line \in Nat \ {0} /\ sum_error \in Nat
    BY <1>2
  <2> QED
    BY <1>2, <2>1, <2>2, Zenon DEF SumInv
<1> QED
  BY <1>3, <1>4, <1>5, <1>6, <1>7, InitGen, InitDump, InitExtract, InitMode DEF IInv

\* It holds in every state.
LEMMA Invariant == Spec => []IInv
<1>1. IInv /\ [Next]_vars => IInv'
  BY NextEngine, NextDisk, NextPhase, NextTemplate, NextMake, NextReady, NextEnd, NextSum,
     NextMode, NextCheck, NextGen, NextList, NextDump, NextExtract DEF IInv
<1> QED
  BY <1>1, InitInv, PTL DEF Spec

\* An image that jigit-mkimage makes again is the image that the application wrote
\* with libjte: for every image, any way of cutting it into matched and unmatched
\* data, any .jigdo, any mirror, any list that jigdo-gen-checksum-list has printed
\* of it and whoever writes to it meanwhile.  With -v nothing is asked of the
\* application; without it is asked that it has seen every failure and that no file
\* was cut off while it was copied.
THEOREM ImagesAreRebuilt == Spec => []Rebuilt
<1>1. IInv => Rebuilt
  <2> SUFFICES ASSUME IInv
               PROVE  Rebuilt
    OBVIOUS
  <2>1. CASE phase = "make"
    BY <2>1, MadeRight DEF IInv
  <2>2. CASE phase = "end"
    BY <2>2 DEF IInv, EndInv
  <2>3. CASE phase \notin {"make", "end"}
    <3>1. MP!Started
      BY <2>3 DEF IInv, PhaseInv
    <3> QED
      BY <3>1, Unfinished DEF Rebuilt
  <2> QED
    BY <2>1, <2>2, <2>3
<1> QED
  BY <1>1, Invariant, PTL

\* Whatever an application has finished after seeing every failure, jigit-mkimage can read
\* to its end: with any setup, image and .jigdo, any mirror that serves the files and is
\* left alone, any options that ask for an image or a range of it, and a list that
\* jigdo-gen-checksum-list has made there, of whatever files and directories, even with
\* lines for files that could not be read.
THEOREM TemplatesAreReadable == Spec => []Readable
<1>1. IInv => Readable
  <2> SUFFICES ASSUME IInv
               PROVE  Readable
    OBVIOUS
  <2>1. CASE phase = "make"
    BY <2>1, MadeReadable DEF IInv
  <2>2. CASE phase = "end"
    BY <2>2 DEF IInv, EndInv
  <2>3. CASE phase \notin {"make", "end"}
    BY <2>3 DEF IInv, PhaseInv, MP!Started, Readable
  <2> QED
    BY <2>1, <2>2, <2>3
<1> QED
  BY <1>1, Invariant, PTL

\* Of any lists, however many and however long, jigsum -c reports every line that is
\* not true and every list that is missing, as long as its errors add up to less than
\* an exit status can tell, and it reports nothing without a reason.
THEOREM ListsAreChecked == Spec => []CheckRight
<1>1. IInv => CheckRight
  <2> SUFFICES ASSUME IInv, phase = "check", mode = "ended"
               PROVE  /\ exit_status = 0 /\ sum_error < Statuses =>
                           /\ \A l \in ToCheck : l.wellformed => LineTrue(l)
                           /\ \A k \in 1..Len(S!Lists) : S!Lists[k].there
                      /\ exit_status # 0 => Reason
    BY DEF CheckRight, Reason
  <2>1. /\ SumInv /\ others \in OtherLists /\ arg > Len(S!Lists)
        /\ exit_status = sum_error % Statuses
        /\ sum_error = 0 => SeenTrue
        /\ sum_error # 0 => Reason
    BY DEF IInv, CheckInv, Checks
  <2>2. PICK n \in Nat, m \in Nat \ {0} : n = sum_error /\ m = Statuses
    <3>1. sum_error \in Nat
      BY <2>1 DEF SumInv
    <3>2. Statuses \in Nat \ {0}
      BY ConstantsAssumption
    <3> QED
      BY <3>1, <3>2
  <2>3. (n % m = 0 /\ n < m => n = 0) /\ 0 % m = 0
    OBVIOUS
  <2>4. \A k \in 1..Len(S!Lists) : k < arg
    BY <2>1, ListsTyped DEF SumInv
  <2>5. ASSUME SeenTrue
        PROVE  /\ \A l \in ToCheck : l.wellformed => LineTrue(l)
               /\ \A k \in 1..Len(S!Lists) : S!Lists[k].there
    <3>1. \A k \in 1..Len(S!Lists) : \A i \in 1..Len(S!Lists[k].lines) :
            S!Lists[k].lines[i].wellformed => LineTrue(S!Lists[k].lines[i])
      BY <2>4, <2>5 DEF SeenTrue, Seen
    <3>2. \A l \in ToCheck : \E k \in 1..Len(S!Lists) : \E i \in 1..Len(S!Lists[k].lines) :
            l = S!Lists[k].lines[i]
      BY DEF ToCheck
    <3>3. \A k \in 1..Len(S!Lists) : S!Lists[k].there
      BY <2>4, <2>5 DEF SeenTrue
    <3> QED
      BY <3>1, <3>2, <3>3
  <2> QED
    BY <2>1, <2>2, <2>3, <2>5
<1> QED
  BY <1>1, Invariant, PTL

\* Every variable of the tools and of what they hand over has its type; jigdump never
\* prints more pieces than there are and never seeks behind the end of the file,
\* extract-data never reads behind the last DATA part.
THEOREM TypeCorrect == Spec => []TypeOK
<1>1. IInv => TypeOK
  BY Typed
<1> QED
  BY <1>1, Invariant, PTL

\* Of every finished template, however many DATA parts and entries it has, jigdump
\* prints each piece once, in order, with its offset and its length; it says that the
\* pointers do not match if and only if the file's name has misled it.  Of a file that
\* was left behind it prints every DATA part, up to the one that is cut off.
THEOREM DumpsAreRight == Spec => []DumpRight
<1>1. IInv => DumpRight
  BY DumpedRight DEF IInv
<1> QED
  BY <1>1, Invariant, PTL

\* What extract-data writes of a template that an application has finished which has
\* seen every failure is what no matched file has of the image, whatever the image and
\* however often libjte has flushed its buffer.
THEOREM ExtractsAreRight == Spec => []ExtractedRight
<1>1. IInv => ExtractedRight
  BY ExtractedFacts DEF IInv
<1> QED
  BY <1>1, Invariant, PTL
=============================================================================
