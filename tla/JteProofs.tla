----------------------------- MODULE JteProofs -----------------------------
(***************************************************************************)
(* Proofs about Jte for every set of files, checksum list, buffer size and *)
(* sector size, and images of any length.  What libjte does not tell the   *)
(* application it cannot know, so the theorems name the executions they    *)
(* are about.                                                              *)
(***************************************************************************)
EXTENDS Jte, TLAPS, SequenceTheorems, FiniteSetTheorems, DataLemmas

\* Executions whose failures the application sees: a read that fails under the
\* simplified API (libjte.c:543), a flush that fails there or for padding
\* (jte.c:1458) and fclose() (libjte.c:419) are not reported.
Reported ==
  /\ "close" \notin setup.faults
  /\ "flush" \in setup.faults => setup.api = "traditional" /\ setup.sector = 1
  /\ setup.failing # {} => setup.api = "traditional"

\* Executions in which a file is fed to the checksum of the image as it is,
\* unless the application hears of it.
ReadsTrue ==
  /\ \A f \in File : \A r \in ReadFile(f) : r.ok => r.bytes = Content[f]
  /\ setup.failing # {} => setup.api = "traditional"

\* What is described at this moment: under the simplified API a matched file is
\* described before it is shown.
Described == IF app = "file" /\ include_in_jigdo THEN image \o left ELSE image
Stream == IF app = "done" THEN data ELSE data \o uncomp_buf

AfterAt(e) == e.at + e.len
AfterFrom(e) == e.from + (IF e.type = "NOMATCH" THEN e.len ELSE 0)

\* Makes(es, stream, img), byte by byte.
Follow(es) ==
  \A k \in 1..Len(es) :
    IF k = 1 THEN es[k].at = 0 /\ es[k].from = 0
    ELSE es[k].at = AfterAt(es[k-1]) /\ es[k].from = AfterFrom(es[k-1])
HoldsFile(e, img) ==
  /\ e.file \in 1..Len(ChecksumList)
  /\ Len(ChecksumList[e.file].content) = e.len
  /\ \A i \in 1..e.len : img[e.at + i] = ChecksumList[e.file].content[i]
HoldsData(e, stream, img) ==
  /\ e.from + e.len <= Len(stream)
  /\ \A i \in 1..e.len : img[e.at + i] = stream[e.from + i]
Holds(e, stream, img) ==
  /\ AfterAt(e) <= Len(img) /\ e.from <= Len(stream)
  /\ e.type = "FILE_MATCH" => HoldsFile(e, img)
  /\ e.type = "NOMATCH" => HoldsData(e, stream, img)
Tracks(es, stream, img) ==
  /\ EndAt(es) = Len(img) /\ EndFrom(es) = Len(stream)
  /\ Follow(es)
  /\ \A k \in 1..Len(es) : Holds(es[k], stream, img)

Matches(es) == {k \in 1..Len(es) : es[k].type = "FILE_MATCH"}
Chunks(es) == {k \in 1..Len(es) : es[k].type = "NOMATCH"}

\* Where the application is, and how large it says the image is.
AppInv ==
  /\ app = "file" => setup.api = "simple"
  /\ app = "sized" => setup.api = "traditional"
  /\ app \in {"setup", "payload"} => ~include_in_jigdo
  /\ setup.api = "simple" \/ app \in {"sized", "done"} => image_size = Len(image)

\* The state of the template engine, and its counters count.
EngineOK ==
  /\ iso \in Seq(Byte)
  /\ uncomp_buf \in Seq(Byte) /\ Len(uncomp_buf) <= UncompSize
  /\ data \in Seq(Byte) /\ ends \in Seq(Nat) /\ torn \in BOOLEAN
  /\ entries \in Seq(Entry) /\ num_matches \in Nat /\ num_chunks \in Nat
  /\ num_matches = Cardinality(Matches(entries))
  /\ num_chunks = Cardinality(Chunks(entries))

CountInv ==
  /\ num_matches = Cardinality(Matches(entries))
  /\ num_chunks = Cardinality(Chunks(entries))
  /\ app = "done" => desc = [len |-> desc_len(num_matches, num_chunks),
                             entries |-> entries, image_len |-> image_size,
                             sum |-> iso]

SumInv == ReadsTrue /\ app # "failed" => iso = Described

TrackInv == Reported /\ app # "failed" => ~torn /\ Tracks(entries, Stream, Described)

IInv == TypeOK /\ AppInv /\ CountInv /\ SumInv /\ TrackInv
-----------------------------------------------------------------------------
(* Lemmas about write_compressed_chunk(). *)

\* What is flushed without being buffered leaves at most a bufferful.
LEMMA DirectFits ==
  ASSUME NEW n \in Nat
  PROVE  /\ DirectFlushes(n) \in Nat
         /\ DirectFlushes(n) * UncompSize <= n
         /\ n - DirectFlushes(n) * UncompSize <= UncompSize
         /\ n <= UncompSize => DirectFlushes(n) = 0
<1>1. UncompSize \in Nat \ {0} BY ConstantsAssumption
<1>2. CASE n <= UncompSize BY <1>1, <1>2 DEF DirectFlushes
<1>3. CASE n > UncompSize
  <2> DEFINE q == (n - 1) \div UncompSize
             r == (n - 1) % UncompSize
  <2>1. n - 1 \in Nat BY <1>1, <1>3
  <2>2. q \in Nat /\ r \in 0..UncompSize - 1 /\ n - 1 = UncompSize * q + r
    BY <1>1, <2>1
  <2>3. DirectFlushes(n) = q BY <1>3 DEF DirectFlushes
  <2> HIDE DEF q, r
  <2>4. UncompSize * q \in Nat /\ q * UncompSize = UncompSize * q
    BY <1>1, <2>2
  <2> QED BY <1>1, <1>3, <2>2, <2>3, <2>4
<1> QED BY <1>1, <1>2, <1>3

\* A direct flush that has happened before another is also one of less bytes.
LEMMA EarlierDirect ==
  ASSUME NEW n \in Nat, NEW k \in 0..DirectFlushes(n)
  PROVE  k * UncompSize \in 0..n
<1>1. UncompSize \in Nat BY ConstantsAssumption
<1>2. DirectFlushes(n) \in Nat /\ DirectFlushes(n) * UncompSize <= n BY DirectFits
<1>3. k * UncompSize <= DirectFlushes(n) * UncompSize BY <1>1, <1>2
<1> QED BY <1>1, <1>2, <1>3

\* Whatever write_compressed_chunk(b) does, it leaves bytes and their ends, and
\* when it succeeds the stream is longer by b: nothing is lost, doubled or
\* swapped.
LEMMA ChunkStored ==
  ASSUME TypeOK, NEW b \in Seq(Byte), NEW w \in write_compressed_chunk(b)
  PROVE  /\ w.ok \in BOOLEAN /\ w.torn \in BOOLEAN
         /\ w.data \in Seq(Byte) /\ w.ends \in Seq(Nat)
         /\ w.buf \in Seq(Byte) /\ Len(w.buf) <= UncompSize
         /\ w.ok => w.torn = torn /\ w.data \o w.buf = (data \o uncomp_buf) \o b
         /\ "flush" \notin setup.faults => w.ok
<1> DEFINE direct == DirectFlushes(Len(b))
           first == Flushed(b)
           kept == Kept(b)
           rest == SubSeq(b, direct * UncompSize + 1, Len(b))
<1>1. /\ data \in Seq(Byte) /\ ends \in Seq(Nat) /\ torn \in BOOLEAN
      /\ uncomp_buf \in Seq(Byte) /\ Len(uncomp_buf) <= UncompSize
  BY DEF TypeOK
<1>2. UncompSize \in Nat \ {0} /\ Len(b) \in Nat /\ Len(uncomp_buf) \in Nat
  BY <1>1, ConstantsAssumption
<1>3. /\ direct \in Nat /\ direct * UncompSize \in 0..Len(b)
      /\ Len(b) - direct * UncompSize <= UncompSize
      /\ Len(b) <= UncompSize => direct = 0
  <2>1. /\ DirectFlushes(Len(b)) \in Nat
        /\ Len(b) - DirectFlushes(Len(b)) * UncompSize <= UncompSize
        /\ Len(b) <= UncompSize => DirectFlushes(Len(b)) = 0
    BY <1>2, DirectFits
  <2>2. DirectFlushes(Len(b)) \in 0..DirectFlushes(Len(b)) BY <2>1
  <2>3. DirectFlushes(Len(b)) * UncompSize \in 0..Len(b) BY <1>2, <2>2, EarlierDirect
  <2> QED BY <2>1, <2>3
<1>4. first \in Seq(Byte) /\ kept \in Seq(Byte) BY <1>1 DEF Flushed, Kept
<1>5. data \o first \in Seq(Byte) BY <1>1, <1>4, ConcatSeq
<1>6. ASSUME NEW k \in 0..direct
      PROVE  DataUpto(b, k) \in Seq(Byte) /\ EndsUpto(b, k) \in Seq(Nat)
  <2>1. k * UncompSize \in 0..Len(b) BY <1>2, EarlierDirect
  <2>2. SubSeq(b, 1, k * UncompSize) \in Seq(Byte) BY <2>1, Split
  <2>3. DataUpto(b, k) \in Seq(Byte) BY <1>5, <2>2, ConcatSeq DEF DataUpto
  <2>4. Len(data \o first) \in Nat BY <1>5
  <2>5. (IF first = << >> THEN << >> ELSE <<Len(data \o first)>>) \in Seq(Nat)
    BY <2>4
  <2>6. ASSUME NEW m \in 1..k PROVE Len(data \o first) + m * UncompSize \in Nat
    <3> DEFINE l == Len(data \o first)
    <3> HIDE DEF l
    <3>1. m \in Nat /\ l \in Nat BY <2>4, <1>3 DEF l
    <3>2. m * UncompSize \in Nat BY <3>1, <1>2
    <3>3. l + m * UncompSize \in Nat BY <3>1, <3>2
    <3> QED BY <3>3 DEF l
  <2>7. DirectEnds(Len(data \o first), k) \in Seq(Nat)
    BY <2>6, <1>3 DEF DirectEnds
  <2>8. EndsUpto(b, k) \in Seq(Nat)
    <3>1. ends \o (IF first = << >> THEN << >> ELSE <<Len(data \o first)>>) \in Seq(Nat)
      BY <1>1, <2>5, ConcatSeq
    <3> QED BY <3>1, <2>7, ConcatSeq DEF EndsUpto
  <2> QED BY <2>3, <2>8
<1>7. /\ SubSeq(b, 1, direct * UncompSize) \in Seq(Byte)
      /\ rest \in Seq(Byte) /\ Len(rest) = Len(b) - direct * UncompSize
      /\ SubSeq(b, 1, direct * UncompSize) \o rest = b
  BY <1>3, Split
<1>8. kept \o rest \in Seq(Byte) /\ Len(kept \o rest) <= UncompSize
  <2>1. kept \o rest \in Seq(Byte) /\ Len(kept \o rest) = Len(kept) + Len(rest)
    BY <1>4, <1>7, ConcatSeq
  <2>2. CASE Overflows(b)
    <3>1. Len(kept) = 0 BY <2>2 DEF Kept
    <3> HIDE DEF direct, kept, rest
    <3> QED BY <3>1, <2>1, <1>2, <1>3, <1>7
  <2>3. CASE ~Overflows(b)
    <3>1. Len(b) <= UncompSize BY <2>3, <1>2 DEF Overflows
    <3>2. direct * UncompSize = 0 BY <3>1, <1>2, <1>3
    <3>3. Len(rest) = Len(b) BY <3>2, <1>2, <1>7
    <3>4. Len(kept) = Len(uncomp_buf) BY <2>3 DEF Kept
    <3> HIDE DEF kept, rest
    <3> QED BY <3>3, <3>4, <2>1, <2>3, <1>2 DEF Overflows
  <2> QED BY <2>2, <2>3
<1>9. DataUpto(b, direct) \o (kept \o rest) = (data \o uncomp_buf) \o b
  <2> DEFINE head == SubSeq(b, 1, direct * UncompSize)
  <2>1. head \in Seq(Byte) /\ rest \in Seq(Byte) /\ head \o rest = b BY <1>7
  <2> HIDE DEF head, rest
  <2>2. CASE Overflows(b)
    <3>1. kept \o rest = rest BY <2>1, <2>2, ConcatEmptySeq DEF Kept
    <3>2. DataUpto(b, direct) = (data \o uncomp_buf) \o head
      BY <2>2 DEF DataUpto, Flushed, head
    <3> DEFINE front == data \o uncomp_buf
    <3>3. front \in Seq(Byte) BY <1>1, ConcatSeq
    <3> HIDE DEF front
    <3>4. (front \o head) \o rest = front \o (head \o rest)
      <4>1. \A x, y, z \in Seq(Byte) : (x \o y) \o z = x \o (y \o z)
        BY ConcatAssoc, SMTT(30)
      <4> QED BY <2>1, <3>3, <4>1
    <3> QED BY <3>1, <3>2, <3>4, <2>1 DEF front
  <2>3. CASE ~Overflows(b)
    <3>1. direct = 0 BY <2>3, <1>2, <1>3 DEF Overflows
    <3>2. head = << >>
      <4>1. direct * UncompSize = 0 BY <3>1, <1>2
      <4> HIDE DEF direct
      <4> QED BY <4>1, SubSeqEmpty DEF head
    <3>3. rest = b BY <3>2, <2>1, ConcatEmptySeq
    <3>4. DataUpto(b, direct) = data
      <4>0. DataUpto(b, direct) = (data \o first) \o head
        BY DEF DataUpto, head
      <4>1. first = << >> BY <2>3 DEF Flushed
      <4>2. data \o << >> = data BY <1>1, ConcatEmptySeq
      <4> HIDE DEF first
      <4> QED BY <4>0, <4>1, <4>2, <3>2
    <3>5. data \o (uncomp_buf \o b) = (data \o uncomp_buf) \o b
      BY <1>1, ConcatAssoc, SMTT(30)
    <3>6. kept = uncomp_buf BY <2>3 DEF Kept
    <3> HIDE DEF direct, kept
    <3> QED BY <3>3, <3>4, <3>5, <3>6
  <2> QED BY <2>2, <2>3
<1>10. \/ w = Stored(b)
       \/ "flush" \in setup.faults /\ w \in FlushFails(b) \cup DirectFails(b)
  <2>1. w \in {Stored(b)} \cup (IF "flush" \in setup.faults
                                  THEN FlushFails(b) \cup DirectFails(b) ELSE {})
    BY DEF write_compressed_chunk
  <2> QED BY <2>1
<1>11. CASE w = Stored(b)
  <2>1. w = Chunked(TRUE, DataUpto(b, direct), EndsUpto(b, direct), torn, kept \o rest)
    BY <1>11 DEF Stored
  <2> HIDE DEF direct, kept, rest
  <2>2. direct \in 0..direct BY <1>3
  <2>3. DataUpto(b, direct) \in Seq(Byte) /\ EndsUpto(b, direct) \in Seq(Nat)
    BY <1>6, <2>2
  <2>4. /\ w.ok = TRUE /\ w.torn = torn /\ w.data = DataUpto(b, direct)
        /\ w.ends = EndsUpto(b, direct) /\ w.buf = kept \o rest
    BY <2>1 DEF Chunked
  <2> QED BY <2>3, <2>4, <1>1, <1>8, <1>9
<1>12. CASE "flush" \in setup.faults /\ w \in FlushFails(b)
  <2>1. PICK t \in {torn, TRUE} : w = Chunked(FALSE, data, ends, t, uncomp_buf)
    BY <1>12 DEF FlushFails
  <2>2. /\ w.ok = FALSE /\ w.torn = t /\ w.data = data
        /\ w.ends = ends /\ w.buf = uncomp_buf
    BY <2>1 DEF Chunked
  <2> QED BY <2>2, <1>1, <1>12
<1>13. CASE "flush" \in setup.faults /\ w \in DirectFails(b)
  <2>1. PICK k \in 0..direct-1, t \in {torn, TRUE} :
          w = Chunked(FALSE, DataUpto(b, k), EndsUpto(b, k), t, << >>)
    BY <1>13 DEF DirectFails
  <2>2. k \in 0..direct BY <1>3
  <2>3. DataUpto(b, k) \in Seq(Byte) /\ EndsUpto(b, k) \in Seq(Nat) BY <1>6, <2>2
  <2>4. << >> \in Seq(Byte) /\ Len(<< >>) <= UncompSize BY <1>2
  <2>5. /\ w.ok = FALSE /\ w.torn = t /\ w.data = DataUpto(b, k)
        /\ w.ends = EndsUpto(b, k) /\ w.buf = << >>
    BY <2>1 DEF Chunked
  <2> QED BY <2>3, <2>4, <2>5, <1>1, <1>13
<1> QED BY <1>10, <1>11, <1>12, <1>13
-----------------------------------------------------------------------------
(* Lemmas about the list of extents. *)

\* A list of extents that has one has a last one.
LEMMA LastEntry ==
  ASSUME NEW es \in Seq(Entry), es # << >>
  PROVE  Len(es) \in Nat \ {0} /\ es[Len(es)] \in Entry
<1>1. Len(es) \in Nat /\ Len(es) # 0 BY EmptySeq
<1>2. Len(es) \in 1..Len(es) BY <1>1
<1> QED BY <1>1, <1>2, ElementOfSeq

\* Where the last extent ends in the image and in the unmatched data are numbers.
LEMMA EndTypes ==
  ASSUME NEW es \in Seq(Entry)
  PROVE  EndAt(es) \in Nat /\ EndFrom(es) \in Nat
<1>1. CASE es = << >> BY <1>1 DEF EndAt, EndFrom
<1>2. CASE es # << >>
  <2>1. es[Len(es)] \in Entry BY <1>2, LastEntry
  <2> QED BY <1>2, <2>1 DEF EndAt, EndFrom, Entry
<1> QED BY <1>1, <1>2

\* A new extent begins where the last one ended.
LEMMA NewEntryFields ==
  ASSUME NEW es \in Seq(Entry), NEW ty \in {"FILE_MATCH", "NOMATCH"},
         NEW n \in Nat, NEW m \in 0..Len(ChecksumList)
  PROVE  LET e == NewEntry(es, ty, n, m) IN
         /\ e \in Entry /\ e.type = ty /\ e.len = n /\ e.file = m
         /\ e.at = EndAt(es) /\ e.from = EndFrom(es)
BY EndTypes DEF NewEntry, Entry

\* What appending does to a sequence of extents.
LEMMA Appended ==
  ASSUME NEW es \in Seq(Entry), NEW e \in Entry
  PROVE  LET f == Append(es, e) IN
         /\ f \in Seq(Entry) /\ f # << >> /\ Len(f) = Len(es) + 1
         /\ f[Len(es) + 1] = e /\ \A k \in 1..Len(es) : f[k] = es[k]
BY AppendProperties

\* The last extent grows, if it is one of unmatched data.
LEMMA Extended ==
  ASSUME NEW es \in Seq(Entry), CanExtend(es), NEW n \in Nat
  PROVE  LET f == add_unmatched_entry(es, n)
             e == es[Len(es)]
         IN  /\ f \in Seq(Entry) /\ f # << >> /\ Len(f) = Len(es)
             /\ \A k \in 1..Len(es) - 1 : f[k] = es[k]
             /\ f[Len(es)] = [e EXCEPT !.len = @ + n]
             /\ f[Len(es)] \in Entry
<1> DEFINE l == Len(es)
           e == es[l]
           g == [e EXCEPT !.len = @ + n]
           f == add_unmatched_entry(es, n)
<1>1. es # << >> BY DEF CanExtend
<1>2. l \in Nat \ {0} /\ e \in Entry BY <1>1, LastEntry
<1>3. g \in Entry
  <2>1. e.len + n \in Nat BY <1>2 DEF Entry
  <2> DEFINE x == e.len + n
  <2> HIDE DEF e, x
  <2>2. x \in Nat /\ e \in Entry BY <1>2, <2>1 DEF x
  <2>3. [e EXCEPT !.len = x] \in Entry BY <2>2 DEF Entry
  <2> QED BY <2>3 DEF x
<1>4. f = [es EXCEPT ![l] = g] BY DEF add_unmatched_entry
<1>5. l \in 1..Len(es) BY <1>2
<1> HIDE DEF f, g
<1>6. /\ f \in Seq(Entry) /\ Len(f) = Len(es)
      /\ \A k \in 1..Len(es) : f[k] = IF k = l THEN g ELSE es[k]
  BY <1>3, <1>4, <1>5, ExceptSeq
<1>7. f # << >> BY <1>2, <1>6, EmptySeq
<1>8. f[l] = g /\ \A k \in 1..l - 1 : f[k] = es[k] BY <1>2, <1>6
<1> QED BY <1>3, <1>6, <1>7, <1>8 DEF f, g

\* The counters that go with them.
LEMMA CountsFinite ==
  ASSUME NEW es \in Seq(Entry)
  PROVE  /\ IsFiniteSet(Matches(es)) /\ IsFiniteSet(Chunks(es))
         /\ Cardinality(Matches(es)) \in Nat /\ Cardinality(Chunks(es)) \in Nat
<1>1. Len(es) \in Nat OBVIOUS
<1>2. IsFiniteSet(1..Len(es)) BY <1>1, FS_Interval
<1>3. Matches(es) \subseteq 1..Len(es) /\ Chunks(es) \subseteq 1..Len(es)
  BY DEF Matches, Chunks
<1>4. IsFiniteSet(Matches(es)) /\ IsFiniteSet(Chunks(es)) BY <1>2, <1>3, FS_Subset
<1> QED BY <1>4, FS_CardinalityType

\* A new extent adds one to the number of those of its kind.
LEMMA CountAppended ==
  ASSUME NEW es \in Seq(Entry), NEW e \in Entry
  PROVE  /\ Cardinality(Matches(Append(es, e))) =
              Cardinality(Matches(es)) + (IF e.type = "FILE_MATCH" THEN 1 ELSE 0)
         /\ Cardinality(Chunks(Append(es, e))) =
              Cardinality(Chunks(es)) + (IF e.type = "NOMATCH" THEN 1 ELSE 0)
<1> DEFINE f == Append(es, e)
           l == Len(es) + 1
<1>1. Len(es) \in Nat OBVIOUS
<1>2. /\ Len(f) = l /\ f[l] = e /\ \A k \in 1..Len(es) : f[k] = es[k]
  BY Appended
<1> HIDE DEF f
<1>3. e.type \in {"FILE_MATCH", "NOMATCH"} BY DEF Entry
<1>4. l \notin Matches(es) /\ l \notin Chunks(es) BY <1>1 DEF Matches, Chunks
<1>5. 1..l = 1..Len(es) \cup {l} BY <1>1
<1>6. Matches(f) = Matches(es) \cup (IF e.type = "FILE_MATCH" THEN {l} ELSE {})
  BY <1>1, <1>2, <1>5 DEF Matches
<1>7. Chunks(f) = Chunks(es) \cup (IF e.type = "NOMATCH" THEN {l} ELSE {})
  BY <1>1, <1>2, <1>5 DEF Chunks
<1>8. /\ IsFiniteSet(Matches(es)) /\ IsFiniteSet(Chunks(es))
      /\ Cardinality(Matches(es)) \in Nat /\ Cardinality(Chunks(es)) \in Nat
  BY CountsFinite
<1>9. /\ Cardinality(Matches(es) \cup {l}) = Cardinality(Matches(es)) + 1
      /\ Cardinality(Chunks(es) \cup {l}) = Cardinality(Chunks(es)) + 1
  BY <1>4, <1>8, FS_AddElement
<1> HIDE DEF l
<1>10. CASE e.type = "FILE_MATCH" BY <1>6, <1>7, <1>8, <1>9, <1>10 DEF f
<1>11. CASE e.type = "NOMATCH" BY <1>6, <1>7, <1>8, <1>9, <1>11 DEF f
<1> QED BY <1>3, <1>10, <1>11

\* A matched file counts as one, and is never extended.
LEMMA FileAdded ==
  ASSUME NEW es \in Seq(Entry), NEW n \in Nat, NEW m \in 1..Len(ChecksumList)
  PROVE  LET f == add_file_entry(es, n, m) IN
         /\ f \in Seq(Entry) /\ ~CanExtend(f)
         /\ Cardinality(Matches(f)) = Cardinality(Matches(es)) + 1
         /\ Cardinality(Chunks(f)) = Cardinality(Chunks(es))
<1> DEFINE e == NewEntry(es, "FILE_MATCH", n, m)
<1>1. Len(ChecksumList) \in Nat BY ConstantsAssumption
<1>2. e \in Entry /\ e.type = "FILE_MATCH" BY <1>1, NewEntryFields
<1> HIDE DEF e
<1>3. /\ Cardinality(Matches(Append(es, e))) = Cardinality(Matches(es)) + 1
      /\ Cardinality(Chunks(Append(es, e))) = Cardinality(Chunks(es)) + 0
  BY <1>2, CountAppended
<1>4. /\ Append(es, e) \in Seq(Entry)
      /\ Append(es, e)[Len(Append(es, e))] = e
  BY <1>2, Appended
<1>5. ~CanExtend(Append(es, e)) BY <1>2, <1>4 DEF CanExtend
<1>6. Cardinality(Chunks(es)) \in Nat BY CountsFinite
<1> QED BY <1>3, <1>4, <1>5, <1>6 DEF add_file_entry, e

\* Unmatched data counts as one unless it extends.
LEMMA UnmatchedAdded ==
  ASSUME NEW es \in Seq(Entry), NEW n \in Nat
  PROVE  LET f == add_unmatched_entry(es, n) IN
         /\ f \in Seq(Entry)
         /\ Cardinality(Matches(f)) = Cardinality(Matches(es))
         /\ Cardinality(Chunks(f)) =
              Cardinality(Chunks(es)) + (IF CanExtend(es) THEN 0 ELSE 1)
<1>1. Len(ChecksumList) \in Nat BY ConstantsAssumption
<1>2. /\ Cardinality(Matches(es)) \in Nat /\ Cardinality(Chunks(es)) \in Nat
  BY CountsFinite
<1>3. ASSUME CanExtend(es)
      PROVE  LET f == add_unmatched_entry(es, n) IN
             Matches(f) = Matches(es) /\ Chunks(f) = Chunks(es)
  <2> DEFINE f == add_unmatched_entry(es, n)
             l == Len(es)
  <2>1. /\ Len(f) = l /\ \A k \in 1..l - 1 : f[k] = es[k]
        /\ f[l] = [es[l] EXCEPT !.len = @ + n] /\ es[l] \in Entry /\ l \in Nat \ {0}
    BY <1>3, Extended, LastEntry DEF CanExtend
  <2> HIDE DEF f
  <2>2. f[l].type = es[l].type BY <2>1 DEF Entry
  <2>3. \A k \in 1..l : f[k].type = es[k].type
    <3> TAKE k \in 1..l
    <3>1. CASE k = l BY <3>1, <2>2
    <3>2. CASE k # l BY <3>2, <2>1
    <3> QED BY <3>1, <3>2
  <2>4. Matches(f) = Matches(es) /\ Chunks(f) = Chunks(es)
    BY <2>1, <2>3 DEF Matches, Chunks
  <2> QED BY <2>4 DEF f
<1>4. CASE CanExtend(es)
  <2> DEFINE f == add_unmatched_entry(es, n)
  <2>1. Matches(f) = Matches(es) /\ Chunks(f) = Chunks(es) BY <1>3, <1>4
  <2>2. f \in Seq(Entry) BY <1>4, Extended
  <2> HIDE DEF f
  <2> QED BY <1>2, <1>4, <2>1, <2>2 DEF f
<1>5. CASE ~CanExtend(es)
  <2> DEFINE e == NewEntry(es, "NOMATCH", n, 0)
  <2>1. e \in Entry /\ e.type = "NOMATCH" BY <1>1, NewEntryFields
  <2>2. add_unmatched_entry(es, n) = Append(es, e)
    BY <1>5 DEF add_unmatched_entry
  <2> HIDE DEF e
  <2>3. /\ Cardinality(Matches(Append(es, e))) = Cardinality(Matches(es)) + 0
        /\ Cardinality(Chunks(Append(es, e))) = Cardinality(Chunks(es)) + 1
    BY <2>1, CountAppended
  <2>4. Append(es, e) \in Seq(Entry) BY <2>1, Appended
  <2> QED BY <1>2, <1>5, <2>2, <2>3, <2>4
<1> QED BY <1>4, <1>5
-----------------------------------------------------------------------------
(* Lemmas about what the extents describe. *)

\* The elements of two sequences in a row.
LEMMA ConcatAt ==
  ASSUME NEW s \in Seq(Byte), NEW b \in Seq(Byte)
  PROVE  /\ s \o b \in Seq(Byte) /\ Len(s \o b) = Len(s) + Len(b)
         /\ Len(s) \in Nat /\ Len(b) \in Nat
         /\ \A i \in 1..Len(s) : (s \o b)[i] = s[i]
         /\ \A i \in 1..Len(b) : (s \o b)[Len(s) + i] = b[i]
<1>1. /\ s \o b \in Seq(Byte) /\ Len(s \o b) = Len(s) + Len(b)
      /\ \A i \in 1..Len(s) + Len(b) :
           (s \o b)[i] = IF i <= Len(s) THEN s[i] ELSE b[i - Len(s)]
  BY ConcatProperties
<1>2. Len(s) \in Nat /\ Len(b) \in Nat OBVIOUS
<1> DEFINE t == s \o b
<1> HIDE DEF t
<1>3. \A i \in 1..Len(s) : t[i] = s[i] BY <1>1, <1>2 DEF t
<1>4. ASSUME NEW i \in 1..Len(b) PROVE t[Len(s) + i] = b[i]
  <2>1. Len(s) + i \in 1..Len(s) + Len(b) /\ ~(Len(s) + i <= Len(s))
        /\ (Len(s) + i) - Len(s) = i
    BY <1>2
  <2> QED BY <1>1, <2>1 DEF t
<1> QED BY <1>1, <1>2, <1>3, <1>4 DEF t

\* What an extent describes stays where it is when more follows.
LEMMA HoldsGrow ==
  ASSUME NEW e \in Entry, NEW s \in Seq(Byte), NEW img \in Seq(Byte),
         NEW b \in Seq(Byte), NEW c \in Seq(Byte), Holds(e, s, img)
  PROVE  Holds(e, s \o b, img \o c)
<1>1. e.at \in Nat /\ e.len \in Nat /\ e.from \in Nat BY DEF Entry
<1>2. AfterAt(e) <= Len(img) BY DEF Holds
<1>3. AfterAt(e) <= Len(img \o c) BY <1>1, <1>2, ConcatAt DEF AfterAt
<1>4. \A i \in 1..e.len : (img \o c)[e.at + i] = img[e.at + i]
  <2> TAKE i \in 1..e.len
  <2>1. e.at + i \in 1..Len(img) BY <1>1, <1>2, ConcatAt DEF AfterAt
  <2> QED BY <2>1, ConcatAt
<1>5. e.type = "FILE_MATCH" => HoldsFile(e, img \o c)
  BY <1>4 DEF Holds, HoldsFile
<1>6. ASSUME e.type = "NOMATCH" PROVE HoldsData(e, s \o b, img \o c)
  <2>1. HoldsData(e, s, img) BY <1>6 DEF Holds
  <2>2. e.from + e.len <= Len(s) BY <2>1 DEF HoldsData
  <2>3. \A i \in 1..e.len : (s \o b)[e.from + i] = s[e.from + i]
    <3> TAKE i \in 1..e.len
    <3>1. e.from + i \in 1..Len(s) BY <1>1, <2>2, ConcatAt
    <3> QED BY <3>1, ConcatAt
  <2>4. e.from + e.len <= Len(s \o b) BY <1>1, <2>2, ConcatAt
  <2> QED BY <1>4, <2>1, <2>3, <2>4 DEF HoldsData
<1>7. e.from <= Len(s \o b)
  <2>1. e.from <= Len(s) BY DEF Holds
  <2> QED BY <1>1, <2>1, ConcatAt
<1> QED BY <1>3, <1>5, <1>6, <1>7 DEF Holds

\* A new extent that holds continues the others.
LEMMA TrackAppended ==
  ASSUME NEW es \in Seq(Entry), NEW s \in Seq(Byte), NEW img \in Seq(Byte),
         NEW b \in Seq(Byte), NEW c \in Seq(Byte), NEW e \in Entry,
         Tracks(es, s, img), e.at = EndAt(es), e.from = EndFrom(es),
         Len(c) = e.len, Len(b) = (IF e.type = "NOMATCH" THEN e.len ELSE 0),
         Holds(e, s \o b, img \o c)
  PROVE  Tracks(Append(es, e), s \o b, img \o c)
<1> DEFINE f == Append(es, e)
           l == Len(es) + 1
<1>1. Len(es) \in Nat OBVIOUS
<1>2. /\ f \in Seq(Entry) /\ f # << >> /\ Len(f) = l
      /\ f[l] = e /\ \A k \in 1..Len(es) : f[k] = es[k]
  BY Appended
<1> HIDE DEF f
<1>3. /\ e.len \in Nat /\ Len(s) \in Nat /\ Len(img) \in Nat
  BY DEF Entry
<1>4. EndAt(f) = Len(img \o c)
  <2>1. EndAt(f) = e.at + e.len BY <1>2 DEF EndAt
  <2>2. e.at = Len(img) BY DEF Tracks
  <2>3. Len(img \o c) = Len(img) + Len(c) BY ConcatAt
  <2> QED BY <2>1, <2>2, <2>3
<1>5. EndFrom(f) = Len(s \o b)
  <2>1. EndFrom(f) = e.from + (IF e.type = "NOMATCH" THEN e.len ELSE 0)
    BY <1>2 DEF EndFrom
  <2>2. e.from = Len(s) BY DEF Tracks
  <2>3. Len(s \o b) = Len(s) + Len(b) BY ConcatAt
  <2> QED BY <2>1, <2>2, <2>3
<1>6. Follow(f)
  <2> SUFFICES ASSUME NEW k \in 1..Len(f)
               PROVE  IF k = 1 THEN f[k].at = 0 /\ f[k].from = 0
                      ELSE /\ f[k].at = AfterAt(f[k-1])
                           /\ f[k].from = AfterFrom(f[k-1])
    BY DEF Follow
  <2>0. Follow(es) BY DEF Tracks
  <2>1. CASE k \in 1..Len(es)
    <3>1. f[k] = es[k] BY <1>2, <2>1
    <3>2. k # 1 => k - 1 \in 1..Len(es) /\ f[k-1] = es[k-1] BY <1>1, <1>2, <2>1
    <3> QED BY <2>0, <2>1, <3>1, <3>2 DEF Follow
  <2>2. CASE k = l
    <3>1. f[k] = e BY <1>2, <2>2
    <3>2. CASE es = << >>
      <4>1. k = 1 BY <2>2, <3>2, EmptySeq
      <4>2. e.at = 0 /\ e.from = 0 BY <3>2 DEF EndAt, EndFrom
      <4> QED BY <3>1, <4>1, <4>2
    <3>3. CASE es # << >>
      <4>1. Len(es) # 0 BY <3>3, EmptySeq
      <4>2. k # 1 /\ k - 1 = Len(es) /\ f[k-1] = es[Len(es)]
        BY <1>1, <1>2, <2>2, <4>1, SMTT(30)
      <4>3. e.at = AfterAt(es[Len(es)]) /\ e.from = AfterFrom(es[Len(es)])
        BY <3>3 DEF EndAt, EndFrom, AfterAt, AfterFrom
      <4> QED BY <3>1, <4>2, <4>3
    <3> QED BY <3>2, <3>3
  <2> QED BY <1>1, <1>2, <2>1, <2>2
<1>7. ASSUME NEW k \in 1..Len(f) PROVE Holds(f[k], s \o b, img \o c)
  <2>1. CASE k \in 1..Len(es)
    <3>1. f[k] = es[k] /\ es[k] \in Entry BY <1>2, <2>1, ElementOfSeq
    <3>2. Holds(es[k], s, img) BY <2>1 DEF Tracks
    <3> QED BY <3>1, <3>2, HoldsGrow
  <2>2. CASE k = l BY <1>2, <2>2
  <2> QED BY <1>1, <1>2, <2>1, <2>2
<1> QED BY <1>4, <1>5, <1>6, <1>7 DEF Tracks, f

\* A matched file continues the image, and its bytes the stream of none.
LEMMA TrackFile ==
  ASSUME NEW es \in Seq(Entry), NEW s \in Seq(Byte), NEW img \in Seq(Byte),
         NEW c \in Seq(Byte), NEW m \in 1..Len(ChecksumList),
         ChecksumList[m].content = c, Tracks(es, s, img)
  PROVE  Tracks(add_file_entry(es, Len(c), m), s, img \o c)
<1> DEFINE e == NewEntry(es, "FILE_MATCH", Len(c), m)
<1>0. Len(ChecksumList) \in Nat /\ Len(c) \in Nat BY ConstantsAssumption
<1>1. /\ e \in Entry /\ e.type = "FILE_MATCH" /\ e.len = Len(c) /\ e.file = m
      /\ e.at = EndAt(es) /\ e.from = EndFrom(es)
  BY <1>0, NewEntryFields
<1> HIDE DEF e
<1>2. s \o << >> = s BY ConcatEmptySeq
<1>3. e.at = Len(img) BY <1>1 DEF Tracks
<1>4. AfterAt(e) <= Len(img \o c) BY <1>0, <1>1, <1>3, ConcatAt DEF AfterAt
<1>5. HoldsFile(e, img \o c) BY <1>1, <1>3, ConcatAt DEF HoldsFile
<1>f. e.from <= Len(s) BY <1>1, ConcatAt DEF Tracks
<1>6. Holds(e, s, img \o c) BY <1>1, <1>4, <1>5, <1>f DEF Holds
<1>7. << >> \in Seq(Byte) /\ Len(<< >>) = 0 OBVIOUS
<1>8. Tracks(Append(es, e), s \o << >>, img \o c)
  <2> DEFINE b == << >>
  <2>1. b \in Seq(Byte) /\ Len(b) = (IF e.type = "NOMATCH" THEN e.len ELSE 0)
    BY <1>1, <1>7
  <2>2. Holds(e, s \o b, img \o c) BY <1>2, <1>6
  <2> HIDE DEF b
  <2>3. Tracks(Append(es, e), s \o b, img \o c)
    BY <1>1, <2>1, <2>2, TrackAppended
  <2> QED BY <2>3 DEF b
<1> QED BY <1>2, <1>8 DEF add_file_entry, e

Grown(e, n) == [e EXCEPT !.len = @ + n]

\* The last extent of unmatched data still holds when it has grown by b.
LEMMA HoldsExtended ==
  ASSUME NEW e \in Entry, NEW g \in Entry, NEW s \in Seq(Byte),
         NEW img \in Seq(Byte), NEW b \in Seq(Byte), Holds(e, s, img),
         e.type = "NOMATCH", g = Grown(e, Len(b)),
         AfterAt(e) = Len(img), AfterFrom(e) = Len(s)
  PROVE  /\ Holds(g, s \o b, img \o b)
         /\ AfterAt(g) = Len(img \o b) /\ AfterFrom(g) = Len(s \o b)
<1>1. /\ e.at \in Nat /\ e.len \in Nat /\ e.from \in Nat
      /\ Len(b) \in Nat /\ Len(s) \in Nat /\ Len(img) \in Nat
  BY DEF Entry
<1>0. /\ g.type = "NOMATCH" /\ g.at = e.at /\ g.from = e.from
      /\ g.len = e.len + Len(b)
  BY DEF Entry, Grown
<1>2. e.at + e.len = Len(img) /\ e.from + e.len = Len(s)
  BY DEF AfterAt, AfterFrom
<1>n. PICK at \in Nat, from \in Nat, len \in Nat, li \in Nat, ls \in Nat, lb \in Nat :
        /\ at = e.at /\ from = e.from /\ len = e.len
        /\ li = Len(img) /\ ls = Len(s) /\ lb = Len(b)
  BY <1>1
<1>m. at + len = li /\ from + len = ls BY <1>2, <1>n
<1>3. /\ Len(img \o b) = Len(img) + Len(b) /\ Len(s \o b) = Len(s) + Len(b)
      /\ \A i \in 1..Len(b) : /\ (img \o b)[Len(img) + i] = b[i]
                              /\ (s \o b)[Len(s) + i] = b[i]
  BY ConcatAt
<1>4. Holds(e, s \o b, img \o b) BY HoldsGrow
<1>5. \A i \in 1..e.len : (img \o b)[e.at + i] = (s \o b)[e.from + i]
  BY <1>4 DEF Holds, HoldsData
<1> DEFINE i2 == img \o b
           s2 == s \o b
<1> HIDE DEF i2, s2
<1>6. ASSUME NEW i \in 1..g.len PROVE i2[g.at + i] = s2[g.from + i]
  <2>1. i \in Nat /\ i <= e.len + Len(b) /\ i >= 1 BY <1>0, <1>1
  <2>2. CASE i <= e.len 
    <3>1. i \in 1..e.len BY <2>1, <2>2, <1>1
    <3> QED BY <3>1, <1>0, <1>5 DEF i2, s2
  <2>3. CASE i > e.len
    <3>1. i > len /\ i <= len + lb BY <2>1, <2>3, <1>n
    <3>2. PICK j \in 1..lb : i = len + j
      <4>1. i - len \in 1..lb /\ i = len + (i - len) BY <2>1, <3>1
      <4> QED BY <4>1
    <3>3. at + i = li + j /\ from + i = ls + j BY <3>2, <1>m
    <3>4. i2[li + j] = b[j] /\ s2[ls + j] = b[j] BY <1>3, <1>n, <3>2 DEF i2, s2
    <3> QED BY <3>3, <3>4, <1>0, <1>n
  <2> QED BY <2>1, <2>2, <2>3, <1>1
<1>7. g.at + g.len = li + lb /\ g.from + g.len = ls + lb
  <2>1. at + (len + lb) = li + lb /\ from + (len + lb) = ls + lb BY <1>m
  <2>2. g.at = at /\ g.from = from /\ g.len = len + lb BY <1>0, <1>n
  <2> QED BY <2>1, <2>2
<1>8. /\ AfterAt(g) = Len(i2) /\ AfterFrom(g) = Len(s2)
  BY <1>0, <1>3, <1>7, <1>n DEF AfterAt, AfterFrom, i2, s2
<1>9. Len(i2) \in Nat /\ Len(s2) \in Nat BY <1>1, <1>3 DEF i2, s2
<1>a. g.from <= Len(s2)
  <2>1. Len(s2) = ls + lb BY <1>3, <1>n DEF s2
  <2> QED BY <1>0, <1>m, <1>n, <2>1
<1>10. Holds(g, s2, i2)
  BY <1>0, <1>6, <1>8, <1>9, <1>a DEF Holds, HoldsData, AfterAt, AfterFrom
<1> QED BY <1>8, <1>10 DEF i2, s2

\* Unmatched data continues both, whether or not its extent is a new one.
LEMMA TrackData ==
  ASSUME NEW es \in Seq(Entry), NEW s \in Seq(Byte), NEW img \in Seq(Byte),
         NEW b \in Seq(Byte), Tracks(es, s, img)
  PROVE  Tracks(add_unmatched_entry(es, Len(b)), s \o b, img \o b)
<1>0. /\ Len(ChecksumList) \in Nat /\ Len(b) \in Nat
      /\ Len(s) \in Nat /\ Len(img) \in Nat
  BY ConstantsAssumption
<1>1. CASE ~CanExtend(es)
  <2> DEFINE e == NewEntry(es, "NOMATCH", Len(b), 0)
  <2>1. /\ e \in Entry /\ e.type = "NOMATCH" /\ e.len = Len(b)
        /\ e.at = EndAt(es) /\ e.from = EndFrom(es)
    BY <1>0, NewEntryFields
  <2>2. add_unmatched_entry(es, Len(b)) = Append(es, e)
    BY <1>1 DEF add_unmatched_entry
  <2> HIDE DEF e
  <2>3. e.at = Len(img) /\ e.from = Len(s) BY <2>1 DEF Tracks
  <2>4. AfterAt(e) <= Len(img \o b) BY <1>0, <2>1, <2>3, ConcatAt DEF AfterAt
  <2>5. HoldsData(e, s \o b, img \o b)
    <3>1. e.from + e.len <= Len(s \o b) BY <1>0, <2>1, <2>3, ConcatAt
    <3>2. \A i \in 1..Len(b) : /\ (img \o b)[Len(img) + i] = b[i]
                               /\ (s \o b)[Len(s) + i] = b[i]
      BY ConcatAt
    <3>3. \A i \in 1..e.len : (img \o b)[e.at + i] = (s \o b)[e.from + i]
      BY <2>1, <2>3, <3>2
    <3> QED BY <3>1, <3>3 DEF HoldsData
  <2>f. e.from <= Len(s \o b) BY <1>0, <2>3, ConcatAt
  <2>6. Holds(e, s \o b, img \o b) BY <2>1, <2>4, <2>5, <2>f DEF Holds
  <2>7. Tracks(Append(es, e), s \o b, img \o b) BY <2>1, <2>6, TrackAppended
  <2> QED BY <2>2, <2>7
<1>2. CASE CanExtend(es)
  <2> DEFINE f == add_unmatched_entry(es, Len(b))
             l == Len(es)
             e == es[l]
             g == f[l]
  <2>0. es # << >> /\ e.type = "NOMATCH" BY <1>2 DEF CanExtend
  <2>1. l \in Nat \ {0} /\ l \in 1..Len(es) /\ e \in Entry BY <2>0, LastEntry
  <2>2. /\ f \in Seq(Entry) /\ f # << >> /\ Len(f) = l
        /\ \A k \in 1..l - 1 : f[k] = es[k]
        /\ g = [e EXCEPT !.len = @ + Len(b)] /\ g \in Entry
    BY <1>0, <1>2, Extended
  <2>a. l = Len(es) /\ e = es[l] /\ g = f[l] OBVIOUS
  <2> HIDE DEF f, g
  <2>3. /\ g.type = "NOMATCH" /\ g.at = e.at /\ g.from = e.from
        /\ g.len = e.len + Len(b)
    BY <2>0, <2>1, <2>2 DEF Entry
  <2>4. AfterAt(e) = Len(img) /\ AfterFrom(e) = Len(s)
    BY <2>0 DEF Tracks, EndAt, EndFrom, AfterAt, AfterFrom
  <2>5. Holds(e, s, img) BY <2>1 DEF Tracks
  <2> HIDE DEF e, l
  <2>8. /\ Holds(g, s \o b, img \o b)
        /\ AfterAt(g) = Len(img \o b) /\ AfterFrom(g) = Len(s \o b)
    <3>1. e \in Entry /\ g \in Entry /\ e.type = "NOMATCH" BY <2>0, <2>1, <2>2
    <3> HIDE DEF Entry
    <3>2. g = Grown(e, Len(b)) BY <2>2 DEF Grown
    <3> QED BY <2>4, <2>5, <3>1, <3>2, HoldsExtended
  <2>6. EndAt(f) = Len(img \o b) /\ EndFrom(f) = Len(s \o b)
    BY <2>a, <2>2, <2>3, <2>8 DEF EndAt, EndFrom, AfterAt, AfterFrom
  <2>7. Follow(f)
    <3> SUFFICES ASSUME NEW k \in 1..Len(f)
                 PROVE  IF k = 1 THEN f[k].at = 0 /\ f[k].from = 0
                        ELSE /\ f[k].at = AfterAt(f[k-1])
                             /\ f[k].from = AfterFrom(f[k-1])
      BY DEF Follow
    <3>1. Follow(es) BY DEF Tracks
    <3>2. f[k].at = es[k].at /\ f[k].from = es[k].from
      <4>1. CASE k = l BY <4>1, <2>a, <2>3
      <4>2. CASE k # l
        <5>1. k \in 1..l - 1 BY <4>2, <2>1, <2>2
        <5> QED BY <5>1, <2>2
      <4> QED BY <4>1, <4>2
    <3>3. ASSUME k # 1 PROVE f[k-1] = es[k-1] /\ k - 1 \in 1..l - 1
      <4>1. k - 1 \in 1..l - 1 BY <3>3, <2>1, <2>2
      <4> QED BY <4>1, <2>2
    <3>4. ASSUME k # 1
          PROVE  AfterAt(f[k-1]) = AfterAt(es[k-1]) /\ AfterFrom(f[k-1]) = AfterFrom(es[k-1])
      BY <3>3, <3>4
    <3>5. k \in 1..Len(es) BY <2>2, <2>a
    <3> QED BY <3>1, <3>2, <3>4, <3>5 DEF Follow
  <2>9. \A k \in 1..Len(f) : Holds(f[k], s \o b, img \o b)
    <3> TAKE k \in 1..Len(f)
    <3>1. CASE k = l BY <3>1, <2>a, <2>8
    <3>2. CASE k # l
      <4>1. k \in 1..Len(es) /\ f[k] = es[k] /\ es[k] \in Entry
        <5>1. k \in 1..l - 1 /\ k \in 1..Len(es) BY <3>2, <2>1, <2>2, <2>a
        <5> QED BY <5>1, <2>2, ElementOfSeq
      <4>2. Holds(es[k], s, img) BY <4>1 DEF Tracks
      <4> QED BY <4>1, <4>2, HoldsGrow
    <3> QED BY <3>1, <3>2
  <2> QED BY <2>6, <2>7, <2>9 DEF Tracks, f
<1> QED BY <1>1, <1>2

\* Followed byte by byte, the extents make the image.
LEMMA EndBefore ==
  ASSUME NEW es \in Seq(Entry), Follow(es), NEW k \in 1..Len(es)
  PROVE  es[k].at = EndAt(SubSeq(es, 1, k - 1)) /\ es[k].from = EndFrom(SubSeq(es, 1, k - 1))
<1>1. CASE k = 1
  <2>1. SubSeq(es, 1, k - 1) = << >> BY <1>1, SubSeqEmpty
  <2>2. EndAt(SubSeq(es, 1, k - 1)) = 0 /\ EndFrom(SubSeq(es, 1, k - 1)) = 0
    BY <2>1 DEF EndAt, EndFrom
  <2> QED BY <1>1, <2>2 DEF Follow
<1>2. CASE k # 1
  <2> DEFINE f == SubSeq(es, 1, k - 1)
  <2>1. Len(es) \in Nat /\ k - 1 \in 1..Len(es) BY <1>2
  <2>2. \A i \in 1..k - 1 : es[i] \in Entry BY <2>1, ElementOfSeq
  <2>3. /\ f \in Seq(Entry) /\ Len(f) = IF 1 <= k - 1 THEN (k - 1) - 1 + 1 ELSE 0
        /\ \A i \in 1..(k - 1) - 1 + 1 : f[i] = es[1 + i - 1]
    BY <2>1, <2>2, SubSeqProperties
  <2> HIDE DEF f
  <2>4. Len(f) = k - 1 /\ f[k-1] = es[k-1] /\ f # << >> BY <2>1, <2>3, EmptySeq
  <2>5. EndAt(f) = AfterAt(es[k-1]) /\ EndFrom(f) = AfterFrom(es[k-1])
    BY <2>4 DEF EndAt, EndFrom, AfterAt, AfterFrom
  <2> QED BY <1>2, <2>5 DEF Follow, f
<1> QED BY <1>1, <1>2

\* The files of the checksum list have contents.
LEMMA ListContent ==
  ASSUME NEW m \in 1..Len(ChecksumList)
  PROVE  ChecksumList[m].content \in Seq(Byte)
<1> DEFINE R == [name : {Name[f] : f \in File}, content : Seq(Byte)]
<1>1. ChecksumList \in Seq(R) BY ConstantsAssumption
<1> HIDE DEF R
<1>2. ChecksumList[m] \in R BY <1>1, ElementOfSeq
<1> QED BY <1>2 DEF R

\* Extents that hold byte by byte make up the image as whole pieces.
LEMMA TracksMakes ==
  ASSUME NEW es \in Seq(Entry), NEW s \in Seq(Byte), NEW img \in Seq(Byte),
         Tracks(es, s, img)
  PROVE  Makes(es, s, img)
<1>1. Contiguous(es, Len(img), Len(s))
  <2>1. \A k \in 1..Len(es) : /\ es[k].at = EndAt(SubSeq(es, 1, k - 1))
                              /\ es[k].from = EndFrom(SubSeq(es, 1, k - 1))
    BY EndBefore DEF Tracks
  <2> QED BY <2>1 DEF Tracks, Contiguous
<1>2. ASSUME NEW k \in 1..Len(es)
      PROVE  SubSeq(img, es[k].at + 1, es[k].at + es[k].len) = Extent(es[k], s)
  <2>1. PICK e : e = es[k] OBVIOUS
  <2>2. e \in Entry BY <2>1, ElementOfSeq
  <2>3. /\ e.at \in Nat /\ e.len \in Nat /\ e.from \in Nat
        /\ e.type \in {"FILE_MATCH", "NOMATCH"}
    BY <2>2 DEF Entry
  <2>4. Holds(e, s, img) BY <2>1 DEF Tracks
  <2>5. CASE e.type = "FILE_MATCH"
    <3> DEFINE c == ChecksumList[e.file].content
    <3>1. /\ e.file \in 1..Len(ChecksumList) /\ Len(c) = e.len
          /\ \A i \in 1..e.len : img[e.at + i] = c[i]
      BY <2>4, <2>5 DEF Holds, HoldsFile
    <3>2. c \in Seq(Byte)
      <4>1. PICK m \in 1..Len(ChecksumList) : m = e.file BY <3>1
      <4> QED BY <4>1, ListContent
    <3> HIDE DEF c
    <3>3. e.at + Len(c) <= Len(img) BY <2>4, <3>1 DEF Holds, AfterAt
    <3>4. SubSeq(img, e.at + 1, e.at + Len(c)) = c
      BY <2>3, <3>1, <3>2, <3>3, SamePiece
    <3> QED BY <2>1, <2>5, <3>1, <3>4 DEF Extent, c
  <2>6. CASE e.type = "NOMATCH"
    <3> DEFINE c == SubSeq(s, e.from + 1, e.from + e.len)
    <3>1. /\ e.from + e.len <= Len(s)
          /\ \A i \in 1..e.len : img[e.at + i] = s[e.from + i]
      BY <2>4, <2>6 DEF Holds, HoldsData
    <3>5. /\ c \in Seq(Byte) /\ Len(c) = e.len
          /\ \A i \in 1..e.len : c[i] = s[e.from + i]
      <4>1. PICK at \in Nat, n \in Nat : at = e.from /\ n = e.len BY <2>3
      <4>2. at + n <= Len(s) BY <3>1, <4>1
      <4>3. LET u == SubSeq(s, at + 1, at + n) IN
            u \in Seq(Byte) /\ Len(u) = n /\ \A i \in 1..n : u[i] = s[at + i]
        BY <4>2, Behind
      <4> QED BY <4>1, <4>3
    <3> HIDE DEF c
    <3>6. Len(c) = e.len BY <3>5
    <3>7. \A i \in 1..Len(c) : img[e.at + i] = c[i] BY <3>1, <3>5
    <3>8. e.at + Len(c) <= Len(img) BY <2>4, <3>6 DEF Holds, AfterAt
    <3>9. SubSeq(img, e.at + 1, e.at + Len(c)) = c
      BY <2>3, <3>5, <3>7, <3>8, SamePiece
    <3> QED BY <2>1, <2>6, <3>6, <3>9 DEF Extent, c
  <2> QED BY <2>3, <2>5, <2>6
<1> QED BY <1>1, <1>2 DEF Makes
-----------------------------------------------------------------------------
(* Lemmas about files. *)

\* A file is only ever named by an entry of the checksum list that has its
\* content.
LEMMA ListedRight ==
  ASSUME NEW f \in File, NEW d \in list_file_in_jigdo(f), d # -1, d # 0
  PROVE  d \in 1..Len(ChecksumList) /\ ChecksumList[d].content = Content[f]
<1>1. Len(ChecksumList) \in Nat BY ConstantsAssumption
<1>2. SameSum(f) \in SUBSET Nat BY <1>1 DEF SameSum, Listed
<1>3. SameSum(f) # {} /\ d = First(SameSum(f))
  BY DEF list_file_in_jigdo, Unlisted
<1>4. \E n \in SameSum(f) : \A m \in SameSum(f) : n <= m
  BY <1>2, <1>3, LeastMember
<1>5. First(SameSum(f)) \in SameSum(f) BY <1>4 DEF First
<1> QED BY <1>3, <1>5 DEF SameSum, Listed

\* Padding is bytes, and there is none where a sector is one byte.
LEMMA PaddingBytes ==
  ASSUME NEW n \in Nat, setup \in Setups
  PROVE  Padding(n) \in Seq(Byte) /\ (setup.sector = 1 => Padding(n) = << >>)
<1>1. setup.sector \in Nat \ {0} /\ Zero \in Byte BY ConstantsAssumption
<1>2. n % setup.sector \in 0..setup.sector - 1 BY <1>1
<1>3. CASE n % setup.sector = 0 BY <1>3 DEF Padding
<1>4. CASE n % setup.sector # 0
  <2>1. setup.sector - (n % setup.sector) \in Nat BY <1>1, <1>2
  <2>2. setup.sector # 1 BY <1>1, <1>2, <1>4
  <2> QED BY <1>1, <1>4, <2>1, <2>2 DEF Padding
<1> QED BY <1>3, <1>4

\* What is read are bytes, and the file itself if reading cannot fail.
LEMMA ReadBytes ==
  ASSUME NEW f \in File, NEW r \in ReadFile(f)
  PROVE  /\ r.ok \in BOOLEAN /\ r.bytes \in Seq(Byte)
         /\ f \notin setup.failing => r.ok /\ r.bytes = Content[f]
<1> DEFINE c == Content[f]
           blocks(n) == n % BufSize = 0
           blockEnd(n) == IF ((n \div BufSize) + 1) * BufSize > Len(c) THEN Len(c)
                          ELSE ((n \div BufSize) + 1) * BufSize
           stale(k) == IF k > BufSize THEN c[k - BufSize] ELSE Zero
           short(n) == [k \in 1..blockEnd(n) |-> IF k <= n THEN c[k] ELSE stale(k)]
<1>1. c \in Seq(Byte) /\ Len(c) \in Nat BY ConstantsAssumption
<1>2. BufSize \in Nat \ {0} /\ Zero \in Byte BY ConstantsAssumption
<1>3. \/ r = [ok |-> TRUE, bytes |-> c]
      \/ /\ f \in setup.failing
         /\ \/ \E n \in 0..Len(c)-1 : r = [ok |-> FALSE, bytes |-> SubSeq(c, 1, n)]
            \/ \E n \in 0..Len(c)-1 : r = [ok |-> blockEnd(n) = Len(c), bytes |-> short(n)]
  BY DEF ReadFile
<1>4. CASE r = [ok |-> TRUE, bytes |-> c] BY <1>1, <1>4
<1>5. ASSUME f \in setup.failing, NEW n \in 0..Len(c)-1,
             r = [ok |-> FALSE, bytes |-> SubSeq(c, 1, n)]
      PROVE  r.ok \in BOOLEAN /\ r.bytes \in Seq(Byte)
  <2>1. SubSeq(c, 1, n) \in Seq(Byte) BY <1>1, Split
  <2> QED BY <1>5, <2>1
<1>6. ASSUME f \in setup.failing, NEW n \in 0..Len(c)-1,
             r = [ok |-> blockEnd(n) = Len(c), bytes |-> short(n)]
      PROVE  r.ok \in BOOLEAN /\ r.bytes \in Seq(Byte)
  <2>1. blockEnd(n) \in 0..Len(c)
    <3>1. n \div BufSize \in Nat BY <1>2
    <3>2. ((n \div BufSize) + 1) * BufSize \in Nat BY <1>2, <3>1
    <3> QED BY <1>1, <3>2
  <2> HIDE DEF blockEnd
  <2>2. \A k \in 1..blockEnd(n) : c[k] \in Byte /\ stale(k) \in Byte
    <3> TAKE k \in 1..blockEnd(n)
    <3>1. k \in 1..Len(c) BY <1>1, <2>1
    <3>2. c[k] \in Byte BY <1>1, <3>1, ElementOfSeq
    <3>3. CASE k > BufSize
      <4>1. k - BufSize \in 1..Len(c) BY <1>1, <1>2, <3>1, <3>3
      <4>2. c[k - BufSize] \in Byte BY <1>1, <4>1, ElementOfSeq
      <4> QED BY <3>2, <3>3, <4>2
    <3>4. CASE ~(k > BufSize) BY <1>2, <3>2, <3>4
    <3> QED BY <3>3, <3>4
  <2> HIDE DEF stale
  <2>3. short(n) \in Seq(Byte) BY <2>1, <2>2
  <2> HIDE DEF short
  <2> QED BY <1>6, <2>3
<1> HIDE DEF c
<1> QED BY <1>1, <1>3, <1>4, <1>5, <1>6 DEF c
-----------------------------------------------------------------------------
(* Lemmas about what the template engine does with a chunk and a file. *)

\* What the definitions of IInv say together.
LEMMA EngineHolds == ASSUME TypeOK, CountInv PROVE EngineOK
BY DEF TypeOK, CountInv, EngineOK

\* The kind of an execution is what it was.
LEMMA KindKept ==
  ASSUME setup' = setup
  PROVE  Reported' = Reported /\ ReadsTrue' = ReadsTrue
<1>1. Reported' = Reported BY DEF Reported
<1>2. ReadsTrue' = ReadsTrue BY DEF ReadsTrue, ReadFile
<1> QED BY <1>1, <1>2

\* What is described is described byte for byte.
LEMMA TracksBytes ==
  ASSUME TypeOK
  PROVE  /\ data \o uncomp_buf \in Seq(Byte) /\ Described \in Seq(Byte)
         /\ image \o left \in Seq(Byte)
<1>1. /\ data \in Seq(Byte) /\ uncomp_buf \in Seq(Byte)
      /\ image \in Seq(Byte) /\ left \in Seq(Byte)
  BY DEF TypeOK
<1>2. data \o uncomp_buf \in Seq(Byte) /\ image \o left \in Seq(Byte)
  BY <1>1, ConcatSeq
<1> QED BY <1>1, <1>2 DEF Described

\* A chunk that jtwrite() accepts continues what is described.
LEMMA ChunkWritten ==
  ASSUME TypeOK, CountInv, NEW b \in Seq(Byte), NEW w \in write_compressed_chunk(b),
         jtwrite(b, w)
  PROVE  /\ EngineOK' /\ iso' = iso \o b /\ w.ok \in BOOLEAN
         /\ "flush" \notin setup.faults => w.ok
         /\ w.ok => /\ torn' = torn
                    /\ \A img \in Seq(Byte) :
                         Tracks(entries, data \o uncomp_buf, img)
                         => Tracks(entries', data' \o uncomp_buf', img \o b)
<1>1. /\ w.ok \in BOOLEAN /\ w.torn \in BOOLEAN
      /\ w.data \in Seq(Byte) /\ w.ends \in Seq(Nat)
      /\ w.buf \in Seq(Byte) /\ Len(w.buf) <= UncompSize
      /\ w.ok => w.torn = torn /\ w.data \o w.buf = (data \o uncomp_buf) \o b
      /\ "flush" \notin setup.faults => w.ok
  BY ChunkStored
<1>2. /\ data' = w.data /\ ends' = w.ends /\ torn' = w.torn
      /\ uncomp_buf' = w.buf /\ iso' = iso \o b /\ num_matches' = num_matches
  BY DEF jtwrite, Store
<1>3. EngineOK BY EngineHolds
<1>4. iso' \in Seq(Byte) BY <1>2, <1>3, ConcatSeq DEF EngineOK
<1>5. Len(b) \in Nat /\ entries \in Seq(Entry) /\ Len(ChecksumList) \in Nat
  BY <1>3, ConstantsAssumption DEF EngineOK
<1>6. /\ entries' \in Seq(Entry) /\ num_chunks' \in Nat
      /\ num_matches' = Cardinality(Matches(entries'))
      /\ num_chunks' = Cardinality(Chunks(entries'))
  <2>1. CASE ~w.ok
    <3>1. entries' = entries /\ num_chunks' = num_chunks BY <2>1 DEF jtwrite
    <3> QED BY <3>1, <1>2, <1>3 DEF EngineOK
  <2>2. CASE w.ok
    <3> DEFINE f == add_unmatched_entry(entries, Len(b))
    <3>1. /\ entries' = f
          /\ num_chunks' = num_chunks + (IF CanExtend(entries) THEN 0 ELSE 1)
      BY <2>2 DEF jtwrite
    <3>2. /\ f \in Seq(Entry) 
          /\ Cardinality(Matches(f)) = Cardinality(Matches(entries))
          /\ Cardinality(Chunks(f)) =
               Cardinality(Chunks(entries)) + (IF CanExtend(entries) THEN 0 ELSE 1)
      BY <1>5, UnmatchedAdded
    <3> HIDE DEF f
    <3>3. num_matches' = Cardinality(Matches(entries')) BY <1>2, <1>3, <3>1, <3>2 DEF EngineOK
    <3>4. num_chunks' = Cardinality(Chunks(entries')) /\ num_chunks' \in Nat
      BY <1>3, <3>1, <3>2 DEF EngineOK
    <3> QED BY <3>1, <3>2, <3>3, <3>4
  <2> QED BY <1>1, <2>1, <2>2
<1>7. EngineOK' BY <1>1, <1>2, <1>3, <1>4, <1>6 DEF EngineOK
<1>8. ASSUME w.ok, NEW img \in Seq(Byte),
             Tracks(entries, data \o uncomp_buf, img)
      PROVE  Tracks(entries', data' \o uncomp_buf', img \o b)
  <2>1. entries' = add_unmatched_entry(entries, Len(b)) BY <1>8 DEF jtwrite
  <2>2. data \o uncomp_buf \in Seq(Byte) BY TracksBytes
  <2>3. Tracks(add_unmatched_entry(entries, Len(b)), (data \o uncomp_buf) \o b, img \o b)
    BY <1>5, <1>8, <2>2, TrackData
  <2>4. data' \o uncomp_buf' = (data \o uncomp_buf) \o b BY <1>1, <1>2, <1>8
  <2> QED BY <2>1, <2>3, <2>4
<1> QED BY <1>1, <1>2, <1>7, <1>8

\* A matched file and its padding continue what is described, when the engine
\* accepts them and no flush fails that it does not tell of.
LEMMA FileWritten ==
  ASSUME TypeOK, CountInv, NEW f \in File, NEW m \in list_file_in_jigdo(f),
         m # -1, m # 0, NEW r \in ReadFile(f), write_jt_match_record(f, m, r)
  PROVE  LET pad == Padding(Len(Content[f])) IN
         /\ EngineOK' /\ r.ok \in BOOLEAN
         /\ r.ok => iso' = (iso \o r.bytes) \o pad
         /\ r.ok /\ ("flush" \in setup.faults => setup.sector = 1)
            => /\ torn' = torn
               /\ \A img \in Seq(Byte) :
                    Tracks(entries, data \o uncomp_buf, img)
                    => Tracks(entries', data' \o uncomp_buf',
                              img \o (Content[f] \o pad))
<1> DEFINE c == Content[f]
           pad == Padding(Len(c))
           es == add_file_entry(entries, Len(c), m)
<1>1. EngineOK BY EngineHolds
<1>2. r.ok \in BOOLEAN /\ r.bytes \in Seq(Byte) BY ReadBytes
<1>3. c \in Seq(Byte) /\ Len(c) \in Nat BY ConstantsAssumption
<1>4. setup \in Setups BY DEF TypeOK
<1>5. pad \in Seq(Byte) /\ (setup.sector = 1 => pad = << >>)
  BY <1>3, <1>4, PaddingBytes
<1>6. m \in 1..Len(ChecksumList) /\ ChecksumList[m].content = c BY ListedRight
<1>7. entries \in Seq(Entry) /\ iso \in Seq(Byte) BY <1>1 DEF EngineOK
<1>8. /\ es \in Seq(Entry) /\ ~CanExtend(es)
      /\ Cardinality(Matches(es)) = Cardinality(Matches(entries)) + 1
      /\ Cardinality(Chunks(es)) = Cardinality(Chunks(entries))
  BY <1>3, <1>6, <1>7, FileAdded
<1>9. iso \o r.bytes \in Seq(Byte) /\ (iso \o r.bytes) \o pad \in Seq(Byte)
  BY <1>2, <1>5, <1>7, ConcatSeq
<1>10. data \o uncomp_buf \in Seq(Byte) BY TracksBytes
<1>11. ASSUME NEW img \in Seq(Byte), Tracks(entries, data \o uncomp_buf, img)
       PROVE  Tracks(es, data \o uncomp_buf, img \o c)
  <2>1. \A s \in Seq(Byte) : Tracks(entries, s, img) => Tracks(es, s, img \o c)
    BY <1>3, <1>6, <1>7, TrackFile
  <2> QED BY <1>10, <1>11, <2>1
<1>d. /\ ~r.ok => /\ iso' = iso \o r.bytes
                  /\ UNCHANGED <<templateVars, entryVars>>
      /\ r.ok => /\ iso' = (iso \o r.bytes) \o pad
                 /\ num_matches' = num_matches + 1
      /\ r.ok /\ pad = << >> => /\ entries' = es
                                /\ UNCHANGED <<templateVars, num_chunks>>
      /\ r.ok /\ pad # << >> => /\ \E w \in write_compressed_chunk(pad) : Store(w)
                                /\ entries' = add_unmatched_entry(es, Len(pad))
                                /\ num_chunks' = num_chunks + 1
  BY DEF write_jt_match_record
<1> HIDE DEF c, pad, es
<1>12. CASE ~r.ok
  <2>1. /\ iso' = iso \o r.bytes
        /\ UNCHANGED <<templateVars, entryVars>>
    BY <1>12, <1>d
  <2>2. EngineOK' BY <2>1, <1>1, <1>9 DEF EngineOK, templateVars, entryVars
  <2> QED BY <1>12, <2>2, <1>2
<1>13. CASE r.ok /\ pad = << >>
  <2>1. /\ iso' = (iso \o r.bytes) \o pad /\ num_matches' = num_matches + 1
        /\ entries' = es /\ num_chunks' = num_chunks
        /\ data' = data /\ ends' = ends /\ torn' = torn /\ uncomp_buf' = uncomp_buf
    BY <1>13, <1>d DEF templateVars
  <2>2. EngineOK' BY <2>1, <1>1, <1>8, <1>9 DEF EngineOK
  <2>3. c \o pad = c BY <1>3, <1>13, ConcatEmptySeq
  <2>4. data' \o uncomp_buf' = data \o uncomp_buf BY <2>1
  <2>5. ASSUME NEW img \in Seq(Byte), Tracks(entries, data \o uncomp_buf, img)
        PROVE  Tracks(entries', data' \o uncomp_buf', img \o (c \o pad))
    BY <2>5, <1>11, <2>1, <2>3, <2>4
  <2> QED BY <1>13, <2>1, <2>2, <2>5 DEF c, pad
<1>14. CASE r.ok /\ pad # << >>
  <2>1. PICK w \in write_compressed_chunk(pad) : Store(w) BY <1>14, <1>d
  <2>2. /\ w.ok \in BOOLEAN /\ w.torn \in BOOLEAN
        /\ w.data \in Seq(Byte) /\ w.ends \in Seq(Nat)
        /\ w.buf \in Seq(Byte) /\ Len(w.buf) <= UncompSize
        /\ w.ok => w.torn = torn /\ w.data \o w.buf = (data \o uncomp_buf) \o pad
        /\ "flush" \notin setup.faults => w.ok
    BY <1>5, <2>1, ChunkStored
  <2>3. /\ iso' = (iso \o r.bytes) \o pad /\ num_matches' = num_matches + 1
        /\ entries' = add_unmatched_entry(es, Len(pad))
        /\ num_chunks' = num_chunks + 1
        /\ data' = w.data /\ ends' = w.ends /\ torn' = w.torn /\ uncomp_buf' = w.buf
    BY <1>14, <1>d, <2>1 DEF Store
  <2>4. Len(pad) \in Nat BY <1>5
  <2> DEFINE g == add_unmatched_entry(es, Len(pad))
  <2>5. /\ g \in Seq(Entry)
        /\ Cardinality(Matches(g)) = Cardinality(Matches(es))
        /\ Cardinality(Chunks(g)) = Cardinality(Chunks(es)) + 1
    BY <1>8, <2>4, UnmatchedAdded
  <2> HIDE DEF g
  <2>6. /\ num_matches' = Cardinality(Matches(entries')) /\ num_matches' \in Nat
        /\ num_chunks' = Cardinality(Chunks(entries')) /\ num_chunks' \in Nat
    BY <1>1, <1>8, <2>3, <2>5, SMTT(30) DEF EngineOK, g
  <2>7. EngineOK' BY <1>9, <2>2, <2>3, <2>5, <2>6 DEF EngineOK, g
  <2>8. ASSUME "flush" \in setup.faults => setup.sector = 1,
               NEW img \in Seq(Byte), Tracks(entries, data \o uncomp_buf, img)
        PROVE  Tracks(entries', data' \o uncomp_buf', img \o (c \o pad))
    <3>1. w.ok BY <1>5, <1>14, <2>2, <2>8
    <3>2. data' \o uncomp_buf' = (data \o uncomp_buf) \o pad BY <2>2, <2>3, <3>1
    <3>3. Tracks(es, data \o uncomp_buf, img \o c) BY <1>11, <2>8
    <3>4. img \o c \in Seq(Byte) BY <1>3, ConcatSeq
    <3>5. Tracks(g, (data \o uncomp_buf) \o pad, (img \o c) \o pad)
      BY <1>5, <1>8, <1>10, <3>3, <3>4, TrackData DEF g
    <3>6. (img \o c) \o pad = img \o (c \o pad) BY <1>3, <1>5, ConcatAssoc
    <3> QED BY <2>3, <3>2, <3>5, <3>6 DEF g
  <2>9. ASSUME "flush" \in setup.faults => setup.sector = 1 PROVE torn' = torn
    BY <1>5, <1>14, <2>2, <2>3, <2>9
  <2> QED BY <1>14, <2>3, <2>7, <2>8, <2>9 DEF c, pad
<1> QED BY <1>2, <1>12, <1>13, <1>14
-----------------------------------------------------------------------------
(* The invariant holds initially and every step preserves it. *)

\* At first nothing has been written.
LEMMA InitInv == Init => IInv
<1> SUFFICES ASSUME Init PROVE IInv OBVIOUS
<1>1. TypeOK
  <2>1. /\ << >> \in Seq(Byte) /\ << >> \in Seq(Nat) /\ << >> \in Seq(Entry)
        /\ Len(<< >>) = 0
    OBVIOUS
  <2>2. UncompSize \in Nat BY ConstantsAssumption
  <2>3. NoDesc \in [len : Nat, entries : Seq(Entry), image_len : Nat, sum : Seq(Byte)]
    BY <2>1 DEF NoDesc
  <2> HIDE DEF NoDesc
  <2>4. /\ uncomp_buf \in Seq(Byte) /\ Len(uncomp_buf) <= UncompSize
        /\ entries \in Seq(Entry) /\ ends \in Seq(Nat) /\ data \in Seq(Byte)
        /\ left \in Seq(Byte) /\ image \in Seq(Byte) /\ iso \in Seq(Byte)
    BY <2>1, <2>2 DEF Init
  <2>5. /\ setup \in Setups /\ app = "setup" /\ image_size = 0
        /\ include_in_jigdo = FALSE /\ torn = FALSE /\ num_matches = 0
        /\ num_chunks = 0 /\ desc = NoDesc
    BY DEF Init
  <2> QED BY <2>3, <2>4, <2>5 DEF TypeOK
<1>2. AppInv BY DEF Init, AppInv
<1>3. CountInv
  <2>1. Matches(<< >>) = {} /\ Chunks(<< >>) = {} BY DEF Matches, Chunks
  <2>2. Cardinality({}) = 0 BY FS_EmptySet
  <2> QED BY <2>1, <2>2 DEF Init, CountInv
<1>4. Described = << >> BY DEF Init, Described
<1>5. SumInv BY <1>4 DEF Init, SumInv
<1>6. TrackInv
  <2>1. Stream = << >> BY ConcatEmptySeq DEF Init, Stream
  <2>2. Tracks(<< >>, << >>, << >>) BY DEF Tracks, Follow, EndAt, EndFrom
  <2> QED BY <1>4, <2>1, <2>2 DEF Init, TrackInv
<1> QED BY <1>1, <1>2, <1>3, <1>5, <1>6 DEF IInv

\* A step that leaves the engine and what is described alone.
LEMMA EngineIdle ==
  ASSUME IInv, setup' = setup, UNCHANGED <<iso, templateVars, entryVars>>,
         app # "failed", app # "done", app' # "done",
         app' # "failed" => Described' = Described
  PROVE  SumInv' /\ TrackInv' /\ EngineOK'
<1>1. Reported' = Reported /\ ReadsTrue' = ReadsTrue BY KindKept
<1>2. /\ iso' = iso /\ uncomp_buf' = uncomp_buf /\ data' = data /\ ends' = ends
      /\ torn' = torn /\ entries' = entries /\ num_matches' = num_matches
      /\ num_chunks' = num_chunks
  BY DEF templateVars, entryVars
<1>3. Stream' = Stream BY <1>2 DEF Stream
<1>4. SumInv' BY <1>1, <1>2 DEF IInv, SumInv
<1>5. TrackInv' BY <1>1, <1>2, <1>3 DEF IInv, TrackInv
<1>6. EngineOK' BY <1>2, EngineHolds DEF IInv, EngineOK
<1> QED BY <1>4, <1>5, <1>6

\* The counters count in every state that is not the last.
LEMMA CountKept ==
  ASSUME EngineOK', app' # "done"
  PROVE  CountInv'
BY DEF EngineOK, CountInv

\* The invariant after libjte_write_header().
LEMMA WriteHeaderInv == IInv /\ setup' = setup /\ WriteHeader => IInv'
<1> SUFFICES ASSUME IInv, setup' = setup, WriteHeader PROVE IInv' OBVIOUS
<1>1. /\ app = "setup" /\ app' \in {"payload", "failed"}
      /\ left' = left /\ image' = image /\ image_size' = image_size
      /\ include_in_jigdo' = include_in_jigdo /\ desc' = desc
      /\ UNCHANGED <<iso, templateVars, entryVars>>
  BY DEF WriteHeader, templateVars, entryVars
<1>2. Described' = Described BY <1>1 DEF Described
<1>3. SumInv' /\ TrackInv' /\ EngineOK' BY <1>1, <1>2, EngineIdle
<1>4. TypeOK' BY <1>1, <1>3 DEF IInv, TypeOK, EngineOK
<1>5. AppInv' BY <1>1 DEF IInv, AppInv
<1>6. CountInv' BY <1>1, <1>3, CountKept
<1> QED BY <1>3, <1>4, <1>5, <1>6 DEF IInv

\* What libjte_show_data_chunk() does to the image and to the engine.
LEMMA ChunkShown ==
  ASSUME IInv, setup' = setup, NEW b \in Seq(Byte), ShowDataChunk(b),
         setup.api = "simple", app \in {"payload", "file"},
         left' \in Seq(Byte), include_in_jigdo => left = b \o left'
  PROVE  IInv'
<1>1. /\ image' = image \o b /\ image_size' = image_size + Len(b)
      /\ app' = app /\ include_in_jigdo' = include_in_jigdo /\ desc' = desc
  BY DEF ShowDataChunk
<1>2. /\ image \in Seq(Byte) /\ left \in Seq(Byte) /\ image_size \in Nat
      /\ image_size = Len(image)
  BY DEF IInv, TypeOK, AppInv
<1>3. /\ image' \in Seq(Byte) /\ image_size' = Len(image') /\ image_size' \in Nat
  BY <1>1, <1>2, ConcatSeq
<1>4. AppInv' BY <1>1, <1>3 DEF IInv, AppInv
<1>5. CASE include_in_jigdo
  <2>1. app = "file" /\ left = b \o left' BY <1>5 DEF IInv, AppInv
  <2>2. UNCHANGED <<iso, templateVars, entryVars>> BY <1>5 DEF ShowDataChunk
  <2>3. Described' = (image \o b) \o left'
    BY <1>1, <1>5, <2>1 DEF Described
  <2>4. Described = image \o (b \o left') BY <1>5, <2>1 DEF Described
  <2>5. (image \o b) \o left' = image \o (b \o left') BY <1>2, ConcatAssoc, SMTT(30)
  <2>6. SumInv' /\ TrackInv' /\ EngineOK'
    BY <1>1, <2>1, <2>2, <2>3, <2>4, <2>5, EngineIdle
  <2>7. TypeOK' BY <1>1, <1>3, <2>6 DEF IInv, TypeOK, EngineOK
  <2>8. CountInv' BY <1>1, <2>1, <2>6, CountKept
  <2> QED BY <1>4, <2>6, <2>7, <2>8 DEF IInv
<1>6. CASE ~include_in_jigdo
  <2>1. PICK w \in write_compressed_chunk(b) : jtwrite(b, w)
    BY <1>6 DEF ShowDataChunk
  <2>2. TypeOK /\ CountInv BY DEF IInv
  <2>3. /\ EngineOK' /\ iso' = iso \o b
        /\ "flush" \notin setup.faults => w.ok
        /\ w.ok => /\ torn' = torn
                   /\ \A img \in Seq(Byte) :
                        Tracks(entries, data \o uncomp_buf, img)
                        => Tracks(entries', data' \o uncomp_buf', img \o b)
    BY <2>1, <2>2, ChunkWritten
  <2>4. Described = image /\ Described' = image \o b BY <1>1, <1>6 DEF Described
  <2>5. Reported' = Reported /\ ReadsTrue' = ReadsTrue BY KindKept
  <2>6. SumInv' BY <1>1, <2>3, <2>4, <2>5 DEF IInv, SumInv
  <2>7. TrackInv'
    <3> SUFFICES ASSUME Reported PROVE ~torn' /\ Tracks(entries', Stream', Described')
      BY <2>5 DEF TrackInv
    <3>1. w.ok BY <2>3 DEF Reported
    <3>2. ~torn /\ Tracks(entries, data \o uncomp_buf, image)
      BY <2>4 DEF IInv, TrackInv, Stream
    <3>3. Stream' = data' \o uncomp_buf' BY <1>1 DEF Stream
    <3> QED BY <1>2, <2>3, <2>4, <3>1, <3>2, <3>3
  <2>8. TypeOK' BY <1>1, <1>3, <2>3 DEF IInv, TypeOK, EngineOK
  <2>9. CountInv' BY <1>1, <2>3, CountKept
  <2> QED BY <1>4, <2>6, <2>7, <2>8, <2>9 DEF IInv
<1> QED BY <1>5, <1>6

\* The invariant after the application has shown data of its own.
LEMMA ShowPayloadInv == IInv /\ setup' = setup /\ ShowPayload => IInv'
<1> SUFFICES ASSUME IInv, setup' = setup, ShowPayload PROVE IInv' OBVIOUS
<1>1. PICK b \in Chunk : ShowDataChunk(b) BY DEF ShowPayload
<1>2. b \in Seq(Byte) BY ConstantsAssumption
<1>3. setup.api = "simple" /\ app = "payload" /\ left' = left BY DEF ShowPayload
<1>4. ~include_in_jigdo /\ left' \in Seq(Byte) BY <1>3 DEF IInv, AppInv, TypeOK
<1> QED BY <1>1, <1>2, <1>3, <1>4, ChunkShown

\* The invariant after it has shown a piece of a file.
LEMMA ShowFileInv == IInv /\ setup' = setup /\ ShowFile => IInv'
<1> SUFFICES ASSUME IInv, setup' = setup, ShowFile PROVE IInv' OBVIOUS
<1>1. PICK n \in 1..Len(left) : /\ ShowDataChunk(SubSeq(left, 1, n))
                                /\ left' = SubSeq(left, n + 1, Len(left))
  BY DEF ShowFile
<1>2. left \in Seq(Byte) /\ n \in 0..Len(left) BY DEF IInv, TypeOK
<1>3. /\ SubSeq(left, 1, n) \in Seq(Byte) /\ left' \in Seq(Byte)
      /\ left = SubSeq(left, 1, n) \o left'
  BY <1>1, <1>2, Split
<1>4. setup.api = "simple" /\ app = "file" BY DEF ShowFile
<1> DEFINE b == SubSeq(left, 1, n)
<1>5. b \in Seq(Byte) /\ ShowDataChunk(b) /\ left = b \o left' BY <1>1, <1>3
<1> HIDE DEF b
<1> QED BY <1>3, <1>4, <1>5, ChunkShown

\* The invariant after libjte_begin_data_file(), also if the file cannot be read.
LEMMA BeginDataFileInv == IInv /\ setup' = setup /\ BeginDataFile => IInv'
<1> SUFFICES ASSUME IInv, setup' = setup, BeginDataFile PROVE IInv' OBVIOUS
<1>0. PICK f \in File : \E d \in list_file_in_jigdo(f) :
        \/ /\ d = -1 /\ app' = "failed"
           /\ UNCHANGED <<left, include_in_jigdo, iso, templateVars, entryVars>>
        \/ /\ d = 0 /\ app' = "file" /\ left' = Padded(f)
           /\ include_in_jigdo' = FALSE
           /\ UNCHANGED <<iso, templateVars, entryVars>>
        \/ /\ d \notin {-1, 0} /\ app' = "file" /\ left' = Padded(f)
           /\ include_in_jigdo' = TRUE
           /\ \E r \in ReadFile(f) : write_jt_match_record(f, d, r)
  BY DEF BeginDataFile
<1>1. PICK d \in list_file_in_jigdo(f) :
        /\ d = -1 => /\ app' = "failed"
                     /\ UNCHANGED <<left, include_in_jigdo, iso, templateVars,
                                    entryVars>>
        /\ d = 0 => /\ app' = "file" /\ left' = Padded(f)
                    /\ include_in_jigdo' = FALSE
                    /\ UNCHANGED <<iso, templateVars, entryVars>>
        /\ d \notin {-1, 0} => /\ app' = "file" /\ left' = Padded(f)
                               /\ include_in_jigdo' = TRUE
                               /\ \E r \in ReadFile(f) : write_jt_match_record(f, d, r)
  BY <1>0
<1> DEFINE c == Content[f]
           pad == Padding(Len(c))
           shown == c \o pad
<1>2. /\ setup.api = "simple" /\ app = "payload" /\ image' = image
      /\ image_size' = image_size /\ desc' = desc
  BY DEF BeginDataFile
<1>3. /\ setup \in Setups /\ image \in Seq(Byte) /\ iso \in Seq(Byte)
      /\ image_size = Len(image) /\ image_size \in Nat
      /\ ~include_in_jigdo
  BY <1>2 DEF IInv, TypeOK, AppInv
<1>4. c \in Seq(Byte) /\ pad \in Seq(Byte) /\ shown \in Seq(Byte)
  <2>1. c \in Seq(Byte) /\ Len(c) \in Nat BY ConstantsAssumption
  <2>2. pad \in Seq(Byte) BY <1>3, <2>1, PaddingBytes
  <2> QED BY <2>1, <2>2, ConcatSeq
<1>5. Described = image BY <1>2 DEF Described
<1>6. Reported' = Reported /\ ReadsTrue' = ReadsTrue BY KindKept
<1>7. CASE d = -1
  <2>1. /\ app' = "failed"
        /\ UNCHANGED <<left, include_in_jigdo, iso, templateVars, entryVars>>
    BY <1>1, <1>7
  <2>2. left' = left /\ include_in_jigdo' = include_in_jigdo
        /\ UNCHANGED <<iso, templateVars, entryVars>>
    BY <2>1 DEF templateVars, entryVars
  <2>3. SumInv' /\ TrackInv' /\ EngineOK' BY <1>2, <2>1, <2>2, EngineIdle
  <2>4. TypeOK' BY <1>2, <2>1, <2>2, <2>3 DEF IInv, TypeOK, EngineOK
  <2>5. AppInv' BY <1>2, <1>3, <2>1, <2>2 DEF AppInv
  <2>6. CountInv' BY <2>1, <2>3, CountKept
  <2> QED BY <2>3, <2>4, <2>5, <2>6 DEF IInv
<1>8. CASE d = 0
  <2>1. /\ app' = "file" /\ left' = shown /\ include_in_jigdo' = FALSE
        /\ UNCHANGED <<iso, templateVars, entryVars>>
    BY <1>1, <1>8 DEF Padded
  <2> HIDE DEF shown
  <2>2. Described' = Described BY <1>2, <1>5, <2>1 DEF Described
  <2>3. SumInv' /\ TrackInv' /\ EngineOK' BY <1>2, <2>1, <2>2, EngineIdle
  <2>4. TypeOK' BY <1>2, <1>4, <2>1, <2>3 DEF IInv, TypeOK, EngineOK
  <2>5. AppInv' BY <1>2, <1>3, <2>1 DEF AppInv
  <2>6. CountInv' BY <2>1, <2>3, CountKept
  <2> QED BY <2>3, <2>4, <2>5, <2>6 DEF IInv
<1>9. CASE d # -1 /\ d # 0
  <2>1. /\ app' = "file" /\ left' = shown /\ include_in_jigdo' = TRUE
        /\ \E r \in ReadFile(f) : write_jt_match_record(f, d, r)
    BY <1>1, <1>9 DEF Padded
  <2>2. PICK r \in ReadFile(f) : write_jt_match_record(f, d, r) BY <2>1
  <2>3. TypeOK /\ CountInv BY DEF IInv
  <2>4. /\ EngineOK'
        /\ r.ok => iso' = (iso \o r.bytes) \o pad
        /\ r.ok /\ ("flush" \in setup.faults => setup.sector = 1)
           => /\ torn' = torn
              /\ \A img \in Seq(Byte) :
                   Tracks(entries, data \o uncomp_buf, img)
                   => Tracks(entries', data' \o uncomp_buf', img \o (c \o pad))
    BY <1>9, <2>2, <2>3, FileWritten
  <2>5. setup.failing = {} => r.ok /\ r.bytes = c BY ReadBytes
  <2>6. Described' = image \o shown BY <1>2, <2>1 DEF Described
  <2> HIDE DEF c, pad
  <2>7. SumInv'
    <3> SUFFICES ASSUME ReadsTrue PROVE iso' = Described'
      BY <1>6 DEF SumInv
    <3>1. setup.failing = {} BY <1>2 DEF ReadsTrue
    <3>2. iso' = (iso \o c) \o pad BY <2>4, <2>5, <3>1
    <3>3. iso = image BY <1>2, <1>5 DEF IInv, SumInv
    <3>4. (image \o c) \o pad = image \o (c \o pad)
      <4>1. c \in Seq(Byte) /\ pad \in Seq(Byte) /\ image \in Seq(Byte)
        BY <1>3, <1>4
      <4> QED BY <4>1, ConcatAssoc
    <3> QED BY <2>6, <3>2, <3>3, <3>4
  <2>8. TrackInv'
    <3> SUFFICES ASSUME Reported PROVE ~torn' /\ Tracks(entries', Stream', Described')
      BY <1>6 DEF TrackInv
    <3>1. setup.failing = {} /\ "flush" \notin setup.faults
      BY <1>2 DEF Reported
    <3>2. ~torn /\ Tracks(entries, data \o uncomp_buf, image)
      BY <1>2, <1>5 DEF IInv, TrackInv, Stream
    <3>3. Stream' = data' \o uncomp_buf' BY <2>1 DEF Stream
    <3>4. torn' = torn /\ Tracks(entries', data' \o uncomp_buf', image \o (c \o pad))
      BY <1>3, <2>4, <2>5, <3>1, <3>2
    <3> QED BY <2>6, <3>2, <3>3, <3>4
  <2> HIDE DEF shown
  <2>9. TypeOK' BY <1>2, <1>4, <2>1, <2>4 DEF IInv, TypeOK, EngineOK
  <2>10. AppInv' BY <1>2, <1>3, <2>1 DEF AppInv
  <2>11. CountInv' BY <2>1, <2>4, CountKept
  <2> QED BY <2>7, <2>8, <2>9, <2>10, <2>11 DEF IInv
<1> QED BY <1>7, <1>8, <1>9

\* The invariant after libjte_end_data_file().
LEMMA EndDataFileInv == IInv /\ setup' = setup /\ EndDataFile => IInv'
<1> SUFFICES ASSUME IInv, setup' = setup, EndDataFile PROVE IInv' OBVIOUS
<1>1. /\ app = "file" /\ left = << >> /\ app' = "payload"
      /\ include_in_jigdo' = FALSE /\ left' = left /\ image' = image
      /\ image_size' = image_size /\ desc' = desc
      /\ UNCHANGED <<iso, templateVars, entryVars>>
  BY DEF EndDataFile, templateVars, entryVars
<1>2. image \in Seq(Byte) BY DEF IInv, TypeOK
<1>3. image \o << >> = image BY <1>2, ConcatEmptySeq
<1>4. Described' = Described BY <1>1, <1>3 DEF Described
<1>5. SumInv' /\ TrackInv' /\ EngineOK' BY <1>1, <1>4, EngineIdle
<1>6. TypeOK' BY <1>1, <1>5 DEF IInv, TypeOK, EngineOK
<1>7. AppInv' BY <1>1 DEF IInv, AppInv
<1>8. CountInv' BY <1>1, <1>5, CountKept
<1> QED BY <1>5, <1>6, <1>7, <1>8 DEF IInv

\* What libjte_write_unmatched() does to the image and to the engine.
LEMMA WriteInv ==
  ASSUME IInv, setup' = setup, NEW b \in Seq(Byte), Write(b),
         setup.api = "traditional", app = "payload"
  PROVE  IInv'
<1>1. /\ image' = image \o b /\ left' = left /\ image_size' = image_size
      /\ include_in_jigdo' = include_in_jigdo /\ desc' = desc
  BY DEF Write
<1>2. PICK w \in write_compressed_chunk(b) :
        jtwrite(b, w) /\ app' = IF w.ok THEN app ELSE "failed"
  BY DEF Write
<1>3. TypeOK /\ CountInv /\ image \in Seq(Byte) /\ setup \in Setups
  BY DEF IInv, TypeOK
<1>4. /\ EngineOK' /\ iso' = iso \o b
      /\ w.ok => /\ torn' = torn
                 /\ \A img \in Seq(Byte) :
                      Tracks(entries, data \o uncomp_buf, img)
                      => Tracks(entries', data' \o uncomp_buf', img \o b)
  BY <1>2, <1>3, ChunkWritten
<1>5. app' \in {"payload", "failed"} /\ (app' = "payload" => w.ok) BY <1>2
<1>6. Described = image /\ Described' = image \o b BY <1>1, <1>5 DEF Described
<1>7. Reported' = Reported /\ ReadsTrue' = ReadsTrue BY KindKept
<1>8. SumInv' BY <1>4, <1>6, <1>7 DEF IInv, SumInv
<1>9. TrackInv'
  <2> SUFFICES ASSUME Reported, app' = "payload"
               PROVE  ~torn' /\ Tracks(entries', Stream', Described')
    BY <1>5, <1>7 DEF TrackInv
  <2>1. ~torn /\ Tracks(entries, data \o uncomp_buf, image)
    BY <1>6 DEF IInv, TrackInv, Stream
  <2>2. Stream' = data' \o uncomp_buf' BY DEF Stream
  <2> QED BY <1>3, <1>4, <1>5, <1>6, <2>1, <2>2
<1>10. image' \in Seq(Byte) BY <1>1, <1>3, ConcatSeq
<1>11. TypeOK' BY <1>1, <1>4, <1>5, <1>10 DEF IInv, TypeOK, EngineOK
<1>12. AppInv' BY <1>1, <1>5 DEF IInv, AppInv
<1>13. CountInv' BY <1>4, <1>5, CountKept
<1> QED BY <1>8, <1>9, <1>11, <1>12, <1>13 DEF IInv

\* The invariant after data under the simplified API.
LEMMA WriteUnmatchedInv == IInv /\ setup' = setup /\ WriteUnmatched => IInv'
<1> SUFFICES ASSUME IInv, setup' = setup, WriteUnmatched PROVE IInv' OBVIOUS
<1>1. PICK b \in Chunk : Write(b) BY DEF WriteUnmatched
<1>2. b \in Seq(Byte) BY ConstantsAssumption
<1>3. setup.api = "traditional" /\ app = "payload" BY DEF WriteUnmatched
<1> QED BY <1>1, <1>2, <1>3, WriteInv

\* The invariant after a file under the simplified API, its padding included.
LEMMA WriteFileInv == IInv /\ setup' = setup /\ WriteFile => IInv'
<1> SUFFICES ASSUME IInv, setup' = setup, WriteFile PROVE IInv' OBVIOUS
<1>0. PICK f \in File : \E d \in list_file_in_jigdo(f) :
        \/ /\ d = -1 /\ app' = "failed"
           /\ UNCHANGED <<left, image, image_size, iso, desc, include_in_jigdo,
                          templateVars, entryVars>>
        \/ d = 0 /\ Write(Padded(f))
        \/ /\ d \notin {-1, 0}
           /\ \E r \in ReadFile(f) :
                /\ write_jt_match_record(f, d, r)
                /\ app' = IF r.ok THEN app ELSE "failed"
                /\ image' = IF r.ok THEN image \o Padded(f) ELSE image
           /\ UNCHANGED <<left, image_size, include_in_jigdo, desc>>
  BY DEF WriteFile
<1>1. PICK d \in list_file_in_jigdo(f) :
        /\ d = -1 => /\ app' = "failed"
                     /\ UNCHANGED <<left, image, image_size, iso, desc,
                                    include_in_jigdo, templateVars, entryVars>>
        /\ d = 0 => Write(Padded(f))
        /\ d \notin {-1, 0} =>
             /\ \E r \in ReadFile(f) :
                  /\ write_jt_match_record(f, d, r)
                  /\ app' = IF r.ok THEN app ELSE "failed"
                  /\ image' = IF r.ok THEN image \o Padded(f) ELSE image
             /\ UNCHANGED <<left, image_size, include_in_jigdo, desc>>
  BY <1>0
<1> DEFINE c == Content[f]
           pad == Padding(Len(c))
           shown == c \o pad
<1>2. setup.api = "traditional" /\ app = "payload" BY DEF WriteFile
<1>3. /\ setup \in Setups /\ image \in Seq(Byte) /\ iso \in Seq(Byte)
  BY DEF IInv, TypeOK
<1>4. c \in Seq(Byte) /\ pad \in Seq(Byte) /\ shown \in Seq(Byte)
  <2>1. c \in Seq(Byte) /\ Len(c) \in Nat BY ConstantsAssumption
  <2>2. pad \in Seq(Byte) BY <1>3, <2>1, PaddingBytes
  <2> QED BY <2>1, <2>2, ConcatSeq
<1>5. Described = image /\ Padded(f) = shown BY <1>2 DEF Described, Padded
<1>6. Reported' = Reported /\ ReadsTrue' = ReadsTrue BY KindKept
<1>7. CASE d = -1
  <2>1. /\ app' = "failed" /\ left' = left /\ image' = image
        /\ image_size' = image_size /\ include_in_jigdo' = include_in_jigdo
        /\ desc' = desc /\ UNCHANGED <<iso, templateVars, entryVars>>
    BY <1>1, <1>7 DEF templateVars, entryVars
  <2>2. SumInv' /\ TrackInv' /\ EngineOK' BY <1>2, <2>1, EngineIdle
  <2>3. TypeOK' BY <2>1, <2>2 DEF IInv, TypeOK, EngineOK
  <2>4. AppInv' BY <1>2, <2>1 DEF AppInv
  <2>5. CountInv' BY <2>1, <2>2, CountKept
  <2> QED BY <2>2, <2>3, <2>4, <2>5 DEF IInv
<1>8. CASE d = 0
  <2>1. Write(shown) BY <1>1, <1>5, <1>8
  <2> HIDE DEF shown
  <2> QED BY <1>2, <1>4, <2>1, WriteInv
<1>9. CASE d # -1 /\ d # 0
  <2>1. PICK r \in ReadFile(f) :
          /\ write_jt_match_record(f, d, r)
          /\ app' = IF r.ok THEN app ELSE "failed"
          /\ image' = IF r.ok THEN image \o shown ELSE image
    BY <1>1, <1>5, <1>9
  <2>2. UNCHANGED <<left, image_size, include_in_jigdo, desc>> BY <1>1, <1>9
  <2>3. TypeOK /\ CountInv BY DEF IInv
  <2>4. /\ EngineOK'
        /\ r.ok => iso' = (iso \o r.bytes) \o pad
        /\ r.ok /\ ("flush" \in setup.faults => setup.sector = 1)
           => /\ torn' = torn
              /\ \A img \in Seq(Byte) :
                   Tracks(entries, data \o uncomp_buf, img)
                   => Tracks(entries', data' \o uncomp_buf', img \o (c \o pad))
    BY <1>9, <2>1, <2>3, FileWritten
  <2>5. app' \in {"payload", "failed"} /\ (app' = "payload" => r.ok) BY <1>2, <2>1
  <2>6. r.ok => Described' = image \o shown BY <1>2, <2>1 DEF Described
  <2>7. image' \in Seq(Byte) BY <1>3, <1>4, <2>1, ConcatSeq
  <2> HIDE DEF c, pad
  <2>8. SumInv'
    <3> SUFFICES ASSUME ReadsTrue, r.ok PROVE iso' = Described'
      BY <1>6, <2>5 DEF SumInv
    <3>1. r.bytes = c BY DEF ReadsTrue, c
    <3>2. iso' = (iso \o c) \o pad BY <2>4, <3>1
    <3>3. iso = image BY <1>2, <1>5 DEF IInv, SumInv
    <3>4. (image \o c) \o pad = image \o (c \o pad) BY <1>3, <1>4, ConcatAssoc
    <3> QED BY <2>6, <3>2, <3>3, <3>4
  <2>9. TrackInv'
    <3> SUFFICES ASSUME Reported, r.ok, app' = "payload"
                 PROVE  ~torn' /\ Tracks(entries', Stream', Described')
      BY <1>6, <2>5 DEF TrackInv
    <3>1. "flush" \in setup.faults => setup.sector = 1 BY DEF Reported
    <3>2. ~torn /\ Tracks(entries, data \o uncomp_buf, image)
      BY <1>2, <1>5 DEF IInv, TrackInv, Stream
    <3>3. Stream' = data' \o uncomp_buf' BY DEF Stream
    <3>4. torn' = torn /\ Tracks(entries', data' \o uncomp_buf', image \o (c \o pad))
      BY <1>3, <2>4, <3>1, <3>2
    <3> QED BY <2>6, <3>2, <3>3, <3>4
  <2> HIDE DEF shown
  <2>10. TypeOK' BY <2>2, <2>4, <2>5, <2>7 DEF IInv, TypeOK, EngineOK
  <2>11. AppInv' BY <1>2, <2>2, <2>5 DEF IInv, AppInv
  <2>12. CountInv' BY <2>4, <2>5, CountKept
  <2> QED BY <2>8, <2>9, <2>10, <2>11, <2>12 DEF IInv
<1> QED BY <1>7, <1>8, <1>9

\* The invariant after the size of the image has been set.
LEMMA SetImageSizeInv == IInv /\ setup' = setup /\ SetImageSize => IInv'
<1> SUFFICES ASSUME IInv, setup' = setup, SetImageSize PROVE IInv' OBVIOUS
<1>1. /\ setup.api = "traditional" /\ app = "payload"
      /\ image_size' = Len(image) /\ app' = "sized"
      /\ left' = left /\ image' = image /\ include_in_jigdo' = include_in_jigdo
      /\ desc' = desc /\ UNCHANGED <<iso, templateVars, entryVars>>
  BY DEF SetImageSize, templateVars, entryVars
<1>2. Described' = Described BY <1>1 DEF Described
<1>3. SumInv' /\ TrackInv' /\ EngineOK' BY <1>1, <1>2, EngineIdle
<1>4. image \in Seq(Byte) BY DEF IInv, TypeOK
<1>5. TypeOK' BY <1>1, <1>3, <1>4 DEF IInv, TypeOK, EngineOK
<1>6. AppInv' BY <1>1 DEF AppInv
<1>7. CountInv' BY <1>1, <1>3, CountKept
<1> QED BY <1>3, <1>5, <1>6, <1>7 DEF IInv

\* The length of the DESC part is a number.
LEMMA DescLenType ==
  ASSUME NEW m \in Nat, NEW n \in Nat
  PROVE  desc_len(m, n) \in Nat
BY DEF desc_len, file_entry_len, image_entry_len

\* The invariant after libjte_write_footer(): the DESC part describes the image.
LEMMA WriteFooterInv == IInv /\ setup' = setup /\ WriteFooter => IInv'
<1> SUFFICES ASSUME IInv, setup' = setup, WriteFooter PROVE IInv' OBVIOUS
<1>1. /\ app = (IF setup.api = "simple" THEN "payload" ELSE "sized")
      /\ app' = "done" /\ left' = left /\ image' = image
      /\ image_size' = image_size /\ include_in_jigdo' = include_in_jigdo
      /\ iso' = iso
      /\ torn' \in {torn} \cup (IF "close" \in setup.faults THEN {TRUE} ELSE {})
  BY DEF WriteFooter
<1>2. /\ data' = data \o uncomp_buf /\ uncomp_buf' = uncomp_buf
      /\ ends' = IF uncomp_buf = << >> THEN ends
                 ELSE Append(ends, Len(data \o uncomp_buf))
      /\ desc' = [len |-> desc_len(num_matches, num_chunks), entries |-> entries,
                  image_len |-> image_size, sum |-> iso]
      /\ entries' = entries /\ num_matches' = num_matches /\ num_chunks' = num_chunks
  BY DEF WriteFooter, WriteDesc, entryVars
<1>3. app \in {"payload", "sized"} BY <1>1
<1>4. /\ data \o uncomp_buf \in Seq(Byte) BY TracksBytes DEF IInv
<1>5. /\ ends \in Seq(Nat) /\ image \in Seq(Byte) /\ iso \in Seq(Byte)
      /\ entries \in Seq(Entry) /\ num_matches \in Nat /\ num_chunks \in Nat
      /\ image_size \in Nat /\ torn \in BOOLEAN
  BY DEF IInv, TypeOK
<1>6. TypeOK'
  <2>1. ends' \in Seq(Nat)
    <3>1. Len(data \o uncomp_buf) \in Nat BY <1>4
    <3>2. Append(ends, Len(data \o uncomp_buf)) \in Seq(Nat)
      BY <1>5, <3>1, AppendProperties
    <3> QED BY <1>2, <1>5, <3>2
  <2>2. desc' \in [len : Nat, entries : Seq(Entry), image_len : Nat, sum : Seq(Byte)]
    <3>1. desc_len(num_matches, num_chunks) \in Nat BY <1>5, DescLenType
    <3> QED BY <1>2, <1>5, <3>1
  <2>3. torn' \in BOOLEAN BY <1>1, <1>5
  <2> QED BY <1>1, <1>2, <1>4, <2>1, <2>2, <2>3 DEF IInv, TypeOK
<1>7. image_size = Len(image) BY <1>1 DEF IInv, AppInv
<1>8. AppInv' BY <1>1, <1>7 DEF AppInv
<1>9. CountInv'
  <2>1. desc_len(num_matches, num_chunks)' = desc_len(num_matches, num_chunks)
    BY <1>2 DEF desc_len, file_entry_len, image_entry_len
  <2>2. desc' = [len |-> desc_len(num_matches, num_chunks)', entries |-> entries',
                 image_len |-> image_size', sum |-> iso']
    BY <1>1, <1>2, <2>1
  <2> QED BY <1>1, <1>2, <2>2 DEF IInv, CountInv
<1>10. Reported' = Reported /\ ReadsTrue' = ReadsTrue BY KindKept
<1>11. Described = image /\ Described' = image BY <1>1, <1>3 DEF Described
<1>12. Stream = data \o uncomp_buf /\ Stream' = data \o uncomp_buf
  BY <1>1, <1>2, <1>3 DEF Stream
<1>13. SumInv' BY <1>1, <1>3, <1>10, <1>11 DEF IInv, SumInv
<1>14. TrackInv'
  <2> SUFFICES ASSUME Reported PROVE ~torn' /\ Tracks(entries', Stream', Described')
    BY <1>10 DEF TrackInv
  <2>1. ~torn /\ Tracks(entries, Stream, Described) BY <1>3 DEF IInv, TrackInv
  <2>2. torn' = torn BY <1>1 DEF Reported
  <2> QED BY <1>2, <1>11, <1>12, <2>1, <2>2
<1> QED BY <1>6, <1>8, <1>9, <1>13, <1>14 DEF IInv

\* The invariant after a footer that could not be written.
LEMMA WriteFooterFailsInv == IInv /\ setup' = setup /\ WriteFooterFails => IInv'
<1> SUFFICES ASSUME IInv, setup' = setup, WriteFooterFails PROVE IInv' OBVIOUS
<1>1. /\ app = (IF setup.api = "simple" THEN "payload" ELSE "sized")
      /\ torn' \in {torn, TRUE} /\ app' = "failed"
      /\ left' = left /\ image' = image /\ image_size' = image_size
      /\ include_in_jigdo' = include_in_jigdo /\ iso' = iso
      /\ uncomp_buf' = uncomp_buf /\ data' = data /\ ends' = ends
      /\ entries' = entries /\ num_matches' = num_matches
      /\ num_chunks' = num_chunks /\ desc' = desc
  BY DEF WriteFooterFails, entryVars
<1>2. TypeOK' BY <1>1 DEF IInv, TypeOK
<1>3. AppInv' BY <1>1 DEF IInv, AppInv
<1>4. CountInv' BY <1>1 DEF IInv, CountInv
<1>5. SumInv' /\ TrackInv' BY <1>1 DEF SumInv, TrackInv
<1> QED BY <1>2, <1>3, <1>4, <1>5 DEF IInv

\* The invariant when nothing changes.
LEMMA StutterInv == IInv /\ UNCHANGED vars => IInv'
<1> SUFFICES ASSUME IInv, UNCHANGED vars PROVE IInv' OBVIOUS
<1>1. /\ setup' = setup /\ app' = app /\ left' = left /\ image' = image
      /\ image_size' = image_size /\ include_in_jigdo' = include_in_jigdo
      /\ iso' = iso /\ uncomp_buf' = uncomp_buf /\ data' = data /\ ends' = ends
      /\ torn' = torn /\ entries' = entries /\ num_matches' = num_matches
      /\ num_chunks' = num_chunks /\ desc' = desc
  BY DEF vars
<1>2. Reported' = Reported /\ ReadsTrue' = ReadsTrue BY <1>1, KindKept
<1>3. TypeOK' BY <1>1 DEF IInv, TypeOK
<1>4. AppInv' BY <1>1 DEF IInv, AppInv
<1>5. desc_len(num_matches, num_chunks)' = desc_len(num_matches, num_chunks)
  BY <1>1 DEF desc_len, file_entry_len, image_entry_len
<1>6. CountInv'
  <2>1. app' = "done" =>
          desc' = [len |-> desc_len(num_matches, num_chunks)', entries |-> entries',
                   image_len |-> image_size', sum |-> iso']
    BY <1>1, <1>5 DEF IInv, CountInv
  <2> QED BY <1>1, <2>1 DEF IInv, CountInv
<1>7. Described' = Described /\ Stream' = Stream BY <1>1 DEF Described, Stream
<1>8. SumInv' /\ TrackInv' BY <1>1, <1>2, <1>7 DEF IInv, SumInv, TrackInv
<1> QED BY <1>3, <1>4, <1>6, <1>8 DEF IInv

\* The invariant after every call of the application.
LEMMA StepInv ==
  ASSUME IInv, setup' = setup, Step
  PROVE  IInv'
<1>1. CASE WriteHeader \/ ShowPayload \/ BeginDataFile \/ ShowFile \/ EndDataFile
  BY <1>1, WriteHeaderInv, ShowPayloadInv, BeginDataFileInv, ShowFileInv, EndDataFileInv
<1>2. CASE WriteUnmatched \/ WriteFile \/ SetImageSize \/ WriteFooter \/ WriteFooterFails
  BY <1>2, WriteUnmatchedInv, WriteFileInv, SetImageSizeInv, WriteFooterInv,
     WriteFooterFailsInv
<1> QED
  BY <1>1, <1>2 DEF Step

\* The inductive invariant: the counters, the checksum and the extents are
\* right after every call of the application (libjte.c), whatever it writes.
THEOREM Inv == Spec => []IInv
<1>1. IInv /\ [Next]_vars => IInv'
  BY StepInv, StutterInv DEF Next, Ended
<1> QED BY <1>1, InitInv, PTL DEF Spec

\* Every variable of the engine has its type, at every moment.
THEOREM TypeCorrect == Spec => []TypeOK
<1>1. IInv => TypeOK BY DEF IInv
<1> QED BY <1>1, Inv, PTL

\* Unless a failing read of a matched file goes unreported, the checksum of the
\* image is the checksum of its bytes.
THEOREM SumIsRight == Spec => [](ReadsTrue => ImageSummed)
<1>1. IInv => (ReadsTrue => ImageSummed)
  BY DEF IInv, SumInv, ImageSummed, Described
<1> QED BY <1>1, Inv, PTL

\* If every failure is reported, the extents and the unmatched data describe
\* the image at every moment between two files.
THEOREM Tracked == Spec => [](Reported => ImageTracked)
<1>1. IInv => (Reported => ImageTracked)
  <2> SUFFICES ASSUME IInv, Reported, app \in {"payload", "sized"}
               PROVE  Makes(entries, data \o uncomp_buf, image)
    BY DEF ImageTracked
  <2>1. Tracks(entries, data \o uncomp_buf, image)
    BY DEF IInv, TrackInv, Described, Stream
  <2>2. /\ entries \in Seq(Entry) /\ image \in Seq(Byte)
        /\ data \o uncomp_buf \in Seq(Byte)
    BY TracksBytes DEF IInv, TypeOK
  <2> QED BY <2>1, <2>2, TracksMakes
<1> QED BY <1>1, Inv, PTL

\* If every failure is reported, a footer that libjte_write_footer() says it has
\* written describes the image, and the template is whole.
THEOREM DescribedRight == Spec => [](Reported => ImageDescribed)
<1>1. IInv => (Reported => ImageDescribed)
  <2> SUFFICES ASSUME IInv, Reported, app = "done"
               PROVE  ~torn /\ Makes(desc.entries, data, image)
    BY DEF ImageDescribed
  <2>1. ~torn /\ Tracks(entries, data, image)
    BY DEF IInv, TrackInv, Described, Stream
  <2>2. entries \in Seq(Entry) /\ image \in Seq(Byte) /\ data \in Seq(Byte)
    BY DEF IInv, TypeOK
  <2>3. desc.entries = entries BY DEF IInv, CountInv
  <2> QED BY <2>1, <2>2, <2>3, TracksMakes
<1> QED BY <1>1, Inv, PTL

\* The length of the DESC part is what is written of it, however many extents
\* there are, and its image entry has the image's length and checksum.
THEOREM DescRight == Spec => [](ReadsTrue => DescTrue)
<1>1. IInv => (ReadsTrue => DescTrue)
  <2> SUFFICES ASSUME IInv, ReadsTrue, app = "done"
               PROVE  /\ desc.len = Written(desc.entries)
                      /\ desc.image_len = Len(image) /\ desc.sum = image
    BY DEF DescTrue
  <2>1. /\ desc.len = desc_len(num_matches, num_chunks) /\ desc.entries = entries
        /\ desc.image_len = image_size /\ desc.sum = iso
    BY DEF IInv, CountInv
  <2>2. image_size = Len(image) BY DEF IInv, AppInv
  <2>3. iso = image BY DEF IInv, SumInv, Described
  <2>4. /\ num_matches = Cardinality(Matches(entries)) /\ num_matches \in Nat
        /\ num_chunks = Cardinality(Chunks(entries)) /\ num_chunks \in Nat
    BY DEF IInv, TypeOK, CountInv
  <2>5. Written(entries) = 4 + 6 + file_entry_len * num_matches
                             + 7 * num_chunks + image_entry_len + 6
    BY <2>4 DEF Written, Matches, Chunks
  <2>6. desc_len(num_matches, num_chunks) = Written(entries)
    BY <2>4, <2>5 DEF desc_len, file_entry_len, image_entry_len
  <2> QED BY <2>1, <2>2, <2>3, <2>6
<1> QED BY <1>1, Inv, PTL
-----------------------------------------------------------------------------
(* What a reader of the template relies on besides: the DATA parts are pieces *)
(* of the unmatched data, and an extent of a file, which is not empty, names  *)
(* one of the list.                                                           *)

\* es are where parts end that follow each other from a up to n, none of them
\* empty.
Ascending(es, a, n) ==
  /\ \A k \in 1..Len(es) : a < es[k] /\ es[k] <= n /\ (k > 1 => es[k - 1] < es[k])
  /\ IF es = << >> THEN a = n ELSE es[Len(es)] = n
Named(es) ==
  \A k \in 1..Len(es) : es[k].type = "FILE_MATCH" => es[k].file # 0 /\ es[k].len > 0
PartsInv == Ascending(ends, 0, Len(data)) /\ Named(entries)

\* Parts from a up to n and others from n up to m are parts from a up to m.
LEMMA AscendingOn ==
  ASSUME NEW e \in Seq(Nat), NEW f \in Seq(Nat), NEW a \in Nat, NEW n \in Nat,
         NEW m \in Nat, a <= n, n <= m, Ascending(e, a, n), Ascending(f, n, m)
  PROVE  e \o f \in Seq(Nat) /\ Ascending(e \o f, a, m)
<1>1. Len(e) \in Nat /\ Len(f) \in Nat
  OBVIOUS
<1>2. /\ e \o f \in Seq(Nat) /\ Len(e \o f) = Len(e) + Len(f)
      /\ \A k \in 1..Len(e) + Len(f) :
           (e \o f)[k] = IF k <= Len(e) THEN e[k] ELSE f[k - Len(e)]
  BY ConcatProperties
<1>3. (\A k \in 1..Len(e) : e[k] \in Nat) /\ (\A k \in 1..Len(f) : f[k] \in Nat)
  BY ElementOfSeq
<1> DEFINE g == e \o f
<1> HIDE DEF g
<1>4. ASSUME NEW k \in 1..Len(g)
      PROVE  a < g[k] /\ g[k] <= m /\ (k > 1 => g[k - 1] < g[k])
  <2>1. CASE k <= Len(e)
    <3>1. k \in 1..Len(e) /\ g[k] = e[k] /\ (k > 1 => g[k - 1] = e[k - 1])
      BY <1>1, <1>2, <2>1 DEF g
    <3>2. e[k] \in Nat /\ a < e[k] /\ e[k] <= n /\ (k > 1 => e[k - 1] < e[k])
      BY <1>3, <3>1 DEF Ascending
    <3> QED
      BY <3>1, <3>2
  <2>2. CASE k = Len(e) + 1
    <3>1. 1 \in 1..Len(f) /\ k - Len(e) = 1 /\ g[k] = f[1]
      BY <1>1, <1>2, <2>2 DEF g
    <3>2. f[1] \in Nat /\ n < f[1] /\ f[1] <= m
      BY <1>3, <3>1 DEF Ascending
    <3>3. k > 1 => /\ k - 1 \in 1..Len(e) /\ g[k - 1] = e[k - 1]
                   /\ e[k - 1] \in Nat /\ e[k - 1] <= n
      BY <1>1, <1>2, <1>3, <2>2 DEF g, Ascending
    <3> QED
      BY <3>1, <3>2, <3>3
  <2>3. CASE k > Len(e) + 1
    <3> DEFINE i == k - Len(e)
    <3>1. /\ i \in 1..Len(f) /\ i > 1 /\ i - 1 \in 1..Len(f) /\ (k - 1) - Len(e) = i - 1
          /\ g[k] = f[i] /\ g[k - 1] = f[i - 1]
      BY <1>1, <1>2, <2>3 DEF g
    <3> HIDE DEF i
    <3>2. f[i] \in Nat /\ n < f[i] /\ f[i] <= m /\ f[i - 1] < f[i]
      BY <1>3, <3>1 DEF Ascending
    <3> QED
      BY <3>1, <3>2, SMTT(30)
  <2>4. k \in Nat
    BY <1>1, <1>2 DEF g
  <2>5. k <= Len(e) \/ k = Len(e) + 1 \/ k > Len(e) + 1
    BY <1>1, <2>4
  <2> QED
    BY <2>1, <2>2, <2>3, <2>5
<1>5. IF g = << >> THEN a = m ELSE g[Len(g)] = m
  <2>1. CASE f = << >>
    <3>1. n = m /\ g = e
      BY <2>1, ConcatEmptySeq DEF Ascending, g
    <3> QED
      BY <3>1 DEF Ascending
  <2>2. CASE f # << >>
    <3>1. Len(f) # 0
      BY <2>2, EmptySeq
    <3>2. /\ Len(e) + Len(f) \in 1..Len(e) + Len(f) /\ ~(Len(e) + Len(f) <= Len(e))
          /\ (Len(e) + Len(f)) - Len(e) = Len(f)
      BY <1>1, <3>1
    <3>3. g[Len(g)] = f[Len(f)] /\ Len(g) # 0
      BY <1>1, <1>2, <3>1, <3>2 DEF g
    <3>4. f[Len(f)] = m
      BY <2>2 DEF Ascending
    <3>5. g # << >>
      BY <3>3, EmptySeq
    <3> QED
      BY <3>3, <3>4, <3>5
  <2> QED
    BY <2>1, <2>2
<1> QED
  BY <1>2, <1>4, <1>5 DEF g, Ascending

\* Where the DATA parts end that write_compressed_chunk() has written so far.
LEMMA PartsUpto ==
  ASSUME TypeOK, Ascending(ends, 0, Len(data)), NEW b \in Seq(Byte),
         NEW k \in 0..DirectFlushes(Len(b))
  PROVE  Ascending(EndsUpto(b, k), 0, Len(DataUpto(b, k)))
<1> DEFINE n == Len(data \o Flushed(b))
           x == IF Flushed(b) = << >> THEN << >> ELSE <<n>>
           d == DirectEnds(n, k)
           p == k * UncompSize
<1>1. data \in Seq(Byte) /\ ends \in Seq(Nat) /\ uncomp_buf \in Seq(Byte)
  BY DEF TypeOK
<1>2. Flushed(b) \in Seq(Byte)
  BY <1>1 DEF Flushed
<1>3. /\ data \o Flushed(b) \in Seq(Byte) /\ n = Len(data) + Len(Flushed(b))
      /\ Len(data) \in Nat /\ Len(Flushed(b)) \in Nat
  BY <1>1, <1>2, ConcatSeq
<1>4. UncompSize \in Nat /\ Len(b) \in Nat /\ p \in 0..Len(b) /\ k \in Nat
  <2>1. UncompSize \in Nat
    BY ConstantsAssumption
  <2>2. Len(b) \in Nat
    OBVIOUS
  <2>3. p \in 0..Len(b)
    BY <2>2, EarlierDirect
  <2>4. DirectFlushes(Len(b)) \in Nat
    BY <2>2, DirectFits
  <2>5. k \in Nat
    BY <2>4
  <2> QED
    BY <2>1, <2>2, <2>3, <2>5
<1>5. Len(DataUpto(b, k)) = n + p
  <2>1. SubSeq(b, 1, p) \in Seq(Byte) /\ Len(SubSeq(b, 1, p)) = p
    BY <1>4, Split
  <2>2. Len((data \o Flushed(b)) \o SubSeq(b, 1, p)) = n + p
    BY <1>3, <2>1, ConcatSeq
  <2> QED
    BY <2>2 DEF DataUpto
<1>6. n \in Nat /\ Len(data) <= n
  BY <1>3
<1> HIDE DEF n
<1>7. x \in Seq(Nat) /\ Ascending(x, Len(data), n)
  <2>1. CASE Flushed(b) = << >>
    <3>1. Len(Flushed(b)) = 0
      BY <2>1
    <3>2. Len(data) = n
      BY <1>3, <3>1 DEF n
    <3> QED
      BY <2>1, <3>2 DEF Ascending
  <2>2. CASE Flushed(b) # << >>
    <3>1. x = <<n>> /\ Len(x) = 1 /\ x[1] = n /\ x # << >>
      BY <2>2
    <3>2. Len(Flushed(b)) # 0
      BY <1>2, <2>2, EmptySeq
    <3>3. Len(data) < n
      BY <1>3, <3>2 DEF n
    <3> QED
      BY <1>6, <3>1, <3>3 DEF Ascending
  <2> QED
    BY <2>1, <2>2
<1> HIDE DEF x
<1>8. ends \o x \in Seq(Nat) /\ Ascending(ends \o x, 0, n)
  BY <1>1, <1>3, <1>6, <1>7, AscendingOn
<1>9. \A j \in 1..k : /\ j * UncompSize \in Nat \ {0} /\ j * UncompSize <= p
                      /\ j > 1 => (j - 1) * UncompSize < j * UncompSize
  <2> TAKE j \in 1..k
  <2>1. j \in Nat \ {0} /\ j <= k /\ UncompSize \in Nat \ {0}
    BY <1>4, ConstantsAssumption
  <2>2. j * UncompSize \in Nat \ {0} /\ j * UncompSize <= k * UncompSize
    BY <1>4, <2>1
  <2>3. (j - 1) * UncompSize < j * UncompSize
    BY <1>4, <2>1
  <2> QED
    BY <2>2, <2>3
<1>10. d \in Seq(Nat) /\ Len(d) = k /\ \A j \in 1..k : d[j] = n + j * UncompSize
  <2>1. d = [j \in 1..k |-> n + j * UncompSize]
    BY DEF DirectEnds
  <2>2. \A j \in 1..k : n + j * UncompSize \in Nat
    BY <1>6, <1>9
  <2> HIDE DEF d
  <2>3. d \in [1..k -> Nat]
    BY <2>1, <2>2
  <2>4. d \in Seq(Nat) /\ Len(d) = k
    BY <1>4, <2>3
  <2> QED
    BY <2>1, <2>4
<1> HIDE DEF d, p
<1>11. Ascending(d, n, n + p)
  <2>1. ASSUME NEW j \in 1..k
        PROVE  n < d[j] /\ d[j] <= n + p /\ (j > 1 => d[j - 1] < d[j])
    <3>1. PICK u \in Nat \ {0} : u = j * UncompSize /\ u <= p
      BY <1>9
    <3>2. d[j] = n + u
      BY <1>10, <3>1
    <3>3. ASSUME j > 1 PROVE d[j - 1] < d[j]
      <4>1. j - 1 \in 1..k
        BY <1>4, <3>3
      <4>2. PICK v \in Nat : v = (j - 1) * UncompSize
        BY <1>9, <4>1
      <4>3. v < u
        BY <1>9, <3>1, <3>3, <4>2
      <4>4. d[j - 1] = n + v
        BY <1>10, <4>1, <4>2
      <4> QED
        BY <1>6, <3>2, <4>3, <4>4
    <3>4. p \in Nat
      BY <1>4
    <3> QED
      BY <1>6, <3>1, <3>2, <3>3, <3>4
  <2>2. CASE k = 0
    <3>1. p = 0 /\ d = << >>
      BY <1>4, <1>10, <2>2, EmptySeq DEF p
    <3> QED
      BY <1>6, <3>1 DEF Ascending
  <2>3. CASE k # 0
    <3>1. k \in 1..k /\ d # << >>
      BY <1>4, <1>10, <2>3, EmptySeq
    <3>2. d[k] = n + p
      BY <1>10, <3>1 DEF p
    <3> QED
      BY <1>10, <2>1, <3>1, <3>2 DEF Ascending
  <2> QED
    BY <2>2, <2>3
<1>12. n + p \in Nat /\ n <= n + p
  BY <1>4, <1>6 DEF p
<1>13. Ascending((ends \o x) \o d, 0, n + p)
  <2>1. 0 \in Nat /\ 0 <= n
    BY <1>6
  <2> QED
    BY <1>6, <1>8, <1>10, <1>11, <1>12, <2>1, AscendingOn
<1> QED
  BY <1>5, <1>13 DEF EndsUpto, n, x, d, p

\* However write_compressed_chunk() ends, the DATA parts are in their order.
LEMMA PartsStored ==
  ASSUME TypeOK, Ascending(ends, 0, Len(data)), NEW b \in Seq(Byte),
         NEW w \in write_compressed_chunk(b)
  PROVE  Ascending(w.ends, 0, Len(w.data))
<1> DEFINE direct == DirectFlushes(Len(b))
<1>1. Len(b) \in Nat
  OBVIOUS
<1>2. direct \in Nat
  BY <1>1, DirectFits
<1>3. CASE w = Stored(b)
  <2>1. w.data = DataUpto(b, direct) /\ w.ends = EndsUpto(b, direct)
    BY <1>3 DEF Stored, Chunked
  <2>2. direct \in 0..direct
    BY <1>2
  <2> QED
    BY <2>1, <2>2, PartsUpto
<1>4. CASE w \in FlushFails(b)
  <2>1. w.data = data /\ w.ends = ends
    BY <1>4 DEF FlushFails, Chunked
  <2> QED
    BY <2>1
<1>5. CASE w \in DirectFails(b)
  <2>1. PICK k \in 0..direct-1, u \in {torn, TRUE} :
          w = Chunked(FALSE, DataUpto(b, k), EndsUpto(b, k), u, << >>)
    BY <1>5 DEF DirectFails
  <2>2. w.data = DataUpto(b, k) /\ w.ends = EndsUpto(b, k) /\ k \in 0..direct
    BY <1>2, <2>1 DEF Chunked
  <2> QED
    BY <2>2, PartsUpto
<1>6. w \in {Stored(b)} \cup (IF "flush" \in setup.faults
                                THEN FlushFails(b) \cup DirectFails(b) ELSE {})
  BY DEF write_compressed_chunk
<1> QED
  BY <1>3, <1>4, <1>5, <1>6

\* A matched file is one of the list.
LEMMA NamedFile ==
  ASSUME NEW es \in Seq(Entry), Named(es), NEW n \in Nat, n > 0,
         NEW m \in 1..Len(ChecksumList)
  PROVE  Named(add_file_entry(es, n, m))
<1> DEFINE e == NewEntry(es, "FILE_MATCH", n, m)
           f == Append(es, e)
<1>1. Len(ChecksumList) \in Nat /\ Len(es) \in Nat
  BY ConstantsAssumption
<1>2. e \in Entry /\ e.file = m /\ e.len = n
  BY <1>1, NewEntryFields
<1> HIDE DEF e
<1>3. Len(f) = Len(es) + 1 /\ f[Len(es) + 1] = e /\ \A k \in 1..Len(es) : f[k] = es[k]
  BY <1>2, Appended
<1>4. m # 0
  BY <1>1
<1> HIDE DEF f
<1>5. ASSUME NEW k \in 1..Len(f), f[k].type = "FILE_MATCH"
      PROVE  f[k].file # 0 /\ f[k].len > 0
  <2>1. CASE k = Len(es) + 1
    BY <1>2, <1>3, <1>4, <2>1
  <2>2. CASE k # Len(es) + 1
    <3>1. k \in 1..Len(es)
      BY <1>1, <1>3, <2>2
    <3> QED
      BY <1>3, <1>5, <3>1 DEF Named
  <2> QED
    BY <2>1, <2>2
<1> QED
  BY <1>5 DEF Named, add_file_entry, e, f

\* An extent of unmatched data is none of a file.
LEMMA NamedData ==
  ASSUME NEW es \in Seq(Entry), Named(es), NEW n \in Nat
  PROVE  Named(add_unmatched_entry(es, n))
<1> DEFINE f == add_unmatched_entry(es, n)
<1>1. Len(ChecksumList) \in Nat /\ Len(es) \in Nat
  BY ConstantsAssumption
<1>2. CASE ~CanExtend(es)
  <2> DEFINE e == NewEntry(es, "NOMATCH", n, 0)
  <2>1. e \in Entry /\ e.type = "NOMATCH"
    BY <1>1, NewEntryFields
  <2>2. f = Append(es, e)
    BY <1>2 DEF add_unmatched_entry
  <2> HIDE DEF e, f
  <2>3. Len(f) = Len(es) + 1 /\ f[Len(es) + 1] = e /\ \A k \in 1..Len(es) : f[k] = es[k]
    BY <2>1, <2>2, Appended
  <2>4. ASSUME NEW k \in 1..Len(f), f[k].type = "FILE_MATCH"
        PROVE  f[k].file # 0 /\ f[k].len > 0
    <3>1. k # Len(es) + 1
      BY <2>1, <2>3, <2>4
    <3>2. k \in 1..Len(es)
      BY <1>1, <2>3, <3>1
    <3> QED
      BY <2>3, <2>4, <3>2 DEF Named
  <2> QED
    BY <2>4 DEF Named, f
<1>3. CASE CanExtend(es)
  <2>1. /\ Len(f) = Len(es) /\ \A k \in 1..Len(es) - 1 : f[k] = es[k]
        /\ f[Len(es)] = [es[Len(es)] EXCEPT !.len = @ + n] /\ es[Len(es)] \in Entry
        /\ es[Len(es)].type = "NOMATCH"
    BY <1>3, Extended, LastEntry DEF CanExtend
  <2> HIDE DEF f
  <2>2. f[Len(es)].type = "NOMATCH"
    BY <2>1 DEF Entry
  <2>3. ASSUME NEW k \in 1..Len(f), f[k].type = "FILE_MATCH"
        PROVE  f[k].file # 0 /\ f[k].len > 0
    <3>1. k # Len(es)
      BY <2>2, <2>3
    <3>2. k \in 1..Len(es) /\ k \in 1..Len(es) - 1
      BY <1>1, <2>1, <3>1
    <3> QED
      BY <2>1, <2>3, <3>2 DEF Named
  <2> QED
    BY <2>3 DEF Named, f
<1> QED
  BY <1>2, <1>3

\* A chunk that jtwrite() is given leaves the parts in their order.
LEMMA ChunkParts ==
  ASSUME TypeOK, PartsInv, NEW b \in Seq(Byte), NEW w \in write_compressed_chunk(b),
         jtwrite(b, w)
  PROVE  PartsInv'
<1>1. data' = w.data /\ ends' = w.ends
  BY DEF jtwrite, Store
<1>2. Ascending(w.ends, 0, Len(w.data))
  BY PartsStored DEF PartsInv
<1>3. entries' = entries \/ entries' = add_unmatched_entry(entries, Len(b))
  BY DEF jtwrite
<1>4. entries \in Seq(Entry) /\ Len(b) \in Nat /\ Named(entries)
  BY DEF TypeOK, PartsInv
<1>5. Named(add_unmatched_entry(entries, Len(b)))
  BY <1>4, NamedData
<1>6. Named(entries')
  BY <1>3, <1>4, <1>5
<1> QED
  BY <1>1, <1>2, <1>6 DEF PartsInv, Ascending, Named

\* So does a matched file, whatever is read of it.
LEMMA FileParts ==
  ASSUME TypeOK, PartsInv, NEW f \in File, NEW m \in list_file_in_jigdo(f),
         m # -1, m # 0, NEW r \in ReadFile(f), write_jt_match_record(f, m, r)
  PROVE  PartsInv'
<1> DEFINE c == Content[f]
           pad == Padding(Len(c))
           es == add_file_entry(entries, Len(c), m)
<1>1. c \in Seq(Byte) /\ Len(c) \in Nat
  BY ConstantsAssumption
<1>2. pad \in Seq(Byte)
  BY <1>1, PaddingBytes DEF TypeOK
<1>3. m \in 1..Len(ChecksumList)
  BY ListedRight
<1>4. entries \in Seq(Entry) /\ Named(entries)
  BY DEF TypeOK, PartsInv
<1>5. es \in Seq(Entry) /\ Named(es)
  <2>1. Len(c) > 0
    BY <1>1, ConstantsAssumption DEF list_file_in_jigdo
  <2> QED
    BY <1>1, <1>3, <1>4, <2>1, FileAdded, NamedFile
<1>6. \/ UNCHANGED <<data, ends, entries>>
      \/ entries' = es /\ UNCHANGED <<data, ends>>
      \/ /\ \E w \in write_compressed_chunk(pad) : Store(w)
         /\ entries' = add_unmatched_entry(es, Len(pad))
  BY DEF write_jt_match_record, templateVars, entryVars
<1> HIDE DEF c, es, pad
<1>7. CASE UNCHANGED <<data, ends, entries>>
  BY <1>7 DEF PartsInv, Ascending, Named
<1>8. CASE entries' = es /\ UNCHANGED <<data, ends>>
  BY <1>5, <1>8 DEF PartsInv, Ascending, Named
<1>9. CASE /\ \E w \in write_compressed_chunk(pad) : Store(w)
           /\ entries' = add_unmatched_entry(es, Len(pad))
  <2>1. PICK w \in write_compressed_chunk(pad) : Store(w)
    BY <1>9
  <2>2. data' = w.data /\ ends' = w.ends /\ Ascending(w.ends, 0, Len(w.data))
    BY <1>2, <2>1, PartsStored DEF Store, PartsInv
  <2>3. Len(pad) \in Nat
    BY <1>2
  <2>4. Named(add_unmatched_entry(es, Len(pad)))
    BY <1>5, <2>3, NamedData
  <2>5. Named(entries')
    BY <1>9, <2>4
  <2> QED
    BY <2>2, <2>5 DEF PartsInv, Ascending, Named
<1> QED
  BY <1>6, <1>7, <1>8, <1>9

\* Every call of the application leaves the parts in their order.
LEMMA StepParts ==
  ASSUME TypeOK, PartsInv, Step
  PROVE  PartsInv'
<1>1. ASSUME UNCHANGED <<data, ends, entries>> PROVE PartsInv'
  BY <1>1 DEF PartsInv, Ascending, Named
<1>2. CASE WriteHeader \/ EndDataFile \/ SetImageSize \/ WriteFooterFails
  <2>1. UNCHANGED <<data, ends, entries>>
    BY <1>2 DEF WriteHeader, EndDataFile, SetImageSize, WriteFooterFails, templateVars,
       entryVars
  <2> QED
    BY <1>1, <2>1
<1>3. ASSUME NEW b \in Seq(Byte), ShowDataChunk(b) PROVE PartsInv'
  <2>1. CASE include_in_jigdo
    BY <1>1, <1>3, <2>1 DEF ShowDataChunk, templateVars, entryVars
  <2>2. CASE ~include_in_jigdo
    <3>1. PICK w \in write_compressed_chunk(b) : jtwrite(b, w)
      BY <1>3, <2>2 DEF ShowDataChunk
    <3> QED
      BY <1>3, <3>1, ChunkParts
  <2> QED
    BY <2>1, <2>2
<1>4. CASE ShowPayload
  <2>1. PICK b \in Chunk : ShowDataChunk(b)
    BY <1>4 DEF ShowPayload
  <2>2. b \in Seq(Byte)
    BY ConstantsAssumption
  <2> QED
    BY <1>3, <2>1, <2>2
<1>5. CASE ShowFile
  <2>1. PICK n \in 1..Len(left) : ShowDataChunk(SubSeq(left, 1, n))
    BY <1>5 DEF ShowFile
  <2>2. left \in Seq(Byte)
    BY DEF TypeOK
  <2>3. n \in 0..Len(left)
    BY <2>2
  <2>4. SubSeq(left, 1, n) \in Seq(Byte)
    BY <2>2, <2>3, Split
  <2> QED
    BY <1>3, <2>1, <2>4
<1>6. CASE BeginDataFile
  <2>1. PICK f \in File : \E d \in list_file_in_jigdo(f) :
          \/ d \in {-1, 0} /\ UNCHANGED <<data, ends, entries>>
          \/ d \notin {-1, 0} /\ \E r \in ReadFile(f) : write_jt_match_record(f, d, r)
    BY <1>6 DEF BeginDataFile, templateVars, entryVars
  <2>2. PICK d \in list_file_in_jigdo(f) :
          \/ d \in {-1, 0} /\ UNCHANGED <<data, ends, entries>>
          \/ d \notin {-1, 0} /\ \E r \in ReadFile(f) : write_jt_match_record(f, d, r)
    BY <2>1
  <2> QED
    BY <1>1, <2>2, FileParts
<1>7. ASSUME NEW b \in Seq(Byte), Write(b) PROVE PartsInv'
  <2>1. PICK w \in write_compressed_chunk(b) : jtwrite(b, w)
    BY <1>7 DEF Write
  <2> QED
    BY <1>7, <2>1, ChunkParts
<1>8. CASE WriteUnmatched
  <2>1. PICK b \in Chunk : Write(b)
    BY <1>8 DEF WriteUnmatched
  <2>2. b \in Seq(Byte)
    BY ConstantsAssumption
  <2> QED
    BY <1>7, <2>1, <2>2
<1>9. CASE WriteFile
  <2>1. PICK f \in File : \E d \in list_file_in_jigdo(f) :
          \/ UNCHANGED <<data, ends, entries>>
          \/ Write(Padded(f))
          \/ d \notin {-1, 0} /\ \E r \in ReadFile(f) : write_jt_match_record(f, d, r)
    BY <1>9 DEF WriteFile, templateVars, entryVars
  <2>2. PICK d \in list_file_in_jigdo(f) :
          \/ UNCHANGED <<data, ends, entries>>
          \/ Write(Padded(f))
          \/ d \notin {-1, 0} /\ \E r \in ReadFile(f) : write_jt_match_record(f, d, r)
    BY <2>1
  <2>3. Padded(f) \in Seq(Byte)
    <3>1. Content[f] \in Seq(Byte) /\ Len(Content[f]) \in Nat
      BY ConstantsAssumption
    <3>2. Padding(Len(Content[f])) \in Seq(Byte)
      BY <3>1, PaddingBytes DEF TypeOK
    <3> QED
      BY <3>1, <3>2, ConcatSeq DEF Padded
  <2> QED
    BY <1>1, <1>7, <2>2, <2>3, FileParts
<1>10. CASE WriteFooter
  <2> DEFINE n == Len(data \o uncomp_buf)
             x == IF uncomp_buf = << >> THEN << >> ELSE <<n>>
  <2>1. /\ data' = data \o uncomp_buf /\ entries' = entries
        /\ ends' = IF uncomp_buf = << >> THEN ends ELSE Append(ends, n)
    BY <1>10 DEF WriteFooter, WriteDesc, entryVars
  <2>2. data \in Seq(Byte) /\ uncomp_buf \in Seq(Byte) /\ ends \in Seq(Nat)
    BY DEF TypeOK
  <2>3. n \in Nat /\ Len(data) \in Nat /\ Len(data) <= n
    <3>1. n = Len(data) + Len(uncomp_buf) /\ Len(data) \in Nat /\ Len(uncomp_buf) \in Nat
      BY <2>2, ConcatSeq
    <3> QED
      BY <3>1
  <2>4. ends' = ends \o x
    BY <2>1, <2>2, <2>3, AppendIsConcat, ConcatEmptySeq
  <2>5. Len(data') = n
    BY <2>1
  <2> HIDE DEF n
  <2>6. x \in Seq(Nat) /\ Ascending(x, Len(data), n)
    <3>1. CASE uncomp_buf = << >>
      <4>1. Len(uncomp_buf) = 0
        BY <3>1
      <4>2. Len(data) = n
        BY <2>2, <4>1, ConcatSeq DEF n
      <4> QED
        BY <3>1, <4>2 DEF Ascending
    <3>2. CASE uncomp_buf # << >>
      <4>1. x = <<n>> /\ Len(x) = 1 /\ x[1] = n /\ x # << >>
        BY <3>2
      <4>2. Len(uncomp_buf) # 0 /\ Len(uncomp_buf) \in Nat
        BY <2>2, <3>2, EmptySeq
      <4>3. n = Len(data) + Len(uncomp_buf)
        BY <2>2, ConcatSeq DEF n
      <4>4. Len(data) < n
        BY <2>3, <4>2, <4>3
      <4> QED
        BY <2>3, <4>1, <4>4 DEF Ascending
    <3> QED
      BY <3>1, <3>2
  <2> HIDE DEF x
  <2>7. Ascending(ends \o x, 0, n)
    BY <2>2, <2>3, <2>6, AscendingOn DEF PartsInv
  <2>8. Ascending(ends', 0, Len(data'))
    BY <2>4, <2>5, <2>7
  <2> QED
    BY <2>1, <2>8 DEF PartsInv, Ascending, Named
<1> QED
  BY <1>2, <1>4, <1>5, <1>6, <1>8, <1>9, <1>10 DEF Step

\* At first there are no parts.
LEMMA InitParts == Init => PartsInv
BY DEF Init, PartsInv, Ascending, Named
=============================================================================
