------------------------------- MODULE MCJte -------------------------------
(* Small instances of Jte for TLC. *)
EXTENDS Jte

\* "tiny" is below jte_min_size; "match" is listed, after an entry of the same
\* name and size but another checksum; "odd" is listed and does not fill its
\* last sector; "other" is not listed, "banned" is listed but excluded.
MCFile == {"tiny", "match", "odd", "other", "banned"}
MCContent == [tiny |-> <<1>>, match |-> <<2, 1>>, odd |-> <<1, 2, 2>>,
              other |-> <<2, 2>>, banned |-> <<2, 1, 1>>]
MCName == [tiny |-> "t", match |-> "m", odd |-> "o", other |-> "x",
           banned |-> "b"]
MCChecksumList == <<[name |-> "m", content |-> <<1, 1>>],
                    [name |-> "m", content |-> <<2, 1>>],
                    [name |-> "o", content |-> <<1, 2, 2>>],
                    [name |-> "b", content |-> <<2, 1, 1>>]>>
\* One byte, and more than three times UncompSize = 2.
MCChunk == {<<1>>, <<2, 1, 1, 2, 2, 1, 2>>}
MCSmallChunk == {<<1>>, <<2>>}

\* Padded files under the simplified API, where nothing looks at a failed flush
\* or read, and unpadded ones with failing flushes and reads.
Setup(api, algo, sector, faults, failing) ==
  [api |-> api, algo |-> algo, sector |-> sector, faults |-> faults,
   failing |-> failing]
MCSetups == {Setup("simple", "md5", 2, {"open", "desc"}, {}),
             Setup("traditional", "sha256", 1, {"open", "flush", "desc"}, {"odd"})}
MCFlushFails == {Setup("simple", "md5", 1, {"flush"}, {})}
============================================================================
