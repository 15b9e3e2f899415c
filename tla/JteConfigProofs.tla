-------------------------- MODULE JteConfigProofs --------------------------
(***************************************************************************)
(* Proofs about JteConfig for every set of setter arguments, mappings,     *)
(* checksum lists and names, and any number of calls and matched files.    *)
(***************************************************************************)
EXTENDS JteConfig, TLAPS, SequenceTheorems, DataLemmas

Reading == {"list", "payload", "done"}

\* The setters only ever add to the types that libjte itself relies on.
SetterInv ==
  /\ phase \in Reading \cup {"setup", "failed"}
  /\ calls \in 0..MaxCalls /\ bzip2 \in BOOLEAN
  /\ checksum_algo \in {0, 1}
  /\ checksum_algo_iso = Types
  /\ CHECK_MD5 \in checksum_algo_tmpl /\ checksum_algo_tmpl \subseteq Types
  /\ map_list \in Seq(Mappings) /\ map_list = asked

\* The contexts are made from the setters' choice, once.
ContextInv ==
  /\ iso_context \subseteq Types /\ template_context \subseteq Types
  /\ phase \in Reading => iso_context = Types /\ CHECK_MD5 \in template_context

\* The list read so far is the file as far as it has been read.
ListInv ==
  /\ file = [lines |-> file.lines, at |-> file.at]
  /\ file.lines \in Lists /\ file.at \in 1..Len(file.lines) + 1
  /\ checksum_list = [n \in 1..file.at - 1 |-> EntryOf(file.lines[n])]
  /\ phase = "setup" => file.at = 1
  /\ file.at > 1 => FirstLineValid(file.lines[1])
  /\ phase \in {"payload", "done"} => file.at = Len(file.lines) + 1

\* The .jigdo names the matched files, each through the mappings.
JigdoInv ==
  /\ parts \in Seq(Name) /\ Len(parts) <= MaxEntries
  /\ phase # "done" => jigdo = NoJigdo
  /\ phase = "done" =>
       /\ jigdo.type = type
       /\ jigdo.parts = [k \in 1..Len(parts) |-> remap_filename(parts[k])]

IInv == SetterInv /\ ContextInv /\ ListInv /\ JigdoInv
-----------------------------------------------------------------------------
(* Lemmas about names and lines. *)

\* From and what remap_filename() keeps behind the label are the whole name.
LEMMA FromAndRest ==
  ASSUME NEW from \in Seq(STRING), NEW name \in Seq(STRING),
         IsPrefixOf(from, name)
  PROVE  from \o Rest(name, from) = name
<1> DEFINE r == Rest(name, from)
<1>1. Len(from) \in Nat /\ Len(name) \in Nat /\ Len(from) <= Len(name)
  BY DEF IsPrefixOf
<1>2. \A i \in Len(from) + 1 .. Len(name) : name[i] \in STRING
  BY <1>1, ElementOfSeq
<1>3. /\ r \in Seq(STRING)
      /\ Len(r) = Len(name) - Len(from)
      /\ \A i \in 1 .. Len(name) - Len(from) : r[i] = name[Len(from) + i]
  <2>1. Len(from) + 1 \in Int /\ Len(name) \in Int BY <1>1
  <2>2. /\ r \in Seq(STRING)
        /\ Len(r) = IF Len(from) + 1 <= Len(name)
                      THEN Len(name) - (Len(from) + 1) + 1 ELSE 0
        /\ \A i \in 1 .. Len(name) - (Len(from) + 1) + 1 :
             r[i] = name[Len(from) + 1 + i - 1]
    BY <2>1, <1>2, SubSeqProperties DEF Rest
  <2> HIDE DEF r
  <2> QED BY <2>2, <1>1
<1>4. \A i \in 1 .. Len(from) : from[i] = name[i]
  <2>1. 1 \in Int /\ Len(from) \in Int BY <1>1
  <2>2. \A i \in 1 .. Len(from) : name[i] \in STRING BY <1>1, ElementOfSeq
  <2>3. \A i \in 1 .. Len(from) - 1 + 1 : SubSeq(name, 1, Len(from))[i] = name[1 + i - 1]
    BY <2>1, <2>2, SubSeqProperties
  <2> QED BY <2>3, <1>1 DEF IsPrefixOf
<1> HIDE DEF r
<1>5. /\ from \o r \in Seq(STRING)
      /\ Len(from \o r) = Len(from) + Len(r)
      /\ \A i \in 1 .. Len(from) + Len(r) :
           (from \o r)[i] = IF i <= Len(from) THEN from[i] ELSE r[i - Len(from)]
  BY <1>3, ConcatProperties
<1>6. Len(from \o r) = Len(name) BY <1>1, <1>3, <1>5
<1>7. ASSUME NEW i \in 1 .. Len(from \o r) PROVE (from \o r)[i] = name[i]
  <2>1. CASE i <= Len(from) BY <2>1, <1>1, <1>3, <1>4, <1>5
  <2>2. CASE i > Len(from)
    <3>1. i - Len(from) \in 1 .. Len(name) - Len(from) BY <2>2, <1>1, <1>6
    <3>2. Len(from) + (i - Len(from)) = i BY <1>1, <1>6
    <3> QED BY <3>1, <3>2, <2>2, <1>1, <1>3, <1>5, <1>6
  <2> QED BY <2>1, <2>2, <1>1, <1>6
<1>8. from \o r = name BY <1>5, <1>6, <1>7, SeqEqual
<1> QED BY <1>8 DEF r

\* remap_filename() uses the first mapping that fits.
LEMMA RemapFirst ==
  ASSUME NEW name, Applicable(name) # {}, map_list \in Seq(Mappings)
  PROVE  \E n \in Applicable(name) :
           /\ \A m \in Applicable(name) : n <= m
           /\ remap_filename(name) =
                [to |-> map_list[n].to, rest |-> Rest(name, map_list[n].from)]
<1>1. Applicable(name) \in SUBSET Nat BY DEF Applicable
<1>2. \E n \in Applicable(name) : \A m \in Applicable(name) : n <= m
  BY <1>1, LeastMember
<1> DEFINE first == CHOOSE n \in Applicable(name) : \A m \in Applicable(name) : n <= m
<1>3. first \in Applicable(name) /\ \A m \in Applicable(name) : first <= m
  BY <1>2
<1>4. remap_filename(name) =
        [to |-> map_list[first].to, rest |-> Rest(name, map_list[first].from)]
  BY DEF remap_filename
<1> QED BY <1>3, <1>4

\* A line that checksum_parse_hex() accepts and that is valid as a first line is
\* not taken for something else.
LEMMA ValidNotShifted ==
  ASSUME NEW line, line.hex \in Nat, FirstLineValid(line), checksum_algo \in {0, 1}
  PROVE  ~Shifted(line)
<1>1. hex_bytes[type] \in Nat
  BY DEF hex_bytes, type, check_algos, CHECK_MD5, CHECK_SHA256
<1> QED BY <1>1 DEF FirstLineValid, Shifted
-----------------------------------------------------------------------------
(* The invariant. *)

\* A new handle satisfies the invariant.
LEMMA InitInv == Init => IInv
<1> SUFFICES ASSUME Init PROVE IInv OBVIOUS
<1> USE ConstantsAssumption
<1>1. SetterInv
  <2>1. CHECK_MD5 \in checksum_algo_tmpl /\ checksum_algo_tmpl \subseteq Types
    BY DEF Init, Types, CHECK_MD5, CHECK_SHA256, CHECK_SHA512
  <2>2. << >> \in Seq(Mappings) BY EmptySeq
  <2>3. /\ phase = "setup" /\ calls = 0 /\ bzip2 = FALSE /\ checksum_algo = 0
        /\ checksum_algo_iso = Types /\ map_list = << >> /\ asked = << >>
    BY DEF Init
  <2>4. 0 \in 0..MaxCalls OBVIOUS
  <2> QED BY <2>1, <2>2, <2>3, <2>4 DEF SetterInv
<1>2. ContextInv BY DEF Init, ContextInv, Reading
<1>3. ListInv
  <2>1. PICK l \in Lists : file = [lines |-> l, at |-> 1] BY DEF Init
  <2>2. Len(l) \in Nat BY DEF Line
  <2> QED BY <2>1, <2>2 DEF Init, ListInv
<1>4. JigdoInv BY DEF Init, JigdoInv
<1> QED BY <1>1, <1>2, <1>3, <1>4 DEF IInv

\* parse_checksum_algo() yields types that are known, MD5 and algo among them.
LEMMA ParsedTypes ==
  ASSUME NEW code \in Codes, Decodable(code), NEW algo \in SUBSET Types
  PROVE  /\ parse_checksum_algo(code, algo) \subseteq Types
         /\ algo \cup {CHECK_MD5} \subseteq parse_checksum_algo(code, algo)
<1>1. CHECK_MD5 \in Types BY DEF Types, CHECK_MD5, CHECK_SHA512
<1>2. code.all \in BOOLEAN /\ code.types \subseteq Types \cup {Unknown}
  BY ConstantsAssumption
<1>3. code.all \/ code.types \subseteq Types BY <1>2 DEF Decodable
<1> QED BY <1>1, <1>2, <1>3 DEF parse_checksum_algo

\* A setter, failing or not, touches nothing that has been read or computed.
LEMMA SetterStep ==
  ASSUME IInv, phase = "setup", phase' = phase, file' = file,
         checksum_list' = checksum_list, contextVars' = contextVars,
         parts' = parts, jigdo' = jigdo, SetterInv'
  PROVE  IInv'
<1>1. ContextInv' BY DEF IInv, ContextInv, contextVars, Reading
<1>2. ListInv' BY DEF IInv, ListInv
<1>3. JigdoInv' BY DEF IInv, JigdoInv
<1> QED BY <1>1, <1>2, <1>3 DEF IInv

\* Once the header is being written the settings stay as they are, and with
\* them everything that is derived from them.
LEMMA SettingsKept ==
  ASSUME SetterInv, UNCHANGED configVars, phase' \in Reading \cup {"failed"}
  PROVE  SetterInv' /\ type' = type
<1>1. /\ calls' = calls /\ bzip2' = bzip2 /\ checksum_algo' = checksum_algo
      /\ checksum_algo_iso' = checksum_algo_iso
      /\ checksum_algo_tmpl' = checksum_algo_tmpl
      /\ map_list' = map_list /\ asked' = asked
  BY DEF configVars, algoVars
<1> QED BY <1>1 DEF SetterInv, type

\* Once the setters are done the list stays right as long as nobody adds to it.
LEMMA ListKept ==
  ASSUME ListInv, type' = type, file' = file, checksum_list' = checksum_list,
         phase # "setup", phase' # "setup",
         phase' \in {"payload", "done"} => phase \in {"payload", "done"}
  PROVE  ListInv'
BY DEF ListInv, EntryOf, Shifted, FirstLineValid

\* Every step preserves the invariant.
LEMMA NextInv == IInv /\ [Next]_vars => IInv'
<1> SUFFICES ASSUME IInv, [Next]_vars PROVE IInv' OBVIOUS
<1> USE ConstantsAssumption
<1>0. SetterInv /\ ContextInv /\ ListInv /\ JigdoInv BY DEF IInv
<1>1. ASSUME NEW i \in {0, 1}, set_checksum_algorithm(i) PROVE IInv'
  <2>1. SetterInv' BY <1>0, <1>1 DEF set_checksum_algorithm, Setter, SetterInv
  <2> QED BY <2>1, <1>1, SetterStep DEF set_checksum_algorithm, Setter
<1>2. ASSUME NEW c \in Codes, set_checksum_iso(c) PROVE IInv'
  <2>1. /\ parse_checksum_algo(c, Types) \subseteq Types
        /\ Types \subseteq parse_checksum_algo(c, Types)
    <3>1. Types \in SUBSET Types OBVIOUS
    <3>2. Decodable(c) BY <1>2 DEF set_checksum_iso
    <3> QED BY <3>1, <3>2, ParsedTypes
  <2>2. Override \subseteq Types
    BY DEF Override, Types, CHECK_MD5, CHECK_SHA256, CHECK_SHA512
  <2>3. checksum_algo_iso' = Types
    BY <1>2, <2>1, <2>2 DEF set_checksum_iso, isoDefault
  <2>4. SetterInv' BY <1>0, <1>2, <2>3 DEF set_checksum_iso, Setter, SetterInv
  <2> QED BY <2>4, <1>2, SetterStep DEF set_checksum_iso, Setter
<1>3. ASSUME NEW c \in Codes, set_checksum_template(c) PROVE IInv'
  <2>1. /\ parse_checksum_algo(c, {CHECK_MD5}) \subseteq Types
        /\ CHECK_MD5 \in parse_checksum_algo(c, {CHECK_MD5})
    <3>1. {CHECK_MD5} \in SUBSET Types BY DEF Types, CHECK_MD5, CHECK_SHA512
    <3>2. Decodable(c) BY <1>3 DEF set_checksum_template
    <3> QED BY <3>1, <3>2, ParsedTypes
  <2>2. Override \subseteq Types
    BY DEF Override, Types, CHECK_MD5, CHECK_SHA256, CHECK_SHA512
  <2>3. CHECK_MD5 \in checksum_algo_tmpl' /\ checksum_algo_tmpl' \subseteq Types
    BY <1>3, <2>1, <2>2 DEF set_checksum_template
  <2>4. /\ phase' = phase /\ calls' \in 0..MaxCalls /\ bzip2' = bzip2
        /\ checksum_algo' = checksum_algo /\ checksum_algo_iso' = checksum_algo_iso
        /\ map_list' = map_list /\ asked' = asked
    BY <1>0, <1>3 DEF set_checksum_template, Setter, SetterInv
  <2>5. SetterInv' BY <1>0, <2>3, <2>4 DEF SetterInv
  <2> QED BY <2>5, <1>3, SetterStep DEF set_checksum_template, Setter
<1>4. ASSUME NEW b \in BOOLEAN, set_compression(b) PROVE IInv'
  <2>1. SetterInv'
    BY <1>0, <1>4 DEF set_compression, Setter, SetterInv, algoVars
  <2> QED BY <2>1, <1>4, SetterStep DEF set_compression, Setter
<1>5. ASSUME NEW m \in Mappings, add_mapping(m) PROVE IInv'
  <2>1. map_list' = Append(map_list, m) /\ map_list' = asked'
    BY <1>0, <1>5 DEF add_mapping, Insert, SetterInv
  <2>2. map_list' \in Seq(Mappings)
    <3>1. map_list \in Seq(Mappings) BY <1>0 DEF SetterInv
    <3>2. Append(map_list, m) \in Seq(Mappings) BY <3>1, AppendProperties
    <3> QED BY <2>1, <3>2
  <2>3. SetterInv'
    BY <1>0, <1>5, <2>1, <2>2 DEF add_mapping, Setter, SetterInv, algoVars
  <2> QED BY <2>3, <1>5, SetterStep DEF add_mapping, Setter
<1>6. ASSUME SetterFails PROVE IInv'
  <2>1. SetterInv' BY <1>0, <1>6 DEF SetterFails, SetterInv, algoVars
  <2> QED BY <2>1, <1>6, SetterStep DEF SetterFails
<1>7. ASSUME WriteHeader PROVE IInv'
  <2>1. SetterInv' /\ type' = type
    BY <1>0, <1>7, SettingsKept DEF WriteHeader, Reading
  <2>2. ContextInv' BY <1>0, <1>7 DEF WriteHeader, ContextInv, SetterInv, Reading
  <2>3. ListInv'
    BY <1>0, <1>7, <2>1 DEF WriteHeader, ListInv, EntryOf, Shifted, FirstLineValid
  <2>4. JigdoInv' BY <1>0, <1>7 DEF WriteHeader, JigdoInv
  <2> QED BY <2>1, <2>2, <2>3, <2>4 DEF IInv
<1>8. ASSUME WriteHeaderFails PROVE IInv'
  <2>1. SetterInv' /\ type' = type
    BY <1>0, <1>8, SettingsKept DEF WriteHeaderFails
  <2>2. ContextInv'
    BY <1>0, <1>8 DEF WriteHeaderFails, ContextInv, contextVars, Reading
  <2>3. ListInv'
    BY <1>0, <1>8, <2>1 DEF WriteHeaderFails, ListInv, EntryOf, Shifted, FirstLineValid
  <2>4. JigdoInv' BY <1>0, <1>8 DEF WriteHeaderFails, JigdoInv
  <2> QED BY <2>1, <2>2, <2>3, <2>4 DEF IInv
<1>9. ASSUME ReadLine PROVE IInv'
  <2> DEFINE line == file.lines[file.at]
  <2>1. /\ phase = "list" /\ file.at <= Len(file.lines)
        /\ UNCHANGED configVars /\ UNCHANGED contextVars
        /\ parts' = parts /\ jigdo' = jigdo
    BY <1>9 DEF ReadLine
  <2>2. phase' \in {"list", "failed"} BY <1>9, <2>1 DEF ReadLine
  <2>3. SetterInv' /\ type' = type
    BY <1>0, <2>1, <2>2, SettingsKept DEF Reading
  <2>4. ContextInv' BY <1>0, <2>1, <2>2 DEF ContextInv, contextVars, Reading
  <2>5. JigdoInv' BY <1>0, <2>1, <2>2 DEF JigdoInv
  <2>6. ListInv'
    <3>1. CASE ~Accepted(line)
      <4>1. phase' = "failed" /\ file' = file /\ checksum_list' = checksum_list
        BY <1>9, <3>1 DEF ReadLine
      <4> QED BY <1>0, <2>1, <2>3, <4>1, ListKept
    <3>2. CASE Accepted(line)
      <4>1. /\ checksum_list' = Append(checksum_list, EntryOf(line))
            /\ file' = [file EXCEPT !.at = @ + 1] /\ phase' = "list"
        BY <1>9, <2>1, <3>2 DEF ReadLine
      <4>2. file.lines \in Seq(Line) /\ Len(file.lines) \in Nat
        BY <1>0, LenProperties DEF ListInv
      <4>3. file.at \in 1..Len(file.lines) BY <1>0, <2>1, <4>2 DEF ListInv
      <4>4. /\ file' = [lines |-> file'.lines, at |-> file'.at]
            /\ file'.lines = file.lines /\ file'.at = file.at + 1
        BY <1>0, <4>1 DEF ListInv
      <4> DEFINE S == {EntryOf(file.lines[n]) : n \in 1..Len(file.lines)}
      <4>5. checksum_list \in Seq(S)
        BY <1>0, <4>2, <4>3 DEF ListInv
      <4>6. Len(checksum_list) = file.at - 1 BY <1>0, <4>3 DEF ListInv
      <4>7. EntryOf(line) \in S BY <4>3
      <4> HIDE DEF S
      <4>8. /\ Len(checksum_list') = file.at
            /\ checksum_list' \in Seq(S)
            /\ \A n \in 1..file.at - 1 : checksum_list'[n] = checksum_list[n]
            /\ checksum_list'[file.at] = EntryOf(line)
        BY <4>1, <4>3, <4>5, <4>6, <4>7, AppendProperties
      <4>9. checksum_list' = [n \in 1..file.at |-> checksum_list'[n]]
        BY <4>8
      <4>10. \A n \in 1..file.at : checksum_list'[n] = EntryOf(file.lines[n])
        <5> SUFFICES ASSUME NEW n \in 1..file.at
                     PROVE  checksum_list'[n] = EntryOf(file.lines[n])
          OBVIOUS
        <5>1. CASE n = file.at BY <4>8, <5>1
        <5>2. CASE n # file.at
          <6>1. n \in 1..file.at - 1 BY <4>3, <5>2
          <6>2. checksum_list[n] = EntryOf(file.lines[n]) BY <1>0, <6>1 DEF ListInv
          <6> QED BY <4>8, <6>1, <6>2
        <5> QED BY <5>1, <5>2
      <4>11. checksum_list' = [n \in 1..file'.at - 1 |-> EntryOf(file.lines[n])']
        <5>1. \A n \in 1..file.at : EntryOf(file.lines[n])' = EntryOf(file.lines[n])
          BY <2>3, <4>4 DEF EntryOf, Shifted
        <5>2. file'.at - 1 = file.at BY <4>3, <4>4
        <5> QED BY <4>9, <4>10, <5>1, <5>2
      <4>12. FirstLineValid(file.lines[1])
        <5>1. CASE file.at = 1 BY <3>2, <5>1 DEF Accepted
        <5>2. CASE file.at > 1 BY <1>0, <5>2 DEF ListInv
        <5> QED BY <5>1, <5>2, <4>3
      <4>13. FirstLineValid(file.lines[1])'
        BY <4>12, <4>4, <2>3 DEF FirstLineValid
      <4>14. file'.lines \in Lists /\ file'.at \in 1..Len(file'.lines) + 1
        BY <1>0, <4>2, <4>3, <4>4 DEF ListInv
      <4> HIDE DEF line
      <4> QED BY <4>1, <4>4, <4>11, <4>13, <4>14 DEF ListInv
    <3> QED BY <3>1, <3>2
  <2> QED BY <2>3, <2>4, <2>5, <2>6 DEF IInv
<1>10. ASSUME ListRead PROVE IInv'
  <2>1. /\ phase = "list" /\ file.at > Len(file.lines)
        /\ phase' \in {"failed", "payload"}
        /\ UNCHANGED configVars /\ UNCHANGED contextVars
        /\ file' = file /\ checksum_list' = checksum_list
        /\ parts' = parts /\ jigdo' = jigdo
    BY <1>10 DEF ListRead
  <2>2. SetterInv' /\ type' = type BY <1>0, <2>1, SettingsKept DEF Reading
  <2>3. ContextInv' BY <1>0, <2>1 DEF ContextInv, contextVars, Reading
  <2>4. file.lines \in Seq(Line) /\ Len(file.lines) \in Nat
    BY <1>0, LenProperties DEF ListInv
  <2>5. file.at = Len(file.lines) + 1 BY <1>0, <2>1, <2>4 DEF ListInv
  <2>6. ListInv' BY <1>0, <2>1, <2>2, <2>5 DEF ListInv, EntryOf, Shifted, FirstLineValid
  <2>7. JigdoInv' BY <1>0, <2>1 DEF JigdoInv
  <2> QED BY <2>2, <2>3, <2>6, <2>7 DEF IInv
<1>11. ASSUME NEW name \in Name, Match(name) PROVE IInv'
  <2>1. /\ phase = "payload" /\ phase' = phase
        /\ UNCHANGED configVars /\ UNCHANGED contextVars
        /\ file' = file /\ checksum_list' = checksum_list /\ jigdo' = jigdo
        /\ Len(parts) < MaxEntries /\ parts' = Append(parts, name)
    BY <1>11 DEF Match
  <2>2. SetterInv' /\ type' = type BY <1>0, <2>1, SettingsKept DEF Reading
  <2>3. ContextInv' BY <1>0, <2>1 DEF ContextInv, contextVars, Reading
  <2>4. ListInv' BY <1>0, <2>1, <2>2, ListKept
  <2>5. JigdoInv'
    <3>1. parts \in Seq(Name) BY <1>0 DEF JigdoInv
    <3>2. parts' \in Seq(Name) /\ Len(parts') = Len(parts) + 1
      BY <2>1, <3>1, AppendProperties
    <3>3. Len(parts) \in Nat BY <3>1
    <3> QED BY <1>0, <2>1, <3>2, <3>3 DEF JigdoInv
  <2> QED BY <2>2, <2>3, <2>4, <2>5 DEF IInv
<1>12. ASSUME WriteFooter PROVE IInv'
  <2>1. /\ phase = "payload" /\ phase' = "done"
        /\ UNCHANGED configVars /\ UNCHANGED contextVars
        /\ file' = file /\ checksum_list' = checksum_list /\ parts' = parts
        /\ map_list' = map_list
        /\ jigdo'.type = type
        /\ jigdo'.parts = [k \in 1..Len(parts) |-> remap_filename(parts[k])]
    BY <1>12 DEF WriteFooter, configVars
  <2>2. SetterInv' /\ type' = type BY <1>0, <2>1, SettingsKept DEF Reading
  <2>3. ContextInv' BY <1>0, <2>1 DEF ContextInv, contextVars, Reading
  <2>4. ListInv' BY <1>0, <2>1, <2>2, ListKept
  <2>5. \A n : remap_filename(n)' = remap_filename(n)
    BY <2>1 DEF remap_filename, Applicable
  <2>6. JigdoInv' BY <1>0, <2>1, <2>2, <2>5 DEF JigdoInv
  <2> QED BY <2>2, <2>3, <2>4, <2>6 DEF IInv
<1>13. ASSUME WriteFooterFails PROVE IInv'
  <2>1. /\ phase = "payload" /\ phase' = "failed"
        /\ UNCHANGED configVars /\ UNCHANGED contextVars
        /\ file' = file /\ checksum_list' = checksum_list
        /\ parts' = parts /\ jigdo' = jigdo
    BY <1>13 DEF WriteFooterFails
  <2>2. SetterInv' /\ type' = type BY <1>0, <2>1, SettingsKept
  <2>3. ContextInv' BY <1>0, <2>1 DEF ContextInv, contextVars, Reading
  <2>4. ListInv' BY <1>0, <2>1, <2>2, ListKept
  <2>5. JigdoInv' BY <1>0, <2>1 DEF JigdoInv
  <2> QED BY <2>2, <2>3, <2>4, <2>5 DEF IInv
<1>14. ASSUME UNCHANGED vars PROVE IInv'
  <2>1. /\ phase' = phase /\ calls' = calls /\ bzip2' = bzip2
        /\ checksum_algo' = checksum_algo /\ checksum_algo_iso' = checksum_algo_iso
        /\ checksum_algo_tmpl' = checksum_algo_tmpl /\ map_list' = map_list
        /\ asked' = asked /\ file' = file /\ checksum_list' = checksum_list
        /\ iso_context' = iso_context /\ template_context' = template_context
        /\ parts' = parts /\ jigdo' = jigdo
    BY <1>14 DEF vars, algoVars, contextVars
  <2>2. SetterInv' BY <1>0, <2>1 DEF SetterInv
  <2>3. ContextInv' BY <1>0, <2>1 DEF ContextInv
  <2>4. ListInv' BY <1>0, <2>1 DEF ListInv, EntryOf, Shifted, FirstLineValid, type
  <2>5. \A n : remap_filename(n)' = remap_filename(n)
    BY <2>1 DEF remap_filename, Applicable
  <2>6. JigdoInv' BY <1>0, <2>1, <2>5 DEF JigdoInv, type
  <2> QED BY <2>2, <2>3, <2>4, <2>6 DEF IInv
<1> QED
  BY <1>1, <1>2, <1>3, <1>4, <1>5, <1>6, <1>7, <1>8, <1>9, <1>10, <1>11, <1>12,
     <1>13, <1>14 DEF Next

\* The invariant holds after any setters in any order, for every checksum list.
THEOREM Inv == Spec => []IInv
<1> QED BY InitInv, NextInv, PTL DEF Spec
-----------------------------------------------------------------------------
(* What the invariant shows. *)

\* Whatever is called in whatever order, the state has its type: checksum types
\* are known ones with MD5 among them, and as many entries of the list are kept
\* as lines were read (libjte.c:215-330, jte.c:545-660).
THEOREM TypeCorrect == Spec => []TypeOK
<1>1. IInv => TypeOK
  <2> SUFFICES ASSUME IInv PROVE TypeOK OBVIOUS
  <2>0. SetterInv /\ ContextInv /\ ListInv /\ JigdoInv BY DEF IInv
  <2>1. /\ phase \in {"setup", "list", "payload", "done", "failed"}
        /\ calls \in 0..MaxCalls /\ bzip2 \in BOOLEAN
        /\ checksum_algo \in DOMAIN check_algos
        /\ map_list \in Seq(Mappings) /\ Len(map_list) = Len(asked)
    BY <2>0 DEF SetterInv, Reading, check_algos
  <2>2. CHECK_MD5 \in Types BY DEF Types, CHECK_MD5, CHECK_SHA512
  <2>3. /\ {CHECK_MD5} \subseteq checksum_algo_iso /\ checksum_algo_iso \subseteq Types
        /\ {CHECK_MD5} \subseteq checksum_algo_tmpl /\ checksum_algo_tmpl \subseteq Types
    BY <2>0, <2>2 DEF SetterInv
  <2>4. file.lines \in Lists /\ file.at \in 1..Len(file.lines) + 1
    BY <2>0 DEF ListInv
  <2>5. Len(file.lines) \in Nat
    BY <2>4, ConstantsAssumption, LenProperties
  <2>6. Len(checksum_list) = file.at - 1 BY <2>0, <2>4, <2>5 DEF ListInv
  <2>7. iso_context \subseteq Types /\ template_context \subseteq Types
    BY <2>0 DEF ContextInv
  <2>8. parts \in Seq(Name) /\ Len(parts) <= MaxEntries BY <2>0 DEF JigdoInv
  <2>9. Len(jigdo.parts) = (IF phase = "done" THEN Len(parts) ELSE 0)
    <3>1. Len(parts) \in Nat BY <2>8
    <3> QED BY <2>0, <3>1 DEF JigdoInv, NoJigdo
  <2> QED BY <2>1, <2>3, <2>4, <2>6, <2>7, <2>8, <2>9 DEF TypeOK
<1> QED BY <1>1, Inv, PTL

\* The .jigdo names a checksum of the image that is computed, and MD5 is
\* computed for the image and the template, whatever was chosen
\* (libjte.c:215-330): the setters only ever add types.
THEOREM ImageIsSummed == Spec => []ImageSummed
<1>1. IInv => ImageSummed
  <2> SUFFICES ASSUME IInv, phase = "done"
               PROVE  /\ jigdo.type \in iso_context /\ jigdo.type = type
                      /\ CHECK_MD5 \in iso_context \cap template_context
    BY DEF ImageSummed
  <2>1. iso_context = Types /\ CHECK_MD5 \in template_context
    BY DEF IInv, ContextInv, Reading
  <2>2. jigdo.type = type BY DEF IInv, JigdoInv
  <2>3. checksum_algo \in {0, 1} BY DEF IInv, SetterInv
  <2>4. type \in Types /\ CHECK_MD5 \in Types
    BY <2>3 DEF type, check_algos, Types, CHECK_MD5, CHECK_SHA256, CHECK_SHA512
  <2> QED BY <2>1, <2>2, <2>4
<1> QED BY <1>1, Inv, PTL

\* A header that succeeds has read the whole checksum list in its order, and
\* the first line is of the type of the .jigdo (jte.c:545-660).
THEOREM ListIsRight == Spec => []ListRight
<1>1. IInv => ListRight
  <2> SUFFICES ASSUME IInv, phase \in {"payload", "done"} PROVE ListRight
    BY DEF ListRight
  <2>1. /\ file.lines \in Lists
        /\ file.at = Len(file.lines) + 1
        /\ checksum_list = [n \in 1..file.at - 1 |-> EntryOf(file.lines[n])]
        /\ file.at > 1 => FirstLineValid(file.lines[1])
    BY DEF IInv, ListInv
  <2>2. file.lines \in Seq(Line) /\ Len(file.lines) \in Nat
    BY <2>1, ConstantsAssumption, LenProperties
  <2>3. checksum_list = [n \in 1..Len(file.lines) |-> EntryOf(file.lines[n])]
    BY <2>1, <2>2
  <2>4. Len(checksum_list) = Len(file.lines) BY <2>2, <2>3
  <2>5. checksum_algo \in {0, 1} BY DEF IInv, SetterInv
  <2>6. ASSUME NEW n \in 1..Len(file.lines)
        PROVE  /\ checksum_list[n].name = file.lines[n].name
               /\ checksum_list[n].size = file.lines[n].size
               /\ checksum_list[n].shifted =>
                    n > 1 /\ (file.lines[n].hex > hex_bytes[type] \/ ~file.lines[n].spaces)
    <3>1. checksum_list[n] = EntryOf(file.lines[n]) BY <2>3
    <3>2. ASSUME Shifted(file.lines[n])
          PROVE  n > 1
      <4>1. CASE n = 1
        <5>1. FirstLineValid(file.lines[n]) BY <2>1, <2>2, <4>1
        <5>2. file.lines[n] \in Line BY <2>2, ElementOfSeq
        <5>3. file.lines[n].hex \in Nat BY <5>2 DEF Line
        <5> QED BY <5>1, <5>3, <3>2, <2>5, ValidNotShifted
      <4> QED BY <4>1, <2>2
    <3>3. /\ checksum_list[n].name = file.lines[n].name
          /\ checksum_list[n].size = file.lines[n].size
          /\ checksum_list[n].shifted <=> Shifted(file.lines[n])
      BY <3>1 DEF EntryOf
    <3> QED BY <3>2, <3>3 DEF Shifted
  <2> QED BY <2>4, <2>6 DEF ListRight
<1> QED BY <1>1, Inv, PTL

\* [Parts] leads back to the mirror: each matched file, in order, through the
\* first mapping that fits it (jte.c:240-275,1168-1287).
THEOREM PartsAreRight == Spec => []PartsLeadBack
<1>1. IInv => PartsLeadBack
  <2> SUFFICES ASSUME IInv, phase = "done" PROVE PartsLeadBack
    BY DEF PartsLeadBack
  <2>1. /\ parts \in Seq(Name) /\ Len(parts) \in Nat
        /\ jigdo.parts = [k \in 1..Len(parts) |-> remap_filename(parts[k])]
    BY DEF IInv, JigdoInv
  <2>2. map_list \in Seq(Mappings) /\ asked = map_list BY DEF IInv, SetterInv
  <2>3. Len(jigdo.parts) = Len(parts) BY <2>1
  <2> DEFINE Leads(part, fits, name) ==
        IF fits = {} THEN part.to = "" /\ part.rest = name
        ELSE \E n \in fits :
               /\ part.to = asked[n].to
               /\ asked[n].from \o part.rest = name
               /\ \A m \in fits : n <= m
  <2>4. ASSUME NEW k \in 1..Len(parts), NEW part, part = jigdo.parts[k],
               NEW fits, fits = {n \in 1..Len(asked) : IsPrefixOf(asked[n].from, parts[k])}
        PROVE  Leads(part, fits, parts[k])
    <3> DEFINE name == parts[k]
    <3>1. fits = Applicable(name) BY <2>2, <2>4 DEF Applicable
    <3>2. part = remap_filename(name) BY <2>1, <2>4
    <3>3. name \in Seq(STRING) BY <2>1, ElementOfSeq, ConstantsAssumption
    <3> HIDE DEF name
    <3>4. CASE fits = {}
      <4>1. part = [to |-> "", rest |-> name] BY <3>1, <3>2, <3>4 DEF remap_filename
      <4>2. part.to = "" /\ part.rest = name BY <4>1
      <4> QED BY <3>4, <4>2 DEF name
    <3>5. CASE fits # {}
      <4>1. PICK n \in fits :
              /\ \A m \in fits : n <= m
              /\ remap_filename(name) =
                   [to |-> map_list[n].to, rest |-> Rest(name, map_list[n].from)]
        BY <3>1, <3>5, <2>2, RemapFirst
      <4>2. n \in 1..Len(map_list) /\ IsPrefixOf(map_list[n].from, name)
        BY <3>1 DEF Applicable
      <4>3. map_list[n].from \in Seq(STRING)
        BY <2>2, <4>2, ElementOfSeq, ConstantsAssumption
      <4>4. map_list[n].from \o Rest(name, map_list[n].from) = name
        BY <3>3, <4>2, <4>3, FromAndRest
      <4>5. part.to = map_list[n].to /\ part.rest = Rest(name, map_list[n].from)
        BY <3>2, <4>1
      <4>6. part.to = asked[n].to /\ asked[n].from \o part.rest = name
        BY <2>2, <4>4, <4>5
      <4> QED BY <3>5, <4>1, <4>6 DEF name
    <3> QED BY <3>4, <3>5
  <2> HIDE DEF Leads
  <2>5. \A k \in 1..Len(parts) :
          Leads(jigdo.parts[k],
                {n \in 1..Len(asked) : IsPrefixOf(asked[n].from, parts[k])}, parts[k])
    BY <2>4
  <2> QED BY <2>3, <2>5, Zenon DEF PartsLeadBack, Leads
<1> QED BY <1>1, Inv, PTL
=============================================================================
