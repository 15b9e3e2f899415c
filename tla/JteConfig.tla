----------------------------- MODULE JteConfig -----------------------------
(***************************************************************************)
(* How a libjte environment is set up (libjte.c), what it reads from the   *)
(* checksum list (jte.c) and what its settings do to the .jigdo: which     *)
(* checksums are computed and named, and under which names the matched     *)
(* files appear in [Parts].  The engine between header and footer is the   *)
(* module Jte; here it only hands over the names of the matched files.     *)
(*                                                                         *)
(* Checksum types and the index into check_algos are the numbers of the    *)
(* code, since the code compares one with the other.  A name is a sequence *)
(* of pieces, so that being a prefix means what it means for strings.      *)
(***************************************************************************)
EXTENDS Integers, Sequences, FiniteSets

CONSTANTS Codes,      \* arguments of the -iso and -template setters: [all, types]
          Mappings,   \* arguments of add_mapping: [to, from, wellformed]
          Lists,      \* checksum lists, as sequences of lines
          Name,       \* mirror names the list gives to matched files
          MaxCalls,   \* bound: setter calls
          MaxEntries  \* bound: matched files

CHECK_MD5 == 0
CHECK_SHA1 == 1
CHECK_SHA256 == 2
CHECK_SHA512 == 3
Types == CHECK_MD5..CHECK_SHA512
Unknown == 4   \* an algorithm name that is not known
check_algos == [i \in {0, 1} |-> IF i = 0 THEN CHECK_MD5 ELSE CHECK_SHA256]
hex_bytes == [type \in {CHECK_MD5, CHECK_SHA256} |->
                IF type = CHECK_MD5 THEN 32 ELSE 64]

\* A line of the list: how many hexadecimal digits it begins with, whether two
\* spaces follow them, and the size and the name that come after.
Line == [hex : Nat, spaces : BOOLEAN, size : Nat, name : Name]

ASSUME ConstantsAssumption ==
  /\ \A c \in Codes : c.all \in BOOLEAN /\ c.types \subseteq Types \cup {Unknown}
  /\ \A m \in Mappings : m.from \in Seq(STRING) /\ m.wellformed \in BOOLEAN
  /\ \A l \in Lists : l \in Seq(Line)
  /\ Name \subseteq Seq(STRING)
  /\ MaxCalls \in Nat /\ MaxEntries \in Nat

VARIABLES
  phase,    \* "setup", "list", "payload", "done" or "failed"
  calls,    \* setter calls so far
  checksum_algo, checksum_algo_iso, checksum_algo_tmpl,
  map_list,
  bzip2,    \* jte_template_compression = JTE_TEMP_BZIP2
  file,     \* the checksum list file, and how far it has been read
  checksum_list,
  iso_context, template_context,  \* the types each computes
  parts,    \* names of the file entries of entry_list
  jigdo,    \* what the .jigdo says
  asked     \* history: accepted mappings, in the order of the calls

algoVars == <<checksum_algo, checksum_algo_iso, checksum_algo_tmpl>>
contextVars == <<iso_context, template_context>>
vars == <<phase, calls, algoVars, map_list, bzip2, file, checksum_list,
          contextVars, parts, jigdo, asked>>

NoJigdo == [type |-> CHECK_MD5, real |-> FALSE, template |-> {}, image |-> {},
            parts |-> << >>]

Init ==
  /\ phase = "setup" /\ calls = 0
  /\ checksum_algo = 0 /\ checksum_algo_iso = Types
  /\ checksum_algo_tmpl = {CHECK_MD5, CHECK_SHA256}
  /\ map_list = << >> /\ bzip2 = FALSE /\ asked = << >>
  /\ file \in {[lines |-> l, at |-> 1] : l \in Lists}
  /\ checksum_list = << >> /\ iso_context = {} /\ template_context = {}
  /\ parts = << >> /\ jigdo = NoJigdo
-----------------------------------------------------------------------------
(* Setters.  One that fails leaves the environment as it is. *)

Setter ==
  /\ phase = "setup" /\ calls < MaxCalls /\ calls' = calls + 1
  /\ UNCHANGED <<phase, file, checksum_list, contextVars, parts, jigdo>>

\* The type that the files of this jigdo are listed with.
type == check_algos[checksum_algo]

set_checksum_algorithm(i) ==
  /\ Setter /\ checksum_algo' = i
  /\ UNCHANGED <<checksum_algo_iso, checksum_algo_tmpl, map_list, bzip2, asked>>

\* Mutant: only what is named is taken.
parse_named(code, algo) == IF code.all THEN Types ELSE code.types
\* Types are only ever added to those that algo has at the call, and MD5 is.
parse_checksum_algo(code, algo) ==
  IF code.all THEN Types ELSE algo \cup {CHECK_MD5} \cup code.types
Decodable(code) == code.all \/ Unknown \notin code.types

\* An index of check_algos, not a type, is compared with CHECK_SHA256.
Override == IF checksum_algo = CHECK_SHA256 THEN {CHECK_SHA256} ELSE {}

\* Mutant: only the caller's choice is taken.
isoDefaultNone == {}
isoDefault == Types
set_checksum_iso(code) ==
  /\ Setter /\ Decodable(code)
  /\ checksum_algo_iso' = parse_checksum_algo(code, isoDefault) \cup Override
  /\ UNCHANGED <<checksum_algo, checksum_algo_tmpl, map_list, bzip2, asked>>

set_checksum_template(code) ==
  /\ Setter /\ Decodable(code)
  /\ checksum_algo_tmpl' = parse_checksum_algo(code, {CHECK_MD5}) \cup Override
  /\ UNCHANGED <<checksum_algo, checksum_algo_iso, map_list, bzip2, asked>>

\* bzip2 is only accepted by a library that was built with it.
set_compression(b) ==
  /\ Setter /\ bzip2' = b /\ UNCHANGED <<algoVars, map_list, asked>>

\* Mutant: new mappings come first.
InsertFirst(m) == <<m>> \o map_list
Insert(m) == Append(map_list, m)
add_mapping(m) ==
  /\ Setter /\ m.wellformed
  /\ map_list' = Insert(m) /\ asked' = Append(asked, m)
  /\ UNCHANGED <<algoVars, bzip2>>

\* An unknown algorithm, an undecodable code or a mapping without "=".
SetterFails ==
  /\ phase = "setup" /\ calls < MaxCalls /\ calls' = calls + 1
  /\ UNCHANGED <<phase, algoVars, map_list, bzip2, file, checksum_list,
                 contextVars, parts, jigdo, asked>>
-----------------------------------------------------------------------------
(* The header: contexts, then the checksum list. *)

configVars == <<calls, algoVars, map_list, bzip2, asked>>

WriteHeader ==
  /\ phase = "setup" /\ phase' = "list"
  /\ iso_context' = checksum_algo_iso /\ template_context' = checksum_algo_tmpl
  /\ UNCHANGED <<configVars, file, checksum_list, parts, jigdo>>

\* A path is missing, a file cannot be opened, or there is no memory.
WriteHeaderFails ==
  /\ phase = "setup" /\ phase' = "failed"
  /\ UNCHANGED <<configVars, file, checksum_list, contextVars, parts, jigdo>>

\* Only the first line is looked at as a whole.
FirstLineValid(line) == line.hex = hex_bytes[type] /\ line.spaces

\* checksum_parse_hex() takes as many digits as it needs; what follows them is
\* taken for the spaces, the size and the name.
ParseHex(line) == line.hex >= hex_bytes[type]
Shifted(line) == line.hex > hex_bytes[type] \/ ~line.spaces

EntryOf(line) == [size |-> line.size, name |-> line.name, shifted |-> Shifted(line)]
\* Mutant: the first line is not looked at.
AcceptedAny(line) == ParseHex(line)
Accepted(line) ==
  /\ ParseHex(line)
  /\ file.at = 1 => FirstLineValid(line)

ReadLine ==
  /\ phase = "list" /\ file.at <= Len(file.lines)
  /\ LET line == file.lines[file.at] IN
       IF Accepted(line)
         THEN /\ checksum_list' = Append(checksum_list, EntryOf(line))
              /\ file' = [file EXCEPT !.at = @ + 1] /\ UNCHANGED phase
         ELSE /\ phase' = "failed" /\ UNCHANGED <<file, checksum_list>>
  /\ UNCHANGED <<configVars, contextVars, parts, jigdo>>

\* The end of the list; an empty one has no first line and is refused.
ListRead ==
  /\ phase = "list" /\ file.at > Len(file.lines)
  /\ phase' = IF file.lines = << >> THEN "failed" ELSE "payload"
  /\ UNCHANGED <<configVars, file, checksum_list, contextVars, parts, jigdo>>
-----------------------------------------------------------------------------
(* Matched files, and the footer. *)

Match(name) ==
  /\ phase = "payload" /\ Len(parts) < MaxEntries
  /\ \E n \in 1..Len(checksum_list) :
       checksum_list[n].name = name /\ ~checksum_list[n].shifted
  /\ parts' = Append(parts, name)
  /\ UNCHANGED <<phase, configVars, file, checksum_list, contextVars, jigdo>>

IsPrefixOf(from, name) ==
  Len(from) <= Len(name) /\ SubSeq(name, 1, Len(from)) = from
Applicable(name) == {k \in 1..Len(map_list) : IsPrefixOf(map_list[k].from, name)}
Rest(name, from) == SubSeq(name, Len(from) + 1, Len(name))

\* The first mapping whose From the name begins with gives To ":" and the rest.
remap_filename(name) ==
  IF Applicable(name) = {} THEN [to |-> "", rest |-> name]
  ELSE LET first == CHOOSE k \in Applicable(name) : \A l \in Applicable(name) : k <= l
       IN  [to |-> map_list[first].to, rest |-> Rest(name, map_list[first].from)]

\* A checksum that its context does not compute is left as zeros.
WriteFooter ==
  /\ phase = "payload" /\ phase' = "done"
  /\ jigdo' = [type |-> type, real |-> type \in template_context,
               template |-> checksum_algo_tmpl, image |-> iso_context,
               parts |-> [k \in 1..Len(parts) |-> remap_filename(parts[k])]]
  /\ UNCHANGED <<configVars, file, checksum_list, contextVars, parts>>

WriteFooterFails ==
  /\ phase = "payload" /\ phase' = "failed"
  /\ UNCHANGED <<configVars, file, checksum_list, contextVars, parts, jigdo>>

Next ==
  \/ \E i \in {0, 1} : set_checksum_algorithm(i)
  \/ \E c \in Codes : set_checksum_iso(c) \/ set_checksum_template(c)
  \/ \E b \in BOOLEAN : set_compression(b)
  \/ \E m \in Mappings : add_mapping(m)
  \/ SetterFails \/ WriteHeader \/ WriteHeaderFails \/ ReadLine \/ ListRead
  \/ \E name \in Name : Match(name)
  \/ WriteFooter \/ WriteFooterFails

Spec == Init /\ [][Next]_vars
-----------------------------------------------------------------------------
(* Properties. *)

TypeOK ==
  /\ phase \in {"setup", "list", "payload", "done", "failed"}
  /\ calls \in 0..MaxCalls /\ bzip2 \in BOOLEAN
  /\ checksum_algo \in DOMAIN check_algos
  /\ {CHECK_MD5} \subseteq checksum_algo_iso /\ checksum_algo_iso \subseteq Types
  /\ {CHECK_MD5} \subseteq checksum_algo_tmpl /\ checksum_algo_tmpl \subseteq Types
  /\ map_list \in Seq(Mappings) /\ Len(map_list) = Len(asked)
  /\ file.lines \in Lists /\ file.at \in 1..Len(file.lines) + 1
  /\ Len(checksum_list) = file.at - 1
  /\ iso_context \subseteq Types /\ template_context \subseteq Types
  /\ parts \in Seq(Name) /\ Len(parts) <= MaxEntries
  /\ Len(jigdo.parts) = (IF phase = "done" THEN Len(parts) ELSE 0)

\* Whatever was chosen, in whatever order the setters were called, the checksum
\* of the image that the template and the .jigdo name is one that is computed,
\* and MD5 is among those of the template and of the image.
ImageSummed ==
  phase = "done" =>
    /\ jigdo.type \in iso_context /\ jigdo.type = type
    /\ CHECK_MD5 \in iso_context \cap template_context

\* A header that succeeds has read the whole list, in its order, and a list
\* that begins with checksums of another type than the chosen one is refused:
\* no matched file is ever named with a checksum of the wrong kind because of
\* it.  Later lines with more digits are taken for something else.
ListRight ==
  phase \in {"payload", "done"} =>
    /\ Len(checksum_list) = Len(file.lines)
    /\ \A n \in 1..Len(file.lines) :
         /\ checksum_list[n].name = file.lines[n].name
         /\ checksum_list[n].size = file.lines[n].size
         /\ checksum_list[n].shifted =>
              n > 1 /\ (file.lines[n].hex > hex_bytes[type] \/ ~file.lines[n].spaces)

\* [Parts] leads back to the mirror: it has the matched files in their order,
\* the label of each is that of a mapping the caller made, the first one made
\* that fits, and its From with what follows the label is the file's name.
PartsLeadBack ==
  phase = "done" =>
    /\ Len(jigdo.parts) = Len(parts)
    /\ \A k \in 1..Len(parts) :
         LET part == jigdo.parts[k]
             fits == {n \in 1..Len(asked) : IsPrefixOf(asked[n].from, parts[k])}
         IN  IF fits = {} THEN part.to = "" /\ part.rest = parts[k]
             ELSE \E n \in fits :
                    /\ part.to = asked[n].to /\ asked[n].from \o part.rest = parts[k]
                    /\ \A m \in fits : n <= m

\* libjte.c:307 "if we're doing a v2 jigdo file based around sha256, we always
\* need the sha256 calculated too": the checksum of the template that the
\* .jigdo gives has been computed.
TemplateSummed == phase = "done" => jigdo.real
=============================================================================
