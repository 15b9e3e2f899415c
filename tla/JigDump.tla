------------------------------ MODULE JigDump ------------------------------
(***************************************************************************)
(* jigdump (jigdump.c): it walks through a template piece by piece and     *)
(* prints what it finds.                                                   *)
(*                                                                         *)
(* A template is a sequence of pieces [tag, len]: its header, its DATA     *)
(* parts, the head of the DESC part ("DESC"), the entries of the DESC part *)
(* and the pointer at its end, which has a field to: the length of the     *)
(* DESC part.  template_size is less than the sum of their lengths if the  *)
(* last piece was not written completely.                                  *)
(***************************************************************************)
EXTENDS Integers, Sequences

CONSTANT BUF_SIZE       \* how much is read at once

VARIABLES pieces, template_size,
          named,        \* whether the file's name ends in ".template"
          state, offset, desc_offset,
          shown,        \* the pieces that were printed, with their offsets
          mismatch      \* "ERROR: pointers don't match up" was printed

dumpVars == <<pieces, template_size, named, state, offset, desc_offset, shown,
              mismatch>>

Launched == /\ state = "STARTING" /\ offset = 0 /\ desc_offset = 0
            /\ shown = << >> /\ mismatch = FALSE
-----------------------------------------------------------------------------
\* Where the first k pieces end in the file.
End(ps) ==
  LET end[k \in 0..Len(ps)] == IF k = 0 THEN 0 ELSE end[k - 1] + ps[k].len IN end
Size(ps) == End(ps)[Len(ps)]
Start(k) == End(pieces)[k - 1]

\* The piece at offset, 0 if none starts there.
Here == LET at == {k \in 1..Len(pieces) : Start(k) = offset /\ offset < template_size}
        IN  IF at = {} THEN 0 ELSE CHOOSE k \in at : TRUE

At(tags) == Here # 0 /\ pieces[Here].tag \in tags

\* Bytes by which jigdump moves on from an entry, and who has which.
entry_len(tag) == CASE tag = "NOMATCH" -> 7
                    [] tag = "IMAGE_MD5" -> 27
                    [] tag = "IMAGE_SHA256" -> 43
                    [] tag = "MATCH_MD5" -> 31
                    [] tag = "MATCH_SHA256" -> 47
Entries == {"NOMATCH", "IMAGE_MD5", "IMAGE_SHA256", "MATCH_MD5", "MATCH_SHA256"}

Show(n) == shown' = Append(shown, [tag |-> pieces[Here].tag, at |-> offset, len |-> n])

\* The end of the main loop: offset becomes n, and at the end of the file the
\* program is done.
Advance(n, s) ==
  /\ offset' = n
  /\ state' = IF n = template_size THEN "DONE" ELSE s

DataParts == {k \in 1..Len(pieces) : pieces[k].tag = "DATA"}

\* The search for the first DATA part in what is read first: it follows the
\* header, which is much shorter than BUF_SIZE.
FindData ==
  /\ state = "STARTING" /\ named /\ DataParts # {}
  /\ offset' = Start(2) /\ state' = "IN_DATA"
  /\ UNCHANGED <<pieces, template_size, named, desc_offset, shown, mismatch>>

\* Without one the search goes on with what is read next: nothing, which is
\* the end, or bytes that are not the header of a template, an error.
NoData ==
  /\ state = "STARTING" /\ named /\ DataParts = {}
  /\ state' = IF template_size <= BUF_SIZE THEN "DONE" ELSE "EINVAL"
  /\ UNCHANGED <<pieces, template_size, named, offset, desc_offset, shown, mismatch>>

\* A file with another name is read from where its last six bytes point.
SeekDesc ==
  /\ state = "STARTING" /\ ~named /\ pieces[Len(pieces)].tag = "pointer"
  /\ offset' = template_size - pieces[Len(pieces)].to /\ state' = "IN_DESC"
  /\ UNCHANGED <<pieces, template_size, named, desc_offset, shown, mismatch>>

ShowData ==
  /\ state = "IN_DATA" /\ At({"DATA"})
  /\ Show(pieces[Here].len)
  /\ Advance(offset + pieces[Here].len, state)
  /\ UNCHANGED <<pieces, template_size, named, desc_offset, mismatch>>

\* Mutant: where the DESC part is found is not kept.
ShowDescForgotten ==
  /\ state \in {"IN_DATA", "IN_DESC"} /\ At({"DESC"})
  /\ Show(10)
  /\ Advance(offset + 10, "DUMP_DESC")
  /\ UNCHANGED <<pieces, template_size, named, desc_offset, mismatch>>

\* desc_offset is only set on the way through the DATA parts.
ShowDesc ==
  /\ state \in {"IN_DATA", "IN_DESC"} /\ At({"DESC"})
  /\ desc_offset' = IF state = "IN_DATA" THEN offset ELSE desc_offset
  /\ Show(10)
  /\ Advance(offset + 10, "DUMP_DESC")
  /\ UNCHANGED <<pieces, template_size, named, mismatch>>

ShowEntry ==
  /\ state = "DUMP_DESC" /\ At(Entries)
  /\ LET n == entry_len(pieces[Here].tag) IN
     /\ Show(n)
     /\ Advance(offset + n, IF offset + n >= template_size - 6 THEN "DUMP_DESC_PTR"
                                                               ELSE state)
  /\ UNCHANGED <<pieces, template_size, named, desc_offset, mismatch>>

ShowPointer ==
  /\ state = "DUMP_DESC_PTR" /\ At({"pointer"})
  /\ mismatch' = (template_size - pieces[Here].to # desc_offset)
  /\ Show(6)
  /\ Advance(offset + 6, "DONE")
  /\ UNCHANGED <<pieces, template_size, named, desc_offset>>

\* The end of the file; nothing is printed and the exit status is 0.
ReadNothing ==
  /\ state \in {"IN_DATA", "DUMP_DESC", "DUMP_DESC_PTR"} /\ offset >= template_size
  /\ state' = "ERROR"
  /\ UNCHANGED <<pieces, template_size, named, offset, desc_offset, shown, mismatch>>

Next == \/ FindData \/ NoData \/ SeekDesc \/ ShowData \/ ShowDesc \/ ShowEntry
        \/ ShowPointer \/ ReadNothing
=============================================================================
