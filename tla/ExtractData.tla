---------------------------- MODULE ExtractData ----------------------------
(***************************************************************************)
(* extract-data (extract-data.c, read_data_block() in uncompress.c): it    *)
(* writes the uncompressed DATA parts of a template to a file, until there *)
(* is no other.  The template is that of MkImage.                          *)
(***************************************************************************)
EXTENDS Naturals, Sequences

CONSTANT FullDisk       \* whether writing may fail

VARIABLES template,     \* the template that is read
          part_at,      \* template_offset, as the number of a DATA part
          extracted,    \* bytes that were written
          unwritten,    \* history: whether a part could not be written
          extract_done

extractVars == <<part_at, extracted, unwritten, extract_done>>

Ready == part_at = 1 /\ extracted = << >> /\ unwritten = FALSE
         /\ extract_done = FALSE

\* read_data_block() succeeds.
Readable == part_at <= Len(template.blocks) /\ part_at \notin template.corrupt

\* Mutant: the offset of the next part is not advanced past the first one.
ExtractOnlyFirst ==
  /\ ~extract_done /\ Readable
  /\ extracted' = extracted \o template.blocks[1]
  /\ part_at' = part_at + 1
  /\ unwritten' = unwritten
  /\ UNCHANGED <<template, extract_done>>

\* What fwrite() returns is not looked at.
Extract ==
  /\ ~extract_done /\ Readable
  /\ \/ extracted' = extracted \o template.blocks[part_at] /\ UNCHANGED unwritten
     \/ FullDisk /\ unwritten' = TRUE /\ UNCHANGED extracted
  /\ part_at' = part_at + 1
  /\ UNCHANGED <<template, extract_done>>

\* Any error is the end; the exit status is 0.
Stop ==
  /\ ~extract_done /\ ~Readable
  /\ extract_done' = TRUE
  /\ UNCHANGED <<template, part_at, extracted, unwritten>>
=============================================================================
