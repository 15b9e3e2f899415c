----------------------------- MODULE MkJigSnap -----------------------------
(***************************************************************************)
(* mkjigsnap: keeps a snapshot, a tree of hard links into the mirrors, in  *)
(* step with the files that a list of .jigdo files needs.  It is run again *)
(* and again; between its steps the process may be killed, the mirrors may *)
(* be updated and the lists edited, and single calls may fail.  What such  *)
(* a run leaves behind is what the next one starts from.                   *)
(*                                                                         *)
(* The checksum of a file is taken to be its content.  A mirror replaces   *)
(* files and does not rewrite them, as rsync does, so a hard link keeps    *)
(* the content it had when it was made.  Files and jigdos are numbers in   *)
(* the order that sort() puts them in.                                     *)
(***************************************************************************)
EXTENDS Integers, Sequences, FiniteSets

CONSTANTS File,
          Content,
          Base,       \* Base[f] = basename of f, a path at the top of a mirror
          Mirrors,    \* -m options, in order
          Jigdo,      \* entries of each .jigdo: [file, type, sum, key]
          Keywords,   \* -k
          Lists,      \* the jigdo lists that exist
          Listings,   \* what the lists may say: [Lists -> SUBSET DOMAIN Jigdo]
          Archives,   \* contents the mirrors may have
          Trees,      \* what $dirname may hold at first
          Options,    \* the command lines
          Ignore,     \* entries of the ignore file
          MinUnique,  \* the 5 of "Only $num_unique for the snapshot?"
          MaxFaults   \* bound on crashes, updates, edits and failing calls

Types == {"md5", "sha256"}
Entry == [file : File, type : Types, sum : Content, key : Keywords \cup {"other"}]

ASSUME ConstantsAssumption ==
  /\ File \subseteq Nat /\ IsFiniteSet(File)
  /\ DOMAIN Jigdo \subseteq Nat /\ IsFiniteSet(DOMAIN Jigdo)
  /\ \A j \in DOMAIN Jigdo : Jigdo[j] \in Seq(Entry)
  /\ Listings \subseteq [Lists -> SUBSET DOMAIN Jigdo]
  /\ \A o \in Options : o.lists \in Seq(Lists) /\ o.jigdos \subseteq DOMAIN Jigdo
  /\ \A a \in Archives :
       /\ Mirrors \in Seq(DOMAIN a)
       /\ \A m \in DOMAIN a : \A path \in DOMAIN a[m] : a[m][path] \in Content
  /\ \A t \in Trees : DOMAIN t \subseteq File /\ t \in [DOMAIN t -> Content]
  /\ Ignore \subseteq File /\ MinUnique \in Nat /\ MaxFaults \in Nat

VARIABLES
  \* what outlives a run
  tree,       \* the snapshot: content of the files in $dirname
  made,       \* whether $dirname exists
  faillog,    \* the -f file, with the jigdos that -b adds
  published,  \* the files of single-jigdo mode that are complete
  listing,    \* the jigdo lists
  archive,    \* archive[m][path]: what the mirrors hold
  opt,        \* the command line
  faults,     \* how often something went wrong or changed
  \* the process
  pc,         \* "idle" (not running), "parse", "setup", "link", "open",
              \* "log", "scan", "jigdo", "template", "conf"
  jigdos,     \* @jigdos, those still to be read
  ref, jigdo_backref,
  todo,       \* files still to be linked, or still to be looked at by find()
  file_list, ignored_fails, failed_files, ck_failed_files,
  unsummed,   \* files for which "Failed to jigsum" was printed
  given,      \* history: all of @jigdos
  cut,        \* history: a jigdo of this run was not read to its end
  copy_cut    \* history: the .jigdo this run wrote is not complete

envVars == <<listing, archive>>
listVars == <<jigdos, ref, jigdo_backref, given, cut, copy_cut>>
linkVars == <<file_list, ignored_fails, failed_files, ck_failed_files, unsummed>>
diskVars == <<tree, made, faillog, published>>
vars == <<diskVars, envVars, opt, faults, pc, listVars, todo, linkVars>>

Empty == [x \in {} |-> {}]
Least(S) == CHOOSE n \in S : \A m \in S : n <= m
Extend(f, x, v) == [y \in DOMAIN f \cup {x} |-> IF y = x THEN v ELSE f[y]]

Init ==
  /\ tree \in Trees /\ made \in BOOLEAN /\ (~made => tree = Empty) /\ faillog = Empty /\ published = {}
  /\ listing \in Listings /\ archive \in Archives /\ opt \in Options
  /\ faults = 0 /\ pc = "idle" /\ jigdos = {} /\ given = {}
  /\ cut = FALSE /\ copy_cut = FALSE
  /\ ref = Empty /\ jigdo_backref = Empty /\ todo = {} /\ file_list = {}
  /\ ignored_fails = {} /\ failed_files = {} /\ ck_failed_files = {}
  /\ unsummed = {}
-----------------------------------------------------------------------------
NoFault == UNCHANGED faults
Fault == faults < MaxFaults /\ faults' = faults + 1

\* The run is over; its memory goes.
End ==
  /\ pc' = "idle" /\ jigdos' = {} /\ given' = {}
  /\ cut' = FALSE /\ copy_cut' = FALSE
  /\ ref' = Empty /\ jigdo_backref' = Empty /\ todo' = {} /\ file_list' = {}
  /\ ignored_fails' = {} /\ failed_files' = {} /\ ck_failed_files' = {}
  /\ unsummed' = {}

FilesOf(js) ==
  {f \in File : \E j \in js : \E n \in 1..Len(Jigdo[j]) :
                  Jigdo[j][n].file = f /\ Jigdo[j][n].key \in Keywords}

\* The -j options, and the last of the -J options.
LastList == IF opt.lists = << >> THEN {} ELSE listing[opt.lists[Len(opt.lists)]]
Given == opt.jigdos \cup LastList

\* What is on the command line is checked before anything is read.  The words
\* of the list are counted, and in single-jigdo mode there must be one.
num_jigdos == Cardinality(opt.jigdos) + Cardinality(LastList)
Usable == num_jigdos # 0 /\ (opt.single => num_jigdos = 1)

Start ==
  /\ pc = "idle" /\ Usable
  /\ pc' = "parse" /\ jigdos' = Given /\ given' = Given
  /\ UNCHANGED <<ref, jigdo_backref, cut, copy_cut, todo, linkVars, diskVars, envVars, opt>>
  /\ NoFault

\* What the lines of a jigdo add.  The first checksum of a type stays; another
\* one is only reported.
Refs(lines, f) ==
  {n \in 1..Len(lines) : lines[n].file = f /\ lines[n].key \in Keywords}
Files(lines) == {f \in File : Refs(lines, f) # {}}
Sums(f) == IF f \in DOMAIN ref THEN ref[f] ELSE Empty
FirstSum(lines, f, type) ==
  lines[Least({n \in Refs(lines, f) : lines[n].type = type})].sum
AddLines(lines) ==
  [f \in DOMAIN ref \cup Files(lines) |->
     [type \in DOMAIN Sums(f) \cup {lines[n].type : n \in Refs(lines, f)} |->
        IF type \in DOMAIN Sums(f) THEN Sums(f)[type]
                                   ELSE FirstSum(lines, f, type)]]

Backref(f) == IF f \in DOMAIN jigdo_backref THEN jigdo_backref[f] ELSE {}
BackrefsFirst(j, lines) ==   \* mutant: only the first jigdo is noted
  [f \in DOMAIN ref \cup Files(lines) |->
     IF Backref(f) = {} THEN {j} ELSE Backref(f)]
Backrefs(j, lines) ==
  [f \in DOMAIN ref \cup Files(lines) |->
     Backref(f) \cup (IF f \in Files(lines) THEN {j} ELSE {})]

\* The next jigdo, through a pipe from zcat that nobody asks whether it failed:
\* then only the lines before the failure arrive.
ReadJigdo ==
  /\ pc = "parse" /\ jigdos # {}
  /\ LET j == Least(jigdos)
     IN \E n \in 0..Len(Jigdo[j]) :
         LET lines == SubSeq(Jigdo[j], 1, n) IN
         /\ IF n = Len(Jigdo[j]) THEN NoFault /\ cut' = cut
                                 ELSE Fault /\ cut' = TRUE
         /\ ref' = AddLines(lines)
         /\ jigdo_backref' = Backrefs(j, lines)
         /\ jigdos' = jigdos \ {j}
  /\ UNCHANGED <<pc, given, copy_cut, todo, linkVars, diskVars, envVars, opt>>

Parsed ==
  /\ pc = "parse" /\ jigdos = {} /\ pc' = "setup"
  /\ UNCHANGED <<listVars, todo, linkVars, diskVars, envVars, opt>> /\ NoFault

\* Too few files, or nowhere to put them in a dry run: the program dies.
Abort ==
  /\ pc = "setup"
  /\ Cardinality(DOMAIN ref) < MinUnique \/ (~made /\ opt.dryrun)
  /\ End /\ UNCHANGED <<diskVars, envVars, opt>> /\ NoFault

mkdirs == made' = TRUE

\* An ignore file that cannot be opened is as good as none.
parse_ignore_file ==
  \/ ignored_fails' = (IF opt.ignore THEN Ignore ELSE {}) /\ NoFault
  \/ opt.ignore /\ ignored_fails' = {} /\ Fault

SetupNoDir ==   \* mutant: $dirname is not made
  /\ pc = "setup"
  /\ Cardinality(DOMAIN ref) >= MinUnique /\ (made \/ ~opt.dryrun)
  /\ made' = made
  /\ parse_ignore_file
  /\ pc' = "link" /\ todo' = DOMAIN ref
  /\ UNCHANGED <<listVars, file_list, failed_files, ck_failed_files, unsummed,
                 tree, faillog, published, envVars, opt>>
Setup ==
  /\ pc = "setup"
  /\ Cardinality(DOMAIN ref) >= MinUnique /\ (made \/ ~opt.dryrun)
  /\ mkdirs
  /\ parse_ignore_file
  /\ pc' = "link" /\ todo' = DOMAIN ref
  /\ UNCHANGED <<listVars, file_list, failed_files, ck_failed_files, unsummed,
                 tree, faillog, published, envVars, opt>>
-----------------------------------------------------------------------------
(* generate_snapshot_tree *)

\* The places a file is looked for, in order: in every mirror under its own
\* name, then under its base name at the top of that mirror.
Places(f) ==
  [k \in 1..2 * Len(Mirrors) |->
     [mirror |-> Mirrors[(k + 1) \div 2], path |-> IF k % 2 = 1 THEN f ELSE Base[f]]]
Holds(place) == place.path \in DOMAIN archive[place.mirror]
Hits(f) == {k \in 1..Len(Places(f)) : Holds(Places(f)[k])}
At(place) == archive[place.mirror][place.path]

\* validate_checksum for both types; the second one only if the first is right.
WrongMd5(f, content) ==   \* mutant: sha256 is forgotten
  "md5" \in DOMAIN ref[f] /\ ref[f]["md5"] # content
Wrong(f, content) == \E type \in DOMAIN ref[f] : ref[f][type] # content
Compared(f) ==
  /\ ck_failed_files' = ck_failed_files \cup
       (IF opt.check /\ f \in DOMAIN tree' /\ Wrong(f, tree'[f]) THEN {f} ELSE {})
  /\ UNCHANGED unsummed
validate_checksum(f) ==
  \/ Compared(f) /\ NoFault
  \/ /\ opt.check /\ f \in DOMAIN tree'
     /\ unsummed' = unsummed \cup {f} /\ UNCHANGED ck_failed_files /\ Fault

AtFileNewOnly(f) ==   \* mutant
  /\ pc = "link" /\ f \in todo /\ \A g \in todo : f <= g
  /\ todo' = todo \ {f}
  /\ file_list' = file_list \cup ({f} \ DOMAIN tree)
  /\ UNCHANGED <<pc, listVars, ignored_fails, made, faillog, published, envVars, opt>>
AtFile(f) ==
  /\ pc = "link" /\ f \in todo /\ \A g \in todo : f <= g
  /\ todo' = todo \ {f} /\ file_list' = file_list \cup {f}
  /\ UNCHANGED <<pc, listVars, ignored_fails, made, faillog, published, envVars, opt>>

\* A file that is there stays, whatever the mirrors hold by now.
Present(f) ==
  /\ AtFile(f) /\ f \in DOMAIN tree
  /\ UNCHANGED <<tree, failed_files>> /\ validate_checksum(f)

Link(f) ==
  /\ AtFile(f) /\ f \notin DOMAIN tree /\ ~opt.dryrun /\ Hits(f) # {}
  /\ tree' = Extend(tree, f, At(Places(f)[Least(Hits(f))]))
  /\ UNCHANGED failed_files /\ validate_checksum(f)

\* link() fails at the first place that has the file and not at a later one.
LinkLater(f) ==
  /\ AtFile(f) /\ f \notin DOMAIN tree /\ ~opt.dryrun /\ Fault
  /\ \E k \in Hits(f) : /\ k # Least(Hits(f))
                       /\ tree' = Extend(tree, f, At(Places(f)[k]))
  /\ UNCHANGED failed_files /\ Compared(f)

\* A dry run calls it a success without looking.
DryLink(f) ==
  /\ AtFile(f) /\ f \notin DOMAIN tree /\ opt.dryrun
  /\ UNCHANGED <<tree, failed_files, ck_failed_files, unsummed>> /\ NoFault

\* No place has the file, or link() fails at all of them.
NotLinkedIgnored(f) ==   \* mutant: the test of the ignore list is reversed
  /\ AtFile(f) /\ f \notin DOMAIN tree /\ ~opt.dryrun
  /\ IF Hits(f) = {} THEN NoFault ELSE Fault
  /\ failed_files' = failed_files \cup ({f} \cap ignored_fails)
  /\ UNCHANGED <<tree, ck_failed_files, unsummed>>
NotLinked(f) ==
  /\ AtFile(f) /\ f \notin DOMAIN tree /\ ~opt.dryrun
  /\ IF Hits(f) = {} THEN NoFault ELSE Fault
  /\ failed_files' = failed_files \cup ({f} \ ignored_fails)
  /\ UNCHANGED <<tree, ck_failed_files, unsummed>>

LinkDoneStop ==   \* mutant: after a failure the tree is not walked
  /\ pc = "link" /\ todo = {}
  /\ IF failed_files # {} THEN End
     ELSE pc' = "scan" /\ todo' = DOMAIN tree /\ UNCHANGED <<listVars, linkVars>>
  /\ UNCHANGED <<diskVars, envVars, opt>> /\ NoFault
LinkDone ==
  /\ pc = "link" /\ todo = {}
  /\ IF opt.log /\ failed_files # {}
       THEN pc' = "open" /\ UNCHANGED todo
       ELSE pc' = "scan" /\ todo' = DOMAIN tree
  /\ UNCHANGED <<listVars, linkVars, diskVars, envVars, opt>> /\ NoFault

\* Opening empties what an earlier run wrote.
OpenLog ==
  /\ pc = "open" /\ pc' = "log" /\ faillog' = Empty
  /\ UNCHANGED <<listVars, todo, linkVars, tree, made, published, envVars, opt>>
  /\ NoFault
OpenLogFails ==
  /\ pc = "open" /\ Fault /\ End /\ UNCHANGED <<diskVars, envVars, opt>>
WriteLog ==
  /\ pc = "log"
  /\ faillog' = [f \in failed_files |-> IF opt.backref THEN jigdo_backref[f] ELSE {}]
  /\ pc' = "scan" /\ todo' = DOMAIN tree
  /\ UNCHANGED <<listVars, linkVars, tree, made, published, envVars, opt>> /\ NoFault

\* find() hands over the files in the order the directories have them, with
\* their name below $dirname.  file_list has "$dirname/" in front, so with a
\* slash at the end of -d no name is in it.
FoundInList(f) == f \in file_list /\ ~opt.slash
delete_redundant(f) ==
  /\ pc = "scan" /\ f \in todo /\ todo' = todo \ {f}
  /\ tree' = IF FoundInList(f) \/ opt.dryrun THEN tree
             ELSE [g \in DOMAIN tree \ {f} |-> tree[g]]
  /\ UNCHANGED <<pc, listVars, linkVars, made, faillog, published, envVars, opt>>
  /\ NoFault

Scanned ==
  /\ pc = "scan" /\ todo = {}
  /\ IF opt.single /\ ~opt.dryrun
       THEN pc' = "jigdo" /\ UNCHANGED <<listVars, todo, linkVars>>
       ELSE End
  /\ UNCHANGED <<diskVars, envVars, opt>> /\ NoFault
-----------------------------------------------------------------------------
(* Single-jigdo mode: the .jigdo, the .template and the .conf. *)

Next3Swapped == [jigdo |-> "conf", template |-> "conf"]   \* mutant
Next3 == [jigdo |-> "template", template |-> "conf"]

\* Opening a file for writing empties it, so it is not complete until it is
\* written.  Only a -j option names a jigdo that can be copied.
Publish(file) ==
  /\ pc = file /\ file \in {"jigdo", "template", "conf"}
  /\ file = "jigdo" => opt.jigdos # {}
  /\ published' = published \cup {file}
  /\ IF file = "conf" THEN End
     ELSE pc' = Next3[file] /\ UNCHANGED <<listVars, todo, linkVars>>
  /\ UNCHANGED <<tree, made, faillog, envVars, opt>> /\ NoFault

\* The end of the source and an error in reading it look the same to the loop,
\* and nobody asks whether the lines were written: the run goes on to the
\* .template with a .jigdo that is not complete.
PublishCut ==
  /\ pc = "jigdo" /\ opt.jigdos # {} /\ Fault
  /\ published' = published \ {"jigdo"} /\ copy_cut' = TRUE /\ pc' = "template"
  /\ UNCHANGED <<jigdos, ref, jigdo_backref, given, cut, todo, linkVars>>
  /\ UNCHANGED <<tree, made, faillog, envVars, opt>>

\* The program dies when a file cannot be opened or the .template not be copied.
\* A .conf that could not be written is as silent as a .jigdo, but the last.
PublishFails(file) ==
  /\ pc = file /\ file \in {"jigdo", "template", "conf"}
  /\ \/ file = "jigdo" /\ opt.jigdos = {} /\ UNCHANGED published /\ NoFault
     \/ Fault /\ UNCHANGED published
     \/ file # "jigdo" /\ Fault /\ published' = published \ {file}
  /\ End /\ UNCHANGED <<tree, made, faillog, envVars, opt>>
-----------------------------------------------------------------------------
(* What happens around the program. *)

Crash ==
  /\ pc # "idle" /\ Fault /\ End
  /\ published' \in {published, published \ {pc}}
  /\ UNCHANGED <<tree, made, faillog, envVars, opt>>
Update ==
  /\ Fault /\ archive' \in Archives \ {archive}
  /\ UNCHANGED <<diskVars, listing, opt, pc, listVars, todo, linkVars>>
Edit ==
  /\ Fault /\ listing' \in Listings \ {listing}
  /\ UNCHANGED <<diskVars, archive, opt, pc, listVars, todo, linkVars>>

Linking ==
  \/ \E f \in File :
       Present(f) \/ Link(f) \/ LinkLater(f) \/ DryLink(f) \/ NotLinked(f)
  \/ LinkDone \/ OpenLog \/ OpenLogFails \/ WriteLog
  \/ \E f \in File : delete_redundant(f)
  \/ Scanned
Process ==
  \/ Start \/ ReadJigdo \/ Parsed \/ Abort \/ Setup \/ Linking
  \/ \E file \in {"jigdo", "template", "conf"} : Publish(file) \/ PublishFails(file)
  \/ PublishCut

Next == Process \/ Crash \/ Update \/ Edit
Spec == Init /\ [][Next]_vars
FairSpec == Spec /\ WF_vars(Process)
-----------------------------------------------------------------------------
(* Properties. *)

TypeOK ==
  /\ pc \in {"idle", "parse", "setup", "link", "open", "log", "scan",
             "jigdo", "template", "conf"}
  /\ DOMAIN tree \subseteq File /\ \A f \in DOMAIN tree : tree[f] \in Content
  /\ made \in BOOLEAN /\ (~made => tree = Empty)
  /\ \A f \in DOMAIN faillog : faillog[f] \subseteq DOMAIN Jigdo
  /\ published \subseteq {"jigdo", "template", "conf"}
  /\ listing \in Listings /\ archive \in Archives /\ opt \in Options
  /\ faults \in 0..MaxFaults
  /\ jigdos \subseteq given /\ given \subseteq DOMAIN Jigdo
  /\ cut \in BOOLEAN /\ copy_cut \in BOOLEAN
  /\ DOMAIN ref = DOMAIN jigdo_backref /\ DOMAIN ref \subseteq FilesOf(given)
  /\ \A f \in DOMAIN ref :
       /\ ref[f] \in UNION {[ts -> Content] : ts \in (SUBSET Types) \ {{}}}
       /\ jigdo_backref[f] # {} /\ jigdo_backref[f] \subseteq given
  /\ todo \subseteq File /\ file_list \subseteq DOMAIN ref
  /\ ignored_fails \subseteq Ignore
  /\ failed_files \subseteq file_list \ ignored_fails
  /\ ck_failed_files \cup unsummed \subseteq file_list

\* The snapshot is what mirrors that have moved on cannot give back.  A file
\* that a jigdo of the run needs is never removed from it, in any run, however
\* the runs before ended and whatever the mirrors hold by then.  Not so when a
\* jigdo was not read to its end, which the program does not notice, nor
\* when -d ends in a slash, which makes every file redundant.
NeededKept ==
  [][\A f \in DOMAIN tree \ DOMAIN tree' :
       f \in FilesOf(given) => cut \/ opt.slash]_vars

\* When the tree has been walked, every file that the parsed jigdos need is in
\* it, or was reported as failed, or is to be ignored; nothing reported is
\* there, nothing else is there, and the -f file lists what was reported.
Accounted ==
  pc = "scan" /\ todo = {} /\ ~opt.dryrun /\ ~opt.slash =>
    /\ DOMAIN tree \subseteq DOMAIN ref
    /\ DOMAIN ref \ DOMAIN tree \subseteq failed_files \cup ignored_fails
    /\ failed_files \cap (DOMAIN tree \cup ignored_fails) = {}
    /\ opt.log /\ failed_files # {} => DOMAIN faillog = failed_files

\* With -b, the entry of a missing file names the jigdos that need it, all of
\* them unless one could not be read to its end.
BackrefRight ==
  pc = "scan" /\ opt.log /\ opt.backref /\ failed_files # {} =>
    \A f \in DOMAIN faillog :
      LET who == {j \in given : f \in FilesOf({j})}
      IN  faillog[f] \subseteq who /\ (~cut => faillog[f] = who)

\* With -c, when the links are made, the files reported as wrong are exactly
\* those of the snapshot that differ from a checksum that was kept for them,
\* also if they were linked long ago, except those jigsum could not read.
WrongReported ==
  pc \in {"open", "log", "scan"} /\ opt.check /\ ~opt.slash =>
    LET wrong == {f \in DOMAIN tree \cap DOMAIN ref :
                    \E type \in DOMAIN ref[f] : ref[f][type] # tree[f]}
    IN  ck_failed_files \cap unsummed = {} /\ ck_failed_files = wrong \ unsummed

\* When the .conf of single-jigdo mode is written, the .template it names is
\* complete, and so are the snapshot, but for files that were reported or are
\* to be ignored, and the .jigdo, unless copying it failed in this run, which
\* nothing notices (mkjigsnap:537-542).
ConfLast ==
  [][pc = "conf" /\ pc' = "idle" /\ "conf" \in published' /\ faults' = faults =>
       /\ "template" \in published'
       /\ "jigdo" \in published' \/ copy_cut
       /\ ~opt.slash => DOMAIN ref \ DOMAIN tree \subseteq failed_files \cup ignored_fails]_vars

\* Run again and again, as the man page has it to keep a site up to date, it
\* arrives at the right tree for good once nothing fails or changes any more,
\* from whatever killed runs left behind: every needed file that a mirror has
\* or that was there is in it and no other file.
RightTree ==
  /\ DOMAIN tree \subseteq FilesOf(Given)
  /\ {f \in FilesOf(Given) : Hits(f) # {}} \subseteq DOMAIN tree
Converges ==
  <>[](Usable /\ Cardinality(FilesOf(Given)) >= MinUnique /\ ~opt.dryrun /\ ~opt.slash
         => RightTree)

=============================================================================
