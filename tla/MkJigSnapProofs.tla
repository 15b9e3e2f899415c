-------------------------- MODULE MkJigSnapProofs --------------------------
(***************************************************************************)
(* Proofs about MkJigSnap for every set of files, jigdos and mirrors, every *)
(* command line, and any number of runs, crashes and updates.              *)
(***************************************************************************)
EXTENDS MkJigSnap, DataLemmas, TLAPS

Before == {"idle", "parse", "setup"}
Linked == {"open", "log", "scan", "jigdo", "template", "conf"}
Publishing == {"jigdo", "template", "conf"}

\* What has been read of the jigdos, in runs that read all they began to read.
ReadInv ==
  /\ listing \in Listings /\ opt \in Options
  /\ jigdos \subseteq given /\ given \subseteq DOMAIN Jigdo
  /\ DOMAIN ref \subseteq File
  /\ pc = "parse" /\ ~cut => FilesOf(given \ jigdos) \subseteq DOMAIN ref
  /\ pc \notin {"idle", "parse"} /\ ~cut => FilesOf(given) \subseteq DOMAIN ref

\* file_list grows to what ref asks for while todo shrinks.
ListInv ==
  /\ pc \in Before => file_list = {} /\ failed_files = {}
  /\ file_list \subseteq DOMAIN ref /\ failed_files \subseteq file_list
  /\ pc = "link" => file_list \cup todo = DOMAIN ref /\ file_list \cap todo = {}
  /\ pc \in Linked => file_list = DOMAIN ref

\* Where the files of file_list are, and what is left of the walk.
AccountInv ==
  ~opt.dryrun =>
    /\ pc \notin {"scan", "jigdo", "template", "conf"} \/ ~opt.slash =>
         file_list \subseteq DOMAIN tree \cup failed_files \cup ignored_fails
    /\ failed_files \cap (DOMAIN tree \cup ignored_fails) = {}
    /\ pc = "scan" /\ ~opt.slash => DOMAIN tree \subseteq file_list \cup todo
    /\ pc = "scan" /\ opt.log /\ failed_files # {} => DOMAIN faillog = failed_files

\* The three files of single-jigdo mode are written one after the other.
PublishInv ==
  /\ pc \in Publishing => ~opt.dryrun
  /\ pc \in {"template", "conf"} => "jigdo" \in published \/ copy_cut
  /\ pc = "conf" => "template" \in published

IInv == ReadInv /\ ListInv /\ AccountInv /\ PublishInv

-----------------------------------------------------------------------------

\* A jigdo that was read to its end has added the files it needs to ref.
LEMMA ReadToEnd ==
  ASSUME NEW j \in DOMAIN Jigdo, ConstantsAssumption
  PROVE  FilesOf({j}) \subseteq Files(SubSeq(Jigdo[j], 1, Len(Jigdo[j])))
<1> DEFINE lines == SubSeq(Jigdo[j], 1, Len(Jigdo[j]))
<1>1. Jigdo[j] \in Seq(Entry)
  BY DEF ConstantsAssumption
<1>2. Len(lines) = Len(Jigdo[j]) /\ \A n \in 1..Len(Jigdo[j]) : lines[n] = Jigdo[j][n]
  BY <1>1
<1> QED
  BY <1>2 DEF FilesOf, Files, Refs

\* The files of a set of jigdos are those of its members.
LEMMA FilesOfUnion ==
  ASSUME NEW js, NEW j, NEW ks, js \subseteq ks \cup {j}
  PROVE  FilesOf(js) \subseteq FilesOf(ks) \cup FilesOf({j})
BY DEF FilesOf

\* It holds before the first run, whatever is in the tree.
LEMMA InitIInv == Init => IInv
BY DEF Init, IInv, ReadInv, ListInv, AccountInv, PublishInv, Before, Linked,
       Publishing, Empty, FilesOf

\* Whatever the command line and the lists say, the jigdos exist.
LEMMA GivenExist ==
  ASSUME ConstantsAssumption, listing \in Listings, opt \in Options
  PROVE  Given \subseteq DOMAIN Jigdo
<1>1. opt.lists \in Seq(Lists) /\ opt.jigdos \subseteq DOMAIN Jigdo
  BY DEF ConstantsAssumption
<1>2. listing \in [Lists -> SUBSET DOMAIN Jigdo]
  BY DEF ConstantsAssumption
<1>3. LastList \subseteq DOMAIN Jigdo
  <2>1. CASE opt.lists = << >>
    BY <2>1 DEF LastList
  <2>2. CASE opt.lists # << >>
    <3>1. opt.lists[Len(opt.lists)] \in Lists
      BY <1>1, <2>2
    <3> QED
      BY <1>2, <2>2, <3>1 DEF LastList
  <2> QED
    BY <2>1, <2>2
<1> QED
  BY <1>1, <1>3 DEF Given

\* A run that is over has no memory that the invariant could be wrong about.
LEMMA EndIInv ==
  ASSUME IInv, End, UNCHANGED <<listing, opt>>
  PROVE  IInv'
BY DEF IInv, ReadInv, ListInv, AccountInv, PublishInv, Before, Linked,
       Publishing, End, Empty

\* Reading one jigdo, or what arrives of it, leaves ref with all files of the
\* jigdos that were read.
LEMMA ReadJigdoIInv ==
  ASSUME ConstantsAssumption, IInv, ReadJigdo
  PROVE  IInv'
<1> DEFINE j == Least(jigdos)
<1>1. PICK n \in 0..Len(Jigdo[j]) :
        /\ IF n = Len(Jigdo[j]) THEN cut' = cut ELSE cut' = TRUE
        /\ ref' = AddLines(SubSeq(Jigdo[j], 1, n))
        /\ jigdos' = jigdos \ {j}
  BY DEF ReadJigdo
<1> DEFINE lines == SubSeq(Jigdo[j], 1, n)
<1>2. pc = "parse" /\ UNCHANGED <<pc, given, todo, linkVars, diskVars, envVars, opt>>
  BY DEF ReadJigdo
<1>3. DOMAIN ref' = DOMAIN ref \cup Files(lines)
  BY <1>1 DEF AddLines
<1>4. ASSUME ~cut'
      PROVE  FilesOf(given \ jigdos') \subseteq DOMAIN ref'
  <2>1. n = Len(Jigdo[j]) /\ ~cut
    BY <1>1, <1>4
  <2>2. FilesOf(given \ jigdos) \subseteq DOMAIN ref
    BY <1>2, <2>1 DEF IInv, ReadInv
  <2>3. CASE j \in jigdos
    <3>1. j \in DOMAIN Jigdo
      BY <2>3 DEF IInv, ReadInv
    <3>2. FilesOf({j}) \subseteq Files(lines)
      BY <2>1, <3>1, ReadToEnd
    <3>3. FilesOf(given \ jigdos') \subseteq FilesOf(given \ jigdos) \cup FilesOf({j})
      <4>1. given \ jigdos' \subseteq (given \ jigdos) \cup {j}
        BY <1>1
      <4> QED
        BY <4>1, FilesOfUnion
    <3> QED
      BY <1>3, <2>2, <3>2, <3>3
  <2>4. CASE j \notin jigdos
    BY <1>1, <1>3, <2>2, <2>4
  <2> QED
    BY <2>3, <2>4
<1>5. ReadInv'
  BY <1>1, <1>2, <1>3, <1>4 DEF IInv, ReadInv, envVars, Files
<1>6. ListInv'
  BY <1>2, <1>3 DEF IInv, ListInv, Before, Linked, linkVars
<1>7. AccountInv' /\ PublishInv'
  BY <1>2 DEF IInv, AccountInv, PublishInv, Publishing, ListInv, Before, linkVars, diskVars
<1> QED
  BY <1>5, <1>6, <1>7 DEF IInv

\* A step of the loop over the files of ref: f goes from todo to file_list and
\* is in the tree then, or has failed, or is to be ignored.
LEMMA LinkFileIInv ==
  ASSUME IInv, NEW f, AtFile(f),
         DOMAIN tree \subseteq DOMAIN tree', DOMAIN tree' \subseteq DOMAIN tree \cup {f},
         \/ failed_files' = failed_files
         \/ /\ failed_files' = failed_files \cup ({f} \ ignored_fails)
            /\ tree' = tree /\ f \notin DOMAIN tree,
         opt.dryrun \/ f \in DOMAIN tree' \cup failed_files' \cup ignored_fails
  PROVE  IInv'
<1>1. /\ pc = "link" /\ f \in todo /\ todo' = todo \ {f} /\ file_list' = file_list \cup {f}
      /\ UNCHANGED <<pc, listVars, ignored_fails, published, envVars, opt>>
  BY DEF AtFile
<1>2. ReadInv'
  BY <1>1 DEF IInv, ReadInv, listVars, envVars
<1>3. ListInv'
  BY <1>1 DEF IInv, ListInv, Before, Linked, listVars
<1>4. AccountInv'
  BY <1>1 DEF IInv, ListInv, AccountInv, listVars
<1>5. PublishInv'
  BY <1>1 DEF IInv, PublishInv, Publishing
<1> QED
  BY <1>2, <1>3, <1>4, <1>5 DEF IInv

\* A new link is in the tree.
LEMMA ExtendDomain ==
  ASSUME NEW t, NEW f, NEW v
  PROVE  DOMAIN Extend(t, f, v) = DOMAIN t \cup {f}
BY DEF Extend

\* The steps of generate_snapshot_tree keep the invariant.
LEMMA LinkingIInv ==
  ASSUME ConstantsAssumption, IInv, Linking
  PROVE  IInv'
<1>1. ASSUME NEW f \in File, Present(f)
      PROVE  IInv'
  <2>1. AtFile(f) /\ f \in DOMAIN tree /\ UNCHANGED <<tree, failed_files>>
    BY <1>1 DEF Present
  <2> QED
    BY <2>1, LinkFileIInv
<1>2. ASSUME NEW f \in File, Link(f) \/ LinkLater(f)
      PROVE  IInv'
  <2>1. AtFile(f) /\ failed_files' = failed_files
    BY <1>2 DEF Link, LinkLater
  <2>2. DOMAIN tree' = DOMAIN tree \cup {f}
    BY <1>2, ExtendDomain DEF Link, LinkLater
  <2>3. /\ DOMAIN tree \subseteq DOMAIN tree' /\ DOMAIN tree' \subseteq DOMAIN tree \cup {f}
        /\ f \in DOMAIN tree' \cup failed_files' \cup ignored_fails
    BY <2>2
  <2> QED
    BY <2>1, <2>3, LinkFileIInv
<1>3. ASSUME NEW f \in File, DryLink(f)
      PROVE  IInv'
  <2>1. AtFile(f) /\ opt.dryrun /\ tree' = tree /\ failed_files' = failed_files
    BY <1>3 DEF DryLink
  <2> QED
    BY <2>1, LinkFileIInv
<1>4. ASSUME NEW f \in File, NotLinked(f)
      PROVE  IInv'
  <2>1. AtFile(f) /\ f \notin DOMAIN tree /\ tree' = tree
    BY <1>4 DEF NotLinked
  <2>2. failed_files' = failed_files \cup ({f} \ ignored_fails)
    BY <1>4 DEF NotLinked
  <2>3. f \in DOMAIN tree' \cup failed_files' \cup ignored_fails
    BY <2>2
  <2> QED
    BY <2>1, <2>2, <2>3, LinkFileIInv
<1>5. ASSUME LinkDone
      PROVE  IInv'
  <2>1. /\ pc = "link" /\ todo = {} /\ pc' \in {"open", "scan"}
        /\ pc' = "scan" => todo' = DOMAIN tree /\ ~(opt.log /\ failed_files # {})
        /\ UNCHANGED <<listVars, linkVars, diskVars, envVars, opt>>
    BY <1>5 DEF LinkDone
  <2> QED
    BY <2>1 DEF IInv, ReadInv, ListInv, AccountInv, PublishInv, Before, Linked,
                Publishing, listVars, linkVars, diskVars, envVars
<1>6. ASSUME OpenLog
      PROVE  IInv'
  BY <1>6 DEF OpenLog, IInv, ReadInv, ListInv, AccountInv, PublishInv, Before,
              Linked, Publishing, listVars, linkVars, envVars
<1>7. ASSUME OpenLogFails
      PROVE  IInv'
  BY <1>7, EndIInv DEF OpenLogFails, envVars
<1>8. ASSUME WriteLog
      PROVE  IInv'
  <2>1. DOMAIN faillog' = failed_files /\ pc = "log" /\ pc' = "scan"
    BY <1>8 DEF WriteLog
  <2> QED
    BY <1>8, <2>1 DEF WriteLog, IInv, ReadInv, ListInv, AccountInv, PublishInv,
       Before, Linked, Publishing, listVars, linkVars, envVars
<1>9. ASSUME NEW f \in File, delete_redundant(f)
      PROVE  IInv'
  <2>1. /\ pc = "scan" /\ todo' = todo \ {f}
        /\ UNCHANGED <<pc, listVars, linkVars, faillog, published, envVars, opt>>
    BY <1>9 DEF delete_redundant
  <2>2. DOMAIN tree' \subseteq DOMAIN tree
    BY <1>9 DEF delete_redundant
  <2>3. ~opt.dryrun /\ ~opt.slash =>
          IF f \in file_list THEN tree' = tree ELSE DOMAIN tree' = DOMAIN tree \ {f}
    BY <1>9 DEF delete_redundant, FoundInList
  <2>4. AccountInv'
    BY <2>1, <2>2, <2>3 DEF IInv, AccountInv, linkVars
  <2> QED
    BY <2>1, <2>4 DEF IInv, ReadInv, ListInv, PublishInv, Before, Linked,
                      Publishing, listVars, linkVars, envVars
<1>10. ASSUME Scanned
       PROVE  IInv'
  <2>1. CASE opt.single /\ ~opt.dryrun
    BY <1>10, <2>1 DEF Scanned, IInv, ReadInv, ListInv, AccountInv, PublishInv,
       Before, Linked, Publishing, listVars, linkVars, diskVars, envVars
  <2>2. CASE ~(opt.single /\ ~opt.dryrun)
    BY <1>10, <2>2, EndIInv DEF Scanned, envVars
  <2> QED
    BY <2>1, <2>2
<1> QED
  BY <1>1, <1>2, <1>3, <1>4, <1>5, <1>6, <1>7, <1>8, <1>9, <1>10 DEF Linking

\* The actions of Process outside the loops.
LEMMA ProcessIInv ==
  ASSUME ConstantsAssumption, IInv, Process
  PROVE  IInv'
<1>1. ASSUME Start
      PROVE  IInv'
  <2>1. Given \subseteq DOMAIN Jigdo
    BY GivenExist DEF IInv, ReadInv
  <2>2. jigdos' = Given /\ given' = Given /\ FilesOf({}) = {}
    BY <1>1 DEF Start, FilesOf
  <2>3. FilesOf(given' \ jigdos') = {}
    BY <2>2
  <2> QED
    BY <1>1, <2>1, <2>2, <2>3 DEF Start, IInv, ReadInv, ListInv, AccountInv,
       PublishInv, Before, Linked, Publishing, linkVars, diskVars, envVars
<1>2. ASSUME Parsed
      PROVE  IInv'
  <2>1. given \ jigdos = given
    BY <1>2 DEF Parsed
  <2> QED
    BY <1>2, <2>1 DEF Parsed, IInv, ReadInv, ListInv, AccountInv, PublishInv,
       Before, Linked, Publishing, listVars, linkVars, diskVars, envVars
<1>3. ASSUME Abort
      PROVE  IInv'
  BY <1>3, EndIInv DEF Abort, envVars
<1>4. ASSUME Setup
      PROVE  IInv'
  <2>1. /\ pc = "setup" /\ pc' = "link" /\ todo' = DOMAIN ref
        /\ UNCHANGED <<listVars, file_list, failed_files, tree, faillog, published,
                       envVars, opt>>
    BY <1>4 DEF Setup
  <2> QED
    BY <2>1 DEF IInv, ReadInv, ListInv, AccountInv, PublishInv, Before, Linked,
                Publishing, listVars, envVars
<1>5. ASSUME NEW file \in Publishing, Publish(file)
      PROVE  IInv'
  <2>1. CASE file = "conf"
    BY <1>5, <2>1, EndIInv DEF Publish, envVars
  <2>2. CASE file # "conf"
    <3>1. /\ pc = file /\ pc' = Next3[file] /\ published' = published \cup {file}
          /\ UNCHANGED <<listVars, linkVars, tree, faillog, envVars, opt>>
      BY <1>5, <2>2 DEF Publish
    <3>2. \/ pc = "jigdo" /\ pc' = "template"
          \/ pc = "template" /\ pc' = "conf"
      BY <1>5, <2>2, <3>1 DEF Publishing, Next3
    <3> QED
      BY <3>1, <3>2 DEF IInv, ReadInv, ListInv, AccountInv, PublishInv, Before,
         Linked, Publishing, listVars, linkVars, envVars
  <2> QED
    BY <2>1, <2>2
<1>6. ASSUME NEW file \in Publishing, PublishFails(file)
      PROVE  IInv'
  BY <1>6, EndIInv DEF PublishFails, envVars
<1>7. ASSUME PublishCut
      PROVE  IInv'
  <2>1. /\ pc = "jigdo" /\ pc' = "template" /\ copy_cut'
        /\ UNCHANGED <<jigdos, ref, jigdo_backref, given, cut, linkVars, tree,
                       faillog, envVars, opt>>
    BY <1>7 DEF PublishCut
  <2> QED
    BY <2>1 DEF IInv, ReadInv, ListInv, AccountInv, PublishInv, Before, Linked,
                Publishing, linkVars, envVars
<1> QED
  BY <1>1, <1>2, <1>3, <1>4, <1>5, <1>6, <1>7, ReadJigdoIInv, LinkingIInv
  DEF Process, Publishing

\* One more step keeps the invariant, also a crash, an update of the mirrors or an
\* edit of the lists.
LEMMA NextIInv ==
  ASSUME ConstantsAssumption, IInv, [Next]_vars
  PROVE  IInv'
<1>1. ASSUME Crash
      PROVE  IInv'
  BY <1>1, EndIInv DEF Crash, envVars
<1>2. ASSUME Update
      PROVE  IInv'
  BY <1>2 DEF Update, IInv, ReadInv, ListInv, AccountInv, PublishInv, Before,
              Linked, Publishing, listVars, linkVars, diskVars
<1>3. ASSUME Edit
      PROVE  IInv'
  BY <1>3 DEF Edit, IInv, ReadInv, ListInv, AccountInv, PublishInv, Before,
              Linked, Publishing, listVars, linkVars, diskVars
<1>4. ASSUME UNCHANGED vars
      PROVE  IInv'
  BY <1>4 DEF vars, IInv, ReadInv, ListInv, AccountInv, PublishInv, Before,
              Linked, Publishing, listVars, linkVars, diskVars, envVars
<1> QED
  BY <1>1, <1>2, <1>3, <1>4, ProcessIInv DEF Next

\* The invariant holds in every state of every sequence of runs.
THEOREM SpecIInv == Spec => []IInv
<1>1. Init => IInv
  BY InitIInv
<1>2. IInv /\ [Next]_vars => IInv'
  BY ConstantsAssumption, NextIInv
<1> QED
  BY <1>1, <1>2, PTL DEF Spec
-----------------------------------------------------------------------------

\* Whatever was linked, ignored or not to be found, and however earlier runs
\* ended: when the walk over the tree is over, every file the parsed jigdos need
\* is there or accounted for, and nothing else is there (mkjigsnap:280-402).
THEOREM AlwaysAccounted == Spec => []Accounted
<1>1. IInv => Accounted
  BY DEF IInv, ListInv, AccountInv, Linked, Accounted
<1> QED
  BY <1>1, SpecIInv, PTL

\* Only delete_redundant takes files away, and never one that a jigdo of the run
\* needs, unless a jigdo was cut short or -d ends in a slash (mkjigsnap:196-216).
THEOREM NeededAlwaysKept == Spec => NeededKept
<1> DEFINE Kept == \A f \in DOMAIN tree \ DOMAIN tree' :
                     f \in FilesOf(given) => cut \/ opt.slash
<1>1. ASSUME IInv, NEW f \in File, delete_redundant(f)
      PROVE  Kept
  <2>1. pc = "scan" /\ (FoundInList(f) \/ opt.dryrun => tree' = tree)
    BY <1>1 DEF delete_redundant
  <2>2. DOMAIN tree \ DOMAIN tree' \subseteq {f}
    BY <1>1 DEF delete_redundant
  <2>3. CASE f \in FilesOf(given) /\ ~cut /\ ~opt.slash
    <3>1. f \in file_list
      BY <1>1, <2>1, <2>3 DEF IInv, ReadInv, ListInv, Linked
    <3> QED
      BY <2>1, <2>3, <3>1 DEF FoundInList
  <2> QED
    BY <2>2, <2>3
<1>2. ASSUME [Next]_vars, ~(\E f \in File : delete_redundant(f))
      PROVE  DOMAIN tree \subseteq DOMAIN tree'
  <2>1. ASSUME Linking
        PROVE  DOMAIN tree \subseteq DOMAIN tree'
    <3>1. ASSUME NEW f \in File, Link(f) \/ LinkLater(f)
          PROVE  DOMAIN tree \subseteq DOMAIN tree'
      <4>1. DOMAIN tree' = DOMAIN tree \cup {f}
        BY <3>1, ExtendDomain DEF Link, LinkLater
      <4> QED
        BY <4>1
    <3>2. ASSUME NEW f \in File, Present(f) \/ DryLink(f) \/ NotLinked(f)
          PROVE  tree' = tree
      BY <3>2 DEF Present, DryLink, NotLinked
    <3>3. ASSUME LinkDone \/ OpenLog \/ OpenLogFails \/ WriteLog \/ Scanned
          PROVE  tree' = tree
      BY <3>3 DEF LinkDone, OpenLog, OpenLogFails, WriteLog, Scanned, diskVars
    <3> QED
      BY <1>2, <2>1, <3>1, <3>2, <3>3 DEF Linking
  <2>2. ASSUME Start \/ ReadJigdo \/ Parsed \/ Abort \/ Setup
        PROVE  tree' = tree
    BY <2>2 DEF Start, ReadJigdo, Parsed, Abort, Setup, diskVars
  <2>3. ASSUME NEW file, Publish(file) \/ PublishFails(file) \/ PublishCut
        PROVE  tree' = tree
    BY <2>3 DEF Publish, PublishFails, PublishCut
  <2>4. ASSUME Crash \/ Update \/ Edit \/ UNCHANGED vars
        PROVE  tree' = tree
    BY <2>4 DEF Crash, Update, Edit, vars, diskVars
  <2> QED
    BY <1>2, <2>1, <2>2, <2>3, <2>4 DEF Next, Process
<1>3. IInv /\ [Next]_vars => [Kept]_vars
  BY <1>1, <1>2
<1> QED
  BY <1>3, SpecIInv, PTL DEF Spec, NeededKept

\* In single-jigdo mode the .conf is the last file, and it is written only over
\* a .template and a snapshot that are complete, and over a complete .jigdo unless
\* the copy of it was cut short in this run, unnoticed (mkjigsnap:528-552).
THEOREM ConfAlwaysLast == Spec => ConfLast
<1> DEFINE Last ==
      pc = "conf" /\ pc' = "idle" /\ "conf" \in published' /\ faults' = faults =>
        /\ "template" \in published'
        /\ "jigdo" \in published' \/ copy_cut
        /\ ~opt.slash => DOMAIN ref \ DOMAIN tree \subseteq failed_files \cup ignored_fails
<1>1. ASSUME IInv, [Next]_vars, pc = "conf"
      PROVE  published \ {"conf"} \subseteq published'
  <2>1. ASSUME Linking
        PROVE  FALSE
    BY <1>1, <2>1 DEF Linking, Present, Link, LinkLater, DryLink, NotLinked, AtFile,
       LinkDone, OpenLog, OpenLogFails, WriteLog, delete_redundant, Scanned
  <2>2. ASSUME Start \/ ReadJigdo \/ Parsed \/ Abort \/ Setup
        PROVE  FALSE
    BY <1>1, <2>2 DEF Start, ReadJigdo, Parsed, Abort, Setup
  <2>3. ASSUME NEW file, Publish(file)
        PROVE  published \subseteq published'
    BY <2>3 DEF Publish
  <2>4. ASSUME NEW file, PublishFails(file)
        PROVE  published \ {"conf"} \subseteq published'
    BY <1>1, <2>4 DEF PublishFails
  <2>5. ASSUME Crash \/ PublishCut
        PROVE  published \ {"conf"} \subseteq published'
    BY <1>1, <2>5 DEF Crash, PublishCut
  <2>6. ASSUME Update \/ Edit \/ UNCHANGED vars
        PROVE  published' = published
    BY <2>6 DEF Update, Edit, vars, diskVars
  <2> QED
    BY <1>1, <2>1, <2>2, <2>3, <2>4, <2>5, <2>6 DEF Next, Process
<1>2. ASSUME IInv, pc = "conf"
      PROVE  /\ "template" \in published
             /\ "jigdo" \in published \/ copy_cut
             /\ ~opt.slash => DOMAIN ref \ DOMAIN tree \subseteq failed_files \cup ignored_fails
  BY <1>2 DEF IInv, ListInv, AccountInv, PublishInv, Linked, Publishing
<1>3. IInv /\ [Next]_vars => [Last]_vars
  BY <1>1, <1>2
<1> QED
  BY <1>3, SpecIInv, PTL DEF Spec, ConfLast
-----------------------------------------------------------------------------
(* Who needs a file: jigdo_backref and the -f file. *)

Need(f) == {j \in given : f \in FilesOf({j})}

\* jigdo_backref names only jigdos that need the file, and all that were read
\* so far unless one was cut short; the -f file is a copy of it.
BackInv ==
  /\ DOMAIN jigdo_backref = DOMAIN ref
  /\ pc = "idle" => DOMAIN ref = {}
  /\ \A f \in DOMAIN ref : jigdo_backref[f] \subseteq Need(f)
  /\ ~cut => \A f \in File : Need(f) \subseteq Backref(f) \cup jigdos
  /\ pc \notin {"idle", "parse"} => jigdos = {}
  /\ pc = "scan" /\ opt.log /\ failed_files # {} =>
       faillog = [f \in failed_files |-> IF opt.backref THEN jigdo_backref[f] ELSE {}]

\* It holds before the first run.
LEMMA InitBack == Init => BackInv
BY DEF Init, BackInv, Need, Empty, Backref

\* It holds when a run is over.
LEMMA EndBack ==
  ASSUME End
  PROVE  BackInv'
BY DEF End, BackInv, Need, Empty, Backref

\* A step after the parsing keeps it, if it does not spoil the -f file.
LEMMA SameListsBack ==
  ASSUME BackInv, UNCHANGED <<listVars, opt>>,
         pc \notin {"idle", "parse"}, pc' \notin {"idle", "parse"},
         pc' = "scan" /\ opt.log /\ failed_files' # {} =>
           faillog' = [f \in failed_files' |->
                         IF opt.backref THEN jigdo_backref[f] ELSE {}]
  PROVE  BackInv'
BY DEF BackInv, listVars, Need, Backref

\* The first of the jigdos that are left is one of them.
LEMMA LeastJigdo ==
  ASSUME ConstantsAssumption, IInv, jigdos # {}
  PROVE  Least(jigdos) \in jigdos
<1>1. jigdos \subseteq Nat
  BY DEF IInv, ReadInv, ConstantsAssumption
<1>2. \E j \in jigdos : \A k \in jigdos : j <= k
  BY <1>1, LeastMember
<1> QED
  BY <1>2 DEF Least

\* Only files that the jigdo needs are in what arrives of it.
LEMMA ReadPart ==
  ASSUME ConstantsAssumption, NEW j \in DOMAIN Jigdo, NEW n \in 0..Len(Jigdo[j])
  PROVE  Files(SubSeq(Jigdo[j], 1, n)) \subseteq FilesOf({j})
<1> DEFINE lines == SubSeq(Jigdo[j], 1, n)
<1>1. Jigdo[j] \in Seq(Entry)
  BY DEF ConstantsAssumption
<1>2. Len(lines) = n /\ \A k \in 1..n : lines[k] = Jigdo[j][k] /\ k \in 1..Len(Jigdo[j])
  BY <1>1
<1> QED
  BY <1>2 DEF FilesOf, Files, Refs

\* Reading a jigdo notes it with the files it needs.
LEMMA ReadJigdoBack ==
  ASSUME ConstantsAssumption, IInv, BackInv, ReadJigdo
  PROVE  BackInv'
<1> DEFINE j == Least(jigdos)
<1>1. PICK n \in 0..Len(Jigdo[j]) :
        /\ IF n = Len(Jigdo[j]) THEN cut' = cut ELSE cut' = TRUE
        /\ ref' = AddLines(SubSeq(Jigdo[j], 1, n))
        /\ jigdo_backref' = Backrefs(j, SubSeq(Jigdo[j], 1, n))
        /\ jigdos' = jigdos \ {j}
  BY DEF ReadJigdo
<1> DEFINE lines == SubSeq(Jigdo[j], 1, n)
<1>2. pc = "parse" /\ pc' = "parse" /\ given' = given /\ jigdos # {}
  BY DEF ReadJigdo
<1>3. j \in jigdos /\ j \in given /\ j \in DOMAIN Jigdo
  BY <1>2, LeastJigdo DEF IInv, ReadInv
<1>4. Files(lines) \subseteq FilesOf({j})
  BY <1>3, ReadPart
<1> HIDE DEF j
<1>5. /\ DOMAIN ref' = DOMAIN ref \cup Files(lines)
      /\ DOMAIN jigdo_backref' = DOMAIN ref \cup Files(lines)
      /\ \A f \in DOMAIN ref \cup Files(lines) :
           jigdo_backref'[f] = Backref(f) \cup (IF f \in Files(lines) THEN {j} ELSE {})
  BY <1>1 DEF AddLines, Backrefs
<1>6. \A f \in DOMAIN ref' : jigdo_backref'[f] \subseteq Need(f)'
  <2>1. ASSUME NEW f \in DOMAIN ref'
        PROVE  jigdo_backref'[f] \subseteq Need(f)'
    <3>1. Need(f)' = Need(f)
      BY <1>2 DEF Need
    <3>2. Backref(f) \subseteq Need(f)
      BY DEF BackInv, Backref
    <3>3. f \in Files(lines) => j \in Need(f)
      BY <1>3, <1>4 DEF Need
    <3> QED
      BY <1>5, <2>1, <3>1, <3>2, <3>3
  <2> QED
    BY <2>1
<1>7. ASSUME ~cut', NEW f \in File
      PROVE  Need(f)' \subseteq Backref(f)' \cup jigdos'
  <2>1. n = Len(Jigdo[j]) /\ ~cut
    BY <1>1, <1>7
  <2>2. FilesOf({j}) \subseteq Files(lines)
    BY <1>3, <2>1, ReadToEnd
  <2>3. Need(f)' = Need(f) /\ Need(f) \subseteq Backref(f) \cup jigdos
    BY <1>2, <1>7, <2>1 DEF BackInv, Need
  <2>4. j \in Need(f) => f \in Files(lines)
    BY <2>2 DEF Need
  <2>5. Backref(f) \subseteq Backref(f)'
    BY <1>5 DEF BackInv, Backref
  <2>6. f \in Files(lines) => j \in Backref(f)'
    BY <1>5 DEF Backref
  <2> QED
    BY <1>1, <2>3, <2>4, <2>5, <2>6
<1> QED
  BY <1>2, <1>5, <1>6, <1>7 DEF BackInv

\* One more step keeps what is known of jigdo_backref and the -f file.
LEMMA NextBack ==
  ASSUME ConstantsAssumption, IInv, BackInv, [Next]_vars
  PROVE  BackInv'
<1>1. ASSUME Start
      PROVE  BackInv'
  <2>1. /\ pc = "idle" /\ pc' = "parse" /\ jigdos' = given'
        /\ UNCHANGED <<ref, jigdo_backref>>
    BY <1>1 DEF Start
  <2>2. DOMAIN ref = {}
    BY <2>1 DEF BackInv
  <2> QED
    BY <2>1, <2>2 DEF BackInv, Need
<1>2. ASSUME Parsed
      PROVE  BackInv'
  <2>1. pc = "parse" /\ pc' = "setup" /\ jigdos = {} /\ UNCHANGED <<listVars, opt>>
    BY <1>2 DEF Parsed
  <2> QED
    BY <2>1 DEF BackInv, listVars, Need, Backref
<1>3. ASSUME Abort \/ OpenLogFails \/ Crash
      PROVE  BackInv'
  BY <1>3, EndBack DEF Abort, OpenLogFails, Crash
<1>4. ASSUME Setup
      PROVE  BackInv'
  BY <1>4, SameListsBack DEF Setup
<1>5. ASSUME NEW f, AtFile(f)
      PROVE  BackInv'
  BY <1>5, SameListsBack DEF AtFile
<1>6. ASSUME LinkDone
      PROVE  BackInv'
  BY <1>6, SameListsBack DEF LinkDone, linkVars
<1>7. ASSUME OpenLog \/ WriteLog
      PROVE  BackInv'
  BY <1>7, SameListsBack DEF OpenLog, WriteLog, linkVars
<1>8. ASSUME NEW f, delete_redundant(f)
      PROVE  BackInv'
  <2>1. /\ pc = "scan" /\ pc' = "scan"
        /\ UNCHANGED <<listVars, opt, failed_files, faillog, jigdo_backref>>
    BY <1>8 DEF delete_redundant, listVars, linkVars
  <2> QED
    BY <2>1, SameListsBack DEF BackInv
<1>9. ASSUME Scanned
      PROVE  BackInv'
  <2>1. End \/ (pc = "scan" /\ pc' = "jigdo" /\ UNCHANGED <<listVars, opt>>)
    BY <1>9 DEF Scanned
  <2> QED
    BY <2>1, EndBack, SameListsBack
<1>10. ASSUME NEW file \in Publishing, Publish(file) \/ PublishFails(file)
       PROVE  BackInv'
  <2>1. \/ End
        \/ /\ pc \in Publishing /\ pc' \in {"template", "conf"}
           /\ UNCHANGED <<listVars, opt>>
    BY <1>10 DEF Publish, PublishFails, Publishing, Next3
  <2> QED
    BY <2>1, EndBack, SameListsBack DEF Publishing
<1>11. ASSUME Update \/ Edit \/ UNCHANGED vars
       PROVE  BackInv'
  <2>1. UNCHANGED <<listVars, opt, pc, failed_files, faillog>>
    BY <1>11 DEF Update, Edit, vars, linkVars, diskVars
  <2> QED
    BY <2>1 DEF BackInv, listVars, Need, Backref
<1>12. ASSUME Linking
       PROVE  BackInv'
  <2>1. ASSUME NEW f \in File,
               Present(f) \/ Link(f) \/ LinkLater(f) \/ DryLink(f) \/ NotLinked(f)
        PROVE  AtFile(f)
    BY <2>1 DEF Present, Link, LinkLater, DryLink, NotLinked
  <2> QED
    BY <1>3, <1>5, <1>6, <1>7, <1>8, <1>9, <1>12, <2>1 DEF Linking
<1>13. ASSUME PublishCut
       PROVE  BackInv'
  <2>1. /\ pc = "jigdo" /\ pc' = "template"
        /\ UNCHANGED <<jigdos, ref, jigdo_backref, given, cut, opt>>
    BY <1>13 DEF PublishCut
  <2> QED
    BY <2>1 DEF BackInv, Need, Backref
<1> QED
  BY <1>1, <1>2, <1>3, <1>4, <1>10, <1>11, <1>12, <1>13, ReadJigdoBack
  DEF Next, Process, Publishing

\* In every run, however many there are, BackInv holds.
THEOREM SpecBack == Spec => []BackInv
<1>1. Init => BackInv
  BY InitBack
<1>2. IInv /\ BackInv /\ [Next]_vars => BackInv'
  BY ConstantsAssumption, NextBack
<1> QED
  BY <1>1, <1>2, SpecIInv, PTL DEF Spec

\* With -b, the -f file names with a missing file the jigdos of the run that need
\* it and no others, all of them unless one was cut short (mkjigsnap:376-395).
THEOREM BackrefsAlwaysRight == Spec => []BackrefRight
<1>1. IInv /\ BackInv => BackrefRight
  <2>1. ASSUME IInv, BackInv, pc = "scan", opt.log, opt.backref, failed_files # {},
               NEW f \in DOMAIN faillog
        PROVE  faillog[f] \subseteq Need(f) /\ (~cut => faillog[f] = Need(f))
    <3>1. f \in failed_files /\ faillog[f] = jigdo_backref[f] /\ jigdos = {}
      BY <2>1 DEF BackInv
    <3>2. f \in DOMAIN ref /\ f \in File
      BY <2>1, <3>1 DEF IInv, ListInv, ReadInv
    <3> QED
      BY <2>1, <3>1, <3>2 DEF BackInv, Backref
  <2> QED
    BY <2>1 DEF BackrefRight, Need
<1> QED
  BY <1>1, SpecIInv, SpecBack, PTL
-----------------------------------------------------------------------------
(* The files that -c reports. *)

Differs(f) == f \in DOMAIN tree /\ Wrong(f, tree[f])

\* Of the files that were dealt with, those reported are those that differ, but
\* for those that could not be read.
WrongInv ==
  /\ ck_failed_files \cup unsummed \subseteq file_list
  /\ ck_failed_files \cap unsummed = {}
  /\ pc \in {"link", "open", "log", "scan"} /\ opt.check /\ ~opt.slash =>
       \A f \in file_list : f \in ck_failed_files <=> Differs(f) /\ f \notin unsummed

\* It holds before the first run.
LEMMA InitWrong == Init => WrongInv
BY DEF Init, WrongInv

\* It holds when a run is over.
LEMMA EndWrong ==
  ASSUME End
  PROVE  WrongInv'
BY DEF End, WrongInv

\* It holds of a file that the loop over the files has just dealt with, and of
\* those before it, whose links are the same as before.
LEMMA FileWrong ==
  ASSUME IInv, WrongInv, NEW f, AtFile(f),
         DOMAIN tree' \subseteq DOMAIN tree \cup {f},
         \A g \in DOMAIN tree : g \in DOMAIN tree' /\ tree'[g] = tree[g],
         \/ Compared(f)
         \/ /\ unsummed' = unsummed \cup {f} /\ ck_failed_files' = ck_failed_files
         \/ /\ f \notin DOMAIN tree'
            /\ unsummed' = unsummed /\ ck_failed_files' = ck_failed_files
  PROVE  WrongInv'
<1>1. /\ pc = "link" /\ pc' = "link" /\ file_list' = file_list \cup {f}
      /\ ref' = ref /\ opt' = opt
  BY DEF AtFile, listVars
<1>2. f \notin file_list
  BY <1>1 DEF AtFile, IInv, ListInv
<1>3. \A g \in file_list : Differs(g)' <=> Differs(g)
  BY <1>1, <1>2 DEF Differs, Wrong
<1>4. Differs(f)' <=> f \in DOMAIN tree' /\ Wrong(f, tree'[f])
  BY <1>1 DEF Differs, Wrong
<1>5. f \notin ck_failed_files /\ f \notin unsummed
  BY <1>2 DEF WrongInv
<1>6. CASE Compared(f)
  <2>1. unsummed' = unsummed
    BY <1>6 DEF Compared
  <2>2. ck_failed_files' =
          ck_failed_files \cup (IF opt.check /\ Differs(f)' THEN {f} ELSE {})
    BY <1>4, <1>6 DEF Compared
  <2> QED
    BY <1>1, <1>2, <1>3, <1>5, <2>1, <2>2 DEF WrongInv
<1>7. CASE unsummed' = unsummed \cup {f} /\ ck_failed_files' = ck_failed_files
  BY <1>1, <1>2, <1>3, <1>5, <1>7 DEF WrongInv
<1>8. CASE /\ f \notin DOMAIN tree'
           /\ unsummed' = unsummed /\ ck_failed_files' = ck_failed_files
  BY <1>1, <1>2, <1>3, <1>4, <1>5, <1>8 DEF WrongInv
<1> QED
  BY <1>6, <1>7, <1>8

\* A link that is made leaves the others as they were.
LEMMA ExtendSame ==
  ASSUME NEW t, NEW f, NEW v, f \notin DOMAIN t
  PROVE  \A g \in DOMAIN t : g \in DOMAIN Extend(t, f, v) /\ Extend(t, f, v)[g] = t[g]
BY DEF Extend

\* The steps of generate_snapshot_tree keep it.
LEMMA LinkingWrong ==
  ASSUME IInv, WrongInv, Linking
  PROVE  WrongInv'
<1>1. ASSUME NEW f \in File, Present(f)
      PROVE  WrongInv'
  <2>1. AtFile(f) /\ tree' = tree
    BY <1>1 DEF Present
  <2>2. \/ Compared(f)
        \/ unsummed' = unsummed \cup {f} /\ ck_failed_files' = ck_failed_files
    BY <1>1 DEF Present, validate_checksum
  <2> QED
    BY <2>1, <2>2, FileWrong
<1>2. ASSUME NEW f \in File, Link(f) \/ LinkLater(f)
      PROVE  WrongInv'
  <2>1. AtFile(f) /\ f \notin DOMAIN tree
    BY <1>2 DEF Link, LinkLater
  <2>2. PICK v : tree' = Extend(tree, f, v)
    BY <1>2 DEF Link, LinkLater
  <2>3. \/ Compared(f)
        \/ unsummed' = unsummed \cup {f} /\ ck_failed_files' = ck_failed_files
    BY <1>2 DEF Link, LinkLater, validate_checksum
  <2>4. DOMAIN tree' \subseteq DOMAIN tree \cup {f}
    BY <2>2, ExtendDomain
  <2>5. \A g \in DOMAIN tree : g \in DOMAIN tree' /\ tree'[g] = tree[g]
    BY <2>1, <2>2, ExtendSame
  <2> QED
    BY <2>1, <2>3, <2>4, <2>5, FileWrong
<1>3. ASSUME NEW f \in File, DryLink(f) \/ NotLinked(f)
      PROVE  WrongInv'
  <2>1. /\ AtFile(f) /\ tree' = tree /\ f \notin DOMAIN tree
        /\ unsummed' = unsummed /\ ck_failed_files' = ck_failed_files
    BY <1>3 DEF DryLink, NotLinked
  <2> QED
    BY <2>1, FileWrong
<1>4. ASSUME LinkDone \/ OpenLog \/ WriteLog
      PROVE  WrongInv'
  <2>1. /\ pc \in {"link", "open", "log"}
        /\ UNCHANGED <<ref, linkVars, tree, opt>>
    BY <1>4 DEF LinkDone, OpenLog, WriteLog, listVars, diskVars
  <2> QED
    BY <2>1 DEF WrongInv, linkVars, Differs, Wrong
<1>5. ASSUME OpenLogFails
      PROVE  WrongInv'
  BY <1>5, EndWrong DEF OpenLogFails
<1>6. ASSUME NEW f \in File, delete_redundant(f)
      PROVE  WrongInv'
  <2>1. pc = "scan" /\ pc' = "scan" /\ UNCHANGED <<ref, linkVars, opt>>
    BY <1>6 DEF delete_redundant, listVars
  <2>2. ~opt.slash => \A g \in file_list : Differs(g)' <=> Differs(g)
    <3>1. CASE tree' = tree
      BY <2>1, <3>1 DEF Differs, Wrong
    <3>2. CASE tree' # tree
      <4>1. ~opt.slash => f \notin file_list
        BY <1>6, <3>2 DEF delete_redundant, FoundInList
      <4>2. tree' = [g \in DOMAIN tree \ {f} |-> tree[g]]
        BY <1>6, <3>2 DEF delete_redundant
      <4> QED
        BY <2>1, <4>1, <4>2 DEF Differs, Wrong
    <3> QED
      BY <3>1, <3>2
  <2> QED
    BY <2>1, <2>2 DEF WrongInv, linkVars
<1>7. ASSUME Scanned
      PROVE  WrongInv'
  <2>1. End \/ (pc' = "jigdo" /\ UNCHANGED linkVars)
    BY <1>7 DEF Scanned
  <2> QED
    BY <2>1, EndWrong DEF WrongInv, linkVars
<1> QED
  BY <1>1, <1>2, <1>3, <1>4, <1>5, <1>6, <1>7 DEF Linking

\* One more step keeps it.
LEMMA NextWrong ==
  ASSUME IInv, WrongInv, [Next]_vars
  PROVE  WrongInv'
<1>1. ASSUME Start \/ ReadJigdo \/ Parsed
      PROVE  WrongInv'
  <2>1. pc' \in {"parse", "setup"} /\ UNCHANGED linkVars
    BY <1>1 DEF Start, ReadJigdo, Parsed
  <2> QED
    BY <2>1 DEF WrongInv, linkVars
<1>2. ASSUME Abort \/ Crash
      PROVE  WrongInv'
  BY <1>2, EndWrong DEF Abort, Crash
<1>3. ASSUME Setup
      PROVE  WrongInv'
  <2>1. file_list = {} /\ UNCHANGED <<file_list, ck_failed_files, unsummed>>
    BY <1>3 DEF Setup, IInv, ListInv, Before
  <2> QED
    BY <2>1 DEF WrongInv
<1>4. ASSUME NEW file \in Publishing, Publish(file) \/ PublishFails(file) \/ PublishCut
      PROVE  WrongInv'
  <2>1. End \/ (pc' \in {"template", "conf"} /\ UNCHANGED linkVars)
    BY <1>4 DEF Publish, PublishFails, PublishCut, Publishing, Next3
  <2> QED
    BY <2>1, EndWrong DEF WrongInv, linkVars
<1>5. ASSUME Update \/ Edit \/ UNCHANGED vars
      PROVE  WrongInv'
  <2>1. UNCHANGED <<pc, ref, linkVars, tree, opt>>
    BY <1>5 DEF Update, Edit, vars, listVars, diskVars
  <2> QED
    BY <2>1 DEF WrongInv, linkVars, Differs, Wrong
<1> QED
  BY <1>1, <1>2, <1>3, <1>4, <1>5, LinkingWrong DEF Next, Process, Publishing

\* With -c, the files reported as wrong are those of the snapshot that differ
\* from a checksum a jigdo gives, whenever they were linked, but for those that
\* jigsum could not read (mkjigsnap:232-264, 356-371).
THEOREM WrongAlwaysReported == Spec => []WrongReported
<1>1. Init => WrongInv
  BY InitWrong
<1>2. IInv /\ WrongInv /\ [Next]_vars => WrongInv'
  BY NextWrong
<1>3. IInv /\ WrongInv => WrongReported
  <2>1. ASSUME IInv, WrongInv, pc \in {"open", "log", "scan"}, opt.check, ~opt.slash
        PROVE  ck_failed_files = {f \in DOMAIN tree \cap DOMAIN ref : Differs(f)} \ unsummed
    <3>1. file_list = DOMAIN ref
      BY <2>1 DEF IInv, ListInv, Linked
    <3> QED
      BY <2>1, <3>1 DEF WrongInv, Differs
  <2>2. \A f \in DOMAIN tree :
          Differs(f) <=> \E type \in DOMAIN ref[f] : ref[f][type] # tree[f]
    BY DEF Differs, Wrong
  <2>3. {f \in DOMAIN tree \cap DOMAIN ref : Differs(f)} =
        {f \in DOMAIN tree \cap DOMAIN ref :
           \E type \in DOMAIN ref[f] : ref[f][type] # tree[f]}
    BY <2>2
  <2> QED
    BY <2>1, <2>3 DEF WrongReported, WrongInv
<1> QED
  BY <1>1, <1>2, <1>3, SpecIInv, PTL DEF Spec
-----------------------------------------------------------------------------
(* Types, and what goes with them. *)

DiskOK ==
  /\ DOMAIN tree \subseteq File /\ \A f \in DOMAIN tree : tree[f] \in Content
  /\ made \in BOOLEAN /\ (~made => tree = Empty) /\ (pc \notin Before => made)
  /\ \A f \in DOMAIN faillog : faillog[f] \subseteq DOMAIN Jigdo
  /\ published \subseteq Publishing
WorldOK ==
  /\ pc \in Before \cup Linked \cup {"link"}
  /\ listing \in Listings /\ archive \in Archives /\ opt \in Options
  /\ faults \in 0..MaxFaults
SumsOK(f) ==
  /\ ref[f] = [type \in DOMAIN ref[f] |-> ref[f][type]]
  /\ DOMAIN ref[f] \subseteq Types /\ DOMAIN ref[f] # {}
  /\ \A type \in DOMAIN ref[f] : ref[f][type] \in Content
RefOK ==
  /\ cut \in BOOLEAN /\ copy_cut \in BOOLEAN /\ DOMAIN ref \subseteq FilesOf(given)
  /\ \A f \in DOMAIN ref : SumsOK(f) /\ jigdo_backref[f] # {}
MemoryOK ==
  /\ todo \subseteq File /\ ignored_fails \subseteq Ignore
  /\ failed_files \cap ignored_fails = {}

\* The content of a place that has the file is a content.
LEMMA AtContent ==
  ASSUME ConstantsAssumption, archive \in Archives, NEW f, NEW k \in Hits(f)
  PROVE  At(Places(f)[k]) \in Content
<1> DEFINE n == Len(Mirrors)
           m == (k + 1) \div 2
<1>1. Mirrors \in Seq(DOMAIN archive)
  BY DEF ConstantsAssumption
<1>2. n \in Nat /\ DOMAIN Mirrors = 1..n
  BY <1>1
<1>3. /\ Len(Places(f)) = 2 * n
      /\ \A i \in 1..2 * n : Places(f)[i].mirror = Mirrors[(i + 1) \div 2]
  BY <1>2 DEF Places
<1>4. k \in 1..2 * n /\ Holds(Places(f)[k])
  BY <1>3 DEF Hits
<1>5. m \in 1..n
  <2> HIDE DEF n
  <2> QED
    BY <1>2, <1>4
<1>6. Mirrors[m] \in DOMAIN archive
  BY <1>1, <1>5
<1>7. Places(f)[k].mirror = Mirrors[m]
  BY <1>3, <1>4
<1>8. Places(f)[k].path \in DOMAIN archive[Mirrors[m]]
  BY <1>4, <1>7 DEF Holds
<1> HIDE DEF m
<1>9. archive[Mirrors[m]][Places(f)[k].path] \in Content
  BY <1>6, <1>8 DEF ConstantsAssumption
<1> QED
  BY <1>7, <1>9 DEF At

\* If a place has the file, there is a first one.
LEMMA FirstHit ==
  ASSUME NEW f, Hits(f) # {}
  PROVE  Least(Hits(f)) \in Hits(f)
<1>1. Hits(f) \in SUBSET Nat
  BY DEF Hits
<1>2. \E k \in Hits(f) : \A i \in Hits(f) : k <= i
  BY <1>1, LeastMember
<1> QED
  BY <1>2 DEF Least

\* The first checksum of a type that the lines give for a file.
LEMMA FirstSumContent ==
  ASSUME ConstantsAssumption, NEW lines \in Seq(Entry), NEW f, NEW n \in Refs(lines, f)
  PROVE  FirstSum(lines, f, lines[n].type) \in Content /\ lines[n].type \in Types
<1> DEFINE S == {i \in Refs(lines, f) : lines[i].type = lines[n].type}
<1>1. \A i \in 1..Len(lines) : lines[i].sum \in Content /\ lines[i].type \in Types
  <2>1. \A i \in 1..Len(lines) : lines[i] \in Entry
    OBVIOUS
  <2> QED
    BY <2>1 DEF Entry
<1>2. Refs(lines, f) \subseteq 1..Len(lines)
  BY DEF Refs
<1>3. S \in SUBSET Nat /\ S # {}
  BY <1>2
<1>4. \E k \in S : \A i \in S : k <= i
  BY <1>3, LeastMember
<1>5. Least(S) \in S
  <2> HIDE DEF S
  <2> QED
    BY <1>4 DEF Least
<1>6. Least(S) \in 1..Len(lines)
  BY <1>2, <1>5
<1>7. FirstSum(lines, f, lines[n].type) = lines[Least(S)].sum
  BY DEF FirstSum
<1> HIDE DEF S
<1> QED
  BY <1>1, <1>2, <1>6, <1>7

\* Reading a jigdo adds checksums of known types only.
LEMMA ReadJigdoRef ==
  ASSUME ConstantsAssumption, IInv, BackInv, RefOK, ReadJigdo
  PROVE  RefOK'
<1> DEFINE j == Least(jigdos)
<1>1. PICK n \in 0..Len(Jigdo[j]) :
        /\ IF n = Len(Jigdo[j]) THEN cut' = cut ELSE cut' = TRUE
        /\ ref' = AddLines(SubSeq(Jigdo[j], 1, n))
        /\ jigdo_backref' = Backrefs(j, SubSeq(Jigdo[j], 1, n))
  BY DEF ReadJigdo
<1> DEFINE lines == SubSeq(Jigdo[j], 1, n)
<1>2. given' = given /\ jigdos # {}
  BY DEF ReadJigdo
<1>3. j \in given /\ j \in DOMAIN Jigdo
  BY <1>2, LeastJigdo DEF IInv, ReadInv
<1>4. Files(lines) \subseteq FilesOf({j})
  BY <1>3, ReadPart
<1>5. lines \in Seq(Entry)
  <2>1. Jigdo[j] \in Seq(Entry)
    BY <1>3 DEF ConstantsAssumption
  <2> QED
    BY <2>1
<1> HIDE DEF j, lines
<1>6. /\ DOMAIN ref' = DOMAIN ref \cup Files(lines)
      /\ \A f \in DOMAIN ref' : jigdo_backref'[f] # {}
  <2>1. /\ DOMAIN ref' = DOMAIN ref \cup Files(lines)
        /\ \A f \in DOMAIN ref \cup Files(lines) :
             jigdo_backref'[f] = Backref(f) \cup (IF f \in Files(lines) THEN {j} ELSE {})
    BY <1>1 DEF AddLines, Backrefs, lines, j
  <2>2. \A f \in DOMAIN ref : Backref(f) # {}
    BY DEF BackInv, RefOK, Backref
  <2> QED
    BY <2>1, <2>2
<1>7. DOMAIN ref' \subseteq FilesOf(given)
  <2>1. FilesOf({j}) \subseteq FilesOf(given)
    BY <1>3 DEF FilesOf
  <2> QED
    BY <1>4, <1>6, <2>1 DEF RefOK
<1>8. ASSUME NEW f \in DOMAIN ref'
      PROVE  SumsOK(f)'
  <2> DEFINE new == {lines[i].type : i \in Refs(lines, f)}
  <2>1. ref'[f] = [type \in DOMAIN Sums(f) \cup new |->
                     IF type \in DOMAIN Sums(f) THEN Sums(f)[type]
                                                ELSE FirstSum(lines, f, type)]
    BY <1>1, <1>6, <1>8 DEF AddLines, lines, j
  <2>2. \A type \in new : type \in Types /\ FirstSum(lines, f, type) \in Content
    BY <1>5, FirstSumContent
  <2>3. /\ DOMAIN Sums(f) \subseteq Types
        /\ \A type \in DOMAIN Sums(f) : Sums(f)[type] \in Content
    BY DEF Sums, RefOK, SumsOK, Empty
  <2>4. DOMAIN Sums(f) \cup new # {}
    <3>1. f \in Files(lines) => new # {}
      BY DEF Files
    <3>2. f \in DOMAIN ref => DOMAIN Sums(f) # {}
      BY DEF Sums, RefOK, SumsOK
    <3> QED
      BY <1>6, <1>8, <3>1, <3>2
  <2> HIDE DEF new
  <2> QED
    BY <2>1, <2>2, <2>3, <2>4 DEF SumsOK
<1>9. cut' \in BOOLEAN /\ copy_cut' \in BOOLEAN
  BY <1>1 DEF RefOK, ReadJigdo
<1> QED
  BY <1>2, <1>6, <1>7, <1>8, <1>9 DEF RefOK

\* The checksums and jigdos of the files stay of their types.
LEMMA NextRef ==
  ASSUME ConstantsAssumption, IInv, BackInv, RefOK, [Next]_vars
  PROVE  RefOK'
<1>1. ASSUME End
      PROVE  RefOK'
  BY <1>1 DEF End, RefOK, Empty
<1>2. ASSUME UNCHANGED listVars
      PROVE  RefOK'
  BY <1>2 DEF listVars, RefOK, SumsOK
<1>3. ASSUME Start
      PROVE  RefOK'
  <2>1. UNCHANGED <<ref, jigdo_backref, cut, copy_cut>> /\ DOMAIN ref = {}
    BY <1>3 DEF Start, BackInv
  <2> QED
    BY <2>1 DEF RefOK
<1>4. ASSUME Linking
      PROVE  End \/ UNCHANGED listVars
  BY <1>4 DEF Linking, Present, Link, LinkLater, DryLink, NotLinked, AtFile, LinkDone,
     OpenLog, OpenLogFails, WriteLog, delete_redundant, Scanned
<1>5. ASSUME Parsed \/ Abort \/ Setup \/ Crash \/ Update \/ Edit \/ UNCHANGED vars
      PROVE  End \/ UNCHANGED listVars
  BY <1>5 DEF Parsed, Abort, Setup, Crash, Update, Edit, vars
<1>6. ASSUME NEW file, Publish(file) \/ PublishFails(file)
      PROVE  End \/ UNCHANGED listVars
  BY <1>6 DEF Publish, PublishFails
<1>7. ASSUME PublishCut
      PROVE  RefOK'
  BY <1>7 DEF PublishCut, RefOK, SumsOK
<1> QED
  BY <1>1, <1>2, <1>3, <1>4, <1>5, <1>6, <1>7, ReadJigdoRef DEF Next, Process

\* What a file of the -f file says is a set of jigdos.
LEMMA LogTyped ==
  ASSUME IInv, BackInv, WriteLog
  PROVE  \A f \in DOMAIN faillog' : faillog'[f] \subseteq DOMAIN Jigdo
<1>1. faillog' = [f \in failed_files |-> IF opt.backref THEN jigdo_backref[f] ELSE {}]
  BY DEF WriteLog
<1>2. failed_files \subseteq DOMAIN ref
  BY DEF IInv, ListInv
<1>3. \A f \in DOMAIN ref : jigdo_backref[f] \subseteq DOMAIN Jigdo
  BY DEF BackInv, Need, IInv, ReadInv
<1> QED
  BY <1>1, <1>2, <1>3

\* A link that is made keeps what is on the disk of its type.
LEMMA ExtendDisk ==
  ASSUME DiskOK, NEW f \in File, NEW v \in Content, tree' = Extend(tree, f, v),
         pc = "link", pc' = "link", UNCHANGED <<made, faillog, published>>
  PROVE  DiskOK'
BY DEF DiskOK, Extend, Before

\* What is on the disk stays of its type.
LEMMA NextDisk ==
  ASSUME ConstantsAssumption, IInv, BackInv, WorldOK, DiskOK, [Next]_vars
  PROVE  DiskOK'
<1>1. ASSUME tree' = tree, faillog' = faillog, published' \subseteq Publishing, made' = made,
             pc' \in Before \/ pc \notin Before
      PROVE  DiskOK'
  BY <1>1 DEF DiskOK
<1>2. ASSUME Start \/ ReadJigdo \/ Parsed
      PROVE  DiskOK'
  <2>1. pc' \in Before /\ UNCHANGED diskVars
    BY <1>2 DEF Start, ReadJigdo, Parsed, Before
  <2> QED
    BY <1>1, <2>1 DEF diskVars, DiskOK
<1>3. ASSUME Abort \/ OpenLogFails \/ Crash
      PROVE  DiskOK'
  <2>1. /\ pc' = "idle" /\ UNCHANGED <<tree, faillog, made>>
        /\ published' \subseteq published
    BY <1>3 DEF Abort, OpenLogFails, Crash, End, diskVars
  <2> QED
    BY <1>1, <2>1 DEF Before, DiskOK
<1>4. ASSUME Setup
      PROVE  DiskOK'
  BY <1>4 DEF Setup, mkdirs, DiskOK
<1>5. ASSUME NEW f \in File, Link(f) \/ LinkLater(f)
      PROVE  DiskOK'
  <2>1. pc = "link" /\ pc' = "link" /\ UNCHANGED <<made, faillog, published>>
    BY <1>5 DEF Link, LinkLater, AtFile
  <2>2. PICK k \in Hits(f) : tree' = Extend(tree, f, At(Places(f)[k]))
    BY <1>5, FirstHit DEF Link, LinkLater
  <2>3. At(Places(f)[k]) \in Content
    BY AtContent DEF WorldOK
  <2> HIDE DEF Extend
  <2> QED
    BY <2>1, <2>2, <2>3, ExtendDisk
<1>6. ASSUME NEW f \in File, Present(f) \/ DryLink(f) \/ NotLinked(f)
      PROVE  DiskOK'
  <2>1. /\ pc = "link" /\ pc' = "link" /\ tree' = tree
        /\ UNCHANGED <<made, faillog, published>>
    BY <1>6 DEF Present, DryLink, NotLinked, AtFile
  <2> QED
    BY <1>1, <2>1 DEF DiskOK, Before
<1>7. ASSUME LinkDone \/ Scanned
      PROVE  DiskOK'
  <2>1. pc \in {"link", "scan"} /\ UNCHANGED diskVars
    BY <1>7 DEF LinkDone, Scanned
  <2> QED
    BY <1>1, <2>1 DEF diskVars, DiskOK, Before
<1>8. ASSUME OpenLog \/ WriteLog
      PROVE  DiskOK'
  <2>1. /\ pc \in {"open", "log"} /\ UNCHANGED <<tree, made, published>>
    BY <1>8 DEF OpenLog, WriteLog
  <2>2. \A f \in DOMAIN faillog' : faillog'[f] \subseteq DOMAIN Jigdo
    BY <1>8, LogTyped DEF OpenLog, Empty
  <2> QED
    BY <2>1, <2>2 DEF DiskOK, Before
<1>9. ASSUME NEW f \in File, delete_redundant(f)
      PROVE  DiskOK'
  <2>1. pc = "scan" /\ pc' = "scan" /\ UNCHANGED <<made, faillog, published>>
    BY <1>9 DEF delete_redundant
  <2>2. tree' = tree \/ tree' = [g \in DOMAIN tree \ {f} |-> tree[g]]
    BY <1>9 DEF delete_redundant
  <2> QED
    BY <2>1, <2>2 DEF DiskOK, Before
<1>10. ASSUME NEW file \in Publishing, Publish(file) \/ PublishFails(file) \/ PublishCut
       PROVE  DiskOK'
  <2>1. /\ pc \in Publishing /\ UNCHANGED <<tree, made, faillog>>
        /\ published' \subseteq published \cup {file}
    BY <1>10 DEF Publish, PublishFails, PublishCut, Publishing
  <2> QED
    BY <1>1, <2>1 DEF DiskOK, Publishing, Before
<1>11. ASSUME Update \/ Edit \/ UNCHANGED vars
       PROVE  DiskOK'
  <2>1. pc' = pc /\ UNCHANGED diskVars
    BY <1>11 DEF Update, Edit, vars
  <2> QED
    BY <1>1, <2>1 DEF diskVars, DiskOK
<1> QED
  BY <1>2, <1>3, <1>4, <1>5, <1>6, <1>7, <1>8, <1>9, <1>10, <1>11
  DEF Next, Process, Linking, Publishing

\* A fault counts one, up to the bound.
LEMMA FaultBound ==
  ASSUME ConstantsAssumption, WorldOK, NoFault \/ Fault
  PROVE  faults' \in 0..MaxFaults
BY DEF ConstantsAssumption, WorldOK, NoFault, Fault

\* The command line, the lists and the mirrors stay among those there may be.
LEMMA NextWorld ==
  ASSUME ConstantsAssumption, WorldOK, [Next]_vars
  PROVE  WorldOK'
<1>1. ASSUME UNCHANGED <<envVars, opt>>, NoFault \/ Fault,
             pc' \in Before \cup Linked \cup {"link"}
      PROVE  WorldOK'
  BY <1>1, FaultBound DEF WorldOK, envVars
<1>2. ASSUME Start \/ ReadJigdo \/ Parsed \/ Abort \/ Setup
      PROVE  /\ UNCHANGED <<envVars, opt>> /\ (NoFault \/ Fault)
             /\ pc' \in Before \cup Linked \cup {"link"}
  BY <1>2 DEF Start, ReadJigdo, Parsed, Abort, Setup, parse_ignore_file, End, Before
<1>3. ASSUME Linking
      PROVE  /\ UNCHANGED <<envVars, opt>> /\ (NoFault \/ Fault)
             /\ pc' \in Before \cup Linked \cup {"link"}
  <2>1. ASSUME NEW f \in File,
               Present(f) \/ Link(f) \/ LinkLater(f) \/ DryLink(f) \/ NotLinked(f)
        PROVE  AtFile(f) /\ (NoFault \/ Fault)
    BY <2>1 DEF Present, Link, LinkLater, DryLink, NotLinked, validate_checksum
  <2>2. ASSUME NEW f \in File, AtFile(f)
        PROVE  UNCHANGED <<envVars, opt>> /\ pc' = "link"
    BY <2>2 DEF AtFile
  <2>3. ASSUME LinkDone \/ OpenLog \/ OpenLogFails \/ WriteLog \/ Scanned
        PROVE  /\ UNCHANGED <<envVars, opt>> /\ (NoFault \/ Fault)
               /\ pc' \in Before \cup Linked \cup {"link"}
    BY <2>3 DEF LinkDone, OpenLog, OpenLogFails, WriteLog, Scanned, End, Before, Linked
  <2>4. ASSUME NEW f \in File, delete_redundant(f)
        PROVE  /\ UNCHANGED <<envVars, opt>> /\ (NoFault \/ Fault)
               /\ pc' \in Before \cup Linked \cup {"link"}
    BY <2>4 DEF delete_redundant, Linked
  <2> QED
    BY <1>3, <2>1, <2>2, <2>3, <2>4 DEF Linking
<1>4. ASSUME NEW file \in Publishing, Publish(file) \/ PublishFails(file) \/ PublishCut
      PROVE  /\ UNCHANGED <<envVars, opt>> /\ (NoFault \/ Fault)
             /\ pc' \in Before \cup Linked \cup {"link"}
  BY <1>4 DEF Publish, PublishFails, PublishCut, Publishing, Next3, End, Before, Linked
<1>5. ASSUME Crash
      PROVE  /\ UNCHANGED <<envVars, opt>> /\ (NoFault \/ Fault)
             /\ pc' \in Before \cup Linked \cup {"link"}
  BY <1>5 DEF Crash, End, Before
<1>6. ASSUME Update \/ Edit
      PROVE  WorldOK'
  <2>1. /\ pc' = pc /\ opt' = opt /\ Fault
        /\ listing' \in Listings /\ archive' \in Archives
    BY <1>6 DEF Update, Edit, WorldOK
  <2> QED
    BY <2>1, FaultBound DEF WorldOK
<1>7. ASSUME UNCHANGED vars
      PROVE  WorldOK'
  BY <1>7 DEF vars, envVars, WorldOK
<1> QED
  BY <1>1, <1>2, <1>3, <1>4, <1>5, <1>6, <1>7 DEF Next, Process, Publishing

\* What the program holds in memory beside the lists stays of its type.
LEMMA NextMemory ==
  ASSUME ConstantsAssumption, IInv, DiskOK, MemoryOK, [Next]_vars
  PROVE  MemoryOK'
<1>1. ASSUME End
      PROVE  MemoryOK'
  BY <1>1 DEF End, MemoryOK
<1>2. ASSUME UNCHANGED <<todo, linkVars>>
      PROVE  MemoryOK'
  BY <1>2 DEF MemoryOK, linkVars
<1>3. ASSUME Setup
      PROVE  MemoryOK'
  <2>1. /\ failed_files = {} /\ failed_files' = failed_files
        /\ todo' = DOMAIN ref /\ DOMAIN ref \subseteq File
        /\ ignored_fails' \subseteq Ignore
    BY <1>3 DEF Setup, parse_ignore_file, IInv, ListInv, ReadInv, Before
  <2> QED
    BY <2>1 DEF MemoryOK
<1>4. ASSUME NEW f \in File,
             Present(f) \/ Link(f) \/ LinkLater(f) \/ DryLink(f) \/ NotLinked(f)
      PROVE  MemoryOK'
  <2>1. todo' = todo \ {f} /\ ignored_fails' = ignored_fails
    BY <1>4 DEF Present, Link, LinkLater, DryLink, NotLinked, AtFile
  <2>2. failed_files' \subseteq failed_files \cup ({f} \ ignored_fails)
    BY <1>4 DEF Present, Link, LinkLater, DryLink, NotLinked
  <2> QED
    BY <2>1, <2>2 DEF MemoryOK
<1>5. ASSUME LinkDone \/ WriteLog
      PROVE  MemoryOK'
  <2>1. todo' \in {todo, DOMAIN tree} /\ UNCHANGED linkVars
    BY <1>5 DEF LinkDone, WriteLog
  <2> QED
    BY <2>1 DEF MemoryOK, linkVars, DiskOK
<1>6. ASSUME NEW f \in File, delete_redundant(f)
      PROVE  MemoryOK'
  BY <1>6 DEF delete_redundant, MemoryOK, linkVars
<1>7. ASSUME OpenLog \/ OpenLogFails \/ Scanned
      PROVE  End \/ UNCHANGED <<todo, linkVars>>
  BY <1>7 DEF OpenLog, OpenLogFails, Scanned
<1>8. ASSUME Start \/ ReadJigdo \/ Parsed \/ Abort \/ Crash \/ Update \/ Edit \/ UNCHANGED vars
      PROVE  End \/ UNCHANGED <<todo, linkVars>>
  BY <1>8 DEF Start, ReadJigdo, Parsed, Abort, Crash, Update, Edit, vars
<1>9. ASSUME NEW file, Publish(file) \/ PublishFails(file) \/ PublishCut
      PROVE  End \/ UNCHANGED <<todo, linkVars>>
  BY <1>9 DEF Publish, PublishFails, PublishCut
<1> QED
  BY <1>1, <1>2, <1>3, <1>4, <1>5, <1>6, <1>7, <1>8, <1>9 DEF Next, Process, Linking

\* All of it holds before the first run.
LEMMA InitTypes ==
  ASSUME ConstantsAssumption, Init
  PROVE  DiskOK /\ WorldOK /\ RefOK /\ MemoryOK
<1>1. tree \in Trees /\ made \in BOOLEAN /\ (~made => tree = Empty) /\ faillog = Empty
      /\ published = {} /\ pc = "idle"
  BY DEF Init
<1>2. DOMAIN tree \subseteq File /\ tree \in [DOMAIN tree -> Content]
  BY <1>1 DEF ConstantsAssumption
<1>3. DiskOK
  BY <1>1, <1>2 DEF DiskOK, Before, Empty
<1>4. WorldOK
  BY DEF Init, WorldOK, Before, ConstantsAssumption
<1>5. RefOK /\ MemoryOK
  BY DEF Init, RefOK, MemoryOK, Empty
<1> QED
  BY <1>3, <1>4, <1>5

\* Every variable has its type in every run, the memory is empty between runs,
\* and a snapshot that does not exist holds nothing.
THEOREM TypeCorrect == Spec => []TypeOK
<1> DEFINE Inv == DiskOK /\ WorldOK /\ RefOK /\ MemoryOK
<1>1. Init => Inv
  BY ConstantsAssumption, InitTypes
<1>2. IInv /\ BackInv /\ Inv /\ [Next]_vars => Inv'
  BY ConstantsAssumption, NextDisk, NextWorld, NextRef, NextMemory
<1>3. IInv /\ BackInv /\ WrongInv /\ Inv => TypeOK
  <2> SUFFICES ASSUME IInv, BackInv, WrongInv, Inv
               PROVE  TypeOK
    OBVIOUS
  <2>1. \A f \in DOMAIN ref : ref[f] \in UNION {[ts -> Content] : ts \in (SUBSET Types) \ {{}}}
    <3> TAKE f \in DOMAIN ref
    <3>1. SumsOK(f)
      BY DEF RefOK
    <3>2. ref[f] \in [DOMAIN ref[f] -> Content]
      <4>1. [type \in DOMAIN ref[f] |-> ref[f][type]] \in [DOMAIN ref[f] -> Content]
        BY <3>1 DEF SumsOK
      <4>2. ref[f] = [type \in DOMAIN ref[f] |-> ref[f][type]]
        BY <3>1 DEF SumsOK
      <4> QED
        BY <4>1, <4>2
    <3>3. DOMAIN ref[f] \in (SUBSET Types) \ {{}}
      BY <3>1 DEF SumsOK
    <3> QED
      BY <3>2, <3>3
  <2>2. \A f \in DOMAIN ref : jigdo_backref[f] # {} /\ jigdo_backref[f] \subseteq given
    BY DEF RefOK, BackInv, Need
  <2>3. pc \in {"idle", "parse", "setup", "link", "open", "log", "scan",
                "jigdo", "template", "conf"}
    BY DEF WorldOK, Before, Linked
  <2>4. /\ jigdos \subseteq given /\ given \subseteq DOMAIN Jigdo
        /\ file_list \subseteq DOMAIN ref /\ failed_files \subseteq file_list \ ignored_fails
        /\ ck_failed_files \cup unsummed \subseteq file_list
    BY DEF IInv, ReadInv, ListInv, MemoryOK, WrongInv
  <2> QED
    BY <2>1, <2>2, <2>3, <2>4
    DEF TypeOK, DiskOK, WorldOK, RefOK, MemoryOK, BackInv, Publishing
<1>4. Spec => []WrongInv
  BY InitWrong, NextWrong, SpecIInv, PTL DEF Spec
<1> HIDE DEF Inv
<1> QED
  BY <1>1, <1>2, <1>3, <1>4, SpecIInv, SpecBack, PTL DEF Spec
=============================================================================
