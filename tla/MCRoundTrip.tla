---------------------------- MODULE MCRoundTrip ----------------------------
(* A small instance of RoundTrip for TLC. *)
EXTENDS RoundTrip

\* "match" fills its sectors, "odd" does not, "other" is not listed.
MCFile == {"match", "odd", "other"}
MCContent == [match |-> <<2, 1>>, odd |-> <<1, 2, 2>>, other |-> <<2, 2>>]
MCName == [match |-> "m", odd |-> "o", other |-> "x"]
MCChecksumList == <<[name |-> "m", content |-> <<2, 1>>],
                    [name |-> "o", content |-> <<1, 2, 2>>]>>
MCPart == <<[match |-> "D", name |-> "a"], [match |-> "D", name |-> "b"]>>
\* As much as the buffer takes, and more than twice as much.
MCChunk == {<<1, 0>>, <<2, 1, 1, 2, 2>>}

\* An application that sees every failure, one that sees none of them, and one
\* that meets none.
Setup(api, algo, sector, faults, failing) ==
  [api |-> api, algo |-> algo, sector |-> sector, faults |-> faults,
   failing |-> failing]
MCSetups == {Setup("simple", "md5", 2, {}, {}),
             Setup("traditional", "sha256", 1, {"flush"}, {"odd"}),
             Setup("simple", "md5", 2, {"flush"}, {})}

\* Only the options that build whole images.
MCOptions == {[verbose |-> v, quick |-> FALSE, missing |-> FALSE,
               sizeonly |-> FALSE, start |-> 0, end |-> 0] : v \in BOOLEAN}
MCMatchList == <<[match |-> "D", dir |-> "m1"], [match |-> "D", dir |-> "m2"]>>

\* Both files in one mirror, with a wrong one in the other, one in each, and one of
\* them missing.
A == <<"m1", "a">>
B == <<"m1", "b">>
B2 == <<"m2", "b">>
Sealed == <<"m1", "sealed">>
MCDisk(files) == [p \in {f[1] : f \in files} |->
                    (CHOOSE f \in files : f[1] = p)[2]]
MCDisks == {MCDisk({<<A, <<2, 1>>>>, <<B, <<1, 2, 2>>>>, <<B2, <<1>>>>}),
            MCDisk({<<A, <<2, 1>>>>, <<B2, <<1, 2, 2>>>>, <<Sealed, <<1>>>>}),
            MCDisk({<<B2, <<1, 2, 2>>>>}), MCDisk({<<B, <<1, 2, 2>>>>})}
MCRewrites == {[path |-> A, content |-> <<2, 2>>],
               [path |-> B, content |-> <<1>>]}
MCUnreadable == {Sealed}
MCBroken == {B}
Mirror == <<"", "m1">>
Subdir == <<"m1", "dir">>
MCDirectories == {Mirror, Subdir}
MCSumArgs == <<A, B, Subdir>>

\* A directory, and a file that may not be there.
MCBelow == [d \in MCDirectories |-> IF d = Mirror THEN {A, B, Sealed} ELSE {}]
MCGenArgs == <<Mirror, B2>>

\* No other list; or one with a line of another format and lines for a file
\* that may be there and one that cannot be opened, and one that is missing.
MCLine(wellformed, path, of) ==
  [wellformed |-> wellformed, sum |-> [alg |-> "md5", of |-> of], path |-> path]
MCOtherLists ==
  {<< >>,
   <<[there |-> TRUE, lines |-> <<MCLine(FALSE, A, << >>), MCLine(TRUE, B, <<1, 2, 2>>)>>]>>,
   <<[there |-> TRUE, lines |-> <<MCLine(TRUE, Sealed, <<1>>)>>],
     [there |-> FALSE, lines |-> << >>]>>}
=============================================================================
