----------------------------- MODULE MCMkImage -----------------------------
(* Small instances of MkImage for TLC. *)
EXTENDS MkImage

\* Every byte is different, so that each has one place.
MCImage == <<1, 2, 3, 4, 5, 6, 7, 8>>
MCSumA == Sum("md5", <<3, 4, 5>>)
MCSumB == Sum("sha256", <<8>>)
MCNone == Sum("md5", << >>)
MCDesc == <<[type |-> "data", len |-> 2, sum |-> MCNone],
            [type |-> "file", len |-> 3, sum |-> MCSumA],
            [type |-> "data", len |-> 2, sum |-> MCNone],
            [type |-> "file", len |-> 1, sum |-> MCSumB],
            [type |-> "image", len |-> 8, sum |-> Sum("sha256", MCImage)]>>
MCBlocks == <<<<1>>, <<2, 6>>, <<7>>>>

Template(tail, corrupt) ==
  [desc |-> MCDesc, blocks |-> MCBlocks, tail |-> tail, corrupt |-> corrupt,
   image |-> MCImage, stream |-> <<1, 2, 6, 7>>, at |-> <<0, 2, 5, 7, 8, 8>>,
   from |-> <<0, 2, 2, 4, 4, 4>>, ends |-> <<1, 3, 4>>]
MCTemplates == {Template("good", {}), Template("good", {1}),
                Template("good", {3}), Template("inconsistent", {}),
                Template("truncated", {})}

Part(sum, name, wellformed) ==
  [sum |-> sum, match |-> "D", name |-> name, wellformed |-> wellformed]
MCPartA == Part(MCSumA, "a", TRUE)
MCPartB == Part(MCSumB, "b", TRUE)
Listed(sum, name) == [sum |-> sum, path |-> <<"list", name>>]
MCJigdos == {[list |-> << >>, parts |-> <<MCPartA, MCPartB>>],
             [list |-> <<Listed(MCSumB, "b")>>, parts |-> <<MCPartB, MCPartA>>],
             [list |-> <<Listed(MCSumA, "a")>>, parts |-> << >>],
             [list |-> << >>, parts |-> <<MCPartA, Part(MCSumB, "b", FALSE)>>]}

MCMatchList == <<[match |-> "E", dir |-> "m1"], [match |-> "D", dir |-> "m1"],
                 [match |-> "D", dir |-> "m2"]>>

Opt(verbose, q, missing, sizeonly, start, end) ==
  [verbose |-> verbose, quick |-> q, missing |-> missing,
   sizeonly |-> sizeonly, start |-> start, end |-> end]
MCOptions ==
  {Opt(v, q, m, FALSE, 0, 0) : v \in BOOLEAN, q \in BOOLEAN, m \in BOOLEAN}
  \cup {Opt(FALSE, FALSE, FALSE, FALSE, s, e) : s \in {0, 3, 5, 6}, e \in {0, 4, 6}}
  \cup {Opt(FALSE, FALSE, FALSE, TRUE, 0, 0)}

\* One input each, for the runs that look at one case.
MCGood == {Template("good", {})}
MCPlain == {Opt(FALSE, FALSE, FALSE, FALSE, 0, 0)}
MCJigdo == {[list |-> << >>, parts |-> <<MCPartA, MCPartB>>]}

\* An honest mirror, a second one, a wrong file, wrong sizes, missing files.
A == <<"m1", "a">>
A2 == <<"m2", "a">>
B == <<"m1", "b">>
MCDisk(files) == [p \in {f[1] : f \in files} |->
                    (CHOOSE f \in files : f[1] = p)[2]]
MCDisks == {MCDisk({<<A, <<3, 4, 5>>>>, <<B, <<8>>>>}),
            MCDisk({<<A, <<3, 4, 4>>>>, <<A2, <<3, 4, 5>>>>, <<B, <<8>>>>}),
            MCDisk({<<A2, <<3, 4, 5>>>>, <<<<"list", "b">>, <<8>>>>,
                    <<<<"list", "a">>, <<3, 4, 5>>>>}),
            MCDisk({<<A2, <<3, 4>>>>, <<B, <<8>>>>}),
            MCDisk({<<B, <<8>>>>}),
            MCDisk({<<A, <<3, 4, 5>>>>, <<<<"m2", "b">>, <<8>>>>})}
MCHonest == {MCDisk({<<A, <<3, 4, 5>>>>, <<B, <<8>>>>})}
MCUnreadable == {<<"m2", "b">>}
MCRewrites == {[path |-> A, content |-> <<3>>],
               [path |-> A2, content |-> <<3, 4, 6>>]}
=============================================================================
