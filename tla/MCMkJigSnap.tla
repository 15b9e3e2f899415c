---------------------------- MODULE MCMkJigSnap ----------------------------
(* Small instances of MkJigSnap for TLC. *)
EXTENDS MkJigSnap

\* Files 1 and 2 have the same base name, 3 is at the top of a mirror.
MCBase == [f \in File |-> IF f = 3 THEN 3 ELSE 10]
Ref(f, type, sum) == [file |-> f, type |-> type, sum |-> sum, key |-> "Debian"]
MCJigdo == <<<<Ref(1, "md5", "x"), Ref(2, "sha256", "y")>>,
             <<Ref(2, "md5", "y"), Ref(3, "sha256", "z")>>,
             <<[file |-> 1, type |-> "md5", sum |-> "x", key |-> "other"],
               Ref(2, "sha256", "x"), Ref(3, "sha256", "z")>>>>

MCMirrors == <<"m1", "m2">>
MCListing(a, b) == [L |-> a, M |-> b]
MCListings == {MCListing({1, 2}, {3}), MCListing({2, 3}, {})}

\* Everything in one mirror; the rest on a second one and a file under its base
\* name; only one file left.
Put(pairs) == [p \in {q[1] : q \in pairs} |-> (CHOOSE q \in pairs : q[1] = p)[2]]
MCArchive(a, b) == [m1 |-> Put(a), m2 |-> Put(b)]
MCArchives == {MCArchive({<<1, "x">>, <<2, "y">>, <<3, "z">>}, {}),
               MCArchive({<<10, "x">>, <<3, "z">>}, {<<2, "y">>}),
               MCArchive({}, {<<3, "z">>})}

MCTrees == {Put({}), Put({<<1, "y">>})}

Multi(lists, js) ==
  [single |-> FALSE, dryrun |-> FALSE, check |-> FALSE, slash |-> FALSE,
   log |-> FALSE, backref |-> FALSE, ignore |-> FALSE, lists |-> lists, jigdos |-> js]
MCOptions ==
  {[Multi(<<"L">>, {}) EXCEPT !.log = TRUE, !.backref = TRUE],
   [Multi(<<"M", "L">>, {}) EXCEPT !.check = TRUE, !.log = TRUE, !.ignore = TRUE],
   [Multi(<<"L">>, {}) EXCEPT !.slash = TRUE],
   [Multi(<<"M">>, {2}) EXCEPT !.dryrun = TRUE],
   [Multi(<<"M">>, {}) EXCEPT !.single = TRUE],
   [Multi(<< >>, {1}) EXCEPT !.single = TRUE, !.check = TRUE]}
=============================================================================
