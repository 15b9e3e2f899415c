---------------------------- MODULE MCJteConfig ----------------------------
(* A small instance of JteConfig for TLC. *)
EXTENDS JteConfig

Code(all, types) == [all |-> all, types |-> types]
MCCodes == {Code(TRUE, {}), Code(FALSE, {CHECK_SHA1}), Code(FALSE, {CHECK_SHA256}),
            Code(FALSE, {CHECK_SHA512, Unknown})}

\* "/m" is a prefix of "/m2/" and of "/m/".
A == <<"/m", "/", "a">>
B == <<"/m", "2/", "b">>
C == <<"/n/", "c">>
MCName == {A, B, C}
Map(to, from, wellformed) == [to |-> to, from |-> from, wellformed |-> wellformed]
MCMappings == {Map("Debian", <<"/m">>, TRUE), Map("NonUS", <<"/m", "2/">>, TRUE),
               Map("Main", <<"/m", "/">>, TRUE), Map("", <<>>, FALSE)}

L(hex, spaces, name) == [hex |-> hex, spaces |-> spaces, size |-> 7, name |-> name]
MCLists == {<< >>, <<L(32, TRUE, A), L(32, TRUE, B), L(32, TRUE, C)>>,
            <<L(64, TRUE, A), L(64, TRUE, B), L(64, TRUE, C)>>,
            <<L(32, TRUE, C), L(64, TRUE, B)>>, <<L(32, FALSE, A)>>,
            <<L(64, TRUE, C), L(12, TRUE, A)>>}
=============================================================================
