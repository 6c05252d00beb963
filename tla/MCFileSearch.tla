---------------------------- MODULE MCFileSearch ----------------------------
(***************************************************************************)
(* FileSearch with every pattern of a few characters and with longer ones  *)
(* made of segments or of words that name a drive, which are read with all *)
(* paths of up to three names in mind; and with a few patterns for which   *)
(* three instances, the second without a path, have files: a directory     *)
(* within the first and a file in each, all of which may come and go.  The *)
(* instances are on the drive a; b is another spelling of it.              *)
(***************************************************************************)
EXTENDS FileSearch

MCSeparators == {"/", "\\"}

CONSTANTS
  MaxLength,   \* of the patterns of any characters
  MaxPlain     \* of those with no caret, no colon and no invalid character

Plain == {"\\", "*", "?", ".", "a"}
Short == UNION {[1..n -> Plain \cup {"^", ":", "|"}] : n \in 0..MaxLength}
           \cup UNION {[1..n -> Plain] : n \in MaxLength..MaxPlain}

\* Patterns of three segments, with a separator of each kind and perhaps another.
Segment == {<<"*", "*">>, <<"*">>, <<"a">>, <<"a", "*">>, <<"*", "b">>, <<"?">>, <<".">>,
            <<"a", "*", "b">>, <<"*", "a", "*">>, <<"a", "?", "*">>, <<".", "a">>, <<".", "*">>,
            <<"a", ":">>}
Long == {x \o <<"/">> \o y \o <<"\\">> \o t \o z :
           x \in Segment, y \in Segment, t \in {<<>>, <<"/">>}, z \in Segment}

\* Patterns of one word or two before the last, which may name a drive.
Drive  == {<<"a", ":">>, <<"b", ":">>}
Driven == {d \o w : d \in Drive, w \in {<<>>, <<"a">>, <<".">>, <<".", ".">>}} \cup {<<"a">>}
Led    == {x \o <<"/">> \o z : z \in {<<"*", "*">>, <<"?">>, <<"a">>},
             x \in Driven \cup {x \o <<"/">> \o y : x \in Driven, y \in Driven}}

MCSearched == {<<"*", "*">>, <<"a", "/", "?">>, <<"*", "*", "/", "b">>,
               <<"b", ":", ".", ".", "/", "?">>}
MCPatterns == Short \cup Long \cup Led \cup MCSearched

MCNames == {<<"a">>, <<"b">>, <<"a", "b">>, <<".", "a">>, <<"a", ".", "b">>}
MCPaths == UNION {[1..n -> MCNames] : n \in 1..3}

C == <<"c">>
D == <<"d">>
A == <<"a">>
B == <<"b">>
MCInstallationPaths == <<<<A, C>>, NoPath, <<A, D>>>>
MCWorkingDirectory == [drive \in {"a", "b"} |-> <<A, C, A>>]
MCDirectories == {<<A, C>>, <<A, C, A>>, <<A, D>>}
MCPlaces == MCDirectories \cup {<<A, C, B>>, <<A, C, A, B>>, <<A, D, A>>}
MCRank == [p \in MCPlaces |->
             CHOOSE r \in 1..6 : p = <<<<A, C>>, <<A, C, A>>, <<A, C, A, B>>, <<A, C, B>>,
                                        <<A, D>>, <<A, D, A>>>>[r]]
=============================================================================
