----------------------------- MODULE MCDownload -----------------------------
(***************************************************************************)
(* Instance of Download for TLC: up to three files of up to two chunks, of *)
(* which the client counts two.                                            *)
(***************************************************************************)
EXTENDS Download, TLC

CONSTANTS a, b, c, x, y

ThreeNames == {a, b, c}
FourVersions == {<<>>, <<x>>, <<y>>, <<x, y>>}
OneFile == b :> <<y>>

\* None to three files, with an empty one first, in the middle and last.
SomeFiles == {<<>>, a :> <<x, y>>, a :> <<x, y>> @@ b :> <<x, y>>,
              a :> <<x, y>> @@ c :> <<>>, a :> <<>> @@ b :> <<x>> @@ c :> <<x, y>>,
              a :> <<x, y>> @@ b :> <<>> @@ c :> <<x>>}
=============================================================================
