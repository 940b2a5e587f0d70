------------------------------ MODULE MCUpload ------------------------------
(***************************************************************************)
(* Instances of Upload for TLC: two names at the top, a directory with a   *)
(* file of a name that is also used at the top.                            *)
(***************************************************************************)
EXTENDS Upload, TLC

CONSTANTS a, b, d, x, y

ThreeNames == {a, b, d}
SomePaths == {<<a>>, <<b>>, <<d>>, <<d, b>>}
Order == <<a, b, d>>
OtherOrder == <<d, b, a>>

TwoVersions == {<<x>>, <<x, y>>}

SomeDirs == {<<a>> :> <<x>>,
             <<a>> :> <<x>> @@ <<d>> :> Dir @@ <<d, b>> :> <<x, y>>,
             <<b>> :> <<x>> @@ <<d>> :> Dir @@ <<d, b>> :> <<x, y>>,
             <<a>> :> <<x, y>> @@ <<b>> :> <<x>>,
             <<>>}
SomeFiles == {<<a>> :> <<x>>,
              <<b>> :> <<x, y>> @@ <<d>> :> <<x>>,
              <<>>}
Sizes == {-1, 9}
=============================================================================
