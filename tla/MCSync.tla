------------------------------- MODULE MCSync -------------------------------
(***************************************************************************)
(* Instances of Sync for TLC: two file names, one or two machines.         *)
(***************************************************************************)
EXTENDS Sync, TLC

CONSTANTS a, b, k0, k1, t0, t1, u1, u2, m1, m2, r1, r2

TwoNames == {a, b}
TwoVersions == {k0, k1}
OneTail == {t0}
TwoTails == {t0, t1}

NameOrder == <<a, b>>
OtherOrder == <<b, a>>

OneAccount == [m \in Machines |-> u1]
OwnAccount == [m \in Machines |-> IF m = m1 THEN u1 ELSE u2]
OneHome == [r \in Runs |-> m1]
OwnHome == [r \in Runs |-> IF r = r1 THEN m1 ELSE m2]

NoFiles == << >>
FileA == a :> [chunks |-> k0, tail |-> t0]
FileB == b :> [chunks |-> k1, tail |-> t0]
EmptyDirs == [m \in Machines |-> NoFiles]
SameDirs == [m \in Machines |-> FileA]
OwnDirs == [m \in Machines |-> IF m = m1 THEN FileA ELSE FileB]
=============================================================================
