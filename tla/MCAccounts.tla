----------------------------- MODULE MCAccounts -----------------------------
(***************************************************************************)
(* Instances of Accounts for TLC: up to two machines, emails and passwords *)
(* and three runs, two of them on the same machine.                        *)
(***************************************************************************)
EXTENDS Accounts, TLC

CONSTANTS m1, m2, r1, r2, r3, e1, e2

TwoEmails == {e1, e2}
TwoHomes == [r \in Runs |-> IF r = r2 THEN m2 ELSE m1]

\* The two runs of one machine may change places, and so may the two emails.
Symmetry == Permutations({r1, r3}) \cup Permutations(TwoEmails)
=============================================================================
