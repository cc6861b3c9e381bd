----------------------------- MODULE MCAccounts -----------------------------
(***************************************************************************)
(* Instances of Accounts for TLC.                                          *)
(***************************************************************************)
EXTENDS Accounts, TLC

CONSTANTS u1, u2, n1, n2, p1, p2, k1, t1, t2, r1, r2

Symmetry == Permutations(Request) \cup Permutations(Name) \cup Permutations(Secret)
            \cup Permutations(Topic)

=============================================================================
