---------------------------- MODULE MCCharacters ----------------------------
(* Two logins of an account with up to three characters, one more than its list holds. *)
EXTENDS Characters, TLC
CONSTANTS c1, c2, n1, n2, n3
MCConn == {c1, c2}
MCName == {n1, n2, n3}
Symmetry == Permutations(MCConn) \union Permutations(MCName)
=============================================================================
