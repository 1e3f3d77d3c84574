----------------------------- MODULE MCHandover -----------------------------
(* Constants and symmetry for the run of Handover. *)
EXTENDS Handover, TLC

Symmetry ==
    Permutations(Client) \cup Permutations(Account) \cup Permutations(Password)
        \cup Permutations(Key)

=============================================================================
