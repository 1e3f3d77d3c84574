------------------------------ MODULE MCReload ------------------------------
(* Reload with small bounds: two changes of the file, one retry. *)
EXTENDS Reload
=============================================================================
