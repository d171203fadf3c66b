---------------------------- MODULE MC_SigarWhoList ----------------------------
(* Model-checking instance of SigarWhoList. *)
EXTENDS SigarWhoList

=============================================================================
