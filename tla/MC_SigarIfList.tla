---------------------------- MODULE MC_SigarIfList ----------------------------
(* Model-checking instance of SigarIfList: three interfaces, a growth     *)
(* chunk of two records so that exact fits and overflows both occur.     *)
EXTENDS SigarIfList

CONSTANTS i1, i2, i3, h1, h2

MCIfaces == {i1, i2, i3}

=============================================================================
