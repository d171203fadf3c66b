--------------------------- MODULE MC_SigarPassword ---------------------------
(* Model-checking instance of SigarPassword: a three-byte buffer (two     *)
(* characters and the terminator), so that a line fills it within the     *)
(* four ordinary keys a call may read.                                    *)
EXTENDS SigarPassword

=============================================================================
