--------------------------- MODULE MC_SigarIfConfig ---------------------------
(* Model-checking instance of SigarIfConfig: two interfaces, one of      *)
(* them the loopback, two hardware addresses so that a device replaced    *)
(* under the same name carries a different one.                          *)
EXTENDS SigarIfConfig

CONSTANTS i1, i2, h1, h2

MCIfaces == {i1, i2}

=============================================================================
