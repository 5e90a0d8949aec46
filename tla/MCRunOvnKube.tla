--------------------------- MODULE MCRunOvnKube ---------------------------
(* Instantiates RunOvnKube: 3-bit addresses (so a /0 through a /3 and      *)
(* every alignment occur), the default host length of the code, one       *)
(* written host length, and up to two entries (overlap is pairwise).      *)
EXTENDS RunOvnKube

MCW == 3
MCHostLens == {3}
MCDefaultHostLen == 24
=============================================================================
