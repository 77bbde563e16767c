--------------------------- MODULE MCBrainManager ---------------------------
(* A small instance of BrainManager for TLC.                               *)
EXTENDS BrainManager

CONSTANTS s1, s2

TwoSites == {s1, s2}
=============================================================================
