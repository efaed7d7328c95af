------------------------------ MODULE MCRelease ------------------------------
(***************************************************************************)
(* Three runs of the release action, of which two requests fail.           *)
(***************************************************************************)
EXTENDS ZenodoRelease, TLC

CONSTANTS first, limbo, d1, d2, d3, archive, readme

MCDepositions == {first, limbo, d1, d2, d3}
MCNames == {archive, readme}

=============================================================================
