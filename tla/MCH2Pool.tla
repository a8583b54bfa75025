------------------------------ MODULE MCH2Pool ------------------------------
(***************************************************************************)
(* H2Pool for TLC.                                                         *)
(***************************************************************************)
EXTENDS H2Pool, TLC
=============================================================================
