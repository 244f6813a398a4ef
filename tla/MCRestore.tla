----------------------------- MODULE MCRestore -----------------------------
(* An instance of RestoreClient for TLC.  No database name is special. *)
EXTENDS RestoreClient, TLC

NameSymmetry == Permutations(Names)
=============================================================================
