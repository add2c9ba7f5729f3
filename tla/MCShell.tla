------------------------------ MODULE MCShell -------------------------------
(***************************************************************************)
(* Shell for TLC: a disk of a few clusters with one file on it.  The names *)
(* are interchangeable: the file has any of them, and the code compares    *)
(* names only with each other.  So are the shells.                         *)
(***************************************************************************)
EXTENDS Shell

NameSymmetry == Permutations(Names)
NameAndShellSymmetry == Permutations(Names) \cup Permutations(Shells)
=============================================================================
