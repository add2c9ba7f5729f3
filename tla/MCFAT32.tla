------------------------------ MODULE MCFAT32 -------------------------------
(***************************************************************************)
(* FAT32 for TLC: a disk of a few clusters and directories of a few slots. *)
(* Names and extensions are interchangeable: the driver compares them only *)
(* with each other.                                                        *)
(***************************************************************************)
EXTENDS FAT32, TLC

KeySymmetry == Permutations(Names) \cup Permutations(Exts)
=============================================================================
