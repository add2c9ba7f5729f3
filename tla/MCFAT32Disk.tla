----------------------------- MODULE MCFAT32Disk -----------------------------
(* The driver with power loss, for TLC.  Keys are interchangeable. *)
EXTENDS FAT32Disk

KeySymmetry == Permutations(Names)
=============================================================================
