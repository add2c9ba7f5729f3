------------------------------ MODULE MCKernel ------------------------------
(* The kernel for TLC: three process slots, so that a scan can wrap around  *)
(* and a slot can be reused, and fewer frames than the slots could use.      *)
EXTENDS Kernel

\* One frame, two, and more than a process may have.
MCRequestFrames == {1, 2, 3}
=============================================================================
