------------------------------ MODULE MCKernel ------------------------------
(***************************************************************************)
(* Small instances of Kernel for TLC.  The threads other than Main are     *)
(* created by the same calls and are interchangeable.                      *)
(***************************************************************************)
EXTENDS Kernel, TLC

Symmetry == Permutations(Thread \ {Main})

=============================================================================
