---------------------------- MODULE MCSqlStore ----------------------------
(* Two interrupts and one saver for SqlStore. *)
EXTENDS SqlStore, TLC

CONSTANTS i, j, s

InterruptSymmetry == Permutations(Interrupts)
=============================================================================
