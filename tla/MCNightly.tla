------------------------------ MODULE MCNightly ------------------------------
(***************************************************************************)
(* Small instances of Nightly for TLC: one transcript, two runs, and two   *)
(* processes of the job worker.                                            *)
(***************************************************************************)
EXTENDS Nightly, TLC

CONSTANTS f1, n1, n2, w1, w2, j1

RunSymmetry == Permutations(Files) \cup Permutations(Runs) \cup Permutations(Workers)
=============================================================================
