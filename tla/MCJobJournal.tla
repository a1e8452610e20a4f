---------------------------- MODULE MCJobJournal ----------------------------
(* Instance of JobJournal for TLC.                                         *)
EXTENDS JobJournal, TLC

JobSymmetry == Permutations(Jobs)
=============================================================================
