------------------------------ MODULE MCFanOut ------------------------------
(* Model-checking instances of FanOut.                                     *)
EXTENDS FanOut, TLC

(* The code treats samples alike and the pool may pick any queued task.    *)
SampleSymmetry == Permutations(Samples)
=============================================================================
