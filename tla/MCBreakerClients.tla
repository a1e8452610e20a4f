-------------------------- MODULE MCBreakerClients --------------------------
(* Model-checking instances of BreakerClients.                             *)
EXTENDS BreakerClients, TLC

(* Threads run the same code, so they are interchangeable in safety runs.  *)
ClientSymmetry == Permutations(Clients)
=============================================================================
