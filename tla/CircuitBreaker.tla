--------------------------- MODULE CircuitBreaker ---------------------------
(***************************************************************************)
(* The closed / open / half-open breaker of osimflow/circuit_breaker.py.   *)
(* Every public method of the class runs under one lock, so a method is a  *)
(* function from the breaker before the call to the breaker after it.      *)
(* Modules that use a breaker keep one of these records per instance.      *)
(*                                                                         *)
(* "age" is now() - _opened_at, saturated at Cooldown: the code reads the  *)
(* clock only to compare that difference with cooldown_s.                  *)
(***************************************************************************)
EXTENDS Naturals

CONSTANTS FailureThreshold,  \* consecutive failures that open the circuit
          Cooldown           \* clock ticks the circuit stays open

ASSUME BreakerAssumption ==
    /\ FailureThreshold \in Nat \ {0}
    /\ Cooldown \in Nat

Breakers == [state    : {"closed", "open", "half_open"},
             failures : Nat,
             age      : 0..Cooldown,
             probing  : BOOLEAN]

NewBreaker == [state |-> "closed", failures |-> 0, age |-> 0, probing |-> FALSE]

(* An open circuit whose cooldown has elapsed counts as half-open.         *)
EffectiveState(b) ==
    IF b.state = "open" /\ b.age >= Cooldown THEN "half_open" ELSE b.state

(* The "state" property: applies the cooldown, consumes nothing.           *)
Peeked(b) == [b EXCEPT !.state = EffectiveState(b)]

(* The answer of allow().                                                  *)
Allows(b) ==
    \/ EffectiveState(b) = "closed"
    \/ EffectiveState(b) = "half_open" /\ ~b.probing

(* A slip the checks must catch: allow() forgets to take the gate.         *)
AskedGateNotTaken(b) == Peeked(b)

(* The breaker after allow(), whatever it answered: an admission in        *)
(* half-open takes the single-probe gate.                                  *)
Asked(b) ==
    [Peeked(b) EXCEPT !.probing = b.probing \/ EffectiveState(b) = "half_open"]

Succeeded(b) == [NewBreaker EXCEPT !.age = b.age]

(* A slip the checks must catch: record_failure() leaves the gate taken.   *)
FailedGateNotReleased(b) ==
    [state |-> "open", failures |-> 0, age |-> 0, probing |-> b.probing]

Failed(b) ==
    LET wasHalfOpen == b.state = "half_open"
        failures    == b.failures + 1
    IN  IF failures >= FailureThreshold \/ wasHalfOpen
        THEN [state    |-> "open",
              failures |-> IF wasHalfOpen THEN 0 ELSE failures,
              age      |-> 0,
              probing  |-> FALSE]
        ELSE [b EXCEPT !.failures = failures, !.probing = FALSE]

(* One tick of the monotonic clock, seen by an open breaker.               *)
Aged(b) ==
    IF b.state = "open" /\ b.age < Cooldown THEN [b EXCEPT !.age = @ + 1] ELSE b
=============================================================================
