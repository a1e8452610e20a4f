---------------------------- MODULE BreakerProofs ----------------------------
(***************************************************************************)
(* Proofs about the circuit breaker and its callers, for any number of     *)
(* threads, any threshold and any cooldown longer than a Redis call.       *)
(*                                                                         *)
(* AtMostOneProbe is not inductive: nothing in it says why the circuit     *)
(* cannot reach half-open again while an old probe is still out. The       *)
(* reason is time: a probe that outlived its half-open period has been out *)
(* at least as long as the circuit has been open since, so the circuit     *)
(* cannot have cooled down before that probe timed out. ProbeInv says so.  *)
(***************************************************************************)
EXTENDS BreakerClients, TLAPS

(* The inductive strengthening of AtMostOneProbe.                          *)
ProbeInv ==
    /\ TypeOK
    /\ AtMostOneProbe
    /\ \A c \in Clients : OutstandingProbe(c) =>
         \/ breaker.state = "half_open" /\ breaker.probing
         \/ breaker.state = "closed"
         \/ breaker.state = "open" /\ breaker.age <= call[c].elapsed

(* The strengthening of GateHasAHolder for callers that always record.     *)
GateInv ==
    protocol = "cache" =>
       /\ \A c \in Clients : call[c].at # "entered"
       /\ \A c \in Clients : call[c].at = "idle" => call[c] = NoCall
       /\ breaker.probing =>
            /\ breaker.state = "half_open"
            /\ \E c \in Clients : call[c].probe
-----------------------------------------------------------------------------
(* Each breaker method maps breakers to breakers.                          *)
LEMMA BreakerTyping ==
    ASSUME NEW b \in Breakers
    PROVE  /\ NewBreaker \in Breakers
           /\ Peeked(b) \in Breakers
           /\ Asked(b) \in Breakers
           /\ Succeeded(b) \in Breakers
           /\ Failed(b) \in Breakers
           /\ Aged(b) \in Breakers
<1> USE BreakerAssumption DEF Breakers
<1>1. NewBreaker \in Breakers
  BY DEF NewBreaker
<1>2. EffectiveState(b) \in {"closed", "open", "half_open"}
  BY DEF EffectiveState
<1>3. Peeked(b) \in Breakers
  BY <1>2 DEF Peeked
<1>4. Asked(b) \in Breakers
  BY <1>2 DEF Asked, Peeked
<1>5. Succeeded(b) \in Breakers
  BY DEF Succeeded, NewBreaker
<1>6. Failed(b) \in Breakers
  <2>1. /\ b.failures + 1 \in Nat
        /\ 0 \in 0..Cooldown
    OBVIOUS
  <2>2. CASE b.failures + 1 >= FailureThreshold \/ b.state = "half_open"
    <3>1. CASE b.state = "half_open"
      <4>1. Failed(b) = [state |-> "open", failures |-> 0, age |-> 0, probing |-> FALSE]
        BY <3>1 DEF Failed
      <4>2. QED BY <2>1, <4>1
    <3>2. CASE b.state # "half_open"
      <4>1. Failed(b) = [state |-> "open", failures |-> b.failures + 1, age |-> 0, probing |-> FALSE]
        BY <2>2, <3>2 DEF Failed
      <4>2. QED BY <2>1, <4>1
    <3>3. QED BY <3>1, <3>2
  <2>3. CASE ~(b.failures + 1 >= FailureThreshold \/ b.state = "half_open")
    <3>1. Failed(b) = [b EXCEPT !.failures = b.failures + 1, !.probing = FALSE]
      BY <2>3 DEF Failed
    <3>2. QED BY <2>1, <3>1
  <2>4. QED BY <2>2, <2>3
<1>7. Aged(b) \in Breakers
  BY DEF Aged
<1>8. QED
  BY <1>1, <1>3, <1>4, <1>5, <1>6, <1>7

(* A call that moves on stays a call.                                      *)
LEMMA CallMoves ==
    ASSUME call \in [Clients -> Calls], NEW c \in Clients,
           NEW at \in {"idle", "entered", "sent", "replied"}, NEW flag \in BOOLEAN
    PROVE  /\ [call EXCEPT ![c].at = at] \in [Clients -> Calls]
           /\ [call EXCEPT ![c].at = at, ![c].probe = flag] \in [Clients -> Calls]
           /\ [call EXCEPT ![c].at = at, ![c].ok = flag] \in [Clients -> Calls]
<1>1. call[c] \in Calls
  OBVIOUS
<1>2. /\ [call[c] EXCEPT !.at = at] \in Calls
      /\ [call[c] EXCEPT !.at = at, !.probe = flag] \in Calls
      /\ [call[c] EXCEPT !.at = at, !.ok = flag] \in Calls
  BY <1>1 DEF Calls
<1>3. /\ [call EXCEPT ![c].at = at] = [call EXCEPT ![c] = [call[c] EXCEPT !.at = at]]
      /\ [call EXCEPT ![c].at = at, ![c].probe = flag] =
             [call EXCEPT ![c] = [call[c] EXCEPT !.at = at, !.probe = flag]]
      /\ [call EXCEPT ![c].at = at, ![c].ok = flag] =
             [call EXCEPT ![c] = [call[c] EXCEPT !.at = at, !.ok = flag]]
  OBVIOUS
<1>4. QED BY <1>2, <1>3

LEMMA TypesAtStart == Init => TypeOK
<1>1. NewBreaker \in Breakers
  BY BreakerAssumption DEF NewBreaker, Breakers
<1>2. NoCall \in Calls
  BY ClientsAssumption DEF NoCall, Calls
<1>3. QED BY <1>1, <1>2 DEF Init, TypeOK

(* The state stays well-typed: in particular no call outlives OpMax.       *)
THEOREM Typing == Spec => []TypeOK
<1>1. Init => TypeOK
  BY TypesAtStart
<1>2. TypeOK /\ [Next]_vars => TypeOK'
  <2> SUFFICES ASSUME TypeOK, [Next]_vars PROVE TypeOK'
    OBVIOUS
  <2>0. protocol' = protocol
    BY DEF Next, vars
  <2> USE <2>0 DEF TypeOK, envVars, HasClient
  <2>n. NoCall \in Calls
    BY ClientsAssumption DEF NoCall, Calls
  <2>1. ASSUME NEW c \in Clients, Step(c) PROVE TypeOK'
    <3>0. Admission \in BOOLEAN /\ Asked(breaker) \in Breakers
      BY BreakerTyping DEF Admission
    <3>1. CASE GetClient(c)
      <4>1. call' = [call EXCEPT ![c].at = "entered", ![c].probe = Admission]
        BY <3>1 DEF GetClient
      <4>2. call' \in [Clients -> Calls]
        BY <3>0, <4>1, CallMoves
      <4>3. QED BY <3>0, <3>1, <4>2 DEF GetClient
    <3>2. CASE PrePublish(c)
      <4>1. call' = [call EXCEPT ![c].at = "entered"] /\ breaker' = Peeked(breaker)
        BY <3>2 DEF PrePublish
      <4>2. call' \in [Clients -> Calls]
        BY <4>1, CallMoves
      <4>3. QED BY <3>2, <4>1, <4>2, BreakerTyping DEF PrePublish
    <3>3. CASE Admit(c)
      <4>1. call' = [call EXCEPT ![c].at = "sent", ![c].probe = Admission]
        BY <3>3 DEF Admit
      <4>2. call' \in [Clients -> Calls]
        BY <3>0, <4>1, CallMoves
      <4>3. QED BY <3>0, <3>3, <4>2 DEF Admit
    <3>4. CASE Reject(c)
      <4>1. /\ call' = [call EXCEPT ![c] = NoCall] /\ breaker' = Asked(breaker)
            /\ redisUp' \in BOOLEAN /\ built' \in BOOLEAN
        BY <3>4 DEF Reject
      <4>2. QED BY <2>n, <3>0, <4>1
    <3>5. CASE Reply(c)         BY <3>5, CallMoves DEF Reply
    <3>6. CASE RecordSuccess(c) BY <2>n, <3>6, BreakerTyping DEF RecordSuccess
    <3>7. CASE RecordFailure(c) BY <2>n, <3>7, BreakerTyping DEF RecordFailure
    <3>8. CASE LogFailureOnly(c) BY <2>n, <3>8 DEF LogFailureOnly
    <3>9. CASE BuildFails(c)    BY <2>n, <3>9, BreakerTyping DEF BuildFails
    <3>10. QED BY <2>1, <3>1, <3>2, <3>3, <3>4, <3>5, <3>6, <3>7, <3>8, <3>9 DEF Step
  <2>2. CASE Tick
    <3>1. ASSUME NEW c \in Clients, InFlight(c)
          PROVE  [call[c] EXCEPT !.elapsed = @ + 1] \in Calls
      <4>1. call[c] \in Calls /\ call[c].elapsed < OpMax
        BY <2>2, <3>1 DEF Tick
      <4>2. call[c].elapsed + 1 \in 0..OpMax
        BY <4>1, ClientsAssumption DEF Calls
      <4>3. QED BY <4>1, <4>2 DEF Calls
    <3>2. call' \in [Clients -> Calls]
      BY <2>2, <3>1 DEF Tick
    <3>3. QED BY <2>2, <3>2, BreakerTyping DEF Tick
  <2>3. CASE RedisFails \/ RedisReturns
    BY <2>3 DEF RedisFails, RedisReturns
  <2>4. CASE UNCHANGED vars
    BY <2>4 DEF vars
  <2>5. QED
    BY <2>1, <2>2, <2>3, <2>4 DEF Next
<1>3. QED
  BY <1>1, <1>2, PTL DEF Spec

-----------------------------------------------------------------------------
(* The circuit cannot cool down while a probe is out: if allow() admits a  *)
(* caller to a half-open circuit, no earlier probe is outstanding.         *)
LEMMA AdmissionMeansNoProbe ==
    ASSUME ProbeInv, Admission, Allows(breaker), NEW c \in Clients
    PROVE  ~OutstandingProbe(c)
<1> USE DEF ProbeInv, TypeOK
<1>1. call[c].elapsed \in 0..OpMax /\ breaker.age \in 0..Cooldown
  BY DEF Calls, Breakers
<1>2. ~breaker.probing /\ breaker.state # "closed"
  BY DEF Admission, Allows, EffectiveState
<1>3. breaker.state = "open" => breaker.age >= Cooldown
  BY DEF Admission, EffectiveState
<1>4. QED
  BY <1>1, <1>2, <1>3, ClientsAssumption, BreakerAssumption

(* How each method moves what ProbeInv reads of a breaker.                 *)
LEMMA BreakerMoves ==
    ASSUME NEW b \in Breakers
    PROVE  /\ Asked(b).state = EffectiveState(b)
           /\ Asked(b).age = b.age
           /\ Asked(b).probing = (b.probing \/ EffectiveState(b) = "half_open")
           /\ Peeked(b).state = EffectiveState(b)
           /\ Peeked(b).age = b.age
           /\ Peeked(b).probing = b.probing
           /\ Succeeded(b).state = "closed"
           /\ ~Succeeded(b).probing
           /\ ~Failed(b).probing
           /\ \/ Failed(b).state = "open"
              \/ Failed(b).state = b.state /\ b.state # "half_open"
           /\ Failed(b).state = "open" =>
                 \/ Failed(b).age = 0
                 \/ b.state = "open" /\ Failed(b).age = b.age
<1> USE DEF Breakers
<1>1. /\ Peeked(b).state = EffectiveState(b)
      /\ Peeked(b).age = b.age
      /\ Peeked(b).probing = b.probing
  BY DEF Peeked
<1>2. /\ Asked(b).state = EffectiveState(b)
      /\ Asked(b).age = b.age
      /\ Asked(b).probing = (b.probing \/ EffectiveState(b) = "half_open")
  BY DEF Peeked, Asked
<1>3. Succeeded(b).state = "closed" /\ ~Succeeded(b).probing
  BY DEF Succeeded, NewBreaker
<1>4. CASE b.failures + 1 >= FailureThreshold \/ b.state = "half_open"
  <2>1. Failed(b).state = "open" /\ Failed(b).age = 0 /\ ~Failed(b).probing
    BY <1>4 DEF Failed
  <2>2. QED BY <1>1, <1>2, <1>3, <2>1
<1>5. CASE ~(b.failures + 1 >= FailureThreshold \/ b.state = "half_open")
  <2>1. Failed(b) = [b EXCEPT !.failures = b.failures + 1, !.probing = FALSE]
    BY <1>5 DEF Failed
  <2>2. Failed(b).state = b.state /\ Failed(b).age = b.age /\ ~Failed(b).probing
    BY <2>1
  <2>3. QED BY <1>1, <1>2, <1>3, <1>5, <2>2
<1>6. QED BY <1>4, <1>5

(* Two probes are never outstanding together, for every number of threads, *)
(* every protocol, every threshold and every cooldown longer than a call.  *)
THEOREM ProbeSafety == Spec => []AtMostOneProbe
<1>1. Init => ProbeInv
  <2>1. Init => TypeOK
    BY TypesAtStart
  <2>2. Init => \A c \in Clients : ~OutstandingProbe(c)
    BY DEF Init, NoCall, OutstandingProbe, InFlight
  <2>3. QED BY <2>1, <2>2 DEF ProbeInv, AtMostOneProbe
<1>2. ASSUME ProbeInv, TypeOK', [Next]_vars PROVE ProbeInv'
  <2> USE DEF OutstandingProbe, InFlight
  <2>0. /\ TypeOK /\ AtMostOneProbe /\ breaker \in Breakers
        /\ breaker.age \in 0..Cooldown
        /\ \A d \in Clients : call[d] \in Calls /\ call[d].elapsed \in 0..OpMax
    BY <1>2 DEF ProbeInv, TypeOK, Calls, Breakers
  <2>1. ASSUME NEW c \in Clients, Step(c) PROVE ProbeInv'
    <3>1. CASE GetClient(c)
      <4>1. \A d \in Clients : OutstandingProbe(d)' => OutstandingProbe(d) /\ call'[d] = call[d]
        BY <3>1, <2>0 DEF GetClient, TypeOK, Calls
      <4>2. \A d \in Clients : OutstandingProbe(d) => ~Admission
        BY <1>2, <3>1, AdmissionMeansNoProbe DEF GetClient
      <4>3. ~Admission => /\ breaker'.state = breaker.state
                          /\ breaker'.age = breaker.age
                          /\ breaker'.probing = breaker.probing
        BY <3>1, <2>0, BreakerMoves DEF GetClient, Admission, EffectiveState, Breakers
      <4>4. QED BY <1>2, <4>1, <4>2, <4>3 DEF ProbeInv, AtMostOneProbe
    <3>2. CASE PrePublish(c)
      <4>1. \A d \in Clients : OutstandingProbe(d)' => OutstandingProbe(d) /\ call'[d] = call[d]
        BY <3>2, <2>0 DEF PrePublish, TypeOK, Calls
      <4>2. ASSUME NEW d \in Clients, OutstandingProbe(d)
            PROVE  breaker.state # "open" \/ breaker.age < Cooldown
        BY <1>2, <2>0, <4>2, ClientsAssumption, BreakerAssumption DEF ProbeInv
      <4>3. \A d \in Clients : OutstandingProbe(d) =>
              /\ breaker'.state = breaker.state
              /\ breaker'.age = breaker.age
              /\ breaker'.probing = breaker.probing
        BY <3>2, <2>0, <4>2, BreakerMoves, BreakerAssumption
        DEF PrePublish, EffectiveState
      <4>4. QED BY <1>2, <4>1, <4>3 DEF ProbeInv, AtMostOneProbe
    <3>3. CASE Admit(c)
      <4>1. CASE Admission
        <5>1. \A d \in Clients : ~OutstandingProbe(d)
          BY <1>2, <3>3, <4>1, AdmissionMeansNoProbe DEF Admit
        <5>2. \A d \in Clients : d # c => ~OutstandingProbe(d)'
          BY <5>1, <3>3, <2>0 DEF Admit, TypeOK, Calls
        <5>3. breaker'.state = "half_open" /\ breaker'.probing
          BY <3>3, <4>1, <2>0, BreakerMoves DEF Admit, Admission
        <5>4. QED BY <1>2, <5>2, <5>3 DEF ProbeInv, AtMostOneProbe
      <4>2. CASE ~Admission
        <5>1. \A d \in Clients : OutstandingProbe(d)' => OutstandingProbe(d) /\ call'[d] = call[d]
          BY <4>2, <3>3, <2>0 DEF Admit, TypeOK, Calls
        <5>2. /\ breaker'.state = breaker.state
              /\ breaker'.age = breaker.age
              /\ breaker'.probing = breaker.probing
          BY <3>3, <4>2, <2>0, BreakerMoves DEF Admit, Admission, EffectiveState, Breakers
        <5>3. QED BY <1>2, <5>1, <5>2 DEF ProbeInv, AtMostOneProbe
      <4>3. QED BY <4>1, <4>2
    <3>4. CASE Reject(c)
      <4>1. \A d \in Clients : OutstandingProbe(d)' => OutstandingProbe(d) /\ call'[d] = call[d]
        BY <3>4, <2>0 DEF Reject, TypeOK, Calls, NoCall
      <4>2. ASSUME NEW d \in Clients, OutstandingProbe(d)
            PROVE  breaker.state # "open" \/ breaker.age < Cooldown
        BY <1>2, <2>0, <4>2, ClientsAssumption, BreakerAssumption DEF ProbeInv
      <4>3. /\ breaker'.state = EffectiveState(breaker)
            /\ breaker'.age = breaker.age
            /\ EffectiveState(breaker) = "half_open" => breaker'.probing
        BY <3>4, <2>0, BreakerMoves DEF Reject
      <4>4. \A d \in Clients : OutstandingProbe(d) => breaker'.state = breaker.state
        BY <4>2, <4>3, <2>0, BreakerAssumption DEF EffectiveState
      <4>5. QED BY <1>2, <4>1, <4>3, <4>4 DEF ProbeInv, AtMostOneProbe
    <3>5. CASE Reply(c)
      <4>1. \A d \in Clients : OutstandingProbe(d)' =>
               OutstandingProbe(d) /\ call'[d].elapsed = call[d].elapsed
        BY <3>5, <2>0 DEF Reply, TypeOK, Calls
      <4>2. QED BY <1>2, <3>5, <4>1 DEF Reply, ProbeInv, AtMostOneProbe
    <3>6. CASE RecordSuccess(c)
      <4>1. \A d \in Clients : OutstandingProbe(d)' => OutstandingProbe(d) /\ call'[d] = call[d]
        BY <3>6, <2>0 DEF RecordSuccess, TypeOK, Calls, NoCall
      <4>2. breaker'.state = "closed"
        BY <3>6, <2>0, BreakerMoves DEF RecordSuccess
      <4>3. QED BY <1>2, <4>1, <4>2 DEF ProbeInv, AtMostOneProbe
    <3>7. CASE RecordFailure(c) \/ BuildFails(c)
      <4>1. \A d \in Clients : OutstandingProbe(d)' => OutstandingProbe(d) /\ call'[d] = call[d]
        BY <3>7, <2>0 DEF RecordFailure, BuildFails, TypeOK, Calls, NoCall
      <4>2. /\ breaker' = Failed(breaker)
            /\ \A d \in Clients : 0 <= call[d].elapsed
        BY <3>7, <2>0, ClientsAssumption DEF RecordFailure, BuildFails
      <4>3. \/ breaker'.state = "closed"
            \/ breaker'.state = "open" /\ breaker'.age = 0
            \/ /\ breaker.state = "open"
               /\ breaker'.state = breaker.state
               /\ breaker'.age = breaker.age
        BY <4>2, <2>0, BreakerMoves DEF Breakers
      <4>4. QED BY <1>2, <4>1, <4>2, <4>3 DEF ProbeInv, AtMostOneProbe
    <3>8. CASE LogFailureOnly(c)
      <4>1. \A d \in Clients : OutstandingProbe(d)' => OutstandingProbe(d) /\ call'[d] = call[d]
        BY <3>8, <2>0 DEF LogFailureOnly, TypeOK, Calls, NoCall
      <4>2. QED BY <1>2, <3>8, <4>1 DEF LogFailureOnly, ProbeInv, AtMostOneProbe
    <3>9. QED BY <2>1, <3>1, <3>2, <3>3, <3>4, <3>5, <3>6, <3>7, <3>8 DEF Step
  <2>2. CASE Tick
    <3>1. \A d \in Clients : OutstandingProbe(d)' =>
             OutstandingProbe(d) /\ call'[d].elapsed = call[d].elapsed + 1
      BY <2>2, <2>0, ClientsAssumption DEF Tick, Calls
    <3>2. /\ breaker'.state = breaker.state
          /\ breaker'.probing = breaker.probing
          /\ breaker'.age <= breaker.age + 1
      BY <2>2, <2>0, BreakerAssumption DEF Tick, Aged, Breakers
    <3>3. /\ breaker'.age \in 0..Cooldown
          /\ \A d \in Clients : call'[d].elapsed \in 0..OpMax
      BY <1>2 DEF TypeOK, Calls, Breakers
    <3>4. QED BY <1>2, <2>0, <3>1, <3>2, <3>3, ClientsAssumption, BreakerAssumption
              DEF ProbeInv, AtMostOneProbe
  <2>3. CASE RedisFails \/ RedisReturns \/ UNCHANGED vars
    BY <1>2, <2>3 DEF RedisFails, RedisReturns, vars, envVars, ProbeInv, AtMostOneProbe
  <2>4. QED
    BY <1>2, <2>1, <2>2, <2>3 DEF Next
<1>3. ProbeInv => AtMostOneProbe
  BY DEF ProbeInv
<1>4. QED
  BY <1>1, <1>2, <1>3, Typing, PTL DEF Spec

(* With the cache's protocol, where every admitted call records its        *)
(* outcome, the gate is always held by a thread that is still to record.   *)
THEOREM CacheGateSafety == Spec => []CacheGateHasAHolder
<1>1. Init => GateInv
  BY DEF Init, GateInv, NewBreaker, NoCall
<1>2. ASSUME TypeOK, GateInv, [Next]_vars PROVE GateInv'
  <2> SUFFICES ASSUME protocol = "cache" PROVE GateInv'
    <3>1. protocol' = protocol
      BY <1>2 DEF Next, vars
    <3>2. QED BY <3>1 DEF GateInv
  <2>0. /\ breaker \in Breakers
        /\ \A d \in Clients : call[d] \in Calls
        /\ \A d \in Clients : call[d].at # "entered"
        /\ \A d \in Clients : call[d].at = "idle" => call[d] = NoCall
        /\ ~NoCall.probe /\ NoCall.at = "idle"
    BY <1>2 DEF GateInv, TypeOK, NoCall
  <2>1. ASSUME NEW c \in Clients, Step(c) PROVE GateInv'
    <3>1. CASE Admit(c)
      <4>1. /\ call' = [call EXCEPT ![c].at = "sent", ![c].probe = Admission]
            /\ call[c].at = "idle" /\ Allows(breaker) /\ breaker' = Asked(breaker)
        BY <3>1 DEF Admit, AtGate
      <4>2. /\ call'[c].at = "sent"
            /\ call'[c].probe = Admission
            /\ \A d \in Clients : d # c => call'[d] = call[d]
        BY <4>1, <1>2 DEF TypeOK, Calls
      <4>3. CASE Admission
        <5>1. breaker'.state = "half_open"
          BY <4>1, <4>3, <2>0, BreakerMoves DEF Admission
        <5>2. call'[c].probe
          BY <4>2, <4>3
        <5>3. QED BY <2>0, <4>2, <5>1, <5>2 DEF GateInv
      <4>4. CASE ~Admission
        <5>1. EffectiveState(breaker) = "closed" /\ breaker.state = "closed"
          BY <4>1, <4>4 DEF Allows, Admission, EffectiveState
        <5>2. ~breaker.probing
          BY <5>1, <1>2 DEF GateInv
        <5>3. ~breaker'.probing
          BY <4>1, <5>1, <5>2, <2>0, BreakerMoves
        <5>4. QED BY <2>0, <4>2, <5>3 DEF GateInv
      <4>5. QED BY <4>3, <4>4
    <3>2. CASE Reject(c)
      <4>1. /\ call' = [call EXCEPT ![c] = NoCall]
            /\ call[c] = NoCall /\ ~Allows(breaker) /\ breaker' = Asked(breaker)
        BY <3>2, <2>0 DEF Reject, AtGate
      <4>2. call' = call
        BY <4>1, <1>2 DEF TypeOK
      <4>3. CASE breaker.probing
        <5>1. breaker.state = "half_open" /\ EffectiveState(breaker) = "half_open"
          BY <4>3, <1>2 DEF GateInv, EffectiveState
        <5>2. breaker'.state = "half_open"
          BY <4>1, <5>1, <2>0, BreakerMoves
        <5>3. QED BY <1>2, <4>2, <4>3, <5>2 DEF GateInv
      <4>4. CASE ~breaker.probing
        <5>1. EffectiveState(breaker) # "half_open"
          BY <4>1, <4>4 DEF Allows
        <5>2. ~breaker'.probing
          BY <4>1, <4>4, <5>1, <2>0, BreakerMoves
        <5>3. QED BY <1>2, <4>2, <5>2 DEF GateInv
      <4>5. QED BY <4>3, <4>4
    <3>3. CASE Reply(c)
      <4>1. /\ breaker' = breaker
            /\ \A d \in Clients : /\ call'[d].probe = call[d].probe
                                  /\ call'[d].at = IF d = c THEN "replied" ELSE call[d].at
                                  /\ d # c => call'[d] = call[d]
        BY <3>3, <1>2 DEF Reply, TypeOK, Calls
      <4>2. QED BY <1>2, <2>0, <4>1 DEF GateInv
    <3>4. CASE RecordSuccess(c)
      <4>1. \A d \in Clients : call'[d] = IF d = c THEN NoCall ELSE call[d]
        BY <3>4, <1>2 DEF RecordSuccess, TypeOK
      <4>2. ~breaker'.probing
        BY <3>4, <2>0, BreakerMoves DEF RecordSuccess
      <4>3. QED BY <2>0, <4>1, <4>2 DEF GateInv
    <3>5. CASE RecordFailure(c)
      <4>1. \A d \in Clients : call'[d] = IF d = c THEN NoCall ELSE call[d]
        BY <3>5, <1>2 DEF RecordFailure, TypeOK
      <4>2. ~breaker'.probing
        BY <3>5, <2>0, BreakerMoves DEF RecordFailure
      <4>3. QED BY <2>0, <4>1, <4>2 DEF GateInv
    <3>6. CASE GetClient(c) \/ BuildFails(c) \/ PrePublish(c) \/ LogFailureOnly(c)
      BY <3>6 DEF GetClient, BuildFails, PrePublish, LogFailureOnly
    <3>7. QED BY <2>1, <3>1, <3>2, <3>3, <3>4, <3>5, <3>6 DEF Step
  <2>2. CASE Tick
    <3>1. \A d \in Clients : /\ call'[d].probe = call[d].probe
                             /\ call'[d].at = call[d].at
                             /\ call[d].at = "idle" => call'[d] = call[d]
      BY <2>2, <2>0 DEF Tick, Calls, InFlight
    <3>2. breaker'.state = breaker.state /\ breaker'.probing = breaker.probing
      BY <2>2, <2>0 DEF Tick, Aged, Breakers
    <3>3. QED BY <1>2, <2>0, <3>1, <3>2 DEF GateInv
  <2>3. CASE RedisFails \/ RedisReturns \/ UNCHANGED vars
    BY <1>2, <2>3 DEF RedisFails, RedisReturns, vars, GateInv
  <2>4. QED
    BY <1>2, <2>1, <2>2, <2>3 DEF Next
<1>3. GateInv => CacheGateHasAHolder
  BY DEF GateInv, CacheGateHasAHolder, GateHasAHolder
<1>4. QED
  BY <1>1, <1>2, <1>3, Typing, PTL DEF Spec
=============================================================================
