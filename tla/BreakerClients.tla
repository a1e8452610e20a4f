--------------------------- MODULE BreakerClients ---------------------------
(***************************************************************************)
(* The threads that share one CircuitBreaker and the Redis they call.      *)
(*                                                                         *)
(* Three components of OSimFlow guard their Redis calls with a breaker,    *)
(* each with its own sequence of breaker calls around the operation:       *)
(*                                                                         *)
(*   "cache"     DistributedCache._shared_*: allow(), the call, record_*.  *)
(*   "document"  RedisDocumentStore: _get_client() calls check(), and the  *)
(*               proxy it returns calls check() again around the call.     *)
(*   "publish"   DistributedJobQueue._publish: a peek at .state on the     *)
(*               caller's thread, then check() and the call on a pool      *)
(*               thread; of the two except clauses only the one for the    *)
(*               builtin connection errors records the failure.            *)
(*                                                                         *)
(* A call is bounded by the 5 s socket timeouts, the breaker's cooldown is *)
(* 30 s: OpMax < Cooldown is that fact on the model's clock.               *)
(***************************************************************************)
EXTENDS CircuitBreaker

CONSTANTS Clients,   \* threads sharing the breaker
          Protocols, \* components whose breaker is considered
          OpMax      \* ticks within which a Redis call returns or times out

ASSUME ClientsAssumption ==
    /\ Protocols \subseteq {"cache", "document", "publish"}
    /\ OpMax \in Nat
    /\ OpMax < Cooldown

VARIABLES protocol, \* the component that owns the breaker
          breaker,  \* the shared breaker
          call,     \* what each thread is doing
          redisUp,  \* whether Redis answers
          built     \* whether the document store has its client

envVars == <<redisUp, built>>
vars == <<protocol, breaker, call, envVars>>

(* probe: this thread was let through a half-open circuit.                 *)
Calls == [at : {"idle", "entered", "sent", "replied"}, probe : BOOLEAN,
          ok : BOOLEAN, elapsed : 0..OpMax]

NoCall == [at |-> "idle", probe |-> FALSE, ok |-> FALSE, elapsed |-> 0]

Admission == EffectiveState(breaker) = "half_open"

TypeOK ==
    /\ protocol \in Protocols
    /\ breaker \in Breakers
    /\ call \in [Clients -> Calls]
    /\ redisUp \in BOOLEAN /\ built \in BOOLEAN

Init ==
    /\ protocol \in Protocols
    /\ breaker = NewBreaker
    /\ call = [c \in Clients |-> NoCall]
    /\ redisUp = TRUE
    /\ built = FALSE

-----------------------------------------------------------------------------
(* Before the guarded call. The cache has no first stage.                  *)

(* _get_client(): the first check() of a document-store operation. The     *)
(* first operation to get through builds the client.                       *)
GetClient(c) ==
    /\ protocol = "document"
    /\ call[c].at = "idle"
    /\ Allows(breaker)
    /\ call' = [call EXCEPT ![c].at = "entered", ![c].probe = Admission]
    /\ breaker' = Asked(breaker)
    /\ UNCHANGED envVars

(* It cannot: the failure is recorded, the operation raises.               *)
BuildFails(c) ==
    /\ protocol = "document"
    /\ call[c].at = "entered"
    /\ ~built
    /\ breaker' = Failed(breaker)
    /\ call' = [call EXCEPT ![c] = NoCall]
    /\ UNCHANGED envVars

(* Only a thread with a client gets as far as the second check().          *)
HasClient == built' = (built \/ protocol = "document")

(* The synchronous pre-check of _publish: a peek that consumes nothing.    *)
PrePublish(c) ==
    /\ protocol = "publish"
    /\ call[c].at = "idle"
    /\ EffectiveState(breaker) # "open"
    /\ call' = [call EXCEPT ![c].at = "entered"]
    /\ breaker' = Peeked(breaker)
    /\ UNCHANGED envVars

AtGate(c) == call[c].at = IF protocol = "cache" THEN "idle" ELSE "entered"

(* allow() / check() answers yes: the Redis call starts.                   *)
Admit(c) ==
    /\ AtGate(c)
    /\ Allows(breaker)
    /\ call' = [call EXCEPT ![c].at = "sent", ![c].probe = Admission]
    /\ breaker' = Asked(breaker)
    /\ HasClient
    /\ UNCHANGED redisUp

(* allow() / check() answers no: the operation is skipped or raises, and   *)
(* the thread records nothing.                                             *)
Reject(c) ==
    /\ AtGate(c)
    /\ ~Allows(breaker)
    /\ call' = [call EXCEPT ![c] = NoCall]
    /\ breaker' = Asked(breaker)
    /\ HasClient
    /\ UNCHANGED redisUp

-----------------------------------------------------------------------------
(* The guarded call and its outcome.                                       *)

(* Redis answers, or the call fails; the thread has not recorded it yet.   *)
Reply(c) ==
    /\ call[c].at = "sent"
    /\ call' = [call EXCEPT ![c].at = "replied", ![c].ok = redisUp]
    /\ UNCHANGED <<breaker, envVars>>

RecordSuccess(c) ==
    /\ call[c].at = "replied"
    /\ call[c].ok
    /\ breaker' = Succeeded(breaker)
    /\ call' = [call EXCEPT ![c] = NoCall]
    /\ UNCHANGED envVars

RecordFailure(c) ==
    /\ call[c].at = "replied"
    /\ ~call[c].ok
    /\ breaker' = Failed(breaker)
    /\ call' = [call EXCEPT ![c] = NoCall]
    /\ UNCHANGED envVars

(* The second except clause of _publish (RedisError, OSError): the failure *)
(* is logged and the breaker is told nothing.                              *)
LogFailureOnly(c) ==
    /\ protocol = "publish"
    /\ call[c].at = "replied"
    /\ ~call[c].ok
    /\ call' = [call EXCEPT ![c] = NoCall]
    /\ UNCHANGED <<breaker, envVars>>

-----------------------------------------------------------------------------
(* Time and Redis.                                                         *)

InFlight(c) == call[c].at \in {"sent", "replied"}

Tick ==
    /\ \A c \in Clients : InFlight(c) => call[c].elapsed < OpMax
    /\ breaker' = Aged(breaker)
    /\ call' = [c \in Clients |->
                  IF InFlight(c) THEN [call[c] EXCEPT !.elapsed = @ + 1]
                                 ELSE call[c]]
    /\ UNCHANGED envVars

RedisFails   == redisUp  /\ redisUp' = FALSE /\ UNCHANGED <<breaker, call, built>>
RedisReturns == ~redisUp /\ redisUp' = TRUE  /\ UNCHANGED <<breaker, call, built>>

Step(c) ==
    \/ GetClient(c) \/ BuildFails(c) \/ PrePublish(c) \/ Admit(c) \/ Reject(c)
    \/ Reply(c) \/ RecordSuccess(c) \/ RecordFailure(c) \/ LogFailureOnly(c)

Next ==
    /\ \/ \E c \in Clients : Step(c)
       \/ Tick
       \/ RedisFails
       \/ RedisReturns
    /\ UNCHANGED protocol

Spec == Init /\ [][Next]_vars

(* A campaign keeps issuing operations, its threads keep running, and the  *)
(* clock advances; nothing is assumed of Redis.                            *)
FairSpec ==
    /\ Spec
    /\ \A c \in Clients : WF_vars(Step(c) /\ UNCHANGED protocol)
    /\ WF_vars(Tick /\ UNCHANGED protocol)

-----------------------------------------------------------------------------
(* Safety.                                                                 *)

OutstandingProbe(c) == InFlight(c) /\ call[c].probe

(* allow() promises that in half-open "exactly one probe per               *)
(* record_success / record_failure cycle is admitted": two threads never   *)
(* have probes at a Redis that may still be down, even when the result of  *)
(* a call sent before the circuit opened arrives between the two.          *)
AtMostOneProbe ==
    \A c, d \in Clients : OutstandingProbe(c) /\ OutstandingProbe(d) => c = d

(* The gate is held only while some thread will release it: a gate nobody  *)
(* holds would reject every caller for ever (the deadlock of issue #1554   *)
(* that _publish describes).                                               *)
GateHasAHolder ==
    breaker.probing => \E c \in Clients : call[c].probe

(* GateHasAHolder for DistributedCache._shared_*, where each admitted call *)
(* records its outcome in every branch.                                    *)
CacheGateHasAHolder == protocol = "cache" => GateHasAHolder

-----------------------------------------------------------------------------
(* Liveness.                                                               *)

(* Once Redis is back for good the circuit closes again: "once the         *)
(* cooldown elapses, one probe request is allowed through: success closes  *)
(* the circuit".                                                           *)
RecoversAfterOutage == <>[]redisUp => []<>(breaker.state = "closed")

(* While Redis stays down the threads stop burning socket timeouts against *)
(* it: in the end at most one call at a time is out, the probe.            *)
OutageIsThrottled ==
    <>[]~redisUp => <>[](\A c, d \in Clients : InFlight(c) /\ InFlight(d) => c = d)

(* Both for the threads of DistributedCache._shared_*.                     *)
CacheRecoversAfterOutage == protocol = "cache" => RecoversAfterOutage
CacheOutageIsThrottled   == protocol = "cache" => OutageIsThrottled
=============================================================================
