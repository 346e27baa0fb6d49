--------------------------- MODULE CircuitBreaker ---------------------------
(***************************************************************************)
(* billing_circuit_breaker and the payment requests that go through         *)
(* NetworkSimulationService.apply_resilience_boundaries: a look at the      *)
(* breaker, the latency of the network, then call().  The functions call()  *)
(* wraps do not suspend and its lock is never contended, so under asyncio   *)
(* one call() is one step; the only suspension is the latency, during which *)
(* other requests trip the breaker, and time lets it cool down.             *)
(***************************************************************************)
EXTENDS Naturals, FiniteSets

CONSTANTS Callers,        \* concurrent payment requests
          Threshold,      \* failure_threshold
          MaxFailures     \* bound on failure_count: a model stops counting there

ASSUME CallersAssumption == IsFiniteSet(Callers)
ASSUME ThresholdAssumption ==
  /\ Threshold \in Nat \ {0}
  /\ MaxFailures \in Nat
  /\ Threshold <= MaxFailures

VARIABLES breaker,        \* state
          failureCount,   \* failure_count
          cooled,         \* cooldown_seconds have passed since last_state_change
          leg,            \* where each request is
          streak          \* calls that failed since one last succeeded (history)

vars == <<breaker, failureCount, cooled, leg, streak>>

BreakerStates == {"CLOSED", "OPEN", "HALF_OPEN"}

\* Outside the boundary, waiting for the network after it saw the breaker CLOSED or
\* as a trial after it saw it HALF_OPEN, or answered: ok, failure (504/503), or
\* CircuitBreakerOpenException
Outcomes == {"ok", "failure", "open"}
InNetwork == {"normal", "trial"}
Outside == {"outside"} \cup Outcomes
Legs == Outside \cup InNetwork

TypeOK ==
  /\ breaker \in BreakerStates
  /\ failureCount \in 0..MaxFailures
  /\ cooled \in BOOLEAN
  /\ leg \in [Callers -> Legs]
  /\ streak \in Nat

Init ==
  /\ breaker = "CLOSED"
  /\ failureCount = 0
  /\ cooled = FALSE
  /\ leg = [c \in Callers |-> "outside"]
  /\ streak = 0

Answer(c, l) == leg' = [leg EXCEPT ![c] = l]

\* _check_cooldown_expiry: the state every method works with
Current == IF breaker = "OPEN" /\ cooled THEN "HALF_OPEN" ELSE breaker

\* Mutant of MoveTo: OPEN to OPEN by way of HALF_OPEN does not restart the cooldown
MoveToKeepsClock(s) ==
  /\ breaker' = s
  /\ cooled' = IF s = breaker THEN cooled ELSE FALSE

\* The state after Current.  An elapsed cooldown is used up: Current has moved OPEN to
\* HALF_OPEN, a change of state, which like the one to OPEN sets last_state_change.
MoveTo(s) ==
  /\ breaker' = s
  /\ cooled' = FALSE

\* cooldown_seconds pass while the breaker is open
CoolDown ==
  /\ breaker = "OPEN" /\ ~cooled
  /\ cooled' = TRUE
  /\ UNCHANGED <<breaker, failureCount, leg, streak>>

\* get_state, as the demo endpoint that reports the breaker also calls it
Poll ==
  /\ Current # breaker
  /\ MoveTo(Current)
  /\ UNCHANGED <<failureCount, leg, streak>>

\* Mutant of Enter: the cooldown is not checked
EntersWithoutCooldown(c) ==
  /\ leg[c] \in Outside
  /\ Answer(c, CASE breaker = "OPEN"      -> "open"
                 [] breaker = "HALF_OPEN" -> "trial"
                 [] breaker = "CLOSED"    -> "normal")
  /\ UNCHANGED <<breaker, cooled, failureCount, streak>>

\* get_state in apply_resilience_boundaries: OPEN short-circuits, else the latency
Enter(c) ==
  /\ leg[c] \in Outside
  /\ MoveTo(Current)
  /\ Answer(c, CASE Current = "OPEN"      -> "open"
                 [] Current = "HALF_OPEN" -> "trial"
                 [] Current = "CLOSED"    -> "normal")
  /\ UNCHANGED <<failureCount, streak>>

\* Mutant of Blocked: the call waits for the breaker instead of raising
BlockedWaits(c) ==
  /\ leg[c] \in InNetwork
  /\ Current = "OPEN"
  /\ UNCHANGED vars

\* call() finds the breaker tripped by others during the latency
Blocked(c) ==
  /\ leg[c] \in InNetwork
  /\ Current = "OPEN"
  /\ Answer(c, "open")
  /\ UNCHANGED <<breaker, cooled, failureCount, streak>>

\* Mutant of Succeed: one failure is forgiven, instead of all
SucceedForgivesOne(c) ==
  /\ leg[c] \in InNetwork
  /\ Current # "OPEN"
  /\ MoveTo("CLOSED")
  /\ failureCount' = failureCount - 1
  /\ streak' = 0
  /\ Answer(c, "ok")

\* call(force_success)
Succeed(c) ==
  /\ leg[c] \in InNetwork
  /\ Current # "OPEN"
  /\ MoveTo("CLOSED")
  /\ failureCount' = 0
  /\ streak' = 0
  /\ Answer(c, "ok")

\* Mutant of Fail: trips one failure late
FailTripsLate(c) ==
  /\ leg[c] \in InNetwork
  /\ Current # "OPEN"
  /\ failureCount < MaxFailures
  /\ failureCount' = failureCount + 1
  /\ streak' = streak + 1
  /\ MoveTo(IF failureCount' > Threshold \/ Current = "HALF_OPEN" THEN "OPEN" ELSE "CLOSED")
  /\ Answer(c, "failure")

\* call(force_fail): counted, and tripping at the threshold or on any trial
Fail(c) ==
  /\ leg[c] \in InNetwork
  /\ Current # "OPEN"
  /\ failureCount < MaxFailures
  /\ failureCount' = failureCount + 1
  /\ streak' = streak + 1
  /\ MoveTo(IF failureCount' >= Threshold \/ Current = "HALF_OPEN" THEN "OPEN" ELSE "CLOSED")
  /\ Answer(c, "failure")

Next ==
  \/ CoolDown
  \/ Poll
  \/ \E c \in Callers : Enter(c) \/ Blocked(c) \/ Succeed(c) \/ Fail(c)

Spec == Init /\ [][Next]_vars

-----------------------------------------------------------------------------
\* The breaker protects only once the backend has failed Threshold times in a row,
\* and never later: closed means fewer consecutive failures than that, open or
\* half-open at least that many, across every interleaving of late answers.
TripsAtThreshold ==
  IF breaker = "CLOSED" THEN streak < Threshold ELSE streak >= Threshold

\* Every period of OPEN lasts a cooldown of its own: until one has passed, no late answer
\* and no poll ends it, nobody enters the network and no call comes back with an answer;
\* and a late failure or a failed trial that leaves the breaker OPEN begins a new period.
OpenIsLeftByCooldown ==
  [][/\ breaker = "OPEN" /\ ~cooled =>
          /\ breaker' = "OPEN"
          /\ \A c \in Callers : leg'[c] \in InNetwork \cup {"ok", "failure"} => leg'[c] = leg[c]
     /\ \A c \in Callers :
          leg[c] # "failure" /\ leg'[c] = "failure" /\ breaker' = "OPEN" => ~cooled']_vars

\* An open breaker does not stay open: with requests coming in, the cooldown lets
\* a trial through.
OpenEnds == breaker = "OPEN" ~> breaker # "OPEN"
=============================================================================
