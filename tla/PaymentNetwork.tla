--------------------------- MODULE PaymentNetwork ---------------------------
(***************************************************************************)
(* Payment requests on their way through the circuit breaker: what the      *)
(* handler commits is what apply_resilience_boundaries answered it.  The    *)
(* breaker is one for the process, so that other requests (callers whose    *)
(* payments are left out) trip it while a payment waits for the network.    *)
(*                                                                          *)
(* The network has a payment once the function call() wraps has run: leg is *)
(* then "ok" or "failure", and stays so, as a request makes one call.        *)
(* Workers and operators, who resolve payments without asking the network,   *)
(* are left to PaymentGateway.                                               *)
(***************************************************************************)
EXTENDS CircuitBreaker

CONSTANTS Payments, Bills, Requests, Ref, ValidatedBy, CrashAt   \* as in PaymentHandler

VARIABLES tx, payload, stale, idem, rec, held, pc, crashed

Handler == INSTANCE PaymentHandler WITH Lockers <- {}, Faults <- FALSE

ASSUME NetworkAssumption ==
  /\ Requests \subseteq Callers
  /\ Payments \cap Bills = {}
  /\ Ref \in [Requests -> Payments]
  /\ ValidatedBy \in [Requests -> SUBSET Bills]
  /\ CrashAt \subseteq {"insert", "created", "inflight"}

paymentVars == <<tx, payload, stale, idem, rec, held, pc, crashed>>

networkVars == <<vars, paymentVars>>

NetworkInit == Init /\ Handler!StoreInit /\ Handler!HandlerInit

\* What a handler does before its call: the look-up of the key, the commits of the
\* payment and of its submission
Prepares(r) ==
  \/ Handler!LookupNone(r) \/ Handler!LookupPending(r) \/ Handler!LookupFinal(r)
  \/ Handler!Insert(r) \/ Handler!Submit(r)

\* The answers of call()
Returns(c) == Blocked(c) \/ Succeed(c) \/ Fail(c)

\* The call, of a handler that is alive
Calls(r) ==
  /\ Handler!At(r, "inflight")
  /\ \/ leg[r] = "outside" /\ Enter(r)
     \/ Returns(r)

\* The except clauses around the call, and the settlement after it
Commits(r) ==
  \/ leg[r] = "ok" /\ Handler!Settle(r)
  \/ leg[r] = "failure" /\ Handler!TimeOut(r)
  \/ leg[r] = "open" /\ Handler!Fail(r)

Others == Callers \ Requests

NetworkNext ==
  \/ (CoolDown \/ Poll) /\ UNCHANGED paymentVars
  \/ \E c \in Others : (Enter(c) \/ Returns(c)) /\ UNCHANGED paymentVars
  \/ \E r \in Requests : Calls(r) /\ UNCHANGED paymentVars
  \/ \E r \in Requests :
       /\ Handler!Reject(r) \/ Prepares(r) \/ Commits(r) \/ Handler!Crash(r)
       /\ UNCHANGED vars
  \/ \E b \in Bills : Handler!FetchBill(b) /\ UNCHANGED vars

NetworkSpec == NetworkInit /\ [][NetworkNext]_networkVars

\* Time passes, other requests keep coming, every latency ends, and the event loop
\* comes back to every handler.
NetworkFairSpec ==
  /\ NetworkSpec
  /\ WF_networkVars(CoolDown /\ UNCHANGED paymentVars)
  /\ \A c \in Others : /\ WF_networkVars(Enter(c) /\ UNCHANGED paymentVars)
                       /\ WF_networkVars(Returns(c) /\ UNCHANGED paymentVars)
  /\ \A r \in Requests : /\ WF_networkVars(Calls(r) /\ UNCHANGED paymentVars)
                         /\ WF_networkVars(Commits(r) /\ UNCHANGED vars)

-----------------------------------------------------------------------------
\* The requests of a payment that the network has got
Sent(k) == {r \in Requests : Ref[r] = k /\ leg[r] \in {"ok", "failure"}}

\* The network gets a payment once at most, and what its clients are told is so: who is
\* told that it succeeded, in the answer or from the cache, the network accepted it; who
\* is told that it failed, it never got there, and never will by a later request.
AnswersTellNetwork ==
  /\ \A r, q \in Requests :
       (r \in Sent(Ref[r]) /\ q \in Sent(Ref[r])) => r = q
  /\ \A r \in Requests :
       /\ pc[r] \in {"settled", "cached"} => \E q \in Sent(Ref[r]) : leg[q] = "ok"
       /\ pc[r] \in {"failed", "not_cached"} => Sent(Ref[r]) = {}

\* Every call of the network ends, also if the breaker is tripped during its latency, and
\* so does the request of every submitted payment, unless its coroutine is gone.
CallsEnd ==
  /\ \A c \in Others : leg[c] \in InNetwork ~> leg[c] \in Outcomes
  /\ \A r \in Requests :
       pc[r] = "inflight" ~> (pc[r] \in Handler!Answered \/ r \in crashed)
=============================================================================
