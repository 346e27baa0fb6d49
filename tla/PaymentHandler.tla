--------------------------- MODULE PaymentHandler ---------------------------
(***************************************************************************)
(* POST .../billpay/payments (PaymentService.process_payment) and the bill  *)
(* fetch that precedes it.  Every request is a coroutine with a session of  *)
(* its own; between two of its database transactions any other session may  *)
(* run.  A request carries a source_ref_no, the idempotency key: a client   *)
(* that retries sends the same one.                                         *)
(*                                                                          *)
(* The request's session keeps the tx_log and lock_record objects it        *)
(* created, so from "created" on it validates against the state it wrote    *)
(* itself (INITIALIZED, then NETWORK_IN_FLIGHT) and sees its lock as        *)
(* PENDING, whatever the rows are by then.                                  *)
(***************************************************************************)
EXTENDS PaymentStore

CONSTANTS Requests,   \* payment requests
          Ref,        \* Ref[r]: the source_ref_no of request r
          ValidatedBy,\* ValidatedBy[r]: the bill whose validationid r depends on, if any
          CrashAt     \* the points at which a request's coroutine may die

ASSUME RequestsAssumption ==
  /\ Ref \in [Requests -> Payments]
  /\ ValidatedBy \in [Requests -> SUBSET Bills]
  /\ CrashAt \subseteq {"insert", "created", "inflight"}

VARIABLES pc,        \* what request r does next, or how it was answered
          crashed    \* the requests whose coroutine was cancelled or died

handlerVars == <<pc, crashed>>

\* the owner of a payment: it inserted the idempotency row
Running  == {"created", "inflight"}
Answered == {"settled", "ambiguous", "failed"}
Owning   == Running \cup Answered
\* requests that never own the payment
Refused  == {"rejected", "conflict", "cached", "not_cached", "error"}

HandlerTypeOK ==
  /\ pc \in [Requests -> {"start", "insert"} \cup Owning \cup Refused]
  /\ crashed \subseteq Requests

HandlerInit ==
  /\ pc = [r \in Requests |-> "start"]
  /\ crashed = {}

At(r, l) == r \notin crashed /\ pc[r] = l
Goto(r, l) == pc' = [pc EXCEPT ![r] = l] /\ UNCHANGED crashed

-----------------------------------------------------------------------------
\* FetchBillService.fetch_bill stores the bill it returns as an INITIALIZED row
FetchBill(b) ==
  /\ tx[b] = Absent
  /\ SetState(b, "INITIALIZED")
  /\ payload' = [payload EXCEPT ![b] = "bill"]
  /\ UNCHANGED <<idem, rec, held, handlerVars>>

\* 400/404 before any write: a missing field, an unknown biller, a bad
\* authenticator or approval date, or a validationid with no INITIALIZED row
Reject(r) ==
  /\ At(r, "start")
  /\ Goto(r, "rejected")
  /\ UNCHANGED storeVars

\* the enrichment from the validation context finds what r depends on
Validated(r) == \A b \in ValidatedBy[r] : tx[b] = "INITIALIZED"

\* IdempotencyEngine.acquire_lock finds no row (the insert is a later step)
LookupNone(r) ==
  /\ At(r, "start") /\ Validated(r)
  /\ idem[Ref[r]] = Absent
  /\ Goto(r, "insert")
  /\ UNCHANGED storeVars

\* acquire_lock finds the key PENDING: IdempotencyViolationError
LookupPending(r) ==
  /\ At(r, "start") /\ Validated(r)
  /\ idem[Ref[r]] = "PENDING"
  /\ Goto(r, "conflict")
  /\ UNCHANGED storeVars

\* The key is final: the duplicate is answered from response_payload.  A payload
\* that is not a PayBillResponse fails its validation (a 500).
LookupFinal(r) ==
  /\ At(r, "start") /\ Validated(r)
  /\ idem[Ref[r]] \in {"SUCCESS", "FAILED"}
  /\ Goto(r, CASE payload[Ref[r]] = "full" -> "cached"
               [] payload[Ref[r]] = Absent -> "not_cached"
               [] OTHER                    -> "error")
  /\ UNCHANGED storeVars

\* Mutant of Insert: no unique key, a lost race goes on
InsertsTwice(r) ==
  LET k == Ref[r] IN
  /\ At(r, "insert")
  /\ idem' = [idem EXCEPT ![k] = "PENDING"]
  /\ SetState(k, "INITIALIZED")
  /\ Goto(r, "created")
  /\ UNCHANGED <<payload, rec, held>>

\* The insert of the PENDING idempotency row and of the INITIALIZED log, one
\* commit; the unique key turns a lost race into IdempotencyViolationError.
Insert(r) ==
  LET k == Ref[r] IN
  /\ At(r, "insert")
  /\ \/ /\ idem[k] = Absent
        /\ idem' = [idem EXCEPT ![k] = "PENDING"]
        /\ SetState(k, "INITIALIZED")
        /\ Goto(r, "created")
        /\ UNCHANGED <<payload, rec, held>>
     \/ /\ idem[k] # Absent
        /\ Goto(r, "conflict")
        /\ UNCHANGED storeVars

\* INITIALIZED -> PENDING_SUBMISSION -> NETWORK_IN_FLIGHT in one transaction,
\* then the call to the network.  Both are validated against the cached object.
Submit(r) ==
  /\ At(r, "created") /\ Unlocked(Ref[r])
  /\ SetState(Ref[r], "NETWORK_IN_FLIGHT")
  /\ Goto(r, "inflight")
  /\ UNCHANGED <<payload, idem, rec, held>>

\* Mutant of Settle: the response is not stored
SettlesWithoutPayload(r) ==
  LET k == Ref[r] IN
  /\ At(r, "inflight") /\ Unlocked(k)
  /\ SetState(k, "SETTLED")
  /\ idem' = WithStatus(k, "SUCCESS")
  /\ rec' = [rec EXCEPT ![k] = Append(@, "SETTLED")]
  /\ Goto(r, "settled")
  /\ UNCHANGED <<payload, held>>

\* The network accepted: SETTLED with the full response, lock SUCCESS, a new log
Settle(r) ==
  LET k == Ref[r] IN
  /\ At(r, "inflight") /\ Unlocked(k)
  /\ SetState(k, "SETTLED")
  /\ payload' = [payload EXCEPT ![k] = "full"]
  /\ idem' = WithStatus(k, "SUCCESS")
  /\ rec' = [rec EXCEPT ![k] = Append(@, "SETTLED")]
  /\ Goto(r, "settled")
  /\ UNCHANGED held

\* TransactionFailedError from the network (504 or 503).  The write of PENDING to
\* the lock object, which still says PENDING, is no change: no UPDATE is sent.
TimeOut(r) ==
  LET k == Ref[r] IN
  /\ At(r, "inflight") /\ Unlocked(k)
  /\ SetState(k, "AMBIGUOUS_TIMEOUT")
  /\ rec' = [rec EXCEPT ![k] = Append(@, "PENDING")]
  /\ Goto(r, "ambiguous")
  /\ UNCHANGED <<payload, idem, held>>

\* Mutant of Fail: the lock stays PENDING
FailKeepsLock(r) ==
  LET k == Ref[r] IN
  /\ At(r, "inflight") /\ Unlocked(k)
  /\ SetState(k, "FAILED")
  /\ rec' = [rec EXCEPT ![k] = Append(@, "FAILED")]
  /\ Goto(r, "failed")
  /\ UNCHANGED <<payload, idem, held>>

\* The breaker is open, or the call failed otherwise: FAILED, lock FAILED, a new log
Fail(r) ==
  LET k == Ref[r] IN
  /\ At(r, "inflight") /\ Unlocked(k)
  /\ SetState(k, "FAILED")
  /\ idem' = WithStatus(k, "FAILED")
  /\ rec' = [rec EXCEPT ![k] = Append(@, "FAILED")]
  /\ Goto(r, "failed")
  /\ UNCHANGED <<payload, held>>

\* The process dies, or the coroutine is cancelled, between two commits: what is
\* not committed is rolled back
Crash(r) ==
  /\ pc[r] \in CrashAt
  /\ r \notin crashed
  /\ crashed' = crashed \cup {r}
  /\ UNCHANGED <<storeVars, pc>>

Progress(r) == \/ LookupNone(r) \/ LookupPending(r) \/ LookupFinal(r)
               \/ Insert(r) \/ Submit(r)
               \/ Settle(r) \/ TimeOut(r) \/ Fail(r)

HandlerNext == \/ \E b \in Bills : FetchBill(b)
               \/ \E r \in Requests : Reject(r) \/ Progress(r) \/ Crash(r)
=============================================================================
