----------------------------- MODULE RetryQueue -----------------------------
(***************************************************************************)
(* RetryWorker with the other writer that takes rows out of PENDING_RETRY:  *)
(* the manual reconciliation.  No code of the gateway puts a row into       *)
(* PENDING_RETRY; the rows come from outside, as the seeding script and the *)
(* worker tests insert them, so they are the initial state.                 *)
(***************************************************************************)
EXTENDS RetryWorker, ReconciliationApi

ASSUME RetryQueueAssumption == RetryWorkers \cap OneViews = {}

vars == <<storeVars, retryVars, oneViewVars>>

TypeOK == StoreTypeOK /\ RetryTypeOK /\ OneViewTypeOK

\* Rows as they are seeded: due or not, tried some times, with the PENDING lock the
\* tests give them or, from the script, without one.
Init ==
  /\ tx = [k \in Keys |-> "PENDING_RETRY"]
  /\ payload = [k \in Keys |-> Absent]
  /\ stale = [k \in Keys |-> FALSE]
  /\ idem \in [Keys -> {Absent, "PENDING"}]
  /\ rec = [k \in Keys |-> <<>>]
  /\ held = [a \in Lockers |-> {}]
  /\ attempts \in [Keys -> 0..MaxRetries]
  /\ due = [k \in Keys |-> FALSE]
  /\ todo = [w \in RetryWorkers |-> {}]
  /\ loaded = [w \in RetryWorkers |-> [k \in Keys |-> 0]]
  /\ executed = attempts
  /\ undone = [k \in Keys |-> 0]
  /\ OneViewInit

Next ==
  \/ RetryNext /\ UNCHANGED oneViewVars
  \/ ReconcileNext /\ UNCHANGED retryVars

Spec == Init /\ [][Next]_vars

\* The loops keep iterating, time passes, and neither cancellations nor the database
\* hit the retry of a row every time: it is taken if it comes up again and again.
FairSpec ==
  /\ Spec
  /\ \A k \in Keys : WF_vars(RetryFallsDue(k) /\ UNCHANGED oneViewVars)
  /\ \A w \in RetryWorkers :
       /\ WF_vars(RetryScan(w) /\ UNCHANGED oneViewVars)
       /\ \A k \in Keys : SF_vars(RetryRow(w, k) /\ UNCHANGED oneViewVars)

-----------------------------------------------------------------------------
\* "moves persistent failures exceeding 5 attempts to FAILED_DLQ" (RetryWorker), as far as
\* the worker can count: the retries made of a row are MaxRetries at most, and one more for
\* each whose count a rollback took back together with its outcome; nothing else adds a
\* retry, and a row is dead-lettered with exactly that many.
RetriesAreBounded ==
  \A k \in Keys : /\ executed[k] <= MaxRetries + undone[k]
                  /\ tx[k] = "FAILED_DLQ" => executed[k] = MaxRetries + undone[k]

\* As in PaymentGateway, for the rows that have a lock: whoever resolves a row leaves
\* the matching idempotency status in the same commit.
ResolvedAgrees ==
  \A k \in Keys :
    tx[k] \in Resolved /\ idem[k] # Absent => idem[k] = StatusOf(tx[k])

\* A row whose lock a worker keeps is not written by an operator, and the worker's
\* object of it is up to date.
LockedRowIsFresh ==
  \A w \in RetryWorkers : \A k \in held[w] \cap todo[w] :
    tx[k] = "PENDING_RETRY" /\ loaded[w][k] = attempts[k]

\* Retries end: settled, failed by an operator, or dead-lettered.
RetriesEnd == \A k \in Keys : tx[k] = "PENDING_RETRY" ~> tx[k] \in Terminal
=============================================================================
