--------------------------- MODULE PaymentGateway ---------------------------
(***************************************************************************)
(* The payment flow of the gateway: concurrent payment requests and bill    *)
(* fetches, AmbiguousStateWorker, the recovery workers, manual              *)
(* reconciliation and OneView, all on the same rows, and time, which makes  *)
(* a row stale when it has not been updated for 15 seconds.                 *)
(***************************************************************************)
EXTENDS PaymentHandler, AmbiguousStateWorker, RecoveryWorker, ReconciliationApi

CONSTANT Timely   \* TRUE: no network call outlasts the 15 s cutoff

ASSUME TimelyAssumption == Timely \in BOOLEAN
ASSUME SessionsAssumption ==
  /\ AmbiguousWorker \notin RecoveryWorkers \cup OneViews
  /\ RecoveryWorkers \cap OneViews = {}

vars == <<storeVars, handlerVars, ambiguousVars, recoveryVars, oneViewVars>>

TypeOK == /\ StoreTypeOK
          /\ HandlerTypeOK
          /\ AmbiguousTypeOK
          /\ RecoveryTypeOK
          /\ OneViewTypeOK

Init == /\ StoreInit
        /\ HandlerInit
        /\ AmbiguousInit
        /\ RecoveryInit
        /\ OneViewInit

\* a request still works on row k
Live(k) == \E r \in Requests : Ref[r] = k /\ r \notin crashed /\ pc[r] \in Running

\* 15 seconds pass without an update of row k
Age(k) ==
  /\ tx[k] \in InFlight /\ ~stale[k]
  /\ Timely => ~Live(k)
  /\ stale' = [stale EXCEPT ![k] = TRUE]
  /\ UNCHANGED <<tx, payload, idem, rec, held, handlerVars, ambiguousVars, recoveryVars, oneViewVars>>

Next ==
  \/ HandlerNext /\ UNCHANGED <<ambiguousVars, recoveryVars, oneViewVars>>
  \/ AmbiguousNext /\ UNCHANGED <<handlerVars, recoveryVars, oneViewVars>>
  \/ RecoveryNext /\ UNCHANGED <<handlerVars, ambiguousVars, oneViewVars>>
  \/ OneViewNext /\ UNCHANGED <<handlerVars, ambiguousVars, recoveryVars>>
  \/ ReconcileNext /\ UNCHANGED <<handlerVars, ambiguousVars, recoveryVars>>
  \/ \E k \in Keys : Age(k)

Spec == Init /\ [][Next]_vars

\* Every coroutine that can run is scheduled by the event loop, every worker loop
\* sleeps a few seconds and iterates again, time passes.
Fairness ==
  /\ \A r \in Requests : WF_vars(Progress(r) /\ UNCHANGED <<ambiguousVars, recoveryVars, oneViewVars>>)
  /\ WF_vars(AmbiguousProgress /\ UNCHANGED <<handlerVars, recoveryVars, oneViewVars>>)
  /\ \A w \in RecoveryWorkers :
       /\ WF_vars((RecoveryScan(w) \/ RecoveryEnd(w)) /\ UNCHANGED <<handlerVars, ambiguousVars, oneViewVars>>)
       /\ \A k \in Keys :
            WF_vars(RecoveryTake(w, k) /\ UNCHANGED <<handlerVars, ambiguousVars, oneViewVars>>)
  /\ \A o \in OneViews :
       WF_vars(OneViewClose(o) /\ UNCHANGED <<handlerVars, ambiguousVars, recoveryVars>>)
  /\ \A k \in Keys : WF_vars(Age(k))

FairSpec == Spec /\ Fairness

-----------------------------------------------------------------------------
\* At most one request of a source_ref_no ever gets past the idempotency lock, so
\* at most one submits the payment to the network: acquire_lock with its unique key,
\* against any interleaving of duplicates, failures and recoveries.
OneOwner ==
  \A r1, r2 \in Requests :
    r1 # r2 /\ Ref[r1] = Ref[r2] => ~(pc[r1] \in Owning /\ pc[r2] \in Owning)

\* The two tables agree on every resolved payment: whoever settles or fails a row
\* (the request, the worker, an operator, OneView) leaves the matching idempotency
\* status in the same commit, even when it overwrites somebody else's outcome.
ResolvedAgrees ==
  \A k \in Payments : tx[k] \in Resolved => idem[k] = StatusOf(tx[k])

\* A duplicate of a successful payment never finds the cached response missing:
\* status SUCCESS is only ever committed with a payload, and none is erased.
SuccessHasPayload ==
  \A k \in Payments : idem[k] = "SUCCESS" => payload[k] # Absent

\* While AmbiguousStateWorker still holds the lock of a row, the object it loaded
\* is the row: only after its first commit can its batch be out of date.
LockedBatchIsFresh ==
  \A k \in held[AmbiguousWorker] : batch[k] = tx[k]

\* Where the comments of ALLOWED_TRANSITIONS fail, and where they do not: an outcome in the
\* ledger is overwritten only through an object loaded before the outcome was committed,
\* once per object: by the payment's own late request, by AmbiguousStateWorker when the
\* first commit of its batch has given up the row's lock, by OneView.  The recovery workers
\* and the operators never do, whatever was committed since they found the row ambiguous.
OverwrittenThroughOldObjects ==
  [][\A k \in Keys : tx[k] \in Terminal /\ tx'[k] # tx[k] =>
       \/ \E r \in Requests : Ref[r] = k /\ pc[r] \in Running /\ pc'[r] # pc[r]
       \/ batch[k] # Absent /\ batch'[k] = Absent /\ k \notin held[AmbiguousWorker]
       \/ \E o \in OneViews : k \in viewed[o] /\ k \notin viewed'[o]]_vars

\* The comments of ALLOWED_TRANSITIONS: SETTLED, FAILED and FAILED_DLQ are terminal,
\* so no committed step takes a row out of them.
TerminalIsFinal ==
  [][\A k \in Keys : tx[k] \in Terminal => tx'[k] = tx[k]]_vars

\* The reconciliation log tells the story of the row: none or one PENDING entry while
\* it is ambiguous, exactly one entry with the outcome once it is resolved.
AuditTrail ==
  \A k \in Payments :
    /\ tx[k] \in Resolved => rec[k] = <<tx[k]>>
    /\ tx[k] = "AMBIGUOUS_TIMEOUT" => rec[k] \in {<<>>, <<"PENDING">>}

\* ReconciliationWorker and RecoveryService: a transaction in AMBIGUOUS_TIMEOUT is
\* detected and resolved.
AmbiguousGetsResolved ==
  \A k \in Keys : tx[k] = "AMBIGUOUS_TIMEOUT" ~> tx[k] \in Resolved

\* A payment that reached the network is resolved in the end, even if the request
\* that submitted it died: AmbiguousStateWorker and RecoveryService between them.
SubmittedGetsResolved ==
  \A k \in Keys : tx[k] = "NETWORK_IN_FLIGHT" ~> tx[k] \in Resolved

\* AmbiguousStateWorker "detects transactions stuck in non-terminal, in-flight states
\* (e.g., INITIALIZED, PENDING_SUBMISSION, NETWORK_IN_FLIGHT) for too long": a payment
\* stuck in flight does not stay there.
StuckGetsDetected ==
  \A k \in Payments : tx[k] \in InFlight /\ stale[k] ~> tx[k] \notin InFlight
=============================================================================
