--------------------------- MODULE RecoveryWorker ---------------------------
(***************************************************************************)
(* ReconciliationWorker's loop over RecoveryService and SettlementService:  *)
(* it lists the trace ids in AMBIGUOUS_TIMEOUT, then takes them one by one,  *)
(* locking the row and reading its state again.  Every process of the       *)
(* gateway runs one such worker.                                            *)
(***************************************************************************)
EXTENDS PaymentStore

CONSTANT RecoveryWorkers   \* their sessions

ASSUME RecoveryAssumption == RecoveryWorkers \subseteq Lockers

VARIABLE found   \* found[w]: the trace ids w's scan returned and it still has to take

recoveryVars == <<found>>

RecoveryTypeOK == found \in [RecoveryWorkers -> SUBSET Keys]

RecoveryInit == found = [w \in RecoveryWorkers |-> {}]

AmbiguousRows == {k \in Keys : tx[k] = "AMBIGUOUS_TIMEOUT"}

Took(w, k) == found' = [found EXCEPT ![w] = @ \ {k}]

\* the scan selects a column, so no object is kept: every row is read again
RecoveryScan(w) ==
  /\ found[w] = {} /\ held[w] = {}
  /\ AmbiguousRows # {}
  /\ found' = [found EXCEPT ![w] = AmbiguousRows]
  /\ UNCHANGED storeVars

\* resolved by somebody else meanwhile: skipped, its lock kept until the next commit
RecoverySkip(w, k) ==
  /\ k \in found[w] /\ UnlockedFor(k, w)
  /\ tx[k] # "AMBIGUOUS_TIMEOUT"
  /\ held' = [held EXCEPT ![w] = @ \cup {k}]
  /\ Took(w, k)
  /\ UNCHANGED <<tx, payload, stale, idem, rec>>

\* Mutant of RecoveryResolve: the state is not checked again under the lock
RecoveryTrustsScan(w, k) ==
  /\ k \in found[w] /\ UnlockedFor(k, w)
  /\ OneLogAtMost(k)
  /\ \E s \in Resolved : Resolve(k, s)
  /\ held' = Released(w)
  /\ Took(w, k)

\* still ambiguous under the lock: the polled outcome, by resolve_settlement
RecoveryResolve(w, k) ==
  /\ k \in found[w] /\ UnlockedFor(k, w)
  /\ tx[k] = "AMBIGUOUS_TIMEOUT"
  /\ OneLogAtMost(k)
  /\ \E s \in Resolved : Resolve(k, s)
  /\ held' = Released(w)
  /\ Took(w, k)

\* Rollback, and on to the next trace id: a second reconciliation log makes
\* scalar_one_or_none raise, or the database fails (also to break a deadlock)
RecoveryError(w, k) ==
  /\ k \in found[w]
  /\ \/ Faults
     \/ UnlockedFor(k, w) /\ tx[k] = "AMBIGUOUS_TIMEOUT" /\ ~OneLogAtMost(k)
  /\ held' = Released(w)
  /\ Took(w, k)
  /\ UNCHANGED <<tx, payload, stale, idem, rec>>

\* Mutant of RecoveryEnd: no commit ends the iteration
RecoveryNeverEnds(w) ==
  /\ found[w] = {} /\ held[w] # {}
  /\ UNCHANGED <<storeVars, found>>

\* the commit at the end of the iteration
RecoveryEnd(w) ==
  /\ found[w] = {} /\ held[w] # {}
  /\ held' = Released(w)
  /\ UNCHANGED <<tx, payload, stale, idem, rec, found>>

\* stop() cancels the task, or the process dies
RecoveryAbort(w) ==
  /\ Faults /\ found[w] # {}
  /\ found' = [found EXCEPT ![w] = {}]
  /\ held' = Released(w)
  /\ UNCHANGED <<tx, payload, stale, idem, rec>>

RecoveryTake(w, k) == \/ RecoverySkip(w, k)
                      \/ RecoveryResolve(w, k)
                      \/ RecoveryError(w, k)

RecoveryNext ==
  \E w \in RecoveryWorkers :
    \/ RecoveryScan(w) \/ RecoveryEnd(w) \/ RecoveryAbort(w)
    \/ \E k \in Keys : RecoveryTake(w, k)
=============================================================================
