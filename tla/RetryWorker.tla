----------------------------- MODULE RetryWorker -----------------------------
(***************************************************************************)
(* The loop that retries rows in PENDING_RETRY with exponential backoff and *)
(* gives up after MaxRetries attempts.  Like AmbiguousStateWorker it loads  *)
(* and locks all due rows with one SELECT ... FOR UPDATE, works on the      *)
(* loaded objects, and releases every lock at its first commit.             *)
(***************************************************************************)
EXTENDS PaymentStore

CONSTANTS RetryWorkers,   \* the sessions of the loops, one per process
          MaxRetries,     \* max_retries
          MaxUndone       \* bound on the retries of a row whose count is rolled back

ASSUME RetryAssumption ==
  RetryWorkers \subseteq Lockers /\ MaxRetries \in Nat /\ MaxUndone \in Nat

VARIABLES attempts,   \* retry_attempts of a row
          due,        \* its next_retry_at has passed (FALSE also when it is NULL)
          todo,       \* todo[w]: the due rows w loaded and still has to retry
          loaded,     \* loaded[w]: retry_attempts of those objects
          executed,   \* retries really executed for a row (history)
          undone      \* those of them whose count was rolled back (history)

retryVars == <<attempts, due, todo, loaded, executed, undone>>

RetryTypeOK ==
  /\ attempts \in [Keys -> 0..MaxRetries]
  /\ due \in [Keys -> BOOLEAN]
  /\ todo \in [RetryWorkers -> SUBSET Keys]
  /\ loaded \in [RetryWorkers -> [Keys -> 0..MaxRetries]]
  /\ executed \in [Keys -> Nat]
  /\ undone \in [Keys -> 0..MaxUndone]

DueRows == {k \in Keys : tx[k] = "PENDING_RETRY" /\ due[k]}

\* next_retry_at passes
RetryFallsDue(k) ==
  /\ tx[k] = "PENDING_RETRY" /\ ~due[k]
  /\ due' = [due EXCEPT ![k] = TRUE]
  /\ UNCHANGED <<storeVars, attempts, todo, loaded, executed, undone>>

\* the SELECT ... FOR UPDATE of one iteration
RetryScan(w) ==
  /\ todo[w] = {}
  /\ DueRows # {}
  /\ \A k \in DueRows : UnlockedFor(k, w)
  /\ todo' = [todo EXCEPT ![w] = DueRows]
  /\ loaded' = [loaded EXCEPT ![w] = [k \in Keys |-> IF k \in DueRows THEN attempts[k] ELSE 0]]
  /\ held' = [held EXCEPT ![w] = DueRows]
  /\ UNCHANGED <<tx, payload, stale, idem, rec, attempts, due, executed, undone>>

\* one row of the batch is done: the commit releases the locks of all of them
Retried(w, k) ==
  /\ todo' = [todo EXCEPT ![w] = @ \ {k}]
  /\ loaded' = [loaded EXCEPT ![w][k] = 0]
  /\ held' = Released(w)

\* Mutant of RetryExhausted: gives up one attempt early
RetryGivesUpEarly(w, k) ==
  /\ k \in todo[w] /\ UnlockedFor(k, w)
  /\ loaded[w][k] + 1 >= MaxRetries
  /\ SetState(k, "FAILED_DLQ")
  /\ due' = [due EXCEPT ![k] = FALSE]
  /\ Retried(w, k)
  /\ UNCHANGED <<payload, idem, rec, attempts, executed, undone>>

\* the threshold is exhausted: FAILED_DLQ, next_retry_at = None, nothing else
RetryExhausted(w, k) ==
  /\ k \in todo[w] /\ UnlockedFor(k, w)
  /\ loaded[w][k] >= MaxRetries
  /\ SetState(k, "FAILED_DLQ")
  /\ due' = [due EXCEPT ![k] = FALSE]
  /\ Retried(w, k)
  /\ UNCHANGED <<payload, idem, rec, attempts, executed, undone>>

\* One retry of a row: retry_attempts += 1 on the loaded object, flushed, and the retry is
\* made.  The count stands only when the commit at the end of the retry succeeds.
Retry(w, k) ==
  /\ k \in todo[w] /\ UnlockedFor(k, w)
  /\ loaded[w][k] < MaxRetries
  /\ executed' = [executed EXCEPT ![k] = @ + 1]

\* ... and the commit makes the count the row's, as a value
CountAttempt(w, k) ==
  /\ Retry(w, k)
  /\ attempts' = [attempts EXCEPT ![k] = loaded[w][k] + 1]
  /\ UNCHANGED undone

\* the retry succeeds: resolve_settlement through the loaded object, which says
\* PENDING_RETRY, and its commit
RetrySettles(w, k) ==
  /\ CountAttempt(w, k)
  /\ OneLogAtMost(k)
  /\ Resolve(k, "SETTLED")
  /\ Retried(w, k)
  /\ UNCHANGED due

\* Mutant of RetryBacksOff: the attempt is not counted
BacksOffUncounted(w, k) ==
  /\ k \in todo[w] /\ UnlockedFor(k, w)
  /\ loaded[w][k] < MaxRetries
  /\ due' = [due EXCEPT ![k] = FALSE]
  /\ Retried(w, k)
  /\ UNCHANGED <<tx, payload, stale, idem, rec, attempts, executed, undone>>

\* a transient failure: the next run is scheduled
RetryBacksOff(w, k) ==
  /\ CountAttempt(w, k)
  /\ stale' = [stale EXCEPT ![k] = FALSE]
  /\ due' = [due EXCEPT ![k] = FALSE]
  /\ Retried(w, k)
  /\ UNCHANGED <<tx, payload, idem, rec>>

\* Rollback of the iteration: its batch, its objects and its locks are gone
Abandoned(w) ==
  /\ todo' = [todo EXCEPT ![w] = {}]
  /\ loaded' = [loaded EXCEPT ![w] = [k \in Keys |-> 0]]
  /\ held' = Released(w)
  /\ UNCHANGED <<tx, payload, stale, idem, rec, attempts, due>>

\* A retry is made and its count lost: two reconciliation logs make resolve_settlement
\* raise, or the database fails or stop() cancels the task before the commit
RetryUndone(w, k) ==
  /\ Retry(w, k)
  /\ Faults \/ ~OneLogAtMost(k)
  /\ undone[k] < MaxUndone
  /\ undone' = [undone EXCEPT ![k] = @ + 1]
  /\ Abandoned(w)

\* the database fails, or stop() cancels the task, between two retries
RetryRollback(w) ==
  /\ todo[w] # {} /\ Faults
  /\ Abandoned(w)
  /\ UNCHANGED <<executed, undone>>

RetryRow(w, k) == RetryExhausted(w, k) \/ RetrySettles(w, k) \/ RetryBacksOff(w, k)

RetryNext ==
  \/ \E k \in Keys : RetryFallsDue(k)
  \/ \E w \in RetryWorkers :
       \/ RetryScan(w) \/ RetryRollback(w)
       \/ \E k \in Keys : RetryRow(w, k) \/ RetryUndone(w, k)
=============================================================================
