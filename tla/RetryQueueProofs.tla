-------------------------- MODULE RetryQueueProofs --------------------------
(***************************************************************************)
(* Safety of the retries for any number of rows and any threshold.  What    *)
(* speaks of rows and locks holds for any number of workers; the bound on    *)
(* the retries holds for one worker, which alone counts them                 *)
(* (OneWorker); that nobody gives up early holds for any number again.       *)
(* RetriesAreBounded says nothing of retry_attempts and of the loaded        *)
(* objects, on which a row is given up: CountsRetries adds that both are the *)
(* retries made, without those whose count a rollback took back.             *)
(***************************************************************************)
EXTENDS RetryQueue, TLAPS

\* What a resolution writes has the types of the tables.
LEMMA ResolveType ==
  ASSUME StoreTypeOK, NEW k \in Keys, NEW s \in Resolved, Resolve(k, s)
  PROVE  /\ tx' \in [Keys -> States \cup {Absent}]
         /\ stale' \in [Keys -> BOOLEAN]
         /\ payload' \in [Keys -> Payloads]
         /\ idem' \in [Keys -> IdemStates]
         /\ rec' \in [Keys -> Seq(RecStates)]
<1>1. s \in States /\ s \in RecStates
  BY DEF Resolved, States, RecStates
<1>2. tx' \in [Keys -> States \cup {Absent}] /\ stale' \in [Keys -> BOOLEAN]
  BY <1>1 DEF StoreTypeOK, Resolve, SetState
<1>3. payload' \in [Keys -> Payloads]
  BY DEF StoreTypeOK, Resolve, Payloads
<1>4. idem' \in [Keys -> IdemStates]
  BY DEF StoreTypeOK, Resolve, WithStatus, StatusOf, IdemStates
<1>5. rec' \in [Keys -> Seq(RecStates)]
  <2>1. <<s>> \in Seq(RecStates)
    BY <1>1
  <2> QED BY <2>1 DEF StoreTypeOK, Resolve
<1> QED BY <1>2, <1>3, <1>4, <1>5

\* A row that is resolved leaves with the matching status, and no other row changes.
LEMMA ResolveAgrees ==
  ASSUME StoreTypeOK, ResolvedAgrees, NEW k \in Keys, NEW s \in Resolved, Resolve(k, s)
  PROVE  ResolvedAgrees'
<1> SUFFICES ASSUME NEW j \in Keys, tx'[j] \in Resolved, idem'[j] # Absent
             PROVE  idem'[j] = StatusOf(tx'[j])
  BY DEF ResolvedAgrees
<1>1. CASE j = k
  <2>1. idem[k] # Absent
    BY <1>1 DEF StoreTypeOK, Resolve, WithStatus
  <2>2. idem' = [idem EXCEPT ![k] = StatusOf(s)] /\ tx'[k] = s
    BY <2>1 DEF StoreTypeOK, Resolve, WithStatus, SetState
  <2> QED BY <1>1, <2>2 DEF StoreTypeOK
<1>2. CASE j # k
  <2>1. tx'[j] = tx[j] /\ idem'[j] = idem[j]
    BY <1>2 DEF StoreTypeOK, Resolve, WithStatus, SetState
  <2> QED BY <2>1 DEF ResolvedAgrees
<1> QED BY <1>1, <1>2

-----------------------------------------------------------------------------
\* Types

LEMMA InitType == Init => TypeOK
<1> SUFFICES ASSUME Init PROVE TypeOK
  OBVIOUS
<1> USE RetryAssumption DEF Init
<1>1. StoreTypeOK
  BY DEF StoreTypeOK, States, Payloads, IdemStates, Absent
<1>2. RetryTypeOK
  BY DEF RetryTypeOK
<1>3. OneViewTypeOK
  BY DEF OneViewInit, OneViewTypeOK
<1> QED BY <1>1, <1>2, <1>3 DEF TypeOK

\* What a worker does at the end of a row keeps the types of its session.
LEMMA RetriedType ==
  ASSUME TypeOK, NEW w \in RetryWorkers, NEW k \in Keys, Retried(w, k)
  PROVE  /\ todo' \in [RetryWorkers -> SUBSET Keys]
         /\ loaded' \in [RetryWorkers -> [Keys -> 0..MaxRetries]]
         /\ held' \in [Lockers -> SUBSET Keys]
  BY RetryAssumption DEF TypeOK, StoreTypeOK, RetryTypeOK, Retried, Released

\* A counted attempt stays within the threshold, as its guard asked.
LEMMA CountType ==
  ASSUME TypeOK, NEW w \in RetryWorkers, NEW k \in Keys, CountAttempt(w, k)
  PROVE  /\ attempts' \in [Keys -> 0..MaxRetries]
         /\ executed' \in [Keys -> Nat]
         /\ undone' \in [Keys -> 0..MaxUndone]
<1>1. loaded[w][k] + 1 \in 0..MaxRetries
  BY RetryAssumption DEF TypeOK, RetryTypeOK, CountAttempt, Retry
<1> QED BY <1>1 DEF TypeOK, RetryTypeOK, CountAttempt, Retry

LEMMA TypeStep == TypeOK /\ [Next]_vars => TypeOK'
<1> SUFFICES ASSUME TypeOK, [Next]_vars PROVE TypeOK'
  OBVIOUS
<1> USE RetryAssumption
<1>1. ASSUME NEW k \in Keys, RetryFallsDue(k), UNCHANGED oneViewVars
      PROVE  TypeOK'
  BY <1>1 DEF RetryFallsDue, TypeOK, StoreTypeOK, RetryTypeOK, OneViewTypeOK, storeVars,
              oneViewVars
<1>2. ASSUME NEW w \in RetryWorkers, RetryScan(w), UNCHANGED oneViewVars
      PROVE  TypeOK'
  <2>1. DueRows \subseteq Keys
    BY DEF DueRows
  <2> QED BY <1>2, <2>1 DEF RetryScan, TypeOK, StoreTypeOK, RetryTypeOK, OneViewTypeOK,
                            oneViewVars
<1>3. ASSUME NEW w \in RetryWorkers, RetryRollback(w), UNCHANGED oneViewVars
      PROVE  TypeOK'
  BY <1>3 DEF RetryRollback, Abandoned, Released, TypeOK, StoreTypeOK, RetryTypeOK, OneViewTypeOK,
              oneViewVars
<1>4. ASSUME NEW w \in RetryWorkers, NEW k \in Keys, RetryExhausted(w, k),
             UNCHANGED oneViewVars
      PROVE  TypeOK'
  BY <1>4, RetriedType DEF RetryExhausted, SetState, States, TypeOK, StoreTypeOK,
                           RetryTypeOK, OneViewTypeOK, oneViewVars
<1>5. ASSUME NEW w \in RetryWorkers, NEW k \in Keys, RetrySettles(w, k),
             UNCHANGED oneViewVars
      PROVE  TypeOK'
  <2>1. "SETTLED" \in Resolved /\ Resolve(k, "SETTLED") /\ Retried(w, k)
    BY <1>5 DEF Resolved, RetrySettles
  <2>2. /\ attempts' \in [Keys -> 0..MaxRetries] /\ executed' \in [Keys -> Nat]
        /\ undone' \in [Keys -> 0..MaxUndone]
    BY <1>5, CountType DEF RetrySettles
  <2> QED BY <1>5, <2>1, <2>2, ResolveType, RetriedType
          DEF RetrySettles, TypeOK, StoreTypeOK, RetryTypeOK, OneViewTypeOK, oneViewVars
<1>6. ASSUME NEW w \in RetryWorkers, NEW k \in Keys, RetryBacksOff(w, k),
             UNCHANGED oneViewVars
      PROVE  TypeOK'
  <2>1. /\ attempts' \in [Keys -> 0..MaxRetries] /\ executed' \in [Keys -> Nat]
        /\ undone' \in [Keys -> 0..MaxUndone]
    BY <1>6, CountType DEF RetryBacksOff
  <2> QED BY <1>6, <2>1, RetriedType
          DEF RetryBacksOff, TypeOK, StoreTypeOK, RetryTypeOK, OneViewTypeOK, oneViewVars
<1>7. ASSUME NEW k \in Keys, NEW s \in Resolved, Reconcile(k, s), UNCHANGED retryVars
      PROVE  TypeOK'
  BY <1>7, ResolveType DEF Reconcile, retryVars, oneViewVars, TypeOK, StoreTypeOK,
                           RetryTypeOK, OneViewTypeOK
<1>8. ASSUME NEW w \in RetryWorkers, NEW k \in Keys, RetryUndone(w, k),
             UNCHANGED oneViewVars
      PROVE  TypeOK'
  <2>1. undone[k] + 1 \in 0..MaxUndone
    BY <1>8 DEF RetryUndone, TypeOK, RetryTypeOK
  <2> QED BY <1>8, <2>1 DEF RetryUndone, Retry, Abandoned, Released, TypeOK, StoreTypeOK,
                            RetryTypeOK, OneViewTypeOK, oneViewVars
<1>9. CASE UNCHANGED vars
  BY <1>9 DEF vars, storeVars, retryVars, oneViewVars, TypeOK, StoreTypeOK, RetryTypeOK,
              OneViewTypeOK
<1> QED BY <1>1, <1>2, <1>3, <1>4, <1>5, <1>6, <1>7, <1>8, <1>9
        DEF Next, RetryNext, RetryRow, ReconcileNext

\* Rows, sessions and loaded objects keep their types; no loaded object is counted
\* beyond the threshold.
THEOREM TypeCorrect == Spec => []TypeOK
<1> QED BY InitType, TypeStep, PTL DEF Spec

-----------------------------------------------------------------------------
\* Outcomes and locks, for any number of workers

\* The rows as they are seeded are not resolved.
LEMMA AgreesInit == Init => ResolvedAgrees
  BY DEF Init, ResolvedAgrees, Resolved

LEMMA AgreesStep == TypeOK /\ ResolvedAgrees /\ [Next]_vars => ResolvedAgrees'
<1> SUFFICES ASSUME TypeOK, ResolvedAgrees, [Next]_vars PROVE ResolvedAgrees'
  OBVIOUS
<1>1. ASSUME tx' = tx, idem' = idem PROVE ResolvedAgrees'
  BY <1>1 DEF ResolvedAgrees
<1>2. ASSUME NEW k \in Keys, RetryFallsDue(k) PROVE ResolvedAgrees'
  BY <1>1, <1>2 DEF RetryFallsDue, storeVars
<1>3. ASSUME NEW w \in RetryWorkers,
             RetryScan(w) \/ RetryRollback(w) \/ \E k \in Keys : RetryUndone(w, k)
      PROVE  ResolvedAgrees'
  BY <1>1, <1>3 DEF RetryScan, RetryRollback, RetryUndone, Abandoned
<1>4. ASSUME NEW w \in RetryWorkers, NEW k \in Keys, RetryExhausted(w, k)
      PROVE  ResolvedAgrees'
  BY <1>4 DEF RetryExhausted, SetState, ResolvedAgrees, Resolved, TypeOK, StoreTypeOK
<1>5. ASSUME NEW w \in RetryWorkers, NEW k \in Keys, RetrySettles(w, k)
      PROVE  ResolvedAgrees'
  BY <1>5, ResolveAgrees DEF RetrySettles, Resolved, TypeOK
<1>6. ASSUME NEW w \in RetryWorkers, NEW k \in Keys, RetryBacksOff(w, k)
      PROVE  ResolvedAgrees'
  BY <1>1, <1>6 DEF RetryBacksOff
<1>7. ASSUME NEW k \in Keys, NEW s \in Resolved, Reconcile(k, s) PROVE ResolvedAgrees'
  BY <1>7, ResolveAgrees DEF Reconcile, TypeOK
<1>8. CASE UNCHANGED vars
  BY <1>1, <1>8 DEF vars, storeVars
<1> QED BY <1>2, <1>3, <1>4, <1>5, <1>6, <1>7, <1>8
        DEF Next, RetryNext, RetryRow, ReconcileNext

\* Whichever of workers and operators resolves a row last, its idempotency status says
\* what the row says.
THEOREM ResolvedAgreesAlways == Spec => []ResolvedAgrees
<1> QED BY TypeCorrect, AgreesInit, AgreesStep, PTL DEF Spec

LEMMA FreshInit == Init => LockedRowIsFresh
  BY DEF Init, LockedRowIsFresh

\* A worker that ends a row keeps no lock, and a row another worker keeps locked is none
\* of those it may write.
LEMMA FreshAfterRow ==
  ASSUME TypeOK, LockedRowIsFresh, NEW w \in RetryWorkers, NEW k \in Keys,
         UnlockedFor(k, w), Retried(w, k),
         \A j \in Keys \ {k} : tx'[j] = tx[j] /\ attempts'[j] = attempts[j]
  PROVE  LockedRowIsFresh'
<1> USE RetryAssumption
<1> SUFFICES ASSUME NEW v \in RetryWorkers, NEW j \in held'[v] \cap todo'[v]
             PROVE  tx'[j] = "PENDING_RETRY" /\ loaded'[v][j] = attempts'[j]
  BY DEF LockedRowIsFresh
<1>1. v # w
  BY DEF Retried, Released, TypeOK, StoreTypeOK
<1>2. held'[v] = held[v] /\ todo'[v] = todo[v] /\ loaded'[v] = loaded[v]
  BY <1>1 DEF Retried, Released, TypeOK, StoreTypeOK, RetryTypeOK
<1>3. j \in Keys /\ j # k
  BY <1>1, <1>2 DEF UnlockedFor, TypeOK, StoreTypeOK
<1> QED BY <1>2, <1>3 DEF LockedRowIsFresh

LEMMA FreshStep == TypeOK /\ LockedRowIsFresh /\ [Next]_vars => LockedRowIsFresh'
<1> SUFFICES ASSUME TypeOK, LockedRowIsFresh, [Next]_vars PROVE LockedRowIsFresh'
  OBVIOUS
<1> USE RetryAssumption DEF TypeOK, StoreTypeOK, RetryTypeOK
<1>1. ASSUME NEW k \in Keys, RetryFallsDue(k) PROVE LockedRowIsFresh'
  BY <1>1 DEF RetryFallsDue, storeVars, LockedRowIsFresh
<1>2. ASSUME NEW w \in RetryWorkers, RetryScan(w) PROVE LockedRowIsFresh'
  <2> SUFFICES ASSUME NEW v \in RetryWorkers, NEW j \in held'[v] \cap todo'[v]
               PROVE  tx'[j] = "PENDING_RETRY" /\ loaded'[v][j] = attempts'[j]
    BY DEF LockedRowIsFresh
  <2>1. CASE v = w
    BY <1>2, <2>1 DEF RetryScan, DueRows
  <2>2. CASE v # w
    BY <1>2, <2>2 DEF RetryScan, LockedRowIsFresh
  <2> QED BY <2>1, <2>2
<1>3. ASSUME NEW w \in RetryWorkers, RetryRollback(w) \/ \E k \in Keys : RetryUndone(w, k)
      PROVE  LockedRowIsFresh'
  <2>1. Abandoned(w)
    BY <1>3 DEF RetryRollback, RetryUndone
  <2> QED BY <2>1 DEF Abandoned, Released, LockedRowIsFresh
<1>4. ASSUME NEW w \in RetryWorkers, NEW k \in Keys, RetryExhausted(w, k)
      PROVE  LockedRowIsFresh'
  BY <1>4, FreshAfterRow DEF RetryExhausted, SetState
<1>5. ASSUME NEW w \in RetryWorkers, NEW k \in Keys, RetrySettles(w, k)
      PROVE  LockedRowIsFresh'
  BY <1>5, FreshAfterRow DEF RetrySettles, CountAttempt, Retry, Resolve, SetState
<1>6. ASSUME NEW w \in RetryWorkers, NEW k \in Keys, RetryBacksOff(w, k)
      PROVE  LockedRowIsFresh'
  BY <1>6, FreshAfterRow DEF RetryBacksOff, CountAttempt, Retry
<1>7. ASSUME NEW k \in Keys, NEW s \in Resolved, Reconcile(k, s), UNCHANGED retryVars
      PROVE  LockedRowIsFresh'
  <2>1. \A v \in RetryWorkers : k \notin held[v]
    BY <1>7 DEF Reconcile, Unlocked
  <2>2. \A j \in Keys \ {k} : tx'[j] = tx[j]
    BY <1>7 DEF Reconcile, Resolve, SetState
  <2>3. held' = held /\ todo' = todo /\ loaded' = loaded /\ attempts' = attempts
    BY <1>7 DEF Reconcile, retryVars
  <2> QED BY <2>1, <2>2, <2>3 DEF LockedRowIsFresh
<1>8. CASE UNCHANGED vars
  BY <1>8 DEF vars, storeVars, retryVars, LockedRowIsFresh
<1> QED BY <1>1, <1>2, <1>3, <1>4, <1>5, <1>6, <1>7, <1>8
        DEF Next, RetryNext, RetryRow, ReconcileNext

\* While a worker keeps the lock of a row of its batch, neither another worker nor an
\* operator makes the loaded object out of date.
THEOREM LockedRowIsFreshAlways == Spec => []LockedRowIsFresh
<1> QED BY TypeCorrect, FreshInit, FreshStep, PTL DEF Spec

-----------------------------------------------------------------------------
\* The bound on the retries, for one worker

OneWorker == \A v, w \in RetryWorkers : v = w

\* retry_attempts of a row, and of every loaded object still to be retried, is the
\* number of retries made whose count was not taken back; only a row without retries left
\* is dead-lettered, and it is in no batch.
CountsRetries ==
  /\ \A k \in Keys : executed[k] = attempts[k] + undone[k]
  /\ \A w \in RetryWorkers : \A k \in todo[w] :
       loaded[w][k] = attempts[k] /\ tx[k] # "FAILED_DLQ"
  /\ \A k \in Keys : tx[k] = "FAILED_DLQ" => attempts[k] = MaxRetries

LEMMA CountsInit == Init => CountsRetries
  BY RetryAssumption DEF Init, CountsRetries

\* The end of a row by the one worker: what it leaves in the batch is as it was.
LEMMA CountsAfterRow ==
  ASSUME OneWorker, TypeOK, CountsRetries, NEW w \in RetryWorkers, NEW k \in todo[w],
         Retried(w, k), \A j \in Keys : executed'[j] = attempts'[j] + undone'[j],
         \A j \in Keys \ {k} : tx'[j] = tx[j] /\ attempts'[j] = attempts[j],
         tx'[k] = "FAILED_DLQ" => attempts'[k] = MaxRetries
  PROVE  CountsRetries'
<1>1. \A j \in todo'[w] : j \in todo[w] /\ j # k /\ loaded'[w][j] = loaded[w][j]
  BY DEF Retried, TypeOK, RetryTypeOK
<1>2. \A j \in todo'[w] : loaded'[w][j] = attempts'[j] /\ tx'[j] # "FAILED_DLQ"
  BY <1>1 DEF CountsRetries, TypeOK, RetryTypeOK
<1>3. \A j \in Keys : tx'[j] = "FAILED_DLQ" => attempts'[j] = MaxRetries
  BY DEF CountsRetries
<1> QED BY <1>2, <1>3 DEF CountsRetries, OneWorker

\* A counted retry moves the count of the row with the number of its retries.
LEMMA CountedOnce ==
  ASSUME TypeOK, CountsRetries, NEW w \in RetryWorkers, NEW k \in Keys, CountAttempt(w, k)
  PROVE  /\ \A j \in Keys : executed'[j] = attempts'[j] + undone'[j]
         /\ \A j \in Keys \ {k} : attempts'[j] = attempts[j]
<1>1. loaded[w][k] = attempts[k] /\ undone' = undone
  BY DEF CountAttempt, Retry, CountsRetries
<1>2. ASSUME NEW j \in Keys
      PROVE  /\ attempts'[j] = IF j = k THEN attempts[k] + 1 ELSE attempts[j]
             /\ executed'[j] = IF j = k THEN executed[k] + 1 ELSE executed[j]
  BY <1>1 DEF CountAttempt, Retry, TypeOK, RetryTypeOK
<1>3. \A j \in Keys : /\ executed[j] = attempts[j] + undone[j]
                      /\ executed[j] \in Nat /\ attempts[j] \in Nat /\ undone[j] \in Nat
  BY RetryAssumption DEF CountsRetries, TypeOK, RetryTypeOK
<1> QED BY <1>1, <1>2, <1>3

LEMMA CountsStep == OneWorker /\ TypeOK /\ CountsRetries /\ [Next]_vars => CountsRetries'
<1> SUFFICES ASSUME OneWorker, TypeOK, CountsRetries, [Next]_vars PROVE CountsRetries'
  OBVIOUS
<1> USE RetryAssumption DEF TypeOK, StoreTypeOK, RetryTypeOK
<1>1. ASSUME NEW k \in Keys, RetryFallsDue(k) PROVE CountsRetries'
  BY <1>1 DEF RetryFallsDue, storeVars, CountsRetries
<1>2. ASSUME NEW w \in RetryWorkers, RetryScan(w) PROVE CountsRetries'
  BY <1>2 DEF RetryScan, DueRows, CountsRetries, OneWorker
<1>3. ASSUME NEW w \in RetryWorkers, RetryRollback(w) PROVE CountsRetries'
  BY <1>3 DEF RetryRollback, Abandoned, CountsRetries, OneWorker
<1>4. ASSUME NEW w \in RetryWorkers, NEW k \in Keys, RetryExhausted(w, k)
      PROVE  CountsRetries'
  <2>1. attempts'[k] = MaxRetries
    BY <1>4 DEF RetryExhausted, CountsRetries
  <2> QED BY <1>4, <2>1, CountsAfterRow DEF RetryExhausted, SetState, CountsRetries
<1>5. ASSUME NEW w \in RetryWorkers, NEW k \in Keys, RetrySettles(w, k)
      PROVE  CountsRetries'
  <2>1. /\ \A j \in Keys : executed'[j] = attempts'[j] + undone'[j]
        /\ \A j \in Keys \ {k} : attempts'[j] = attempts[j]
    BY <1>5, CountedOnce DEF RetrySettles
  <2>2. tx'[k] = "SETTLED" /\ \A j \in Keys \ {k} : tx'[j] = tx[j]
    BY <1>5 DEF RetrySettles, Resolve, SetState
  <2> QED BY <1>5, <2>1, <2>2, CountsAfterRow DEF RetrySettles, CountAttempt, Retry
<1>6. ASSUME NEW w \in RetryWorkers, NEW k \in Keys, RetryBacksOff(w, k)
      PROVE  CountsRetries'
  <2>1. /\ \A j \in Keys : executed'[j] = attempts'[j] + undone'[j]
        /\ \A j \in Keys \ {k} : attempts'[j] = attempts[j]
    BY <1>6, CountedOnce DEF RetryBacksOff
  <2>2. tx'[k] # "FAILED_DLQ"
    BY <1>6 DEF RetryBacksOff, CountAttempt, Retry, CountsRetries
  <2> QED BY <1>6, <2>1, <2>2, CountsAfterRow DEF RetryBacksOff, CountAttempt, Retry
<1>7. ASSUME NEW k \in Keys, NEW s \in Resolved, Reconcile(k, s), UNCHANGED retryVars
      PROVE  CountsRetries'
  <2>1. tx' = [tx EXCEPT ![k] = s] /\ s # "FAILED_DLQ"
    BY <1>7 DEF Reconcile, Resolve, SetState, Resolved
  <2> QED BY <1>7, <2>1 DEF retryVars, CountsRetries
<1>8. ASSUME NEW w \in RetryWorkers, NEW k \in Keys, RetryUndone(w, k)
      PROVE  CountsRetries'
  <2>1. \A j \in Keys : executed[j] \in Nat /\ attempts[j] \in Nat /\ undone[j] \in Nat
    OBVIOUS
  <2>2. attempts' = attempts /\ tx' = tx /\ todo'[w] = {}
    BY <1>8 DEF RetryUndone, Abandoned
  <2>3. ASSUME NEW j \in Keys PROVE executed'[j] = attempts'[j] + undone'[j]
    <3>1. CASE j = k
      BY <1>8, <2>1, <2>2, <3>1 DEF RetryUndone, Retry, CountsRetries
    <3>2. CASE j # k
      BY <1>8, <2>1, <2>2, <3>2 DEF RetryUndone, Retry, CountsRetries
    <3> QED BY <3>1, <3>2
  <2> QED BY <2>2, <2>3 DEF CountsRetries, OneWorker
<1>9. CASE UNCHANGED vars
  BY <1>9 DEF vars, storeVars, retryVars, CountsRetries
<1> QED BY <1>1, <1>2, <1>3, <1>4, <1>5, <1>6, <1>7, <1>8, <1>9
        DEF Next, RetryNext, RetryRow, ReconcileNext

\* One worker makes MaxRetries retries of a row at most and one more for each whose count a
\* rollback took back, operators notwithstanding, and dead-letters it with that many.
THEOREM RetriesAreBoundedAlways == OneWorker /\ Spec => []RetriesAreBounded
<1>1. TypeOK /\ CountsRetries => RetriesAreBounded
  BY RetryAssumption DEF TypeOK, RetryTypeOK, CountsRetries, RetriesAreBounded
<1>2. CASE OneWorker
  <2>1. CountsRetries /\ TypeOK /\ [Next]_vars => CountsRetries'
    BY <1>2, CountsStep
  <2> QED BY <1>1, <2>1, TypeCorrect, CountsInit, PTL DEF Spec
<1>3. CASE ~OneWorker
  BY <1>3
<1> QED BY <1>2, <1>3

-----------------------------------------------------------------------------
\* Giving up, for any number of workers

\* Workers whose batches overlap write retry_attempts back from objects loaded at
\* different times: attempts get lost, so that a row may be retried more often than the
\* threshold says.  But none is counted that was not made, or whose count was taken back.
Counted(n, k) == n + undone[k] <= executed[k]

CountsAtMost ==
  \A k \in Keys :
    /\ Counted(attempts[k], k)
    /\ \A w \in RetryWorkers : Counted(loaded[w][k], k)
    /\ tx[k] = "FAILED_DLQ" => Counted(MaxRetries, k)

LEMMA AtMostInit == Init => CountsAtMost
  BY RetryAssumption DEF Init, CountsAtMost, Counted

\* Retries and rollbacks leave what was counted counted.
LEMMA CountedStays ==
  ASSUME TypeOK, TypeOK', NEW k \in Keys, NEW n \in Nat, Counted(n, k),
         \/ executed'[k] = executed[k] /\ undone'[k] = undone[k]
         \/ executed'[k] = executed[k] + 1 /\ undone'[k] \in {undone[k], undone[k] + 1}
  PROVE  Counted(n, k)'
<1>1. executed[k] \in Nat /\ undone[k] \in Nat
  BY RetryAssumption DEF TypeOK, RetryTypeOK
<1> QED BY <1>1 DEF Counted

\* What a step does to the numbers of retries, made and undone.
LEMMA MadeAndUndone ==
  ASSUME TypeOK, [Next]_vars, NEW k \in Keys
  PROVE  \/ executed'[k] = executed[k] /\ undone'[k] = undone[k]
         \/ executed'[k] = executed[k] + 1 /\ undone'[k] \in {undone[k], undone[k] + 1}
<1> USE DEF TypeOK, RetryTypeOK
<1>1. ASSUME NEW w \in RetryWorkers, NEW j \in Keys,
             RetrySettles(w, j) \/ RetryBacksOff(w, j) \/ RetryUndone(w, j)
      PROVE  \/ executed'[k] = executed[k] /\ undone'[k] = undone[k]
             \/ executed'[k] = executed[k] + 1 /\ undone'[k] \in {undone[k], undone[k] + 1}
  BY <1>1 DEF RetrySettles, RetryBacksOff, RetryUndone, CountAttempt, Retry
<1>2. ASSUME executed' = executed, undone' = undone
      PROVE  executed'[k] = executed[k] /\ undone'[k] = undone[k]
  BY <1>2
<1> QED BY <1>1, <1>2
    DEF Next, RetryNext, RetryRow, RetryFallsDue, RetryScan, RetryExhausted, RetryRollback,
        retryVars, vars

\* What a step does to retry_attempts, to a loaded object and to a dead letter.
LEMMA AttemptsMove ==
  ASSUME TypeOK, CountsAtMost, [Next]_vars, NEW k \in Keys
  PROVE  /\ \/ attempts'[k] = attempts[k]
            \/ /\ \E w \in RetryWorkers : attempts'[k] = loaded[w][k] + 1
               /\ executed'[k] = executed[k] + 1 /\ undone'[k] = undone[k]
         /\ \A w \in RetryWorkers : loaded'[w][k] \in {0, attempts[k], loaded[w][k]}
         /\ tx'[k] = "FAILED_DLQ" =>
              \/ tx[k] = "FAILED_DLQ"
              \/ \E w \in RetryWorkers : loaded[w][k] >= MaxRetries
<1> DEFINE Attempts ==
             \/ attempts'[k] = attempts[k]
             \/ /\ \E w \in RetryWorkers : attempts'[k] = loaded[w][k] + 1
                /\ executed'[k] = executed[k] + 1 /\ undone'[k] = undone[k]
<1> DEFINE Loaded ==
             \A w \in RetryWorkers : loaded'[w][k] \in {0, attempts[k], loaded[w][k]}
<1> DEFINE Dead == tx'[k] = "FAILED_DLQ" =>
                     \/ tx[k] = "FAILED_DLQ"
                     \/ \E w \in RetryWorkers : loaded[w][k] >= MaxRetries
<1> SUFFICES Attempts /\ Loaded /\ Dead
  OBVIOUS
<1> USE DEF TypeOK, StoreTypeOK, RetryTypeOK
<1>1. ASSUME attempts' = attempts, loaded' = loaded, tx' = tx PROVE Attempts /\ Loaded /\ Dead
  BY <1>1
<1>2. ASSUME NEW j \in Keys, RetryFallsDue(j) PROVE Attempts /\ Loaded /\ Dead
  BY <1>1, <1>2 DEF RetryFallsDue, storeVars
<1>3. ASSUME NEW w \in RetryWorkers, RetryScan(w) PROVE Attempts /\ Loaded /\ Dead
  BY <1>3 DEF RetryScan
<1>4. ASSUME NEW w \in RetryWorkers, NEW j \in Keys, RetryExhausted(w, j)
      PROVE  Attempts /\ Loaded /\ Dead
  <2>1. Attempts
    BY <1>4 DEF RetryExhausted
  <2>2. Loaded
    BY <1>4 DEF RetryExhausted, Retried
  <2>3. Dead
    BY <1>4 DEF RetryExhausted, SetState
  <2> QED BY <2>1, <2>2, <2>3
<1>5. ASSUME NEW w \in RetryWorkers, NEW j \in Keys, CountAttempt(w, j), Retried(w, j)
      PROVE  Attempts /\ Loaded
  <2>1. Attempts
    BY <1>5 DEF CountAttempt, Retry
  <2>2. Loaded
    BY <1>5 DEF Retried
  <2> QED BY <2>1, <2>2
<1>6. ASSUME NEW w \in RetryWorkers, NEW j \in Keys, RetrySettles(w, j) \/ RetryBacksOff(w, j)
      PROVE  Attempts /\ Loaded /\ Dead
  BY <1>5, <1>6 DEF RetrySettles, RetryBacksOff, Resolve, SetState
<1>7. ASSUME NEW w \in RetryWorkers, RetryRollback(w) \/ \E j \in Keys : RetryUndone(w, j)
      PROVE  Attempts /\ Loaded /\ Dead
  <2>1. Abandoned(w)
    BY <1>7 DEF RetryRollback, RetryUndone
  <2> QED BY <2>1 DEF Abandoned
<1>8. ASSUME NEW j \in Keys, NEW s \in Resolved, Reconcile(j, s), UNCHANGED retryVars
      PROVE  Attempts /\ Loaded /\ Dead
  <2>1. tx' = [tx EXCEPT ![j] = s] /\ s # "FAILED_DLQ"
    BY <1>8 DEF Reconcile, Resolve, SetState, Resolved
  <2> QED BY <1>8, <2>1 DEF retryVars
<1>9. CASE UNCHANGED vars
  BY <1>1, <1>9 DEF vars, storeVars, retryVars
<1> QED BY <1>2, <1>3, <1>4, <1>6, <1>7, <1>8, <1>9
        DEF Next, RetryNext, RetryRow, ReconcileNext

LEMMA AtMostStep == TypeOK /\ TypeOK' /\ CountsAtMost /\ [Next]_vars => CountsAtMost'
<1> SUFFICES ASSUME TypeOK, TypeOK', CountsAtMost, [Next]_vars, NEW k \in Keys
             PROVE  /\ Counted(attempts[k], k)'
                    /\ \A w \in RetryWorkers : Counted(loaded[w][k], k)'
                    /\ (tx[k] = "FAILED_DLQ")' => Counted(MaxRetries, k)'
  BY DEF CountsAtMost
<1> USE RetryAssumption
<1>t. /\ executed[k] \in Nat /\ undone[k] \in Nat /\ attempts[k] \in Nat
      /\ \A w \in RetryWorkers : loaded[w][k] \in Nat
  BY DEF TypeOK, RetryTypeOK
<1>a. /\ Counted(attempts[k], k)
      /\ \A w \in RetryWorkers : Counted(loaded[w][k], k)
      /\ tx[k] = "FAILED_DLQ" => Counted(MaxRetries, k)
  BY DEF CountsAtMost
<1>s. \A n \in Nat : Counted(n, k) => Counted(n, k)'
  BY MadeAndUndone, CountedStays
<1>n. ASSUME NEW n \in Nat, NEW m \in Nat, Counted(m, k), n <= m PROVE Counted(n, k)
  BY <1>n, <1>t DEF Counted
<1>1. Counted(attempts[k], k)'
  <2>1. CASE attempts'[k] = attempts[k]
    <3>1. Counted(attempts[k], k)' <=> attempts'[k] + undone'[k] <= executed'[k]
      BY DEF Counted
    <3>2. attempts[k] + undone'[k] <= executed'[k]
      BY <1>a, <1>s, <1>t DEF Counted
    <3> QED BY <2>1, <3>1, <3>2
  <2>2. ASSUME NEW w \in RetryWorkers, attempts'[k] = loaded[w][k] + 1,
               executed'[k] = executed[k] + 1, undone'[k] = undone[k]
        PROVE  Counted(attempts[k], k)'
    BY <2>2, <1>a, <1>t DEF Counted
  <2> QED BY <2>1, <2>2, AttemptsMove
<1>2. ASSUME NEW w \in RetryWorkers PROVE Counted(loaded[w][k], k)'
  <2>1. PICK n \in {0, attempts[k], loaded[w][k]} : loaded'[w][k] = n
    BY AttemptsMove
  <2>2. n \in Nat /\ Counted(n, k)
    BY <1>n, <1>t, <1>a
  <2>3. n + undone'[k] <= executed'[k]
    BY <2>2, <1>s DEF Counted
  <2> QED BY <2>1, <2>3 DEF Counted
<1>3. ASSUME tx'[k] = "FAILED_DLQ" PROVE Counted(MaxRetries, k)'
  <2>1. Counted(MaxRetries, k)
    BY <1>3, <1>a, <1>n, <1>t, AttemptsMove
  <2> QED BY <2>1, <1>s
<1> QED BY <1>1, <1>2, <1>3

\* However many workers retry, and whatever they overwrite of each other, a row is
\* dead-lettered only after MaxRetries retries whose count no rollback took back.
THEOREM NobodyGivesUpEarly ==
  Spec => [](\A k \in Keys : tx[k] = "FAILED_DLQ" => executed[k] >= MaxRetries + undone[k])
<1>1. CountsAtMost =>
        \A k \in Keys : tx[k] = "FAILED_DLQ" => Counted(MaxRetries, k)
  BY DEF CountsAtMost
<1>2. TypeOK /\ CountsAtMost =>
        \A k \in Keys : tx[k] = "FAILED_DLQ" => executed[k] >= MaxRetries + undone[k]
  <2>1. ASSUME TypeOK, NEW k \in Keys, Counted(MaxRetries, k)
        PROVE  executed[k] >= MaxRetries + undone[k]
    BY <2>1, RetryAssumption DEF TypeOK, RetryTypeOK, Counted
  <2> QED BY <1>1, <2>1
<1> QED BY <1>2, TypeCorrect, AtMostInit, AtMostStep, PTL DEF Spec
=============================================================================
