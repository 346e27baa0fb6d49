------------------------ MODULE AmbiguousStateWorker ------------------------
(***************************************************************************)
(* The loop that moves rows stuck in flight to AMBIGUOUS_TIMEOUT.  One      *)
(* SELECT ... FOR UPDATE locks every stale row and keeps their objects; the *)
(* commit after each row releases all the locks, not that row's only.       *)
(***************************************************************************)
EXTENDS PaymentStore

CONSTANT AmbiguousWorker   \* its session

ASSUME AmbiguousWorkerAssumption == AmbiguousWorker \in Lockers

VARIABLE batch   \* for a row still to process, its state when it was loaded

ambiguousVars == <<batch>>

InFlight == {"INITIALIZED", "PENDING_SUBMISSION", "NETWORK_IN_FLIGHT"}

AmbiguousTypeOK == batch \in [Keys -> InFlight \cup {Absent}]

NoBatch == [k \in Keys |-> Absent]

AmbiguousInit == batch = NoBatch

\* Mutant of StaleRows: rows that reached the network are not looked for
StaleBeforeNetwork == {k \in Keys : tx[k] \in InFlight \ {"NETWORK_IN_FLIGHT"} /\ stale[k]}

StaleRows == {k \in Keys : tx[k] \in InFlight /\ stale[k]}

\* the SELECT ... FOR UPDATE of one iteration (it waits for rows others hold)
AmbiguousScan ==
  /\ batch = NoBatch
  /\ StaleRows # {}
  /\ \A k \in StaleRows : UnlockedFor(k, AmbiguousWorker)
  /\ batch' = [k \in Keys |-> IF k \in StaleRows THEN tx[k] ELSE Absent]
  /\ held' = [held EXCEPT ![AmbiguousWorker] = StaleRows]
  /\ UNCHANGED <<tx, payload, stale, idem, rec>>

\* One row of the batch, validated against the state that was loaded; the commit
\* releases the locks of the rest of the batch.
AmbiguousMark(k) ==
  /\ batch[k] # Absent
  /\ UnlockedFor(k, AmbiguousWorker)
  /\ ValidTransition(batch[k], "AMBIGUOUS_TIMEOUT")
  /\ SetState(k, "AMBIGUOUS_TIMEOUT")
  /\ idem' = WithStatus(k, "PENDING")
  /\ batch' = [batch EXCEPT ![k] = Absent]
  /\ held' = Released(AmbiguousWorker)
  /\ UNCHANGED <<payload, rec>>

\* rollback: the rest of the batch is dropped until the next iteration
AmbiguousRollback ==
  /\ batch' = NoBatch
  /\ held' = Released(AmbiguousWorker)
  /\ UNCHANGED <<tx, payload, stale, idem, rec>>

\* update_state raises on a row loaded in a state that may not become ambiguous
AmbiguousIllegal(k) ==
  /\ batch[k] # Absent
  /\ UnlockedFor(k, AmbiguousWorker)
  /\ ~ValidTransition(batch[k], "AMBIGUOUS_TIMEOUT")
  /\ AmbiguousRollback

\* stop() cancels the task, the process dies, or the database fails
AmbiguousAbort == Faults /\ batch # NoBatch /\ AmbiguousRollback

AmbiguousProgress == \/ AmbiguousScan
                     \/ \E k \in Keys : AmbiguousMark(k) \/ AmbiguousIllegal(k)

AmbiguousNext == AmbiguousProgress \/ AmbiguousAbort
=============================================================================
