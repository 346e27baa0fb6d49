------------------------ MODULE PaymentGatewayProofs ------------------------
(***************************************************************************)
(* Safety of the payment flow for any number of payments, bills, requests,  *)
(* recovery workers and OneView sessions, with or without slow network      *)
(* calls, crashes, worker cancellations and operators.                      *)
(*                                                                          *)
(* None of the properties is inductive alone.  GatewayInv adds that the log *)
(* and the idempotency row of a payment are created together, that owners   *)
(* have a lock row, and that whatever a session remembers or has locked is  *)
(* a row that exists, so that the commit that creates a row cannot meet a   *)
(* lock or a loaded object.                                                 *)
(*                                                                          *)
(* The second part is about the nominal environment.  NominalInv adds that  *)
(* whoever will write a row has an up to date view of it, and that row,     *)
(* lock row and log of a payment tell one story; from it every step is a    *)
(* turn of at most one payment, and so a step of PaymentPromise.            *)
(***************************************************************************)
EXTENDS GatewayRefinement, TLAPS

\* transaction_logs and payment_idempotency get their rows in the same commit
RowsTogether == \A k \in Payments : tx[k] = Absent <=> idem[k] = Absent

OwnersHaveLock == \A r \in Requests : pc[r] \in Owning => idem[Ref[r]] # Absent

RememberedRowsExist ==
  /\ \A k \in Keys : batch[k] # Absent => tx[k] # Absent
  /\ \A w \in RecoveryWorkers : \A k \in found[w] : tx[k] # Absent
  /\ \A o \in OneViews : \A k \in viewed[o] : tx[k] # Absent

LockedRowsExist == \A a \in Lockers : \A k \in held[a] : tx[k] # Absent

Rows == RowsTogether /\ RememberedRowsExist /\ LockedRowsExist
Owners == OwnersHaveLock /\ OneOwner
Tables == ResolvedAgrees /\ SuccessHasPayload

GatewayInv == TypeOK /\ Rows /\ Owners /\ Tables /\ LockedBatchIsFresh

-----------------------------------------------------------------------------
\* The source_ref_no of a request is a key.
LEMMA RefType == ASSUME NEW r \in Requests PROVE Ref[r] \in Payments /\ Ref[r] \in Keys
  BY RequestsAssumption DEF Keys

\* None of the states is the mark of a row that does not exist.
LEMMA StatesExist == Absent \notin States
  BY DEF Absent, States

LEMMA SetStateType ==
  ASSUME StoreTypeOK, NEW k \in Keys, NEW s \in States, SetState(k, s)
  PROVE  /\ tx' \in [Keys -> States \cup {Absent}]
         /\ stale' \in [Keys -> BOOLEAN]
<1>1. tx' \in [Keys -> States \cup {Absent}]
  BY DEF StoreTypeOK, SetState
<1>2. stale' \in [Keys -> BOOLEAN]
  BY DEF StoreTypeOK, SetState
<1> QED BY <1>1, <1>2

LEMMA WithStatusType ==
  ASSUME StoreTypeOK, NEW k \in Keys, NEW i \in IdemStates
  PROVE  WithStatus(k, i) \in [Keys -> IdemStates]
  BY DEF StoreTypeOK, WithStatus

LEMMA LogsType ==
  ASSUME StoreTypeOK, NEW k \in Keys, NEW s \in RecStates
  PROVE  /\ [rec EXCEPT ![k] = Append(@, s)] \in [Keys -> Seq(RecStates)]
         /\ [rec EXCEPT ![k] = <<s>>] \in [Keys -> Seq(RecStates)]
<1>1. Append(rec[k], s) \in Seq(RecStates) /\ <<s>> \in Seq(RecStates)
  BY DEF StoreTypeOK
<1> QED BY <1>1 DEF StoreTypeOK

LEMMA ReleasedType ==
  ASSUME StoreTypeOK, NEW a \in Lockers
  PROVE  Released(a) \in [Lockers -> SUBSET Keys]
  BY DEF StoreTypeOK, Released

LEMMA ResolveType ==
  ASSUME StoreTypeOK, NEW k \in Keys, NEW s \in Resolved, Resolve(k, s)
  PROVE  /\ tx' \in [Keys -> States \cup {Absent}]
         /\ payload' \in [Keys -> Payloads]
         /\ stale' \in [Keys -> BOOLEAN]
         /\ idem' \in [Keys -> IdemStates]
         /\ rec' \in [Keys -> Seq(RecStates)]
<1>1. s \in States /\ s \in RecStates /\ StatusOf(s) \in IdemStates
  BY DEF Resolved, States, RecStates, StatusOf, IdemStates
<1>2. payload' \in [Keys -> Payloads]
  BY DEF Resolve, StoreTypeOK, Payloads
<1>3. tx' \in [Keys -> States \cup {Absent}] /\ stale' \in [Keys -> BOOLEAN]
  BY <1>1, SetStateType DEF Resolve
<1>4. idem' \in [Keys -> IdemStates]
  BY <1>1, WithStatusType DEF Resolve
<1>5. rec' \in [Keys -> Seq(RecStates)]
  BY <1>1, LogsType DEF Resolve
<1> QED BY <1>2, <1>3, <1>4, <1>5

-----------------------------------------------------------------------------
\* What a write may change outside row k: sessions forget rows and release locks,
\* AmbiguousStateWorker does not keep the lock of k, and nobody becomes an owner.
Forgets(k) ==
  /\ \A j \in Keys : batch'[j] # Absent => batch[j] # Absent
  /\ \A w \in RecoveryWorkers : found'[w] \subseteq found[w]
  /\ \A o \in OneViews : viewed'[o] \subseteq viewed[o]
  /\ \A a \in Lockers : held'[a] \subseteq held[a]
  /\ k \notin held'[AmbiguousWorker]
  /\ \A j \in held'[AmbiguousWorker] : batch'[j] = batch[j]
  /\ \A r \in Requests : pc'[r] \in Owning => pc[r] \in Owning

\* The lock row of a payment whose log takes state s
Matches(k, s) ==
  /\ idem'[k] # Absent
  /\ s \in Resolved => idem'[k] = StatusOf(s)
  /\ idem'[k] = "SUCCESS" => payload'[k] # Absent

\* A write of row k keeps the invariant if it leaves a lock row that agrees with the
\* new state, and a payload if it says SUCCESS.
LEMMA RowWrite ==
  ASSUME GatewayInv, TypeOK', NEW k \in Keys, NEW s \in States, Forgets(k),
         tx' = [tx EXCEPT ![k] = s],
         \A j \in Keys \ {k} : idem'[j] = idem[j] /\ payload'[j] = payload[j],
         k \in Payments => Matches(k, s)
  PROVE  GatewayInv'
<1> USE DEF Forgets, Matches
<1>k. Payments \subseteq Keys /\ AmbiguousWorker \in Lockers
  BY AmbiguousWorkerAssumption DEF Keys
<1>tx. /\ tx'[k] = s /\ s # Absent
       /\ \A j \in Keys \ {k} : tx'[j] = tx[j]
  BY StatesExist DEF GatewayInv, TypeOK, StoreTypeOK
<1>1. Rows'
  <2>1. RowsTogether'
    BY <1>k, <1>tx DEF GatewayInv, Rows, RowsTogether
  <2>2. RememberedRowsExist'
    BY <1>tx DEF GatewayInv, Rows, RememberedRowsExist, TypeOK, RecoveryTypeOK, OneViewTypeOK
  <2>3. LockedRowsExist'
    BY <1>tx DEF GatewayInv, Rows, LockedRowsExist, TypeOK, StoreTypeOK
  <2> QED BY <2>1, <2>2, <2>3 DEF Rows
<1>2. Owners'
  <2>1. \A r \in Requests : Ref[r] \in Payments
    BY RefType
  <2>2. OwnersHaveLock'
    BY <1>k, <2>1 DEF GatewayInv, Owners, OwnersHaveLock
  <2>3. OneOwner'
    BY DEF GatewayInv, Owners, OneOwner
  <2> QED BY <2>2, <2>3 DEF Owners
<1>3. Tables'
  <2>1. ResolvedAgrees'
    BY <1>k, <1>tx DEF GatewayInv, Tables, ResolvedAgrees, StatusOf
  <2>2. SuccessHasPayload'
    BY <1>k DEF GatewayInv, Tables, SuccessHasPayload
  <2> QED BY <2>1, <2>2 DEF Tables
<1>4. LockedBatchIsFresh'
  BY <1>k, <1>tx DEF GatewayInv, LockedBatchIsFresh, TypeOK, StoreTypeOK
<1> QED BY <1>1, <1>2, <1>3, <1>4 DEF GatewayInv

\* A step that writes neither table keeps the invariant if what it remembers and
\* locks exists, what AmbiguousStateWorker has locked is loaded, and nobody becomes
\* an owner.
LEMMA NoWrite ==
  ASSUME GatewayInv, TypeOK', UNCHANGED <<tx, idem, payload>>,
         RememberedRowsExist', LockedRowsExist', LockedBatchIsFresh',
         \A r \in Requests : pc'[r] \in Owning => pc[r] \in Owning
  PROVE  GatewayInv'
<1>1. Rows'
  BY DEF GatewayInv, Rows, RowsTogether
<1>2. Owners'
  BY DEF GatewayInv, Owners, OwnersHaveLock, OneOwner
<1>3. Tables'
  BY DEF GatewayInv, Tables, ResolvedAgrees, SuccessHasPayload, StatusOf
<1> QED BY <1>1, <1>2, <1>3 DEF GatewayInv

-----------------------------------------------------------------------------
\* The steps of a request before it owns the payment, and its death, write no row.
LEMMA BeforeInsert ==
  ASSUME GatewayInv, NEW r \in Requests,
         Reject(r) \/ LookupNone(r) \/ LookupPending(r) \/ LookupFinal(r) \/ Crash(r),
         UNCHANGED <<ambiguousVars, recoveryVars, oneViewVars>>
  PROVE  GatewayInv'
<1> USE DEF storeVars, ambiguousVars, recoveryVars, oneViewVars
<1>1. UNCHANGED storeVars
  BY DEF Reject, LookupNone, LookupPending, LookupFinal, Crash
<1>2. \/ pc' = pc /\ crashed' = crashed \cup {r}
      \/ \E l \in {"insert"} \cup Refused : Goto(r, l)
  <2>1. CASE LookupFinal(r)
    BY <2>1 DEF LookupFinal, Refused
  <2> QED BY <2>1 DEF Reject, LookupNone, LookupPending, Crash, Refused
<1>3. TypeOK'
  <2>1. HandlerTypeOK'
    BY <1>2 DEF GatewayInv, TypeOK, HandlerTypeOK, Goto
  <2> QED BY <1>1, <2>1 DEF GatewayInv, TypeOK, StoreTypeOK, AmbiguousTypeOK, RecoveryTypeOK, OneViewTypeOK
<1>4. \A q \in Requests : pc'[q] \in Owning => pc[q] \in Owning
  BY <1>2 DEF GatewayInv, TypeOK, HandlerTypeOK, Goto, Owning, Running, Answered, Refused
<1>5. RememberedRowsExist' /\ LockedRowsExist' /\ LockedBatchIsFresh'
  BY <1>1 DEF GatewayInv, Rows, RememberedRowsExist, LockedRowsExist, LockedBatchIsFresh
<1> QED BY <1>1, <1>3, <1>4, <1>5, NoWrite

\* A bill row is created under a key no payment has.
LEMMA FetchBillKeeps ==
  ASSUME GatewayInv, NEW b \in Bills, FetchBill(b),
         UNCHANGED <<ambiguousVars, recoveryVars, oneViewVars>>
  PROVE  GatewayInv'
<1> USE DEF handlerVars, ambiguousVars, recoveryVars, oneViewVars, FetchBill
<1>1. b \in Keys /\ b \notin Payments /\ "INITIALIZED" \in States
  BY KeysAssumption DEF Keys, States
<1>2. TypeOK'
  <2>1. payload' \in [Keys -> Payloads]
    BY <1>1 DEF GatewayInv, TypeOK, StoreTypeOK, Payloads
  <2>2. StoreTypeOK'
    BY <1>1, <2>1, SetStateType DEF GatewayInv, TypeOK, StoreTypeOK
  <2> QED BY <2>2 DEF GatewayInv, TypeOK, HandlerTypeOK, AmbiguousTypeOK, RecoveryTypeOK, OneViewTypeOK
<1>3. Forgets(b)
  BY AmbiguousWorkerAssumption DEF GatewayInv, Rows, LockedRowsExist, Forgets
<1>4. \A j \in Keys \ {b} : idem'[j] = idem[j] /\ payload'[j] = payload[j]
  BY DEF GatewayInv, TypeOK, StoreTypeOK
<1> QED BY <1>1, <1>2, <1>3, <1>4, RowWrite DEF SetState

\* The commit that inserts the lock row and the log makes r the only owner: nobody
\* can own a payment whose lock row does not exist.
LEMMA InsertKeeps ==
  ASSUME GatewayInv, NEW r \in Requests, Insert(r),
         UNCHANGED <<ambiguousVars, recoveryVars, oneViewVars>>
  PROVE  GatewayInv'
<1> USE DEF ambiguousVars, recoveryVars, oneViewVars
<1> DEFINE k == Ref[r]
<1>1. k \in Payments /\ k \in Keys
  BY RefType
<1>2. CASE Goto(r, "conflict") /\ UNCHANGED storeVars
  <2>1. HandlerTypeOK'
    BY <1>2 DEF GatewayInv, TypeOK, HandlerTypeOK, Goto, Refused
  <2>2. TypeOK'
    BY <1>2, <2>1 DEF storeVars, GatewayInv, TypeOK, StoreTypeOK, AmbiguousTypeOK, RecoveryTypeOK, OneViewTypeOK
  <2>3. \A q \in Requests : pc'[q] \in Owning => pc[q] \in Owning
    BY <1>2 DEF GatewayInv, TypeOK, HandlerTypeOK, Goto, Owning, Running, Answered
  <2>4. RememberedRowsExist' /\ LockedRowsExist' /\ LockedBatchIsFresh'
    BY <1>2 DEF storeVars, GatewayInv, Rows, RememberedRowsExist, LockedRowsExist, LockedBatchIsFresh
  <2> QED BY <1>2, <2>2, <2>3, <2>4, NoWrite DEF storeVars
<1>3. CASE /\ idem[k] = Absent
           /\ idem' = [idem EXCEPT ![k] = "PENDING"]
           /\ SetState(k, "INITIALIZED")
           /\ Goto(r, "created")
           /\ UNCHANGED <<payload, rec, held>>
  <2> USE <1>3
  <2>1. TypeOK'
    <3>1. "INITIALIZED" \in States /\ "PENDING" \in IdemStates
      BY DEF States, IdemStates
    <3>2. StoreTypeOK'
      BY <1>1, <3>1, SetStateType DEF GatewayInv, TypeOK, StoreTypeOK
    <3>3. HandlerTypeOK'
      BY DEF GatewayInv, TypeOK, HandlerTypeOK, Goto, Owning, Running
    <3> QED BY <3>2, <3>3 DEF GatewayInv, TypeOK, AmbiguousTypeOK, RecoveryTypeOK, OneViewTypeOK
  <2>2. /\ tx'[k] = "INITIALIZED" /\ idem'[k] = "PENDING"
        /\ \A j \in Keys \ {k} : tx'[j] = tx[j] /\ idem'[j] = idem[j]
    BY <1>1 DEF GatewayInv, TypeOK, StoreTypeOK, SetState
  <2>3. tx[k] = Absent
    BY <1>1 DEF GatewayInv, Rows, RowsTogether
  <2>4. Rows'
    <3>1. RowsTogether'
      BY <2>2, <1>1 DEF GatewayInv, Rows, RowsTogether, Keys, Absent
    <3>2. RememberedRowsExist'
      BY <2>2 DEF GatewayInv, Rows, RememberedRowsExist, TypeOK, RecoveryTypeOK, OneViewTypeOK, Absent
    <3>3. LockedRowsExist'
      BY <2>2 DEF GatewayInv, Rows, LockedRowsExist, TypeOK, StoreTypeOK, Absent
    <3> QED BY <3>1, <3>2, <3>3 DEF Rows
  <2>5. Owners'
    <3>1. \A q \in Requests : Ref[q] \in Keys
      BY RefType
    <3>2. OwnersHaveLock'
      BY <2>2, <3>1 DEF GatewayInv, TypeOK, HandlerTypeOK, Goto, Owners, OwnersHaveLock, Absent
    <3>3. \A q \in Requests \ {r} : Ref[q] = k => pc'[q] \notin Owning
      BY DEF GatewayInv, TypeOK, HandlerTypeOK, Goto, Owners, OwnersHaveLock
    <3>4. \A q \in Requests \ {r} : pc'[q] = pc[q]
      BY DEF GatewayInv, TypeOK, HandlerTypeOK, Goto
    <3>5. OneOwner'
      BY <3>3, <3>4 DEF GatewayInv, Owners, OneOwner
    <3> QED BY <3>2, <3>5 DEF Owners
  <2>6. Tables'
    BY <2>2, <1>1 DEF GatewayInv, Tables, ResolvedAgrees, SuccessHasPayload, Keys, Resolved, StatusOf
  <2>7. LockedBatchIsFresh'
    <3>1. k \notin held[AmbiguousWorker]
      BY <2>3, AmbiguousWorkerAssumption DEF GatewayInv, Rows, LockedRowsExist
    <3> QED BY <2>2, <3>1, AmbiguousWorkerAssumption
            DEF GatewayInv, LockedBatchIsFresh, TypeOK, StoreTypeOK
  <2> QED BY <2>1, <2>4, <2>5, <2>6, <2>7 DEF GatewayInv
<1> QED BY <1>2, <1>3 DEF Insert

-----------------------------------------------------------------------------
\* While r runs, its payment is a key with a lock row, and a step of r that frees no
\* lock, and is taken when the row is unlocked, forgets all that Forgets asks for.
LEMMA RunningStep ==
  ASSUME GatewayInv, NEW r \in Requests, pc[r] \in Running, Unlocked(Ref[r]),
         NEW l \in Owning, Goto(r, l), UNCHANGED held,
         UNCHANGED <<ambiguousVars, recoveryVars, oneViewVars>>
  PROVE  /\ Ref[r] \in Payments /\ Ref[r] \in Keys
         /\ idem[Ref[r]] # Absent
         /\ Forgets(Ref[r])
         /\ HandlerTypeOK' /\ AmbiguousTypeOK' /\ RecoveryTypeOK' /\ OneViewTypeOK'
<1> USE DEF ambiguousVars, recoveryVars, oneViewVars
<1>1. Ref[r] \in Payments /\ Ref[r] \in Keys
  BY RefType
<1>2. pc[r] \in Owning
  BY DEF Owning
<1>3. idem[Ref[r]] # Absent
  BY <1>2 DEF GatewayInv, Owners, OwnersHaveLock
<1>4. HandlerTypeOK' /\ AmbiguousTypeOK' /\ RecoveryTypeOK' /\ OneViewTypeOK'
  BY DEF GatewayInv, TypeOK, HandlerTypeOK, Goto, AmbiguousTypeOK, RecoveryTypeOK, OneViewTypeOK
<1>5. Forgets(Ref[r])
  <2>1. Ref[r] \notin held'[AmbiguousWorker]
    BY AmbiguousWorkerAssumption DEF Unlocked
  <2>2. \A q \in Requests : pc'[q] \in Owning => pc[q] \in Owning
    BY <1>2 DEF GatewayInv, TypeOK, HandlerTypeOK, Goto
  <2> QED BY <2>1, <2>2 DEF Forgets
<1> QED BY <1>1, <1>3, <1>4, <1>5

\* The lock row after update_status, when it exists
LEMMA WithStatusAt ==
  ASSUME StoreTypeOK, NEW k \in Keys, NEW i \in IdemStates, idem' = WithStatus(k, i)
  PROVE  /\ \A j \in Keys \ {k} : idem'[j] = idem[j]
         /\ idem[k] # Absent => idem'[k] = i
         /\ idem[k] = Absent => idem'[k] = Absent
  BY DEF StoreTypeOK, WithStatus

\* The four commits of a running request: its row goes in flight, is settled, made
\* ambiguous or failed, and its lock row follows.
LEMMA RunningKeeps ==
  ASSUME GatewayInv, NEW r \in Requests,
         Submit(r) \/ Settle(r) \/ TimeOut(r) \/ Fail(r),
         UNCHANGED <<ambiguousVars, recoveryVars, oneViewVars>>
  PROVE  GatewayInv'
<1> DEFINE k == Ref[r]
<1>k. k \in Keys /\ k \in Payments
  BY RefType
<1>t. StoreTypeOK
  BY DEF GatewayInv, TypeOK
<1>s. {"NETWORK_IN_FLIGHT", "SETTLED", "AMBIGUOUS_TIMEOUT", "FAILED"} \subseteq States
  BY DEF States
<1>1. CASE Submit(r)
  <2>1. pc[r] \in Running /\ "inflight" \in Owning
    BY <1>1 DEF Submit, At, Running, Owning
  <2>2. idem[k] # Absent /\ Forgets(k) /\ StoreTypeOK'
        /\ HandlerTypeOK' /\ AmbiguousTypeOK' /\ RecoveryTypeOK' /\ OneViewTypeOK'
    BY <1>1, <2>1, <1>t, <1>k, <1>s, RunningStep, SetStateType DEF Submit, StoreTypeOK
  <2>3. Matches(k, "NETWORK_IN_FLIGHT")
    BY <1>1, <1>k, <2>2 DEF Submit, Matches, Resolved, GatewayInv, Tables, SuccessHasPayload
  <2> QED
    BY <1>1, <1>k, <1>s, <2>2, <2>3, RowWrite DEF Submit, SetState, TypeOK
<1>2. CASE Settle(r)
  <2>1. pc[r] \in Running /\ "settled" \in Owning
    BY <1>2 DEF Settle, At, Running, Answered, Owning
  <2>2. idem[k] # Absent /\ Forgets(k)
        /\ HandlerTypeOK' /\ AmbiguousTypeOK' /\ RecoveryTypeOK' /\ OneViewTypeOK'
    BY <1>2, <2>1, RunningStep DEF Settle
  <2>3. "SUCCESS" \in IdemStates /\ "SETTLED" \in RecStates /\ "full" \in Payloads
    BY DEF IdemStates, RecStates, Payloads
  <2>4. StoreTypeOK'
    BY <1>2, <1>t, <1>k, <1>s, <2>3, SetStateType, WithStatusType, LogsType
       DEF Settle, StoreTypeOK
  <2>5. idem'[k] = "SUCCESS" /\ payload'[k] = "full"
    BY <1>2, <1>t, <1>k, <2>2, <2>3, WithStatusAt DEF Settle, StoreTypeOK
  <2>6. Matches(k, "SETTLED")
    BY <2>5 DEF Matches, StatusOf, Absent
  <2>7. \A j \in Keys \ {k} : idem'[j] = idem[j] /\ payload'[j] = payload[j]
    BY <1>2, <1>t, <1>k, <2>3, WithStatusAt DEF Settle, StoreTypeOK
  <2> QED
    BY <1>2, <1>k, <1>s, <2>2, <2>4, <2>6, <2>7, RowWrite DEF Settle, SetState, TypeOK
<1>3. CASE TimeOut(r)
  <2>1. pc[r] \in Running /\ "ambiguous" \in Owning
    BY <1>3 DEF TimeOut, At, Running, Answered, Owning
  <2>2. idem[k] # Absent /\ Forgets(k)
        /\ HandlerTypeOK' /\ AmbiguousTypeOK' /\ RecoveryTypeOK' /\ OneViewTypeOK'
    BY <1>3, <2>1, RunningStep DEF TimeOut
  <2>3. "PENDING" \in RecStates
    BY DEF RecStates
  <2>4. StoreTypeOK'
    BY <1>3, <1>t, <1>k, <1>s, <2>3, SetStateType, LogsType DEF TimeOut, StoreTypeOK
  <2>5. Matches(k, "AMBIGUOUS_TIMEOUT")
    BY <1>3, <1>k, <2>2 DEF TimeOut, Matches, Resolved, GatewayInv, Tables, SuccessHasPayload
  <2> QED
    BY <1>3, <1>k, <1>s, <2>2, <2>4, <2>5, RowWrite DEF TimeOut, SetState, TypeOK
<1>4. CASE Fail(r)
  <2>1. pc[r] \in Running /\ "failed" \in Owning
    BY <1>4 DEF Fail, At, Running, Answered, Owning
  <2>2. idem[k] # Absent /\ Forgets(k)
        /\ HandlerTypeOK' /\ AmbiguousTypeOK' /\ RecoveryTypeOK' /\ OneViewTypeOK'
    BY <1>4, <2>1, RunningStep DEF Fail
  <2>3. "FAILED" \in IdemStates /\ "FAILED" \in RecStates
    BY DEF IdemStates, RecStates
  <2>4. StoreTypeOK'
    BY <1>4, <1>t, <1>k, <1>s, <2>3, SetStateType, WithStatusType, LogsType
       DEF Fail, StoreTypeOK
  <2>5. Matches(k, "FAILED")
    BY <1>4, <1>t, <1>k, <2>2, <2>3, WithStatusAt DEF Fail, Matches, StatusOf, Absent
  <2>6. \A j \in Keys \ {k} : idem'[j] = idem[j] /\ payload'[j] = payload[j]
    BY <1>4, <1>t, <1>k, <2>3, WithStatusAt DEF Fail
  <2> QED
    BY <1>4, <1>k, <1>s, <2>2, <2>4, <2>5, <2>6, RowWrite DEF Fail, SetState, TypeOK
<1> QED BY <1>1, <1>2, <1>3, <1>4

\* PaymentService and FetchBillService
LEMMA HandlerKeeps ==
  ASSUME GatewayInv, HandlerNext, UNCHANGED <<ambiguousVars, recoveryVars, oneViewVars>>
  PROVE  GatewayInv'
<1>1. ASSUME NEW b \in Bills, FetchBill(b) PROVE GatewayInv'
  BY <1>1, FetchBillKeeps
<1>2. ASSUME NEW r \in Requests, Reject(r) \/ Progress(r) \/ Crash(r) PROVE GatewayInv'
  BY <1>2, BeforeInsert, InsertKeeps, RunningKeeps DEF Progress
<1> QED BY <1>1, <1>2 DEF HandlerNext

-----------------------------------------------------------------------------
\* AmbiguousStateWorker: what it loads exists, and its commit gives up every lock.
LEMMA AmbiguousKeeps ==
  ASSUME GatewayInv, AmbiguousNext, UNCHANGED <<handlerVars, recoveryVars, oneViewVars>>
  PROVE  GatewayInv'
<1> USE AmbiguousWorkerAssumption DEF handlerVars, recoveryVars, oneViewVars
<1>t. StoreTypeOK /\ HandlerTypeOK' /\ RecoveryTypeOK' /\ OneViewTypeOK'
  BY DEF GatewayInv, TypeOK, HandlerTypeOK, RecoveryTypeOK, OneViewTypeOK
<1>1. CASE AmbiguousScan
  <2> USE <1>1
  <2>1. StaleRows \subseteq Keys /\ \A k \in StaleRows : tx[k] \in InFlight
    BY DEF StaleRows
  <2>2. Absent \notin InFlight
    BY DEF Absent, InFlight
  <2>3. TypeOK'
    <3>1. batch' \in [Keys -> InFlight \cup {Absent}]
      BY <2>1 DEF AmbiguousScan
    <3> QED BY <1>t, <2>1, <3>1 DEF AmbiguousScan, TypeOK, StoreTypeOK, AmbiguousTypeOK
  <2>4. RememberedRowsExist'
    BY <2>1, <2>2 DEF AmbiguousScan, GatewayInv, Rows, RememberedRowsExist
  <2>5. LockedRowsExist'
    BY <1>t, <2>1, <2>2 DEF AmbiguousScan, StoreTypeOK, GatewayInv, Rows, LockedRowsExist
  <2>6. LockedBatchIsFresh'
    BY <1>t, <2>1 DEF AmbiguousScan, StoreTypeOK, LockedBatchIsFresh
  <2> QED BY <2>3, <2>4, <2>5, <2>6, NoWrite DEF AmbiguousScan
<1>2. ASSUME NEW k \in Keys, AmbiguousMark(k) PROVE GatewayInv'
  <2> USE <1>2
  <2>1. "AMBIGUOUS_TIMEOUT" \in States /\ "PENDING" \in IdemStates
    BY DEF States, IdemStates
  <2>2. StoreTypeOK' /\ AmbiguousTypeOK'
    <3>1. AmbiguousTypeOK'
      BY DEF AmbiguousMark, GatewayInv, TypeOK, AmbiguousTypeOK
    <3>2. StoreTypeOK'
      BY <1>t, <2>1, SetStateType, WithStatusType, ReleasedType DEF AmbiguousMark, StoreTypeOK
    <3> QED BY <3>1, <3>2
  <2>3. Forgets(k)
    BY <1>t DEF AmbiguousMark, Released, GatewayInv, TypeOK, StoreTypeOK, AmbiguousTypeOK, Forgets
  <2>4. tx[k] # Absent
    BY DEF AmbiguousMark, GatewayInv, Rows, RememberedRowsExist
  <2>5. k \in Payments => idem[k] # Absent
    BY <2>4 DEF GatewayInv, Rows, RowsTogether
  <2>6. k \in Payments => Matches(k, "AMBIGUOUS_TIMEOUT")
    BY <1>t, <2>1, <2>5, WithStatusAt DEF AmbiguousMark, Matches, Resolved, Absent
  <2>7. \A j \in Keys \ {k} : idem'[j] = idem[j] /\ payload'[j] = payload[j]
    BY <1>t, <2>1, WithStatusAt DEF AmbiguousMark
  <2> QED
    BY <1>t, <2>1, <2>2, <2>3, <2>6, <2>7, RowWrite DEF AmbiguousMark, SetState, TypeOK
<1>3. CASE AmbiguousRollback
  <2> USE <1>3
  <2>1. TypeOK'
    BY <1>t, ReleasedType
       DEF AmbiguousRollback, NoBatch, TypeOK, StoreTypeOK, AmbiguousTypeOK
  <2>2. RememberedRowsExist'
    BY DEF AmbiguousRollback, NoBatch, GatewayInv, Rows, RememberedRowsExist
  <2>3. LockedRowsExist' /\ LockedBatchIsFresh'
    BY <1>t DEF AmbiguousRollback, Released, StoreTypeOK, GatewayInv, Rows, LockedRowsExist,
                LockedBatchIsFresh
  <2> QED BY <2>1, <2>2, <2>3, NoWrite DEF AmbiguousRollback
<1> QED BY <1>1, <1>2, <1>3 DEF AmbiguousNext, AmbiguousProgress, AmbiguousIllegal, AmbiguousAbort

\* What settlement and reconciliation commit agrees with the state, for a payment
\* whose rows exist.
LEMMA ResolveMatches ==
  ASSUME GatewayInv, NEW k \in Keys, NEW s \in Resolved, Resolve(k, s), tx[k] # Absent
  PROVE  /\ k \in Payments => Matches(k, s)
         /\ \A j \in Keys \ {k} : idem'[j] = idem[j] /\ payload'[j] = payload[j]
<1>1. StoreTypeOK /\ StatusOf(s) \in IdemStates
  BY DEF GatewayInv, TypeOK, StatusOf, IdemStates
<1>2. /\ idem[k] # Absent => idem'[k] = StatusOf(s)
      /\ \A j \in Keys \ {k} : idem'[j] = idem[j]
  BY <1>1, WithStatusAt DEF Resolve
<1>3. /\ s = "SETTLED" => payload'[k] = "recovered"
      /\ \A j \in Keys \ {k} : payload'[j] = payload[j]
  BY <1>1 DEF Resolve, StoreTypeOK
<1>4. k \in Payments => idem[k] # Absent
  BY DEF GatewayInv, Rows, RowsTogether
<1>5. k \in Payments => Matches(k, s)
  BY <1>2, <1>3, <1>4 DEF Matches, StatusOf, Absent
<1> QED BY <1>2, <1>3, <1>5

\* A session other than AmbiguousStateWorker's resolves a row and releases its locks.
LEMMA ResolveKeeps ==
  ASSUME GatewayInv, NEW k \in Keys, NEW s \in Resolved, Resolve(k, s), tx[k] # Absent,
         \A a \in Lockers : held'[a] \subseteq held[a],
         k \notin held'[AmbiguousWorker],
         held' \in [Lockers -> SUBSET Keys],
         UNCHANGED <<handlerVars, ambiguousVars>>,
         RecoveryTypeOK', \A w \in RecoveryWorkers : found'[w] \subseteq found[w],
         OneViewTypeOK', \A o \in OneViews : viewed'[o] \subseteq viewed[o]
  PROVE  GatewayInv'
<1> USE DEF handlerVars, ambiguousVars
<1>1. TypeOK'
  BY ResolveType DEF GatewayInv, TypeOK, StoreTypeOK, HandlerTypeOK, AmbiguousTypeOK
<1>2. Forgets(k)
  BY DEF Forgets
<1>3. s \in States
  BY DEF Resolved, States
<1> QED BY <1>1, <1>2, <1>3, ResolveMatches, RowWrite DEF Resolve, SetState

-----------------------------------------------------------------------------
\* A step that writes no table, and where only sessions other than
\* AmbiguousStateWorker's take locks, keeps its loaded rows fresh.
LEMMA StillFresh ==
  ASSUME GatewayInv, UNCHANGED <<tx, batch>>, held'[AmbiguousWorker] \subseteq held[AmbiguousWorker]
  PROVE  LockedBatchIsFresh'
  BY DEF GatewayInv, LockedBatchIsFresh

\* The recovery workers: what they list exists, and stays until they take it.
LEMMA RecoveryKeeps ==
  ASSUME GatewayInv, RecoveryNext, UNCHANGED <<handlerVars, ambiguousVars, oneViewVars>>
  PROVE  GatewayInv'
<1> USE DEF handlerVars, ambiguousVars, oneViewVars
<1>t. /\ StoreTypeOK /\ RecoveryTypeOK
      /\ HandlerTypeOK' /\ AmbiguousTypeOK' /\ OneViewTypeOK'
  BY DEF GatewayInv, TypeOK, HandlerTypeOK, AmbiguousTypeOK, OneViewTypeOK
<1>w. \A w \in RecoveryWorkers : w \in Lockers /\ w # AmbiguousWorker
  BY RecoveryAssumption, SessionsAssumption
<1>r. Rows
  BY DEF GatewayInv
<1>1. ASSUME NEW w \in RecoveryWorkers, RecoveryScan(w) PROVE GatewayInv'
  <2> USE <1>1 DEF RecoveryScan, storeVars
  <2>1. AmbiguousRows \subseteq Keys /\ \A k \in AmbiguousRows : tx[k] # Absent
    BY DEF AmbiguousRows, Absent
  <2>2. TypeOK'
    BY <1>t, <2>1 DEF TypeOK, StoreTypeOK, RecoveryTypeOK
  <2>3. RememberedRowsExist'
    BY <1>t, <1>r, <2>1 DEF RecoveryTypeOK, Rows, RememberedRowsExist
  <2>4. LockedRowsExist' /\ LockedBatchIsFresh'
    BY <1>r, StillFresh DEF Rows, LockedRowsExist
  <2> QED BY <2>2, <2>3, <2>4, NoWrite
<1>2. ASSUME NEW w \in RecoveryWorkers, RecoveryEnd(w) \/ RecoveryAbort(w) PROVE GatewayInv'
  <2>1. /\ UNCHANGED <<tx, payload, stale, idem, rec>>
        /\ held' = Released(w)
        /\ \/ found' = found
           \/ found' = [found EXCEPT ![w] = {}]
    BY <1>2 DEF RecoveryEnd, RecoveryAbort
  <2>2. TypeOK'
    BY <1>t, <1>w, <2>1, ReleasedType DEF TypeOK, StoreTypeOK, RecoveryTypeOK
  <2>3. RememberedRowsExist'
    BY <1>t, <1>r, <2>1 DEF RecoveryTypeOK, Rows, RememberedRowsExist
  <2>4. \A a \in Lockers : held'[a] \subseteq held[a]
    BY <1>t, <2>1 DEF Released, StoreTypeOK
  <2>5. LockedRowsExist' /\ LockedBatchIsFresh'
    BY <1>r, <2>1, <2>4, StillFresh, AmbiguousWorkerAssumption DEF Rows, LockedRowsExist
  <2> QED BY <2>1, <2>2, <2>3, <2>5, NoWrite
<1>3. ASSUME NEW w \in RecoveryWorkers, NEW k \in Keys, RecoverySkip(w, k) PROVE GatewayInv'
  <2> USE <1>3 DEF RecoverySkip, Took
  <2>1. TypeOK'
    BY <1>t, <1>w DEF TypeOK, StoreTypeOK, RecoveryTypeOK
  <2>2. RememberedRowsExist'
    BY <1>t, <1>r DEF RecoveryTypeOK, Rows, RememberedRowsExist
  <2>3. tx[k] # Absent
    BY <1>r DEF Rows, RememberedRowsExist
  <2>4. LockedRowsExist'
    BY <1>t, <1>r, <1>w, <2>3 DEF StoreTypeOK, Rows, LockedRowsExist
  <2>5. LockedBatchIsFresh'
    BY <1>t, <1>w, StillFresh DEF StoreTypeOK
  <2> QED BY <2>1, <2>2, <2>4, <2>5, NoWrite
<1>4. ASSUME NEW w \in RecoveryWorkers, NEW k \in Keys, RecoveryError(w, k) PROVE GatewayInv'
  <2> USE <1>4 DEF RecoveryError, Took
  <2>1. TypeOK'
    BY <1>t, <1>w, ReleasedType DEF TypeOK, StoreTypeOK, RecoveryTypeOK
  <2>2. RememberedRowsExist'
    BY <1>t, <1>r DEF RecoveryTypeOK, Rows, RememberedRowsExist
  <2>3. \A a \in Lockers : held'[a] \subseteq held[a]
    BY <1>t DEF Released, StoreTypeOK
  <2>4. LockedRowsExist' /\ LockedBatchIsFresh'
    BY <1>r, <2>3, StillFresh, AmbiguousWorkerAssumption DEF Rows, LockedRowsExist
  <2> QED BY <2>1, <2>2, <2>4, NoWrite
<1>5. ASSUME NEW w \in RecoveryWorkers, NEW k \in Keys, RecoveryResolve(w, k) PROVE GatewayInv'
  <2> USE <1>5 DEF RecoveryResolve, Took
  <2>1. tx[k] # Absent
    BY DEF Absent
  <2>2. RecoveryTypeOK' /\ \A v \in RecoveryWorkers : found'[v] \subseteq found[v]
    BY <1>t DEF RecoveryTypeOK
  <2>3. /\ held' \in [Lockers -> SUBSET Keys]
        /\ \A a \in Lockers : held'[a] \subseteq held[a]
        /\ k \notin held'[AmbiguousWorker]
    BY <1>t, <1>w, ReleasedType, AmbiguousWorkerAssumption DEF Released, StoreTypeOK, UnlockedFor
  <2> QED BY <1>t, <2>1, <2>2, <2>3, ResolveKeeps
<1> QED BY <1>1, <1>2, <1>3, <1>4, <1>5 DEF RecoveryNext, RecoveryTake

\* OneView: the rows it loaded exist, whatever they have become.
LEMMA OneViewKeeps ==
  ASSUME GatewayInv, OneViewNext, UNCHANGED <<handlerVars, ambiguousVars, recoveryVars>>
  PROVE  GatewayInv'
<1> USE DEF handlerVars, ambiguousVars, recoveryVars
<1>t. /\ StoreTypeOK /\ OneViewTypeOK
      /\ HandlerTypeOK' /\ AmbiguousTypeOK' /\ RecoveryTypeOK'
  BY DEF GatewayInv, TypeOK, HandlerTypeOK, AmbiguousTypeOK, RecoveryTypeOK
<1>o. \A o \in OneViews : o \in Lockers /\ o # AmbiguousWorker
  BY ReconciliationAssumption, SessionsAssumption
<1>r. Rows
  BY DEF GatewayInv
<1>1. ASSUME NEW o \in OneViews, OneViewLoad(o) PROVE GatewayInv'
  <2> DEFINE ambiguous == {k \in Keys : tx[k] = "AMBIGUOUS_TIMEOUT"}
  <2>1. /\ viewed' = [viewed EXCEPT ![o] = ambiguous]
        /\ UNCHANGED storeVars
        /\ \A k \in ambiguous : tx[k] # Absent
    BY <1>1 DEF OneViewLoad, Absent
  <2>2. TypeOK'
    BY <1>t, <2>1 DEF storeVars, TypeOK, StoreTypeOK, OneViewTypeOK
  <2>3. RememberedRowsExist'
    BY <1>t, <1>r, <2>1 DEF storeVars, OneViewTypeOK, Rows, RememberedRowsExist
  <2>4. LockedRowsExist' /\ LockedBatchIsFresh'
    BY <1>r, <2>1, StillFresh DEF storeVars, Rows, LockedRowsExist
  <2> QED BY <2>1, <2>2, <2>3, <2>4, NoWrite DEF storeVars
<1>2. ASSUME NEW o \in OneViews, OneViewClose(o) PROVE GatewayInv'
  <2> USE <1>2 DEF OneViewClose
  <2>1. TypeOK'
    BY <1>t, <1>o, ReleasedType DEF TypeOK, StoreTypeOK, OneViewTypeOK
  <2>2. RememberedRowsExist'
    BY <1>t, <1>r DEF OneViewTypeOK, Rows, RememberedRowsExist
  <2>3. \A a \in Lockers : held'[a] \subseteq held[a]
    BY <1>t DEF Released, StoreTypeOK
  <2>4. LockedRowsExist' /\ LockedBatchIsFresh'
    BY <1>r, <2>3, StillFresh, AmbiguousWorkerAssumption DEF Rows, LockedRowsExist
  <2> QED BY <2>1, <2>2, <2>4, NoWrite
<1>3. ASSUME NEW o \in OneViews, NEW k \in Keys, OneViewSwallow(o, k) PROVE GatewayInv'
  <2> USE <1>3 DEF OneViewSwallow, Seen
  <2>1. TypeOK'
    BY <1>t, <1>o DEF TypeOK, StoreTypeOK, OneViewTypeOK
  <2>2. RememberedRowsExist'
    BY <1>t, <1>r DEF OneViewTypeOK, Rows, RememberedRowsExist
  <2>3. tx[k] # Absent
    BY <1>r DEF Rows, RememberedRowsExist
  <2>4. LockedRowsExist'
    BY <1>t, <1>r, <1>o, <2>3 DEF StoreTypeOK, Rows, LockedRowsExist
  <2>5. LockedBatchIsFresh'
    BY <1>t, <1>o, StillFresh DEF StoreTypeOK
  <2> QED BY <2>1, <2>2, <2>4, <2>5, NoWrite
<1>4. ASSUME NEW o \in OneViews, NEW k \in Keys, OneViewReconcile(o, k) PROVE GatewayInv'
  <2> USE <1>4 DEF OneViewReconcile, Seen
  <2>1. tx[k] # Absent
    BY <1>r DEF Rows, RememberedRowsExist
  <2>2. OneViewTypeOK' /\ \A p \in OneViews : viewed'[p] \subseteq viewed[p]
    BY <1>t DEF OneViewTypeOK
  <2>3. /\ held' \in [Lockers -> SUBSET Keys]
        /\ \A a \in Lockers : held'[a] \subseteq held[a]
        /\ k \notin held'[AmbiguousWorker]
    BY <1>t, <1>o, ReleasedType, AmbiguousWorkerAssumption DEF Released, StoreTypeOK, UnlockedFor
  <2> QED BY <1>t, <2>1, <2>2, <2>3, ResolveKeeps
<1> QED BY <1>1, <1>2, <1>3, <1>4 DEF OneViewNext

\* POST /reconcile resolves a row that exists and that nobody has locked.
LEMMA ReconcileKeeps ==
  ASSUME GatewayInv, ReconcileNext, UNCHANGED <<handlerVars, ambiguousVars, recoveryVars>>
  PROVE  GatewayInv'
<1> SUFFICES ASSUME NEW k \in Keys, NEW s \in Resolved, Reconcile(k, s) PROVE GatewayInv'
  BY DEF ReconcileNext
<1>1. tx[k] # Absent
  BY StatesExist, ReconciliationAssumption DEF Reconcile
<1>2. k \notin held'[AmbiguousWorker]
  BY AmbiguousWorkerAssumption DEF Reconcile, Unlocked
<1>3. RecoveryTypeOK' /\ OneViewTypeOK' /\ held' \in [Lockers -> SUBSET Keys]
  BY DEF Reconcile, recoveryVars, oneViewVars, GatewayInv, TypeOK, StoreTypeOK, RecoveryTypeOK,
         OneViewTypeOK
<1> QED BY <1>1, <1>2, <1>3, ResolveKeeps DEF Reconcile, recoveryVars, oneViewVars

\* Time makes rows stale and changes nothing else.
LEMMA AgeKeeps == ASSUME GatewayInv, NEW k \in Keys, Age(k) PROVE GatewayInv'
<1> USE DEF Age, handlerVars, ambiguousVars, recoveryVars, oneViewVars
<1>1. TypeOK'
  BY DEF GatewayInv, TypeOK, StoreTypeOK, HandlerTypeOK, AmbiguousTypeOK, RecoveryTypeOK, OneViewTypeOK
<1>2. RememberedRowsExist' /\ LockedRowsExist' /\ LockedBatchIsFresh'
  BY StillFresh DEF GatewayInv, Rows, RememberedRowsExist, LockedRowsExist
<1> QED BY <1>1, <1>2, NoWrite

-----------------------------------------------------------------------------
\* No payment has been sent yet.
LEMMA GatewayInit == Init => GatewayInv
<1> SUFFICES ASSUME Init PROVE GatewayInv
  OBVIOUS
<1> USE DEF Init, StoreInit, HandlerInit, AmbiguousInit, NoBatch, RecoveryInit, OneViewInit
<1>1. TypeOK
  <2>1. StoreTypeOK
    BY DEF StoreTypeOK, Payloads, IdemStates
  <2> QED BY <2>1 DEF TypeOK, HandlerTypeOK, AmbiguousTypeOK, RecoveryTypeOK, OneViewTypeOK
<1>2. Rows
  BY DEF Rows, RowsTogether, RememberedRowsExist, LockedRowsExist, Keys
<1>3. Owners
  BY DEF Owners, OwnersHaveLock, OneOwner, Owning, Running, Answered
<1>4. Tables
  BY DEF Tables, ResolvedAgrees, SuccessHasPayload, Resolved, Keys, Absent
<1>5. LockedBatchIsFresh
  BY AmbiguousWorkerAssumption DEF LockedBatchIsFresh
<1> QED BY <1>1, <1>2, <1>3, <1>4, <1>5 DEF GatewayInv

\* Every step of every actor keeps GatewayInv.
LEMMA GatewayStep == GatewayInv /\ [Next]_vars => GatewayInv'
<1> SUFFICES ASSUME GatewayInv, [Next]_vars PROVE GatewayInv'
  OBVIOUS
<1>1. CASE UNCHANGED vars
  <2> USE <1>1 DEF vars, storeVars, handlerVars, ambiguousVars, recoveryVars, oneViewVars
  <2>1. TypeOK'
    BY DEF GatewayInv, TypeOK, StoreTypeOK, HandlerTypeOK, AmbiguousTypeOK, RecoveryTypeOK,
           OneViewTypeOK
  <2>2. RememberedRowsExist' /\ LockedRowsExist' /\ LockedBatchIsFresh'
    BY StillFresh DEF GatewayInv, Rows, RememberedRowsExist, LockedRowsExist
  <2> QED BY <2>1, <2>2, NoWrite
<1> QED
  BY <1>1, HandlerKeeps, AmbiguousKeeps, RecoveryKeeps, OneViewKeeps, ReconcileKeeps, AgeKeeps
     DEF Next

\* The payment flow keeps its inductive invariant: both tables have a row or neither,
\* what sessions remember or lock exists, owners have their key, and the tables agree.
THEOREM GatewayInvariant == Spec => []GatewayInv
  BY GatewayInit, GatewayStep, PTL DEF Spec

\* Every table, lock, program counter and worker memory keeps its type.
THEOREM TypeCorrect == Spec => []TypeOK
<1>1. GatewayInv => TypeOK
  BY DEF GatewayInv
<1> QED BY <1>1, GatewayInvariant, PTL

\* Of all requests that carry the same source_ref_no at most one submits the payment.
THEOREM OneOwnerAlways == Spec => []OneOwner
<1>1. GatewayInv => OneOwner
  BY DEF GatewayInv, Owners
<1> QED BY <1>1, GatewayInvariant, PTL

\* transaction_logs and payment_idempotency agree on every resolved payment, even
\* where slow network calls and stale sessions overwrite each other's outcomes.
THEOREM ResolvedAgreesAlways == Spec => []ResolvedAgrees
<1>1. GatewayInv => ResolvedAgrees
  BY DEF GatewayInv, Tables
<1> QED BY <1>1, GatewayInvariant, PTL

\* A payment whose lock says SUCCESS has a stored response.
THEOREM SuccessHasPayloadAlways == Spec => []SuccessHasPayload
<1>1. GatewayInv => SuccessHasPayload
  BY DEF GatewayInv, Tables
<1> QED BY <1>1, GatewayInvariant, PTL

\* AmbiguousStateWorker never works with an outdated object of a row it has locked.
THEOREM LockedBatchIsFreshAlways == Spec => []LockedBatchIsFresh
<1>1. GatewayInv => LockedBatchIsFresh
  BY DEF GatewayInv
<1> QED BY <1>1, GatewayInvariant, PTL

-----------------------------------------------------------------------------
\* A step that changes the outcome of row k changes it through an object loaded earlier
ThroughOldObject(k) ==
  \/ \E r \in Requests : Ref[r] = k /\ pc[r] \in Running /\ pc'[r] # pc[r]
  \/ batch[k] # Absent /\ batch'[k] = Absent /\ k \notin held[AmbiguousWorker]
  \/ \E o \in OneViews : k \in viewed[o] /\ k \notin viewed'[o]

\* A bill or a payment that is new overwrites nothing, and a request that goes on with its
\* payment leaves the label at which it had the object.
LEMMA HandlerOverwrites ==
  ASSUME GatewayInv, HandlerNext, NEW k \in Keys, tx[k] \in Terminal, tx'[k] # tx[k]
  PROVE  ThroughOldObject(k)
<1>t. StoreTypeOK /\ HandlerTypeOK
  BY DEF GatewayInv, TypeOK
<1>1. CASE UNCHANGED storeVars
  BY <1>1 DEF storeVars
<1>2. ASSUME NEW b \in Bills, FetchBill(b) PROVE FALSE
  BY <1>2, <1>t DEF FetchBill, SetState, StoreTypeOK, Absent, Terminal, Resolved
<1>3. ASSUME NEW r \in Requests, Insert(r) PROVE FALSE
  <2>1. idem[Ref[r]] = Absent /\ SetState(Ref[r], "INITIALIZED")
    BY <1>3 DEF Insert, storeVars
  <2>2. tx[Ref[r]] = Absent
    BY <2>1, RefType DEF GatewayInv, Rows, RowsTogether
  <2> QED BY <1>t, <2>1, <2>2 DEF SetState, StoreTypeOK, Absent, Terminal, Resolved
<1>4. ASSUME NEW r \in Requests, Submit(r) \/ Settle(r) \/ TimeOut(r) \/ Fail(r)
      PROVE  ThroughOldObject(k)
  <2>1. PICK s \in States : SetState(Ref[r], s)
    BY <1>4 DEF Submit, Settle, TimeOut, Fail, States
  <2>2. Ref[r] = k
    BY <1>t, <2>1 DEF SetState, StoreTypeOK
  <2>3. pc[r] \in Running /\ pc'[r] # pc[r]
    BY <1>4, <1>t DEF Submit, Settle, TimeOut, Fail, At, Goto, Running, HandlerTypeOK
  <2> QED BY <2>2, <2>3 DEF ThroughOldObject
<1> QED
  BY <1>1, <1>2, <1>3, <1>4
     DEF HandlerNext, Progress, Reject, LookupNone, LookupPending, LookupFinal, Crash

\* While the worker keeps the lock of a row of its batch the row is in flight, as loaded:
\* one with an outcome is unlocked.
LEMMA AmbiguousOverwrites ==
  ASSUME GatewayInv, AmbiguousNext, NEW k \in Keys, tx[k] \in Terminal, tx'[k] # tx[k]
  PROVE  ThroughOldObject(k)
<1>t. StoreTypeOK /\ AmbiguousTypeOK
  BY DEF GatewayInv, TypeOK
<1>1. PICK j \in Keys : AmbiguousMark(j)
  BY DEF AmbiguousNext, AmbiguousProgress, AmbiguousScan, AmbiguousIllegal, AmbiguousAbort,
         AmbiguousRollback
<1>2. j = k
  BY <1>1, <1>t DEF AmbiguousMark, SetState, StoreTypeOK
<1>3. batch[k] \in InFlight /\ batch'[k] = Absent
  BY <1>1, <1>2, <1>t DEF AmbiguousMark, AmbiguousTypeOK
<1>4. k \notin held[AmbiguousWorker]
  BY <1>3 DEF GatewayInv, LockedBatchIsFresh, InFlight, Terminal, Resolved
<1> QED BY <1>3, <1>4 DEF ThroughOldObject, InFlight, Absent

\* A recovery worker reads the state again under the lock.
LEMMA RecoveryOverwrites ==
  ASSUME GatewayInv, RecoveryNext, NEW k \in Keys, tx[k] \in Terminal PROVE tx'[k] = tx[k]
<1>1. CASE tx' = tx
  BY <1>1
<1>2. ASSUME NEW w \in RecoveryWorkers, NEW j \in Keys, RecoveryResolve(w, j)
      PROVE  tx'[k] = tx[k]
  <2>1. j # k
    BY <1>2 DEF RecoveryResolve, Terminal, Resolved
  <2> QED BY <1>2, <2>1 DEF RecoveryResolve, Resolve, SetState, GatewayInv, TypeOK, StoreTypeOK
<1> QED
  BY <1>1, <1>2 DEF RecoveryNext, RecoveryTake, RecoveryScan, RecoveryEnd, RecoveryAbort,
                    RecoverySkip, RecoveryError, storeVars

\* OneView trusts the rows it viewed; an operator's request reads its row under the lock,
\* and the matrix leaves it nothing to do with a dead letter.
LEMMA ApiOverwrites ==
  ASSUME GatewayInv, OneViewNext \/ ReconcileNext, NEW k \in Keys, tx[k] \in Terminal,
         tx'[k] # tx[k]
  PROVE  ThroughOldObject(k)
<1>t. StoreTypeOK /\ OneViewTypeOK
  BY DEF GatewayInv, TypeOK
<1>1. CASE tx' = tx
  BY <1>1
<1>2. ASSUME NEW o \in OneViews, NEW j \in Keys, OneViewReconcile(o, j)
      PROVE  ThroughOldObject(k)
  <2>1. j = k
    BY <1>2, <1>t DEF OneViewReconcile, Resolve, SetState, StoreTypeOK
  <2>2. k \in viewed[o] /\ k \notin viewed'[o]
    BY <1>2, <1>t, <2>1 DEF OneViewReconcile, Seen, OneViewTypeOK
  <2> QED BY <2>2 DEF ThroughOldObject
<1>3. ASSUME NEW j \in Keys, NEW s \in Resolved, Reconcile(j, s) PROVE FALSE
  <2>1. j = k
    BY <1>3, <1>t DEF Reconcile, Resolve, SetState, StoreTypeOK
  <2>2. tx[k] = "FAILED_DLQ" /\ ValidTransition(tx[k], s)
    BY <1>3, <2>1 DEF Reconcile, Terminal
  <2> QED BY <2>2 DEF ValidTransition, ALLOWED_TRANSITIONS, States, Resolved
<1> QED
  BY <1>1, <1>2, <1>3 DEF OneViewNext, ReconcileNext, OneViewLoad, OneViewClose, OneViewSwallow,
                          storeVars

\* In any environment, and for any number of sessions, only a session that loaded a row
\* before its outcome was committed overwrites the outcome.
THEOREM OverwrittenThroughOldObjectsAlways == Spec => OverwrittenThroughOldObjects
<1> DEFINE Overwrites == \A k \in Keys : tx[k] \in Terminal /\ tx'[k] # tx[k] =>
       \/ \E r \in Requests : Ref[r] = k /\ pc[r] \in Running /\ pc'[r] # pc[r]
       \/ batch[k] # Absent /\ batch'[k] = Absent /\ k \notin held[AmbiguousWorker]
       \/ \E o \in OneViews : k \in viewed[o] /\ k \notin viewed'[o]
<1>1. ASSUME GatewayInv, [Next]_vars PROVE Overwrites
  <2> SUFFICES ASSUME NEW k \in Keys, tx[k] \in Terminal, tx'[k] # tx[k]
               PROVE  ThroughOldObject(k)
    BY DEF ThroughOldObject
  <2>1. HandlerNext \/ AmbiguousNext \/ RecoveryNext \/ OneViewNext \/ ReconcileNext
    BY <1>1 DEF Next, Age, vars, storeVars
  <2>2. GatewayInv
    BY <1>1
  <2>3. CASE HandlerNext
    BY <2>2, <2>3, HandlerOverwrites
  <2>4. CASE AmbiguousNext
    BY <2>2, <2>4, AmbiguousOverwrites
  <2>5. CASE RecoveryNext
    BY <2>2, <2>5, RecoveryOverwrites
  <2>6. CASE OneViewNext \/ ReconcileNext
    BY <2>2, <2>6, ApiOverwrites
  <2> QED BY <2>1, <2>3, <2>4, <2>5, <2>6
<1>2. GatewayInv /\ [Next]_vars => [Overwrites]_vars
  BY <1>1
<1> QED BY <1>2, GatewayInvariant, PTL DEF Spec, OverwrittenThroughOldObjects

-----------------------------------------------------------------------------
\* The nominal environment: no network call outlasts the cutoff, no OneView reconciles
\* through the objects it has loaded, and operators act on ambiguous rows.
Nominal == Timely /\ OneViews = {} /\ ReconcileFrom = {"AMBIGUOUS_TIMEOUT"}

\* A live request's row is what its session remembers of it, not stale, and in nobody's
\* batch.
RunsOn(r, s) == tx[Ref[r]] = s /\ ~stale[Ref[r]] /\ batch[Ref[r]] = Absent

LiveRows ==
  \A r \in Requests \ crashed :
    /\ pc[r] = "created" => RunsOn(r, "INITIALIZED")
    /\ pc[r] = "inflight" => RunsOn(r, "NETWORK_IN_FLIGHT")

\* Loaded rows stay what they were, also those whose lock is given up.
BatchIsFresh == \A k \in Keys : batch[k] # Absent => batch[k] = tx[k]

\* Row, lock row and reconciliation log of a payment, from its creation to its outcome
Story(k) ==
  \/ tx[k] = Absent /\ idem[k] = Absent /\ rec[k] = <<>>
  \/ tx[k] \in {"INITIALIZED", "NETWORK_IN_FLIGHT"} /\ idem[k] = "PENDING" /\ rec[k] = <<>>
  \/ tx[k] = "AMBIGUOUS_TIMEOUT" /\ idem[k] = "PENDING" /\ rec[k] \in {<<>>, <<"PENDING">>}
  \/ tx[k] \in Resolved /\ idem[k] = StatusOf(tx[k]) /\ rec[k] = <<tx[k]>>

BillsStay == \A b \in Bills : tx[b] \in {Absent, "INITIALIZED"}

NominalInv ==
  /\ GatewayInv
  /\ LiveRows /\ BatchIsFresh /\ BillsStay
  /\ \A k \in Payments : Story(k)

\* What a step makes of a payment
Same(k) == tx'[k] = tx[k] /\ idem'[k] = idem[k] /\ rec'[k] = rec[k]

Created(k) ==
  /\ tx[k] = Absent /\ tx'[k] = "INITIALIZED"
  /\ idem'[k] = "PENDING" /\ rec'[k] = rec[k]

Advanced(k) ==
  /\ idem'[k] = "PENDING"
  /\ \/ tx[k] = "INITIALIZED" /\ tx'[k] = "NETWORK_IN_FLIGHT" /\ rec'[k] = rec[k]
     \/ /\ tx[k] = "NETWORK_IN_FLIGHT" /\ tx'[k] = "AMBIGUOUS_TIMEOUT"
        /\ rec'[k] \in {rec[k], <<"PENDING">>}

Concluded(k) ==
  /\ tx[k] \in {"NETWORK_IN_FLIGHT", "AMBIGUOUS_TIMEOUT"}
  /\ tx'[k] \in Resolved /\ idem'[k] = StatusOf(tx'[k]) /\ rec'[k] = <<tx'[k]>>

Turn(k) == Created(k) \/ Advanced(k) \/ Concluded(k)

\* At most one payment takes a turn in a step.
OneTurn ==
  \/ \A k \in Payments : Same(k)
  \/ \E k \in Payments : Turn(k) /\ \A j \in Payments \ {k} : Same(j)

Goes == OneTurn /\ LiveRows' /\ BatchIsFresh' /\ BillsStay'

\* What a request that runs after a step was before, unless the step is its own
StillRuns(q) ==
  q \notin crashed' /\ pc'[q] \in Running => q \notin crashed /\ pc'[q] = pc[q]

\* A step that writes no table: batches grow by stale rows only, and only rows without a
\* live request become stale.
LEMMA QuietGoes ==
  ASSUME NominalInv, UNCHANGED <<tx, idem, rec>>,
         \A k \in Keys : batch'[k] \in {batch[k], Absent} \/ (stale[k] /\ batch'[k] = tx[k]),
         \A k \in Keys : stale'[k] => stale[k] \/ ~Live(k),
         \A q \in Requests : StillRuns(q)
  PROVE  Goes
<1>1. OneTurn /\ BillsStay'
  BY DEF OneTurn, Same, NominalInv, BillsStay
<1>2. BatchIsFresh'
  BY DEF NominalInv, BatchIsFresh
<1>3. LiveRows'
  <2> SUFFICES ASSUME NEW r \in Requests, r \notin crashed', pc'[r] \in Running
               PROVE  /\ pc'[r] = "created" => RunsOn(r, "INITIALIZED")'
                      /\ pc'[r] = "inflight" => RunsOn(r, "NETWORK_IN_FLIGHT")'
    BY DEF LiveRows, Running
  <2>1. r \notin crashed /\ pc[r] = pc'[r] /\ Ref[r] \in Keys
    BY RefType DEF StillRuns
  <2>2. ~stale[Ref[r]] /\ batch[Ref[r]] = Absent /\ Live(Ref[r])
    BY <2>1 DEF NominalInv, LiveRows, RunsOn, Running, Live
  <2> QED BY <2>1, <2>2 DEF NominalInv, LiveRows, RunsOn
<1> QED BY <1>1, <1>2, <1>3 DEF Goes

\* A step that writes the row of one payment: it is in no batch afterwards, and if a
\* request runs on it, with the state that the request remembers.
LEMMA TurnGoes ==
  ASSUME NominalInv, NEW k \in Payments, NEW s \in States, SetState(k, s), Turn(k),
         \A j \in Keys \ {k} : idem'[j] = idem[j] /\ rec'[j] = rec[j],
         batch'[k] = Absent, \A j \in Keys : batch'[j] \in {batch[j], Absent},
         \A q \in Requests : Ref[q] # k => StillRuns(q),
         \A q \in Requests : Ref[q] = k /\ q \notin crashed' =>
              /\ pc'[q] = "created" => s = "INITIALIZED"
              /\ pc'[q] = "inflight" => s = "NETWORK_IN_FLIGHT"
  PROVE  Goes
<1>k. k \in Keys /\ k \notin Bills
  BY KeysAssumption DEF Keys
<1>1. /\ tx'[k] = s /\ stale'[k] = FALSE
      /\ \A j \in Keys \ {k} : tx'[j] = tx[j] /\ stale'[j] = stale[j]
  BY <1>k DEF SetState, NominalInv, GatewayInv, TypeOK, StoreTypeOK
<1>2. OneTurn
  BY <1>1 DEF OneTurn, Same, Keys
<1>3. BillsStay'
  BY <1>k, <1>1 DEF BillsStay, NominalInv, Keys
<1>4. BatchIsFresh'
  BY <1>1 DEF BatchIsFresh, NominalInv
<1>5. LiveRows'
  <2> SUFFICES ASSUME NEW r \in Requests, r \notin crashed', pc'[r] \in Running
               PROVE  /\ pc'[r] = "created" => RunsOn(r, "INITIALIZED")'
                      /\ pc'[r] = "inflight" => RunsOn(r, "NETWORK_IN_FLIGHT")'
    BY DEF LiveRows, Running
  <2>1. Ref[r] \in Keys
    BY RefType
  <2>2. CASE Ref[r] = k
    BY <1>1, <2>2 DEF RunsOn
  <2>3. CASE Ref[r] # k
    BY <1>1, <2>1, <2>3 DEF StillRuns, NominalInv, LiveRows, RunsOn
  <2> QED BY <2>2, <2>3
<1> QED BY <1>2, <1>3, <1>4, <1>5 DEF Goes

-----------------------------------------------------------------------------
\* The steps of a request, before it owns the payment and after
LEMMA HandlerGoes ==
  ASSUME NominalInv, HandlerNext, UNCHANGED <<ambiguousVars, recoveryVars, oneViewVars>>
  PROVE  Goes
<1> USE DEF ambiguousVars
<1>t. /\ pc \in [Requests -> {"start", "insert"} \cup Owning \cup Refused]
      /\ StoreTypeOK /\ GatewayInv
  BY DEF NominalInv, GatewayInv, TypeOK, HandlerTypeOK
<1>1. ASSUME NEW b \in Bills, FetchBill(b) PROVE Goes
  <2>1. b \in Keys /\ b \notin Payments /\ Payments \subseteq Keys
    BY KeysAssumption DEF Keys
  <2>2. /\ tx'[b] = "INITIALIZED" /\ tx[b] = Absent
        /\ \A j \in Keys \ {b} : tx'[j] = tx[j] /\ stale'[j] = stale[j]
        /\ UNCHANGED <<idem, rec, batch, pc, crashed>>
    BY <1>1, <1>t, <2>1 DEF FetchBill, SetState, StoreTypeOK, handlerVars
  <2>3. OneTurn /\ BillsStay'
    BY <2>1, <2>2 DEF OneTurn, Same, NominalInv, BillsStay, Keys
  <2>4. BatchIsFresh'
    BY <1>t, <2>1, <2>2 DEF NominalInv, BatchIsFresh, GatewayInv, Rows, RememberedRowsExist
  <2>5. LiveRows'
    <3>1. \A r \in Requests : Ref[r] \in Keys \ {b}
      BY <2>1, RefType
    <3> QED BY <2>2, <3>1 DEF NominalInv, LiveRows, RunsOn
  <2> QED BY <2>3, <2>4, <2>5 DEF Goes
<1>2. ASSUME NEW r \in Requests,
             Reject(r) \/ LookupNone(r) \/ LookupPending(r) \/ LookupFinal(r) \/ Crash(r)
      PROVE  Goes
  <2>1. UNCHANGED storeVars
    BY <1>2 DEF Reject, LookupNone, LookupPending, LookupFinal, Crash
  <2>2. \/ pc' = pc /\ crashed' = crashed \cup {r}
        \/ \E l \in {"insert"} \cup Refused : Goto(r, l)
    <3>1. CASE LookupFinal(r)
      BY <3>1 DEF LookupFinal, Refused
    <3> QED BY <1>2, <3>1 DEF Reject, LookupNone, LookupPending, Crash, Refused
  <2>3. \A q \in Requests : StillRuns(q)
    BY <1>t, <2>2 DEF StillRuns, Goto, Running, Refused
  <2> QED BY <2>1, <2>3, QuietGoes DEF storeVars
<1>3. ASSUME NEW r \in Requests, Insert(r) PROVE Goes
  <2> DEFINE k == Ref[r]
  <2>k. k \in Payments /\ k \in Keys
    BY RefType
  <2>1. CASE Goto(r, "conflict") /\ UNCHANGED storeVars
    <3>1. \A q \in Requests : StillRuns(q)
      BY <1>t, <2>1 DEF StillRuns, Goto, Running
    <3> QED BY <2>1, <3>1, QuietGoes DEF storeVars
  <2>2. CASE /\ idem[k] = Absent
             /\ idem' = [idem EXCEPT ![k] = "PENDING"]
             /\ SetState(k, "INITIALIZED")
             /\ Goto(r, "created")
             /\ UNCHANGED <<payload, rec, held>>
    <3>1. tx[k] = Absent /\ batch[k] = Absent
      BY <1>t, <2>k, <2>2 DEF GatewayInv, Rows, RowsTogether, RememberedRowsExist
    <3>2. Turn(k)
      BY <1>t, <2>k, <2>2, <3>1 DEF Turn, Created, SetState, StoreTypeOK
    <3>3. \A q \in Requests : Ref[q] = k => pc[q] \notin Running
      BY <1>t, <2>2 DEF GatewayInv, Owners, OwnersHaveLock, Owning
    <3>4. \A q \in Requests : Ref[q] # k => StillRuns(q)
      BY <1>t, <2>2 DEF StillRuns, Goto
    <3>5. \A q \in Requests : Ref[q] = k /\ q \notin crashed' => pc'[q] # "inflight"
      BY <1>t, <2>2, <3>3 DEF Goto, Running
    <3>6. \A j \in Keys \ {k} : idem'[j] = idem[j] /\ rec'[j] = rec[j]
      BY <1>t, <2>2 DEF StoreTypeOK
    <3>7. "INITIALIZED" \in States
      BY DEF States
    <3> QED BY <2>k, <2>2, <3>1, <3>2, <3>4, <3>5, <3>6, <3>7, TurnGoes
  <2> QED BY <1>3, <2>1, <2>2 DEF Insert
<1>4. ASSUME NEW r \in Requests, Submit(r) \/ Settle(r) \/ TimeOut(r) \/ Fail(r) PROVE Goes
  <2> DEFINE k == Ref[r]
  <2>k. k \in Payments /\ k \in Keys /\ Story(k)
    BY RefType DEF NominalInv
  <2>0. r \notin crashed /\ pc[r] \in Running
    BY <1>4 DEF Submit, Settle, TimeOut, Fail, At, Running
  <2>1. /\ batch[k] = Absent
        /\ Submit(r) => tx[k] = "INITIALIZED"
        /\ ~Submit(r) => tx[k] = "NETWORK_IN_FLIGHT"
    BY <1>4, <2>0 DEF Submit, Settle, TimeOut, Fail, At, NominalInv, LiveRows, RunsOn, Running
  <2>2. idem[k] = "PENDING" /\ rec[k] = <<>>
    BY <2>k, <2>1 DEF Story, Absent, Resolved
  <2>3. \A q \in Requests \ {r} : Ref[q] = k => pc[q] \notin Running
    BY <1>t, <2>0 DEF GatewayInv, Owners, OneOwner, Owning
  <2>4. ASSUME NEW l \in {"inflight"} \cup Answered, Goto(r, l)
        PROVE  /\ \A q \in Requests : Ref[q] # k => StillRuns(q)
               /\ \A q \in Requests : Ref[q] = k /\ q \notin crashed' =>
                    /\ pc'[q] # "created"
                    /\ pc'[q] = "inflight" => l = "inflight"
    BY <1>t, <2>3, <2>4 DEF StillRuns, Goto, Running, Answered
  <2>5. {"NETWORK_IN_FLIGHT", "AMBIGUOUS_TIMEOUT", "SETTLED", "FAILED"} \subseteq States
        /\ {"SUCCESS", "FAILED"} \subseteq IdemStates
    BY DEF States, IdemStates
  <2>6. CASE Submit(r)
    <3>1. Turn(k)
      BY <1>t, <2>k, <2>1, <2>2, <2>6 DEF Submit, Turn, Advanced, SetState, StoreTypeOK
    <3>2. Goto(r, "inflight") /\ SetState(k, "NETWORK_IN_FLIGHT") /\ UNCHANGED <<idem, rec>>
      BY <2>6 DEF Submit
    <3> QED BY <2>k, <2>1, <2>4, <2>5, <3>1, <3>2, TurnGoes
  <2>7. CASE Settle(r)
    <3>1. /\ Goto(r, "settled") /\ "settled" \in Answered
          /\ SetState(k, "SETTLED") /\ idem' = WithStatus(k, "SUCCESS")
          /\ rec' = [rec EXCEPT ![k] = Append(@, "SETTLED")]
      BY <2>7 DEF Settle, Answered
    <3>2. /\ idem'[k] = "SUCCESS" /\ rec'[k] = <<"SETTLED">> /\ tx'[k] = "SETTLED"
          /\ \A j \in Keys \ {k} : idem'[j] = idem[j] /\ rec'[j] = rec[j]
      BY <1>t, <2>k, <2>2, <2>5, <3>1, WithStatusAt DEF StoreTypeOK, SetState, Absent
    <3>3. Turn(k)
      BY <2>1, <2>7, <3>2 DEF Turn, Concluded, Resolved, StatusOf, Submit, Settle, At
    <3> QED BY <2>k, <2>1, <2>4, <2>5, <3>1, <3>2, <3>3, TurnGoes
  <2>8. CASE TimeOut(r)
    <3>1. /\ Goto(r, "ambiguous") /\ "ambiguous" \in Answered
          /\ SetState(k, "AMBIGUOUS_TIMEOUT") /\ idem' = idem
          /\ rec' = [rec EXCEPT ![k] = Append(@, "PENDING")]
      BY <2>8 DEF TimeOut, Answered
    <3>2. /\ rec'[k] = <<"PENDING">> /\ tx'[k] = "AMBIGUOUS_TIMEOUT"
          /\ \A j \in Keys \ {k} : rec'[j] = rec[j]
      BY <1>t, <2>k, <2>2, <3>1 DEF StoreTypeOK, SetState
    <3>3. Turn(k)
      BY <2>1, <2>2, <2>8, <3>1, <3>2 DEF Turn, Advanced, Submit, TimeOut, At
    <3> QED BY <2>k, <2>1, <2>4, <2>5, <3>1, <3>2, <3>3, TurnGoes
  <2>9. CASE Fail(r)
    <3>1. /\ Goto(r, "failed") /\ "failed" \in Answered
          /\ SetState(k, "FAILED") /\ idem' = WithStatus(k, "FAILED")
          /\ rec' = [rec EXCEPT ![k] = Append(@, "FAILED")]
      BY <2>9 DEF Fail, Answered
    <3>2. /\ idem'[k] = "FAILED" /\ rec'[k] = <<"FAILED">> /\ tx'[k] = "FAILED"
          /\ \A j \in Keys \ {k} : idem'[j] = idem[j] /\ rec'[j] = rec[j]
      BY <1>t, <2>k, <2>2, <2>5, <3>1, WithStatusAt DEF StoreTypeOK, SetState, Absent
    <3>3. Turn(k)
      BY <2>1, <2>9, <3>2 DEF Turn, Concluded, Resolved, StatusOf, Submit, Fail, At
    <3> QED BY <2>k, <2>1, <2>4, <2>5, <3>1, <3>2, <3>3, TurnGoes
  <2> QED BY <1>4, <2>6, <2>7, <2>8, <2>9
<1> QED BY <1>1, <1>2, <1>3, <1>4 DEF HandlerNext, Progress

\* AmbiguousStateWorker marks rows that are still in flight and that no request runs on.
LEMMA AmbiguousGoes ==
  ASSUME NominalInv, AmbiguousNext, UNCHANGED <<handlerVars, recoveryVars, oneViewVars>>
  PROVE  Goes
<1> USE DEF handlerVars
<1>t. GatewayInv /\ StoreTypeOK /\ AmbiguousTypeOK
  BY DEF NominalInv, GatewayInv, TypeOK
<1>s. \A q \in Requests : StillRuns(q)
  BY DEF StillRuns
<1>1. CASE AmbiguousScan
  <2>1. \A k \in Keys : batch'[k] \in {batch[k], Absent} \/ (stale[k] /\ batch'[k] = tx[k])
    BY <1>1 DEF AmbiguousScan, StaleRows
  <2>2. UNCHANGED <<tx, idem, rec, stale>>
    BY <1>1 DEF AmbiguousScan
  <2> QED BY <1>s, <2>1, <2>2, QuietGoes
<1>2. CASE AmbiguousRollback
  <2>1. \A k \in Keys : batch'[k] = Absent
    BY <1>2 DEF AmbiguousRollback, NoBatch
  <2>2. UNCHANGED <<tx, idem, rec, stale>>
    BY <1>2 DEF AmbiguousRollback
  <2> QED BY <1>s, <2>1, <2>2, QuietGoes
<1>3. ASSUME NEW k \in Keys, AmbiguousMark(k) PROVE Goes
  <2>1. /\ batch[k] \in InFlight /\ batch[k] = tx[k]
        /\ ValidTransition(batch[k], "AMBIGUOUS_TIMEOUT")
        /\ SetState(k, "AMBIGUOUS_TIMEOUT") /\ idem' = WithStatus(k, "PENDING") /\ rec' = rec
        /\ batch' = [batch EXCEPT ![k] = Absent]
    BY <1>3, <1>t DEF AmbiguousMark, AmbiguousTypeOK, NominalInv, BatchIsFresh
  <2>2. tx[k] = "NETWORK_IN_FLIGHT"
    BY <2>1 DEF InFlight, ValidTransition, ALLOWED_TRANSITIONS, States
  <2>3. k \in Payments
    BY <2>2 DEF Keys, NominalInv, BillsStay, Absent
  <2>4. idem[k] = "PENDING"
    BY <2>2, <2>3 DEF NominalInv, Story, Absent, Resolved
  <2>5. "PENDING" \in IdemStates /\ "AMBIGUOUS_TIMEOUT" \in States
    BY DEF IdemStates, States
  <2>6. idem'[k] = "PENDING" /\ \A j \in Keys \ {k} : idem'[j] = idem[j]
    BY <1>t, <2>1, <2>4, <2>5, WithStatusAt DEF Absent
  <2>7. Turn(k)
    BY <1>t, <2>1, <2>2, <2>6 DEF Turn, Advanced, SetState, StoreTypeOK
  <2>8. batch[k] # Absent
    BY <2>1 DEF InFlight, Absent
  <2>9. \A q \in Requests : Ref[q] = k /\ q \notin crashed => pc[q] \notin Running
    BY <2>8 DEF NominalInv, LiveRows, RunsOn, Running
  <2>10. batch'[k] = Absent /\ \A j \in Keys : batch'[j] \in {batch[j], Absent}
    BY <1>t, <2>1 DEF AmbiguousTypeOK
  <2> QED BY <1>s, <2>1, <2>3, <2>5, <2>6, <2>7, <2>9, <2>10, TurnGoes DEF Running
<1> QED BY <1>1, <1>2, <1>3 DEF AmbiguousNext, AmbiguousProgress, AmbiguousIllegal, AmbiguousAbort

\* Whoever resolves an ambiguous row concludes its payment.
LEMMA ResolveGoes ==
  ASSUME NominalInv, NEW k \in Keys, NEW s \in Resolved, Resolve(k, s),
         tx[k] = "AMBIGUOUS_TIMEOUT", UNCHANGED <<handlerVars, ambiguousVars>>
  PROVE  Goes
<1> USE DEF handlerVars, ambiguousVars
<1>t. GatewayInv /\ StoreTypeOK /\ AmbiguousTypeOK
  BY DEF NominalInv, GatewayInv, TypeOK
<1>1. k \in Payments
  BY DEF Keys, NominalInv, BillsStay, Absent
<1>2. idem[k] = "PENDING"
  BY <1>1 DEF NominalInv, Story, Absent, Resolved
<1>3. StatusOf(s) \in IdemStates /\ s \in States
  BY DEF StatusOf, IdemStates, Resolved, States
<1>4. idem'[k] = StatusOf(s) /\ \A j \in Keys \ {k} : idem'[j] = idem[j]
  BY <1>t, <1>2, <1>3, WithStatusAt DEF Resolve, Absent
<1>5. rec'[k] = <<s>> /\ \A j \in Keys \ {k} : rec'[j] = rec[j]
  BY <1>t DEF Resolve, StoreTypeOK
<1>6. Turn(k)
  BY <1>t, <1>4, <1>5 DEF Turn, Concluded, Resolve, SetState, StoreTypeOK
<1>7. batch[k] = Absent
  BY <1>t DEF NominalInv, BatchIsFresh, AmbiguousTypeOK, InFlight
<1>8. \A q \in Requests : Ref[q] = k /\ q \notin crashed => pc[q] \notin Running
  BY DEF NominalInv, LiveRows, RunsOn, Running
<1>9. \A q \in Requests : StillRuns(q)
  BY DEF StillRuns
<1> QED BY <1>1, <1>3, <1>4, <1>5, <1>6, <1>7, <1>8, <1>9, TurnGoes DEF Resolve, Running

\* The recovery workers, operators and time
LEMMA OthersGo ==
  ASSUME NominalInv, Nominal,
         \/ RecoveryNext /\ UNCHANGED <<handlerVars, ambiguousVars, oneViewVars>>
         \/ OneViewNext
         \/ ReconcileNext /\ UNCHANGED <<handlerVars, ambiguousVars, recoveryVars>>
         \/ \E k \in Keys : Age(k)
         \/ UNCHANGED vars
  PROVE  Goes
<1>1. ASSUME UNCHANGED <<tx, idem, rec, stale, handlerVars, ambiguousVars>> PROVE Goes
  BY <1>1, QuietGoes DEF handlerVars, ambiguousVars, StillRuns
<1>2. ASSUME NEW w \in RecoveryWorkers, NEW k \in Keys, RecoveryResolve(w, k),
             UNCHANGED <<handlerVars, ambiguousVars>>
      PROVE  Goes
  BY <1>2, ResolveGoes DEF RecoveryResolve
<1>3. CASE RecoveryNext /\ UNCHANGED <<handlerVars, ambiguousVars, oneViewVars>>
  BY <1>1, <1>2, <1>3 DEF RecoveryNext, RecoveryTake, RecoveryScan, RecoveryEnd, RecoveryAbort,
                          RecoverySkip, RecoveryError, storeVars
<1>4. CASE OneViewNext
  BY <1>4 DEF OneViewNext, Nominal
<1>5. CASE ReconcileNext /\ UNCHANGED <<handlerVars, ambiguousVars, recoveryVars>>
  <2>1. PICK k \in Keys, s \in Resolved : Reconcile(k, s)
    BY <1>5 DEF ReconcileNext
  <2>2. tx[k] = "AMBIGUOUS_TIMEOUT" /\ Resolve(k, s)
    BY <2>1 DEF Reconcile, Nominal
  <2> QED BY <1>5, <2>2, ResolveGoes
<1>6. ASSUME NEW k \in Keys, Age(k) PROVE Goes
  <2>1. ~Live(k) /\ stale' = [stale EXCEPT ![k] = TRUE]
        /\ UNCHANGED <<tx, idem, rec, batch, pc, crashed>>
    BY <1>6 DEF Age, Nominal, handlerVars, ambiguousVars
  <2>2. \A j \in Keys : stale'[j] => stale[j] \/ ~Live(j)
    BY <2>1 DEF NominalInv, GatewayInv, TypeOK, StoreTypeOK
  <2> QED BY <2>1, <2>2, QuietGoes DEF StillRuns
<1>7. CASE UNCHANGED vars
  BY <1>1, <1>7 DEF vars, storeVars
<1> QED BY <1>3, <1>4, <1>5, <1>6, <1>7

LEMMA NominalGoes == NominalInv /\ Nominal /\ [Next]_vars => Goes
  BY HandlerGoes, AmbiguousGoes, OthersGo DEF Next

\* A turn goes on with the story of its payment.
LEMMA TurnsTell == ASSUME NEW k \in Payments, Story(k), Same(k) \/ Turn(k) PROVE Story(k)'
<1>1. CASE Same(k)
  BY <1>1 DEF Same, Story, StatusOf
<1>2. CASE Created(k)
  BY <1>2 DEF Created, Story, Resolved, Absent
<1>3. CASE Advanced(k)
  BY <1>3 DEF Advanced, Story, Resolved, Absent
<1>4. CASE Concluded(k)
  BY <1>4 DEF Concluded, Story, StatusOf
<1> QED BY <1>1, <1>2, <1>3, <1>4 DEF Turn

LEMMA NominalInit == Init => NominalInv
<1> SUFFICES ASSUME Init PROVE NominalInv
  OBVIOUS
<1>1. GatewayInv
  BY GatewayInit
<1>2. LiveRows /\ BatchIsFresh /\ BillsStay
  BY DEF Init, HandlerInit, AmbiguousInit, NoBatch, StoreInit, LiveRows, BatchIsFresh, BillsStay, Keys
<1>3. \A k \in Payments : Story(k)
  BY DEF Init, StoreInit, Story, Keys
<1> QED BY <1>1, <1>2, <1>3 DEF NominalInv

LEMMA NominalStep == NominalInv /\ Nominal /\ [Next]_vars => NominalInv'
<1> SUFFICES ASSUME NominalInv, Nominal, [Next]_vars PROVE NominalInv'
  OBVIOUS
<1>1. GatewayInv'
  BY GatewayStep DEF NominalInv
<1>2. Goes
  BY NominalGoes
<1>3. \A k \in Payments : Story(k)'
  BY <1>2, TurnsTell DEF Goes, OneTurn, NominalInv
<1> QED BY <1>1, <1>2, <1>3 DEF Goes, NominalInv

\* In the nominal environment loaded rows stay fresh, and row, lock row and log of every
\* payment tell one story.
THEOREM NominalInvariant == Nominal /\ Spec => []NominalInv
<1>1. CASE Nominal
  <2>1. NominalInv /\ [Next]_vars => NominalInv'
    BY <1>1, NominalStep
  <2> QED BY <2>1, NominalInit, PTL DEF Spec
<1>2. CASE ~Nominal
  BY <1>2
<1> QED BY <1>1, <1>2

\* In the nominal environment the reconciliation log is exact: the outcome alone once a
\* payment is resolved.
THEOREM AuditTrailNominally == Nominal /\ Spec => []AuditTrail
<1>1. NominalInv => AuditTrail
  BY DEF NominalInv, Story, AuditTrail, Resolved, Absent
<1> QED BY <1>1, NominalInvariant, PTL

\* In the nominal environment no worker, operator or request takes a payment out of a
\* terminal state.
THEOREM TerminalIsFinalNominally == Nominal /\ Spec => TerminalIsFinal
<1> DEFINE Final == \A k \in Keys : tx[k] \in Terminal => tx'[k] = tx[k]
<1>1. ASSUME NominalInv, Nominal, [Next]_vars PROVE Final
  <2>1. \A k \in Payments : Same(k) \/ Turn(k)
    BY <1>1, NominalGoes DEF Goes, OneTurn
  <2>2. \A k \in Payments : tx[k] \in Terminal => tx'[k] = tx[k]
    BY <2>1 DEF Same, Turn, Created, Advanced, Concluded, Terminal, Resolved, Absent
  <2>3. \A k \in Bills : tx[k] \notin Terminal
    BY <1>1 DEF NominalInv, BillsStay, Terminal, Resolved, Absent
  <2> QED BY <2>2, <2>3 DEF Keys
<1>2. CASE Nominal
  <2>1. NominalInv /\ [Next]_vars => [Final]_vars
    BY <1>1, <1>2
  <2>2. Spec => []NominalInv
    BY <1>2, NominalInvariant
  <2> QED BY <2>1, <2>2, PTL DEF Spec, TerminalIsFinal
<1>3. CASE ~Nominal
  BY <1>3
<1> QED BY <1>2, <1>3

-----------------------------------------------------------------------------
\* What the promise calls the states of a row and the statuses of a lock row
LEMMA PromiseValues ==
  /\ LedgerOf(Absent) = "none" /\ LedgerOf("SETTLED") = "settled" /\ LedgerOf("FAILED") = "failed"
  /\ \A s \in {"INITIALIZED", "NETWORK_IN_FLIGHT", "AMBIGUOUS_TIMEOUT"} : LedgerOf(s) = "open"
  /\ AnswerOf(Absent) = "none" /\ AnswerOf("PENDING") = "in progress"
  /\ AnswerOf("SUCCESS") = "success" /\ AnswerOf("FAILED") = "failure"
<1>1. Absent = "none"
  BY DEF Absent
<1>2. LedgerOf(Absent) = "none"
  BY <1>1 DEF LedgerOf
<1>3. LedgerOf("SETTLED") = "settled" /\ LedgerOf("FAILED") = "failed"
  BY <1>1 DEF LedgerOf
<1>4. \A s \in {"INITIALIZED", "NETWORK_IN_FLIGHT", "AMBIGUOUS_TIMEOUT"} : LedgerOf(s) = "open"
  BY <1>1 DEF LedgerOf
<1>5. AnswerOf(Absent) = "none"
  BY <1>1 DEF AnswerOf
<1>6. AnswerOf("PENDING") = "in progress" /\ AnswerOf("SUCCESS") = "success" /\ AnswerOf("FAILED") = "failure"
  BY <1>1 DEF AnswerOf
<1> QED BY <1>2, <1>3, <1>4, <1>5, <1>6

\* A turn of a payment is a step of the promise, or it leaves it alone.
LEMMA TurnKeepsPromise ==
  ASSUME NominalInv, NominalInv', OneTurn
  PROVE  [Promise!Next]_<<Ledger, Answer>>
<1>l. Ledger = [k \in Payments |-> LedgerOf(tx[k])] /\ Ledger' = [k \in Payments |-> LedgerOf(tx'[k])]
  BY DEF Ledger, LedgerOf
<1>a. Answer = [k \in Payments |-> AnswerOf(idem[k])] /\ Answer' = [k \in Payments |-> AnswerOf(idem'[k])]
  BY DEF Answer, AnswerOf
<1>1. \A j \in Payments : Same(j) => LedgerOf(tx'[j]) = LedgerOf(tx[j])
                                   /\ AnswerOf(idem'[j]) = AnswerOf(idem[j])
  BY DEF Same
<1>2. CASE \A k \in Payments : Same(k)
  <2>1. Ledger' = Ledger
    BY <1>1, <1>2, <1>l
  <2>2. Answer' = Answer
    BY <1>1, <1>2, <1>a
  <2> QED BY <2>1, <2>2
<1>3. ASSUME NEW k \in Payments, Turn(k), \A j \in Payments \ {k} : Same(j)
      PROVE  [Promise!Next]_<<Ledger, Answer>>
  <2>1. Ledger' = [Ledger EXCEPT ![k] = LedgerOf(tx'[k])]
    BY <1>1, <1>3, <1>l
  <2>2. Answer' = [Answer EXCEPT ![k] = AnswerOf(idem'[k])]
    BY <1>1, <1>3, <1>a
  <2>3. Ledger[k] = LedgerOf(tx[k]) /\ Answer[k] = AnswerOf(idem[k])
    BY <1>l, <1>a
  <2>4. Story(k) /\ Story(k)'
    BY DEF NominalInv
  <2>5. CASE Created(k)
    <3>1. LedgerOf(tx[k]) = "none" /\ LedgerOf(tx'[k]) = "open" /\ AnswerOf(idem'[k]) = "in progress"
      BY <2>5, PromiseValues DEF Created
    <3>2. Promise!Accept(k)
      BY <2>1, <2>2, <2>3, <3>1 DEF Promise!Accept
    <3> QED BY <3>2 DEF Promise!Next
  <2>6. CASE Advanced(k)
    <3>1. LedgerOf(tx[k]) = "open" /\ LedgerOf(tx'[k]) = "open"
      BY <2>6, PromiseValues DEF Advanced
    <3>2. idem[k] = idem'[k]
      BY <2>4, <2>6 DEF Advanced, Story, Absent, Resolved
    <3>3. Ledger' = Ledger
      BY <1>l, <2>1, <2>3, <3>1
    <3>4. Answer' = Answer
      BY <1>a, <2>2, <2>3, <3>2
    <3> QED BY <3>3, <3>4
  <2>7. CASE Concluded(k)
    <3>1. LedgerOf(tx[k]) = "open"
      BY <2>7, PromiseValues DEF Concluded
    <3>2. CASE tx'[k] = "SETTLED"
      <4>1. LedgerOf(tx'[k]) = "settled" /\ AnswerOf(idem'[k]) = "success"
        BY <2>7, <3>2, PromiseValues DEF Concluded, StatusOf
      <4>2. Promise!Succeed(k)
        BY <2>1, <2>2, <2>3, <3>1, <4>1 DEF Promise!Succeed
      <4> QED BY <4>2 DEF Promise!Next
    <3>3. CASE tx'[k] = "FAILED"
      <4>1. LedgerOf(tx'[k]) = "failed" /\ AnswerOf(idem'[k]) = "failure"
        BY <2>7, <3>3, PromiseValues DEF Concluded, StatusOf
      <4>2. Promise!Fail(k)
        BY <2>1, <2>2, <2>3, <3>1, <4>1 DEF Promise!Fail
      <4> QED BY <4>2 DEF Promise!Next
    <3> QED BY <2>7, <3>2, <3>3 DEF Concluded, Resolved
  <2> QED BY <1>3, <2>5, <2>6, <2>7 DEF Turn
<1> QED BY <1>2, <1>3 DEF OneTurn

\* In the nominal environment the gateway implements PaymentPromise: every payment is accepted once and resolved at
\* most once, for the ledger and for duplicates in the same commit, for any number of
\* requests, recovery workers and operators.
THEOREM GatewayKeepsPromise == Nominal /\ Spec => KeepsPromise
<1>1. ASSUME Init PROVE Promise!Init
  <2>1. \A k \in Payments : tx[k] = Absent /\ idem[k] = Absent
    BY <1>1 DEF Init, StoreInit, Keys
  <2>2. Ledger = [k \in Payments |-> "none"]
    BY <2>1, PromiseValues DEF Ledger
  <2>3. Answer = [k \in Payments |-> "none"]
    BY <2>1, PromiseValues DEF Answer
  <2> QED BY <2>2, <2>3 DEF Promise!Init
<1>2. Init => Promise!Init
  BY <1>1
<1>3. CASE Nominal
  <2>1. ASSUME NominalInv, NominalInv', [Next]_vars PROVE [Promise!Next]_<<Ledger, Answer>>
    BY <1>3, <2>1, NominalGoes, TurnKeepsPromise DEF Goes
  <2>2. NominalInv /\ NominalInv' /\ [Next]_vars => [Promise!Next]_<<Ledger, Answer>>
    BY <2>1
  <2>3. Spec => []NominalInv
    BY <1>3, NominalInvariant
  <2> QED BY <1>2, <2>2, <2>3, PTL DEF Spec, KeepsPromise, Promise!Spec, Promise!vars
<1>4. CASE ~Nominal
  BY <1>4
<1> QED BY <1>3, <1>4
=============================================================================
