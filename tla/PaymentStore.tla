---------------------------- MODULE PaymentStore ----------------------------
(***************************************************************************)
(* The PostgreSQL tables that the payment flow shares with the workers, and *)
(* the row locks of transaction_logs.  A database transaction that touches  *)
(* one payment only is one step of the model: it takes the row lock first   *)
(* and publishes its writes at its commit.  held[a] are the rows a session  *)
(* keeps locked between two of its steps.                                   *)
(*                                                                          *)
(* Sessions are made with expire_on_commit=False (database/db.py), and a    *)
(* SELECT ... FOR UPDATE does not refresh an object the session still holds: *)
(* an action that reads a row through such an object validates the value    *)
(* the session loaded, and its UPDATE (WHERE id = pk) overwrites whatever   *)
(* the row has become.                                                      *)
(***************************************************************************)
EXTENDS TransactionStates, Naturals, Sequences

CONSTANTS Payments,   \* source_ref_no: idempotency key and trace id of a payment
          Bills,      \* trace ids of bill fetches (VAL-TR-...)
          Lockers,    \* the sessions that may keep row locks between two steps
          Faults      \* workers may be cancelled, and the database may fail them

ASSUME KeysAssumption == Payments \cap Bills = {}
ASSUME FaultsAssumption == Faults \in BOOLEAN

Keys == Payments \cup Bills

VARIABLES tx,        \* transaction_logs: state of the row, "none" before it exists
          payload,   \* its response_payload
          stale,     \* its updated_at is older than the 15 s cutoff
          idem,      \* payment_idempotency: status of the row
          rec,       \* reconciliation_logs: the rows of a trace id, oldest first
          held       \* row locks of transaction_logs kept by a session

storeVars == <<tx, payload, stale, idem, rec, held>>

Absent == "none"
Payloads == {Absent,
             "bill",        \* the bill a fetch stored
             "full",        \* a dumped PayBillResponse
             "recovered"}   \* request_payload with status, reference and date
IdemStates == {Absent, "PENDING", "SUCCESS", "FAILED"}
\* a reconciliation log: PENDING, or RESOLVED with its resolved_state
RecStates == {"PENDING", "SETTLED", "FAILED"}

StoreTypeOK ==
  /\ tx \in [Keys -> States \cup {Absent}]
  /\ payload \in [Keys -> Payloads]
  /\ stale \in [Keys -> BOOLEAN]
  /\ idem \in [Keys -> IdemStates]
  /\ rec \in [Keys -> Seq(RecStates)]
  /\ held \in [Lockers -> SUBSET Keys]

StoreInit ==
  /\ tx = [k \in Keys |-> Absent]
  /\ payload = [k \in Keys |-> Absent]
  /\ stale = [k \in Keys |-> FALSE]
  /\ idem = [k \in Keys |-> Absent]
  /\ rec = [k \in Keys |-> <<>>]
  /\ held = [a \in Lockers |-> {}]

\* Mutant of Unlocked: the row is read without FOR UPDATE
ReadsWithoutLock(k) == k \in Keys

\* A FOR UPDATE on row k does not block: for a session that holds no lock,
\* and for one that may already hold it
Unlocked(k) == \A a \in Lockers : k \notin held[a]
UnlockedFor(k, a) == \A b \in Lockers \ {a} : k \notin held[b]

\* COMMIT or ROLLBACK of session a releases every lock it holds
Released(a) == [held EXCEPT ![a] = {}]

\* update_state: the row takes state s, and onupdate refreshes updated_at
SetState(k, s) ==
  /\ tx' = [tx EXCEPT ![k] = s]
  /\ stale' = [stale EXCEPT ![k] = FALSE]

\* IdempotencyEngine.update_status: a missing row is only logged
WithStatus(k, status) ==
  IF idem[k] = Absent THEN idem ELSE [idem EXCEPT ![k] = status]

\* Mutant of StatusOf: the state itself is written as the status
StatusIsState(s) == s

\* the idempotency status that goes with a resolved state
StatusOf(s) == IF s = "SETTLED" THEN "SUCCESS" ELSE "FAILED"

\* scalar_one_or_none on the logs of k: more than one row raises MultipleResultsFound
OneLogAtMost(k) == Len(rec[k]) <= 1

\* Mutant of Resolve: the idempotency lock is forgotten
ResolveKeepsLock(k, s) ==
  /\ SetState(k, s)
  /\ payload' = IF s = "SETTLED" THEN [payload EXCEPT ![k] = "recovered"] ELSE payload
  /\ rec' = [rec EXCEPT ![k] = <<s>>]
  /\ UNCHANGED idem

\* Mutant of Resolve: a new log is always inserted
ResolveAddsLog(k, s) ==
  /\ SetState(k, s)
  /\ payload' = IF s = "SETTLED" THEN [payload EXCEPT ![k] = "recovered"] ELSE payload
  /\ idem' = WithStatus(k, StatusOf(s))
  /\ rec' = [rec EXCEPT ![k] = Append(@, s)]

\* The writes that SettlementService.resolve_settlement and
\* ReconciliationService.reconcile_transaction commit together: state, payload
\* if settled, idempotency status, and the one reconciliation log, created or
\* updated.
Resolve(k, s) ==
  /\ SetState(k, s)
  /\ payload' = IF s = "SETTLED" THEN [payload EXCEPT ![k] = "recovered"] ELSE payload
  /\ idem' = WithStatus(k, StatusOf(s))
  /\ rec' = [rec EXCEPT ![k] = <<s>>]
=============================================================================
