-------------------------- MODULE ReconciliationApi --------------------------
(***************************************************************************)
(* The two request handlers that resolve payments:                          *)
(*   POST .../billpay/reconcile, one trace id in a session of its own, and  *)
(*   GET .../oneview, which loads a customer's rows and reconciles those it *)
(*   loaded as ambiguous, in the same session, through the loaded objects.  *)
(***************************************************************************)
EXTENDS PaymentStore

CONSTANTS OneViews,       \* sessions of OneView requests
          ReconcileFrom   \* the states in which operators ask for a reconciliation

ASSUME ReconciliationAssumption ==
  OneViews \subseteq Lockers /\ ReconcileFrom \subseteq States

VARIABLE viewed   \* viewed[o]: rows loaded as AMBIGUOUS_TIMEOUT, still to reconcile

oneViewVars == <<viewed>>

OneViewTypeOK == viewed \in [OneViews -> SUBSET Keys]

OneViewInit == viewed = [o \in OneViews |-> {}]

-----------------------------------------------------------------------------
\* ReconciliationService.reconcile_transaction on a row read under its lock.  A
\* missing or resolved row is answered without a write; two logs or a transition
\* the matrix does not list raise and are rolled back.
Reconcile(k, s) ==
  /\ Unlocked(k)
  /\ tx[k] \in ReconcileFrom \ Resolved
  /\ OneLogAtMost(k)
  /\ ValidTransition(tx[k], s)
  /\ Resolve(k, s)
  /\ UNCHANGED <<held, oneViewVars>>

Seen(o, k) == viewed' = [viewed EXCEPT ![o] = @ \ {k}]

\* OneView loads every row of the customer, without a lock
OneViewLoad(o) ==
  LET ambiguous == {k \in Keys : tx[k] = "AMBIGUOUS_TIMEOUT"} IN
  /\ viewed[o] = {} /\ held[o] = {}
  /\ ambiguous # {}
  /\ viewed' = [viewed EXCEPT ![o] = ambiguous]
  /\ UNCHANGED storeVars

\* reconcile_transaction through the loaded object: it takes the row for ambiguous,
\* whatever it has become
OneViewReconcile(o, k) ==
  /\ k \in viewed[o] /\ UnlockedFor(k, o)
  /\ OneLogAtMost(k)
  /\ \E s \in Resolved : Resolve(k, s)
  /\ held' = Released(o)
  /\ Seen(o, k)

\* the exception is logged and swallowed without a rollback: the lock stays
OneViewSwallow(o, k) ==
  /\ k \in viewed[o] /\ UnlockedFor(k, o)
  /\ ~OneLogAtMost(k)
  /\ held' = [held EXCEPT ![o] = @ \cup {k}]
  /\ Seen(o, k)
  /\ UNCHANGED <<tx, payload, stale, idem, rec>>

\* the session closes: the request is answered, or it is cancelled
OneViewClose(o) ==
  /\ viewed[o] # {} \/ held[o] # {}
  /\ viewed' = [viewed EXCEPT ![o] = {}]
  /\ held' = Released(o)
  /\ UNCHANGED <<tx, payload, stale, idem, rec>>

OneViewNext ==
  \E o \in OneViews :
    \/ OneViewLoad(o) \/ OneViewClose(o)
    \/ \E k \in Keys : OneViewReconcile(o, k) \/ OneViewSwallow(o, k)

ReconcileNext == \E k \in Keys, s \in Resolved : Reconcile(k, s)
=============================================================================
