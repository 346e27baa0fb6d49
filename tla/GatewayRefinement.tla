-------------------------- MODULE GatewayRefinement --------------------------
(***************************************************************************)
(* PaymentGateway implements PaymentPromise when no network call outlasts   *)
(* the 15 s cutoff and rows are resolved only by the request, the workers   *)
(* and operators who act on ambiguous rows.                                 *)
(***************************************************************************)
EXTENDS PaymentGateway

LedgerOf(state) ==
  CASE state = Absent    -> "none"
    [] state = "SETTLED" -> "settled"
    [] state = "FAILED"  -> "failed"
    [] OTHER             -> "open"

AnswerOf(status) ==
  CASE status = Absent    -> "none"
    [] status = "PENDING" -> "in progress"
    [] status = "SUCCESS" -> "success"
    [] OTHER              -> "failure"

Ledger == [k \in Payments |-> LedgerOf(tx[k])]

Answer == [k \in Payments |-> AnswerOf(idem[k])]

Promise == INSTANCE PaymentPromise WITH ledger <- Ledger, answer <- Answer

\* Every step of the gateway is a step of the promise or leaves it alone: a payment
\* is accepted once and resolved at most once, in both tables at the same commit.
KeepsPromise == Promise!Spec
=============================================================================
