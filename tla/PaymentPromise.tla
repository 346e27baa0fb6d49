--------------------------- MODULE PaymentPromise ---------------------------
(***************************************************************************)
(* What the gateway promises for a source_ref_no, whatever the network, the *)
(* workers and the operators do: the payment is accepted once, and resolved *)
(* at most once, for the ledger (transaction_logs) and for the client who   *)
(* asks again (payment_idempotency) in the same step.                       *)
(***************************************************************************)
CONSTANT Payments

VARIABLES ledger,   \* what transaction_logs says of a payment
          answer    \* what a duplicate request is told

vars == <<ledger, answer>>

Init == /\ ledger = [k \in Payments |-> "none"]
        /\ answer = [k \in Payments |-> "none"]

Accept(k) ==
  /\ ledger[k] = "none"
  /\ ledger' = [ledger EXCEPT ![k] = "open"]
  /\ answer' = [answer EXCEPT ![k] = "in progress"]

Succeed(k) ==
  /\ ledger[k] = "open"
  /\ ledger' = [ledger EXCEPT ![k] = "settled"]
  /\ answer' = [answer EXCEPT ![k] = "success"]

Fail(k) ==
  /\ ledger[k] = "open"
  /\ ledger' = [ledger EXCEPT ![k] = "failed"]
  /\ answer' = [answer EXCEPT ![k] = "failure"]

Next == \E k \in Payments : Accept(k) \/ Succeed(k) \/ Fail(k)

Spec == Init /\ [][Next]_vars
=============================================================================
