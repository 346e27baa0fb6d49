---------------------------- MODULE MCPaymentPage ----------------------------
(***************************************************************************)
(* Instances of PaymentPage: up to two payments of one customer, each after *)
(* the fetch of its bill, with all else the page and the gateway may do.    *)
(***************************************************************************)
EXTENDS PaymentPage
=============================================================================
