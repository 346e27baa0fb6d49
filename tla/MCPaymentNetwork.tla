-------------------------- MODULE MCPaymentNetwork --------------------------
(***************************************************************************)
(* Two requests of one payment, and other traffic, through a breaker with   *)
(* the threshold of three; failures are counted to three beyond it, so that *)
(* repeated failed trials are covered.                                      *)
(***************************************************************************)
EXTENDS PaymentNetwork

CONSTANTS p1, b1, r1, r2, c1, c2

MCRef == [r \in Requests |-> p1]

\* r2 depends on the fetched bill
MCValidatedBy == [r \in Requests |-> IF r = r2 THEN Bills ELSE {}]
=============================================================================
