-------------------------- MODULE MCPaymentGateway --------------------------
(***************************************************************************)
(* Instances of PaymentGateway: two payments, of which the first is sent    *)
(* twice (a client retry), and at most one fetched bill.                    *)
(***************************************************************************)
EXTENDS GatewayRefinement

CONSTANTS p1, p2, b1, r1, r2, r3, aw, w1, w2, ov

\* r1 and r2 carry the same source_ref_no, r3 another
MCRef == [r \in Requests |-> IF r = r3 THEN p2 ELSE p1]

\* r2 and r3 depend on the fetched bill, when there is one
MCValidatedBy == [r \in Requests |-> IF r = r1 THEN {} ELSE Bills]
=============================================================================
