-------------------------- MODULE MCCustomerBillers --------------------------
(***************************************************************************)
(* Instances of CustomerBillers: batches of two lines for three billers, so   *)
(* that one is left over, and single writes, so that a batch takes two.       *)
(***************************************************************************)
EXTENDS CustomerBillers

CONSTANTS b1, b2, b3, c1, c2, w1, w2, tab1, tab2, s1

\* billers, rows, requests, seeders and tabs are told apart by what is done to them
Symmetry ==
  Permutations(Billers) \cup Permutations(Rows) \cup Permutations(Clients)
    \cup Permutations(Seeders) \cup Permutations(Tabs)
=============================================================================
