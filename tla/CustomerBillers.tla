--------------------------- MODULE CustomerBillers ---------------------------
(***************************************************************************)
(* A customer's billers: the page lets the customer choose from the cached   *)
(* billers, whichever tab wrote them, and adds the choice to the favorites.  *)
(***************************************************************************)
EXTENDS FavoriteBillers, BillerCache

ASSUME CustomerAssumption == Seeds \subseteq Billers

vars == <<favoriteVars, cacheVars>>

Init == FavoritesInit /\ CacheInit

\* queryBillers, and addFavoriteBiller
Choose(c, b) == b \in cache /\ Add(c, b) /\ UNCHANGED cacheVars

Next ==
  \/ \E c \in Clients : \E b \in Billers : Choose(c, b)
  \/ \E c \in Clients : Change(c) /\ UNCHANGED cacheVars
  \/ CacheNext /\ UNCHANGED favoriteVars

Spec == Init /\ [][Next]_vars
=============================================================================
