--------------------------- MODULE FavoriteBillers ---------------------------
(***************************************************************************)
(* FavoriteBillerService for one customer.  Every operation first looks for  *)
(* active rows and then commits a change; requests run interleaved between   *)
(* the two.  Nothing in the table keeps a biller from being a favorite twice. *)
(* The ORM writes the columns that the operation set, by primary key.        *)
(***************************************************************************)
EXTENDS Naturals, FiniteSets

CONSTANTS Clients,   \* concurrent requests of the customer
          Billers,   \* billers
          Rows,      \* rows of favorite_billers: a bound on the adds
          NoRow

ASSUME FavoritesAssumption ==
  /\ IsFiniteSet(Clients) /\ IsFiniteSet(Rows)
  /\ NoRow \notin [biller : Billers, status : {"ACTIVE", "DELETED"}]

VARIABLES favorites,  \* the rows: biller and status
          request     \* what each request is about to commit

favoriteVars == <<favorites, request>>

Free == {w \in Rows : favorites[w] = NoRow}
Active(b) ==
  {w \in Rows : favorites[w] # NoRow /\ favorites[w].biller = b /\ favorites[w].status = "ACTIVE"}

FavoritesInit ==
  /\ favorites = [w \in Rows |-> NoRow]
  /\ request = [c \in Clients |-> [op |-> "none"]]

Idle(c) == request[c].op = "none"
Begins(c, op) == request' = [request EXCEPT ![c] = op] /\ UNCHANGED favorites
Ends(c) == request' = [request EXCEPT ![c] = [op |-> "none"]]

\* Mutant of Add: the check asks for the newest row only
AddUnchecked(c, b) ==
  /\ Idle(c) /\ Free # {}
  /\ Begins(c, [op |-> "add", biller |-> b])

\* add_favorite_biller: refused when there is one, an error when there are several
Add(c, b) ==
  /\ Idle(c) /\ Free # {}
  /\ Active(b) = {}
  /\ Begins(c, [op |-> "add", biller |-> b])

Insert(c) ==
  /\ request[c].op = "add"
  /\ \E w \in Free :
       favorites' = [favorites EXCEPT ![w] = [biller |-> request[c].biller,
                                              status |-> "ACTIVE"]]
  /\ Ends(c)

Found(w) == favorites[w] # NoRow /\ favorites[w].status = "ACTIVE"

\* update_favorite_biller and delete_favorite_biller: by the account id
Find(c, op, w) ==
  /\ Idle(c)
  /\ Found(w)
  /\ Begins(c, [op |-> op, row |-> w, seen |-> favorites[w]])

\* Mutant of Update: the whole row is written
UpdateWholeRow(c) ==
  /\ request[c].op = "update"
  /\ favorites' = [favorites EXCEPT ![request[c].row] = request[c].seen]
  /\ Ends(c)

\* only the fields that were given, which are not modelled, also when the row was
\* deleted meanwhile
Update(c) ==
  /\ request[c].op = "update"
  /\ Ends(c) /\ UNCHANGED favorites

Delete(c) ==
  /\ request[c].op = "delete"
  /\ favorites' = [favorites EXCEPT ![request[c].row].status = "DELETED"]
  /\ Ends(c)

\* the database fails, or the process ends, before the commit
GiveUp(c) ==
  /\ ~Idle(c)
  /\ Ends(c) /\ UNCHANGED favorites

Change(c) ==
  \/ Insert(c) \/ Update(c) \/ Delete(c) \/ GiveUp(c)
  \/ \E w \in Rows, op \in {"update", "delete"} : Find(c, op, w)

FavoritesNext == \E c \in Clients : Change(c) \/ \E b \in Billers : Add(c, b)

FavoritesSpec == FavoritesInit /\ [][FavoritesNext]_favoriteVars

-----------------------------------------------------------------------------
FavoriteRows == [biller : Billers, status : {"ACTIVE", "DELETED"}]

FavoritesTypeOK ==
  /\ favorites \in [Rows -> FavoriteRows \cup {NoRow}]
  /\ request \in [Clients -> [op : {"none"}] \cup [op : {"add"}, biller : Billers]
                             \cup [op : {"update", "delete"}, row : Rows, seen : FavoriteRows]]
  /\ \A c \in Clients :
       request[c].op \in {"update", "delete"} => favorites[request[c].row] # NoRow

Adding(b) == {c \in Clients : request[c].op = "add" /\ request[c].biller = b}

\* "This biller is already marked as a favorite" (favorite_biller_service.py:65): a
\* biller is never more often a favorite than requests of the customer ran at once, those
\* past the check included; requests one after the other never make it one twice.
DuplicatesAreBounded ==
  \A b \in Billers : Cardinality(Active(b)) + Cardinality(Adding(b)) <= Cardinality(Clients)

\* A deleted favorite stays deleted and keeps its biller, whatever a request commits that
\* found it active before.
DeletedStays ==
  [][\A w \in Rows :
       (favorites[w] # NoRow /\ favorites[w].status = "DELETED")
         => /\ favorites'[w] # NoRow /\ favorites'[w].status = "DELETED"
            /\ favorites'[w].biller = favorites[w].biller]_favorites
=============================================================================
