------------------------ MODULE CustomerBillersProofs ------------------------
(***************************************************************************)
(* For any finite sets of requests and rows: how often a biller can become a *)
(* favorite, and that a deleted favorite stays deleted.  For any finite set  *)
(* of billers, any tabs and any sizes of batch and chunk: no line of the     *)
(* stream is lost on its way into a cache that no other tab has cleared      *)
(* since.  The composition implements both its parts, and so has their       *)
(* properties.                                                               *)
(***************************************************************************)
EXTENDS CustomerBillers, FiniteSetTheorems, TLAPS

-----------------------------------------------------------------------------
\* The two parts

\* A step of the composition is a step of the favorites or leaves them alone, and the
\* same of the cache.
LEMMA StepOfParts ==
  [Next]_vars => [FavoritesNext]_favoriteVars /\ [CacheNext]_cacheVars
<1> SUFFICES ASSUME [Next]_vars
             PROVE  [FavoritesNext]_favoriteVars /\ [CacheNext]_cacheVars
  OBVIOUS
<1>1. ASSUME NEW c \in Clients, NEW b \in Billers, Choose(c, b)
      PROVE  FavoritesNext /\ UNCHANGED cacheVars
  BY <1>1 DEF Choose, FavoritesNext
<1>2. ASSUME NEW c \in Clients, Change(c), UNCHANGED cacheVars
      PROVE  FavoritesNext /\ UNCHANGED cacheVars
  BY <1>2 DEF FavoritesNext
<1>3. CASE CacheNext /\ UNCHANGED favoriteVars
  BY <1>3
<1>4. CASE UNCHANGED vars
  BY <1>4 DEF vars
<1> QED BY <1>1, <1>2, <1>3, <1>4 DEF Next

LEMMA ImplementsFavorites == Spec => FavoritesSpec
<1> QED BY StepOfParts, PTL DEF Spec, Init, FavoritesSpec

-----------------------------------------------------------------------------
\* The favorites

LEMMA FavoritesInitType == FavoritesInit => FavoritesTypeOK
  BY DEF FavoritesInit, FavoritesTypeOK

\* Every operation keeps the table a table, and what a request has found stays in it.
LEMMA FavoritesTypeStep == FavoritesTypeOK /\ [FavoritesNext]_favoriteVars => FavoritesTypeOK'
<1> SUFFICES ASSUME FavoritesTypeOK, [FavoritesNext]_favoriteVars PROVE FavoritesTypeOK'
  OBVIOUS
<1> USE FavoritesAssumption DEF FavoritesTypeOK, FavoriteRows
<1>1. ASSUME NEW c \in Clients, NEW b \in Billers, Add(c, b) PROVE FavoritesTypeOK'
  BY <1>1 DEF Add, Begins, Idle
<1>2. ASSUME NEW c \in Clients, Insert(c) PROVE FavoritesTypeOK'
  BY <1>2 DEF Insert, Ends, Free
<1>3. ASSUME NEW c \in Clients, NEW w \in Rows, NEW op \in {"update", "delete"}, Find(c, op, w)
      PROVE  FavoritesTypeOK'
  BY <1>3 DEF Find, Found, Begins, Idle
<1>4. ASSUME NEW c \in Clients, Update(c) \/ GiveUp(c) PROVE FavoritesTypeOK'
  BY <1>4 DEF Update, GiveUp, Ends, Idle
<1>5. ASSUME NEW c \in Clients, Delete(c) PROVE FavoritesTypeOK'
  BY <1>5 DEF Delete, Ends
<1>6. CASE UNCHANGED favoriteVars
  BY <1>6 DEF favoriteVars
<1> QED BY <1>1, <1>2, <1>3, <1>4, <1>5, <1>6 DEF FavoritesNext, Change

\* The table keeps its shape.
THEOREM FavoritesTypeCorrect == FavoritesSpec => []FavoritesTypeOK
<1> QED BY FavoritesInitType, FavoritesTypeStep, PTL DEF FavoritesSpec

-----------------------------------------------------------------------------
LEMMA Countable ==
  ASSUME NEW b
  PROVE  /\ IsFiniteSet(Active(b)) /\ Cardinality(Active(b)) \in Nat
         /\ IsFiniteSet(Adding(b)) /\ Cardinality(Adding(b)) \in Nat
         /\ Cardinality(Adding(b)) <= Cardinality(Clients)
<1>1. Active(b) \subseteq Rows /\ Adding(b) \subseteq Clients
  BY DEF Active, Adding
<1> QED BY <1>1, FavoritesAssumption, FS_Subset, FS_CardinalityType

LEMMA CountableNext ==
  ASSUME NEW b
  PROVE  /\ IsFiniteSet(Active(b)') /\ Cardinality(Active(b)') \in Nat
         /\ IsFiniteSet(Adding(b)') /\ Cardinality(Adding(b)') \in Nat
         /\ Cardinality(Adding(b)') <= Cardinality(Clients)
<1>1. Active(b)' \subseteq Rows /\ Adding(b)' \subseteq Clients
  BY DEF Active, Adding
<1> QED BY <1>1, FavoritesAssumption, FS_Subset, FS_CardinalityType

\* A step that makes neither set larger keeps the bound.
LEMMA Fewer ==
  ASSUME DuplicatesAreBounded, NEW b \in Billers,
         Active(b)' \subseteq Active(b), Adding(b)' \subseteq Adding(b)
  PROVE  Cardinality(Active(b)') + Cardinality(Adding(b)') <= Cardinality(Clients)
<1>1. /\ Cardinality(Active(b)') <= Cardinality(Active(b))
      /\ Cardinality(Adding(b)') <= Cardinality(Adding(b))
  BY Countable, FS_Subset
<1>2. Cardinality(Clients) \in Nat
  BY FavoritesAssumption, FS_CardinalityType
<1> QED BY <1>1, <1>2, Countable, CountableNext DEF DuplicatesAreBounded

LEMMA BoundInit == FavoritesInit => DuplicatesAreBounded
<1> SUFFICES ASSUME FavoritesInit, NEW b \in Billers
             PROVE  Cardinality(Active(b)) + Cardinality(Adding(b)) <= Cardinality(Clients)
  BY DEF DuplicatesAreBounded
<1>1. Active(b) = {} /\ Adding(b) = {}
  BY DEF FavoritesInit, Active, Adding
<1> QED BY <1>1, FS_EmptySet, FavoritesAssumption, FS_CardinalityType

\* An insert turns one request that is adding into one active row; the check of an add
\* sees every row that was inserted, so that only requests past their own check count.
LEMMA BoundStep ==
  FavoritesTypeOK /\ DuplicatesAreBounded /\ [FavoritesNext]_favoriteVars
    => DuplicatesAreBounded'
<1> SUFFICES ASSUME FavoritesTypeOK, DuplicatesAreBounded, [FavoritesNext]_favoriteVars,
                    NEW b \in Billers
             PROVE  Cardinality(Active(b)') + Cardinality(Adding(b)') <= Cardinality(Clients)
  BY DEF DuplicatesAreBounded
<1> DEFINE Bound == Cardinality(Active(b)') + Cardinality(Adding(b)') <= Cardinality(Clients)
<1>1. ASSUME NEW c \in Clients, NEW d \in Billers, Add(c, d) PROVE Bound
  <2>1. CASE d = b
    <3>1. Active(b)' = {}
      BY <1>1, <2>1 DEF Add, Begins, Active
    <3>2. Cardinality(Active(b)') = 0
      BY <3>1, FS_EmptySet
    <3> QED BY <3>2, CountableNext
  <2>2. CASE d # b
    <3>1. Active(b)' \subseteq Active(b) /\ Adding(b)' \subseteq Adding(b)
      BY <1>1, <2>2 DEF Add, Begins, Active, Adding, FavoritesTypeOK
    <3> QED BY <3>1, Fewer
  <2> QED BY <2>1, <2>2
<1>2. ASSUME NEW c \in Clients, Insert(c) PROVE Bound
  <2>1. PICK w \in Free : favorites' = [favorites EXCEPT ![w] = [biller |-> request[c].biller,
                                                                 status |-> "ACTIVE"]]
    BY <1>2 DEF Insert
  <2>2. CASE request[c].biller = b
    <3>1. w \notin Active(b) /\ Active(b)' \subseteq Active(b) \cup {w}
      BY <2>1 DEF Free, Active, FavoritesTypeOK
    <3>2. Cardinality(Active(b)') <= Cardinality(Active(b)) + 1
      <4>1. /\ IsFiniteSet(Active(b) \cup {w})
            /\ Cardinality(Active(b) \cup {w}) = Cardinality(Active(b)) + 1
        BY <3>1, Countable, FS_AddElement
      <4>2. Cardinality(Active(b)') <= Cardinality(Active(b) \cup {w})
        BY <3>1, <4>1, FS_Subset
      <4> QED BY <4>1, <4>2
    <3>3. c \in Adding(b) /\ Adding(b)' \subseteq Adding(b) \ {c}
      BY <1>2, <2>2 DEF Insert, Ends, Adding, FavoritesTypeOK
    <3>4. /\ IsFiniteSet(Adding(b) \ {c})
          /\ Cardinality(Adding(b) \ {c}) = Cardinality(Adding(b)) - 1
      BY <3>3, Countable, FS_RemoveElement
    <3>5. Cardinality(Adding(b)') <= Cardinality(Adding(b)) - 1
      BY <3>3, <3>4, FS_Subset
    <3>6. Cardinality(Clients) \in Nat
      BY FavoritesAssumption, FS_CardinalityType
    <3> QED BY <3>2, <3>5, <3>6, Countable, CountableNext DEF DuplicatesAreBounded
  <2>3. CASE request[c].biller # b
    <3>1. Active(b)' \subseteq Active(b) /\ Adding(b)' \subseteq Adding(b)
      BY <1>2, <2>1, <2>3 DEF Insert, Ends, Free, Active, Adding, FavoritesTypeOK
    <3> QED BY <3>1, Fewer
  <2> QED BY <2>2, <2>3
<1>3. ASSUME NEW c \in Clients, NEW w \in Rows, NEW op \in {"update", "delete"}, Find(c, op, w)
      PROVE  Bound
  <2>1. Active(b)' \subseteq Active(b) /\ Adding(b)' \subseteq Adding(b)
    BY <1>3 DEF Find, Begins, Active, Adding, FavoritesTypeOK
  <2> QED BY <2>1, Fewer
<1>4. ASSUME NEW c \in Clients, Update(c) \/ GiveUp(c) PROVE Bound
  <2>1. Active(b)' \subseteq Active(b) /\ Adding(b)' \subseteq Adding(b)
    BY <1>4 DEF Update, GiveUp, Ends, Active, Adding, FavoritesTypeOK
  <2> QED BY <2>1, Fewer
<1>5. ASSUME NEW c \in Clients, Delete(c) PROVE Bound
  <2>1. Active(b)' \subseteq Active(b)
    BY <1>5, FavoritesAssumption DEF Delete, Active, FavoritesTypeOK, FavoriteRows
  <2>2. Adding(b)' \subseteq Adding(b)
    BY <1>5 DEF Delete, Ends, Adding, FavoritesTypeOK
  <2> QED BY <2>1, <2>2, Fewer
<1>6. CASE UNCHANGED favoriteVars
  <2>1. Active(b)' \subseteq Active(b) /\ Adding(b)' \subseteq Adding(b)
    BY <1>6 DEF favoriteVars, Active, Adding
  <2> QED BY <2>1, Fewer
<1> QED BY <1>1, <1>2, <1>3, <1>4, <1>5, <1>6 DEF FavoritesNext, Change

\* A biller is a favorite as often as requests ran at once, and no oftener.
THEOREM FavoritesAreBounded == FavoritesSpec => []DuplicatesAreBounded
<1> QED BY FavoritesInitType, FavoritesTypeStep, BoundInit, BoundStep, PTL DEF FavoritesSpec

\* A set of one element at most has no two.
LEMMA OneIsNotTwo ==
  ASSUME Cardinality(Clients) = 1
  PROVE  DuplicatesAreBounded => \A b \in Billers : \A v, w \in Active(b) : v = w
<1> SUFFICES ASSUME DuplicatesAreBounded, NEW b \in Billers,
                    NEW v \in Active(b), NEW w \in Active(b), v # w
             PROVE  FALSE
  OBVIOUS
<1>1. {v, w} \subseteq Active(b) /\ IsFiniteSet({v}) /\ Cardinality({v}) = 1
  BY FS_Singleton
<1>2. w \notin {v} /\ {v} \cup {w} \subseteq Active(b)
  BY <1>1
<1>3. Cardinality({v} \cup {w}) = Cardinality({v}) + 1
  BY <1>1, <1>2, FS_AddElement
<1>4. Cardinality({v} \cup {w}) <= Cardinality(Active(b))
  BY <1>2, Countable, FS_Subset
<1>5. Cardinality(Active(b)) + Cardinality(Adding(b)) <= 1
  BY DEF DuplicatesAreBounded
<1> QED BY <1>1, <1>3, <1>4, <1>5, Countable

\* "This biller is already marked as a favorite" holds of a customer who sends one request at
\* a time: whatever is added, changed, deleted or broken off, no biller is a favorite twice.
THEOREM NoDuplicatesAlone ==
  ASSUME Cardinality(Clients) = 1
  PROVE  Spec => [](\A b \in Billers : \A v, w \in Active(b) : v = w)
<1> QED BY OneIsNotTwo, ImplementsFavorites, FavoritesAreBounded, PTL

-----------------------------------------------------------------------------
\* Only an insert writes a row that is not a deletion, and only into a free one.
LEMMA DeletedStep ==
  FavoritesTypeOK /\ [FavoritesNext]_favoriteVars
    => \A w \in Rows :
         (favorites[w] # NoRow /\ favorites[w].status = "DELETED")
           => /\ favorites'[w] # NoRow /\ favorites'[w].status = "DELETED"
              /\ favorites'[w].biller = favorites[w].biller
<1> SUFFICES ASSUME FavoritesTypeOK, [FavoritesNext]_favoriteVars, NEW w \in Rows,
                    favorites[w] # NoRow, favorites[w].status = "DELETED"
             PROVE  /\ favorites'[w] # NoRow /\ favorites'[w].status = "DELETED"
                    /\ favorites'[w].biller = favorites[w].biller
  OBVIOUS
<1> DEFINE Stays == /\ favorites'[w] # NoRow /\ favorites'[w].status = "DELETED"
                    /\ favorites'[w].biller = favorites[w].biller
<1>1. ASSUME NEW c \in Clients, Insert(c) PROVE Stays
  BY <1>1 DEF Insert, Free, FavoritesTypeOK
<1>2. ASSUME NEW c \in Clients, Delete(c) PROVE Stays
  <2>1. request[c].row \in Rows /\ favorites[request[c].row] \in FavoriteRows
    BY <1>2 DEF Delete, FavoritesTypeOK
  <2> QED BY <1>2, <2>1, FavoritesAssumption DEF Delete, FavoritesTypeOK, FavoriteRows
<1>3. CASE UNCHANGED favorites
  BY <1>3
<1> QED BY <1>1, <1>2, <1>3
        DEF FavoritesNext, Change, Add, Begins, Find, Update, GiveUp, favoriteVars

\* A deleted favorite stays deleted.
THEOREM DeletionsAreFinal == FavoritesSpec => DeletedStays
<1> QED BY FavoritesInitType, FavoritesTypeStep, DeletedStep, PTL DEF FavoritesSpec, DeletedStays

-----------------------------------------------------------------------------
\* The cache

\* A line goes to the end of the batch.
LEMMA Appended ==
  ASSUME NEW S, NEW s \in Seq(S), NEW x \in S
  PROVE  Append(s, x) \in Seq(S) /\ ToSet(Append(s, x)) = ToSet(s) \cup {x}
<1>1. /\ Append(s, x) \in Seq(S) /\ Len(Append(s, x)) = Len(s) + 1
      /\ Append(s, x)[Len(s) + 1] = x
      /\ \A i \in 1..Len(s) : Append(s, x)[i] = s[i]
  OBVIOUS
<1>2. ToSet(Append(s, x)) \subseteq ToSet(s) \cup {x}
  BY <1>1 DEF ToSet
<1>3. ToSet(s) \subseteq ToSet(Append(s, x))
  BY <1>1 DEF ToSet
<1>4. x \in ToSet(Append(s, x))
  BY <1>1 DEF ToSet
<1> QED BY <1>1, <1>2, <1>3, <1>4

\* A chunk and what is left of the batch are the batch.
LEMMA Chunked ==
  ASSUME CacheTypeOK, NEW t \in Tabs
  PROVE  /\ Chunk(t) \in Seq(Seeds) /\ Left(t) \in Seq(Seeds)
         /\ ToSet(tab[t].batch) = ToSet(Chunk(t)) \cup ToSet(Left(t))
<1> DEFINE s == tab[t].batch
           n == IF ChunkSize < Len(s) THEN ChunkSize ELSE Len(s)
<1>1. s \in Seq(Seeds) /\ Len(s) \in Nat /\ ChunkSize \in Nat \ {0} /\ n \in 0..Len(s)
  BY CacheAssumption DEF CacheTypeOK
<1>2. /\ Chunk(t) \in Seq(Seeds) /\ Len(Chunk(t)) = n
      /\ \A i \in 1..n : Chunk(t)[i] = s[i]
  BY <1>1 DEF Chunk
<1>3. CASE ChunkSize < Len(s)
  <2>1. /\ Left(t) \in Seq(Seeds) /\ Len(Left(t)) = Len(s) - ChunkSize
        /\ \A i \in 1..(Len(s) - ChunkSize) : Left(t)[i] = s[ChunkSize + i]
    BY <1>1, <1>3 DEF Left
  <2>2. ToSet(Chunk(t)) \subseteq ToSet(s)
    BY <1>1, <1>2, <1>3 DEF ToSet
  <2>3. ASSUME NEW i \in 1..(Len(s) - ChunkSize) PROVE Left(t)[i] \in ToSet(s)
    <3>1. ChunkSize + i \in 1..Len(s)
      BY <1>1, <1>3
    <3> QED BY <2>1, <3>1, <1>1 DEF ToSet
  <2>4. ToSet(Left(t)) \subseteq ToSet(s)
    BY <2>1, <2>3 DEF ToSet
  <2>5. ASSUME NEW i \in 1..Len(s) PROVE s[i] \in ToSet(Chunk(t)) \cup ToSet(Left(t))
    <3>1. CASE i <= ChunkSize
      BY <1>1, <1>2, <1>3, <3>1 DEF ToSet
    <3>2. CASE i > ChunkSize
      <4>1. /\ i - ChunkSize \in 1..(Len(s) - ChunkSize)
            /\ s[i] = s[ChunkSize + (i - ChunkSize)]
        BY <1>1, <3>2
      <4> QED BY <2>1, <4>1 DEF ToSet
    <3> QED BY <1>1, <3>1, <3>2
  <2>6. ToSet(s) \subseteq ToSet(Chunk(t)) \cup ToSet(Left(t))
    BY <1>1, <2>5 DEF ToSet
  <2> QED BY <1>2, <2>1, <2>2, <2>4, <2>6
<1>4. CASE ~(ChunkSize < Len(s))
  <2>1. Left(t) = <<>>
    BY <1>1, <1>4 DEF Left
  <2>2. ToSet(Chunk(t)) = ToSet(s) /\ ToSet(Left(t)) = {}
    BY <1>1, <1>2, <1>4, <2>1 DEF ToSet
  <2>3. Left(t) \in Seq(Seeds)
    BY <2>1
  <2> QED BY <1>2, <2>2, <2>3
<1> QED BY <1>3, <1>4

-----------------------------------------------------------------------------
LEMMA CacheInitType == CacheInit => CacheTypeOK
<1> SUFFICES ASSUME CacheInit PROVE CacheTypeOK
  OBVIOUS
<1>1. Cardinality(Seeds) \in Nat /\ Cardinality({}) = 0
  BY CacheAssumption, FS_CardinalityType, FS_EmptySet
<1>2. tab \in [Tabs -> [pc : Busy \cup {"idle", "ready"}, lines : 0..Cardinality(Seeds),
                        streamed : SUBSET Seeds, batch : Seq(Seeds)]]
  BY <1>1 DEF CacheInit
<1>3. \A t \in Tabs : tab[t].lines <= Cardinality(table)
  BY <1>1 DEF CacheInit
<1> QED BY <1>2, <1>3 DEF CacheInit, CacheTypeOK

\* The number of rows is a number, that of the seeds once the table is seeded.
LEMMA TableCount ==
  ASSUME CacheTypeOK
  PROVE  /\ Cardinality(table) \in Nat /\ Cardinality(Seeds) \in Nat /\ Cardinality({}) = 0
         /\ Cardinality(table) <= Cardinality(Seeds)
<1>1. Cardinality(Seeds) \in Nat /\ Cardinality({}) = 0
  BY CacheAssumption, FS_CardinalityType, FS_EmptySet
<1>2. table = {} \/ table = Seeds
  BY DEF CacheTypeOK
<1> QED BY <1>1, <1>2

\* A tab never has more lines than the table, which only a first seed changes.
LEMMA CacheTypeStep == CacheTypeOK /\ [CacheNext]_cacheVars => CacheTypeOK'
<1> SUFFICES ASSUME CacheTypeOK, [CacheNext]_cacheVars PROVE CacheTypeOK'
  OBVIOUS
<1>1. ASSUME NEW s \in Seeders, CountBillers(s) PROVE CacheTypeOK'
  BY <1>1 DEF CountBillers, CacheTypeOK
<1>2. ASSUME NEW s \in Seeders, SeedBillers(s) PROVE CacheTypeOK'
  <2>1. table' \in {{}, Seeds} /\ UNCHANGED <<cache, clearer, tab>> /\ seeding' \subseteq Seeders
    BY <1>2 DEF SeedBillers, CacheTypeOK
  <2>2. \A t \in Tabs : tab[t].lines <= Cardinality(table')
    <3>1. CASE table = {}
      <4>1. \A t \in Tabs : tab[t].lines <= 0 /\ tab[t].lines \in Nat
        BY <3>1, TableCount DEF CacheTypeOK
      <4>2. Cardinality(table') \in Nat
        BY <2>1, TableCount
      <4> QED BY <4>1, <4>2
    <3>2. CASE table # {}
      BY <1>2, <3>2 DEF SeedBillers, CacheTypeOK
    <3> QED BY <3>1, <3>2
  <2> QED BY <2>1, <2>2 DEF CacheTypeOK
<1>3. ASSUME NEW t \in Tabs, Hydrate(t) \/ Respond(t) \/ ClearCache(t) \/ Abandon(t)
      PROVE  CacheTypeOK'
  <2>1. /\ UNCHANGED <<table, seeding>>
        /\ cache' \in {cache, {}} /\ clearer' \in {clearer, t}
        /\ \E pc \in {"fetch", "clear", "read", "idle"} : Tab(t, pc, 0, {}, <<>>)
    BY <1>3 DEF Hydrate, Respond, ClearCache, Abandon
  <2>2. PICK pc \in {"fetch", "clear", "read", "idle"} : Tab(t, pc, 0, {}, <<>>)
    BY <2>1
  <2>3. Cardinality(table) \in Nat /\ 0 \in 0..Cardinality(Seeds) /\ <<>> \in Seq(Seeds)
    BY TableCount
  <2>4. \A u \in Tabs :
          tab'[u] = IF u = t THEN [pc |-> pc, lines |-> 0, streamed |-> {}, batch |-> <<>>]
                    ELSE tab[u]
    BY <2>2 DEF Tab, CacheTypeOK
  <2>5. /\ tab' \in [Tabs -> [pc : Busy \cup {"idle", "ready"}, lines : 0..Cardinality(Seeds),
                              streamed : SUBSET Seeds, batch : Seq(Seeds)]]
    BY <2>2, <2>3 DEF Tab, CacheTypeOK, Busy
  <2>6. \A u \in Tabs : tab'[u].lines <= Cardinality(table')
    <3>1. \A u \in Tabs : tab'[u].lines \in {0, tab[u].lines}
      BY <2>4
    <3>2. table' = table /\ \A u \in Tabs : tab[u].lines <= Cardinality(table)
      BY <2>1 DEF CacheTypeOK
    <3> QED BY <2>3, <3>1, <3>2
  <2> QED BY <2>1, <2>5, <2>6 DEF CacheTypeOK
<1>4. ASSUME NEW t \in Tabs, ReadLine(t) PROVE CacheTypeOK'
  <2>1. PICK b \in table : /\ tab[t].lines < Cardinality(table)
                           /\ \E pc \in {"read", "save"} :
                                Tab(t, pc, tab[t].lines + 1, tab[t].streamed \cup {b},
                                    Append(tab[t].batch, b))
    BY <1>4 DEF ReadLine
  <2>2. /\ tab[t].lines + 1 \in 0..Cardinality(Seeds)
        /\ tab[t].lines + 1 <= Cardinality(table)
    BY <2>1, TableCount DEF CacheTypeOK
  <2>3. /\ tab[t].streamed \cup {b} \in SUBSET Seeds
        /\ Append(tab[t].batch, b) \in Seq(Seeds)
    BY <2>1 DEF CacheTypeOK
  <2>4. UNCHANGED <<table, seeding, cache, clearer>>
    BY <1>4 DEF ReadLine
  <2> QED BY <2>1, <2>2, <2>3, <2>4 DEF Tab, CacheTypeOK, Busy
<1>5. ASSUME NEW t \in Tabs, EndStream(t) PROVE CacheTypeOK'
  BY <1>5 DEF EndStream, Goes, Tab, CacheTypeOK, Busy
<1>6. ASSUME NEW t \in Tabs, SaveChunk(t) PROVE CacheTypeOK'
  <2>1. /\ Chunk(t) \in Seq(Seeds) /\ Left(t) \in Seq(Seeds)
    BY Chunked
  <2>2. ToSet(Chunk(t)) \subseteq Seeds
    BY <2>1 DEF ToSet
  <2> QED BY <1>6, <2>1, <2>2 DEF SaveChunk, Goes, At, Tab, CacheTypeOK, Busy
<1>7. CASE UNCHANGED cacheVars
  BY <1>7 DEF cacheVars, CacheTypeOK
<1> QED BY <1>1, <1>2, <1>3, <1>4, <1>5, <1>6, <1>7 DEF CacheNext

\* The stores, the table and the hydrations keep their shape.
THEOREM CacheTypeCorrect == CacheSpec => []CacheTypeOK
<1> QED BY CacheInitType, CacheTypeStep, PTL DEF CacheSpec

-----------------------------------------------------------------------------
LEMMA CompleteInit == CacheInit => HydratedIsComplete
  BY CacheAssumption DEF CacheInit, HydratedIsComplete

\* Steps of the tab that cleared the store last move lines from the stream to the batch
\* and from the batch to the store; those of others add to the store, or clear it and are
\* the last to clear from then on.
LEMMA CompleteStep ==
  CacheTypeOK /\ HydratedIsComplete /\ [CacheNext]_cacheVars => HydratedIsComplete'
<1> SUFFICES ASSUME CacheTypeOK, HydratedIsComplete, [CacheNext]_cacheVars,
                    NEW u \in Tabs, clearer' = u
             PROVE  /\ tab'[u].pc \in {"read", "save", "rest"}
                         => tab'[u].streamed \subseteq cache' \cup ToSet(tab'[u].batch)
                    /\ tab'[u].pc = "ready" => tab'[u].streamed \subseteq cache'
  BY DEF HydratedIsComplete
<1> DEFINE Complete == /\ tab'[u].pc \in {"read", "save", "rest"}
                            => tab'[u].streamed \subseteq cache' \cup ToSet(tab'[u].batch)
                       /\ tab'[u].pc = "ready" => tab'[u].streamed \subseteq cache'
<1>0. ASSUME clearer = u, tab'[u] = tab[u], cache \subseteq cache' PROVE Complete
  BY <1>0 DEF HydratedIsComplete
<1>1. ASSUME NEW s \in Seeders, CountBillers(s) \/ SeedBillers(s) PROVE Complete
  BY <1>1, <1>0 DEF CountBillers, SeedBillers
<1>3. ASSUME NEW t \in Tabs, Hydrate(t) \/ Respond(t) \/ Abandon(t) PROVE Complete
  <2>1. CASE t = u
    BY <1>3, <2>1 DEF Hydrate, Respond, Abandon, Tab, CacheTypeOK
  <2>2. CASE t # u
    BY <1>3, <2>2, <1>0 DEF Hydrate, Respond, Abandon, Tab, CacheTypeOK
  <2> QED BY <2>1, <2>2
<1>4. ASSUME NEW t \in Tabs, ClearCache(t) PROVE Complete
  BY <1>4 DEF ClearCache, Tab, CacheTypeOK
<1>5. ASSUME NEW t \in Tabs, ReadLine(t) PROVE Complete
  <2>1. CASE t = u
    <3>1. PICK b \in table :
            \E pc \in {"read", "save"} :
              Tab(u, pc, tab[u].lines + 1, tab[u].streamed \cup {b}, Append(tab[u].batch, b))
      BY <1>5, <2>1 DEF ReadLine
    <3>2. /\ tab'[u].pc \in {"read", "save"} /\ tab'[u].batch = Append(tab[u].batch, b)
          /\ tab'[u].streamed = tab[u].streamed \cup {b}
      BY <3>1 DEF Tab, CacheTypeOK
    <3>3. tab[u].pc = "read" /\ UNCHANGED <<cache, clearer>>
      BY <1>5, <2>1 DEF ReadLine, At
    <3>4. ToSet(tab'[u].batch) = ToSet(tab[u].batch) \cup {b}
      <4>1. tab[u].batch \in Seq(Seeds) /\ b \in Seeds
        BY DEF CacheTypeOK
      <4> QED BY <3>2, <4>1, Appended
    <3> QED BY <3>2, <3>3, <3>4 DEF HydratedIsComplete
  <2>2. CASE t # u
    BY <1>5, <2>2, <1>0 DEF ReadLine, Tab, CacheTypeOK
  <2> QED BY <2>1, <2>2
<1>6. ASSUME NEW t \in Tabs, EndStream(t) PROVE Complete
  <2>1. CASE t = u
    <3>1. /\ tab[u].pc = "read" /\ UNCHANGED <<cache, clearer>>
          /\ tab'[u].streamed = tab[u].streamed /\ tab'[u].batch = tab[u].batch
          /\ tab'[u].pc = IF tab[u].batch = <<>> THEN "ready" ELSE "rest"
      BY <1>6, <2>1 DEF EndStream, Goes, At, Tab, CacheTypeOK
    <3>2. tab[u].batch = <<>> => ToSet(tab[u].batch) = {}
      BY DEF ToSet
    <3> QED BY <3>1, <3>2 DEF HydratedIsComplete
  <2>2. CASE t # u
    BY <1>6, <2>2, <1>0 DEF EndStream, Goes, Tab, CacheTypeOK
  <2> QED BY <2>1, <2>2
<1>7. ASSUME NEW t \in Tabs, SaveChunk(t) PROVE Complete
  <2>1. CASE t = u
    <3>1. /\ tab[u].pc \in {"save", "rest"} /\ UNCHANGED clearer
          /\ cache' = cache \cup ToSet(Chunk(u))
          /\ tab'[u].streamed = tab[u].streamed /\ tab'[u].batch = Left(u)
          /\ tab'[u].pc \in {"read", "ready", "save", "rest"}
          /\ tab'[u].pc = "ready" => Left(u) = <<>>
      BY <1>7, <2>1 DEF SaveChunk, Goes, At, Tab, CacheTypeOK
    <3>2. ToSet(tab[u].batch) = ToSet(Chunk(u)) \cup ToSet(Left(u))
      BY Chunked
    <3>3. Left(u) = <<>> => ToSet(Left(u)) = {}
      BY DEF ToSet
    <3> QED BY <3>1, <3>2, <3>3 DEF HydratedIsComplete
  <2>2. CASE t # u
    BY <1>7, <2>2, <1>0 DEF SaveChunk, Goes, Tab, CacheTypeOK
  <2> QED BY <2>1, <2>2
<1>8. CASE UNCHANGED cacheVars
  BY <1>8, <1>0 DEF cacheVars
<1> QED BY <1>1, <1>3, <1>4, <1>5, <1>6, <1>7, <1>8 DEF CacheNext

\* What the tab that cleared the store last reports as stored is stored.
THEOREM HydrationsAreComplete == CacheSpec => []HydratedIsComplete
<1> QED BY CacheInitType, CacheTypeStep, CompleteInit, CompleteStep, PTL DEF CacheSpec

-----------------------------------------------------------------------------
\* The composition

\* What the page offers comes from the cache and is still checked by the service: the
\* composition is an implementation of the favorites service and of the cache.
THEOREM ImplementsParts == Spec => FavoritesSpec /\ CacheSpec
<1> QED BY StepOfParts, PTL DEF Spec, Init, FavoritesSpec, CacheSpec

\* So it keeps what they keep.
THEOREM CustomerBillersCorrect ==
  Spec => []DuplicatesAreBounded /\ DeletedStays /\ []HydratedIsComplete
<1> QED BY ImplementsParts, FavoritesAreBounded, DeletionsAreFinal, HydrationsAreComplete, PTL

\* Nothing is offered that the gateway's table does not hold: a biller that is chosen is
\* one of those that were seeded.
THEOREM OnlySeededAreChosen ==
  Spec => [][\A c \in Clients, b \in Billers : Choose(c, b) => b \in Seeds]_vars
<1>1. CacheTypeOK => \A c \in Clients, b \in Billers : Choose(c, b) => b \in Seeds
  BY DEF CacheTypeOK, Choose
<1> QED BY <1>1, ImplementsParts, CacheTypeCorrect, PTL
=============================================================================
