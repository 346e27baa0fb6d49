----------------------------- MODULE BillerCache -----------------------------
(***************************************************************************)
(* The browser's copy of the biller table.  A tab streams the table from the *)
(* gateway and writes it to an IndexedDB store, which it clears first; the   *)
(* store is shared by the tabs, the flag that keeps a tab from hydrating     *)
(* twice is not.  Lines are gathered in a batch, and a full batch is written *)
(* in several transactions.  The gateway's table is seeded while it is empty *)
(* and does not change afterwards.                                           *)
(***************************************************************************)
EXTENDS Naturals, FiniteSets, SequencesExt

CONSTANTS Tabs,        \* browser tabs
          Seeds,       \* the billers that are seeded
          Seeders,     \* concurrent requests to seed
          BatchSize,   \* lines in a batch (250)
          ChunkSize,   \* records in a write transaction (50)
          NoTab

ASSUME CacheAssumption ==
  /\ BatchSize \in Nat \ {0} /\ ChunkSize \in Nat \ {0}
  /\ NoTab \notin Tabs
  /\ IsFiniteSet(Seeds)

VARIABLES table,    \* the gateway's billers
          seeding,  \* seeders that found the table empty
          cache,    \* the object store
          clearer,  \* the tab that cleared it last (history)
          tab       \* a hydration: its step, linesCount, batch, and the lines read (history)

cacheVars == <<table, seeding, cache, clearer, tab>>

CacheInit ==
  /\ table = {} /\ seeding = {}
  /\ cache = {} /\ clearer = NoTab
  /\ tab = [t \in Tabs |-> [pc |-> "idle", lines |-> 0, streamed |-> {}, batch |-> <<>>]]

-----------------------------------------------------------------------------
\* seed_test_billers: both the count and the commit wait for the database

CountBillers(s) ==
  /\ s \notin seeding /\ table = {}
  /\ seeding' = seeding \cup {s}
  /\ UNCHANGED <<table, cache, clearer, tab>>

\* biller_id is unique: who comes second fails as a whole
SeedBillers(s) ==
  /\ s \in seeding
  /\ seeding' = seeding \ {s}
  /\ table' = IF table = {} THEN Seeds ELSE table
  /\ UNCHANGED <<cache, clearer, tab>>

-----------------------------------------------------------------------------
\* hydrate and hydrateBillerCache

At(t, pc) == tab[t].pc = pc
Tab(t, pc, lines, streamed, batch) ==
  tab' = [tab EXCEPT ![t] = [pc |-> pc, lines |-> lines, streamed |-> streamed, batch |-> batch]]
\* the hydration goes on without another line
Goes(t, pc, batch) == Tab(t, pc, tab[t].lines, tab[t].streamed, batch)
Busy == {"fetch", "clear", "read", "save", "rest"}

\* the flag of this tab
Hydrate(t) ==
  /\ tab[t].pc \notin Busy
  /\ Tab(t, "fetch", 0, {}, <<>>)
  /\ UNCHANGED <<table, seeding, cache, clearer>>

Respond(t) ==
  /\ At(t, "fetch")
  /\ Tab(t, "clear", 0, {}, <<>>)
  /\ UNCHANGED <<table, seeding, cache, clearer>>

ClearCache(t) ==
  /\ At(t, "clear")
  /\ cache' = {} /\ clearer' = t
  /\ Tab(t, "read", 0, {}, <<>>)
  /\ UNCHANGED <<table, seeding>>

\* The next line of biller_csv_generator, into the batch.  Every page is a query of its own,
\* and none asks for an order: the lines are as many as the table has rows, but a biller
\* may come in two pages and another in none.
ReadLine(t) ==
  /\ At(t, "read") /\ tab[t].lines < Cardinality(table)
  /\ \E b \in table :
       LET batch == Append(tab[t].batch, b)
       IN Tab(t, IF Len(batch) >= BatchSize THEN "save" ELSE "read",
              tab[t].lines + 1, tab[t].streamed \cup {b}, batch)
  /\ UNCHANGED <<table, seeding, cache, clearer>>

\* Mutant of EndStream: what is in the batch is left
EndStreamAtOnce(t) ==
  /\ At(t, "read") /\ tab[t].lines = Cardinality(table)
  /\ Goes(t, "ready", <<>>)
  /\ UNCHANGED <<table, seeding, cache, clearer>>

\* a page is empty: the stream is at its end, and the batch is the rest
EndStream(t) ==
  /\ At(t, "read") /\ tab[t].lines = Cardinality(table)
  /\ Goes(t, IF tab[t].batch = <<>> THEN "ready" ELSE "rest", tab[t].batch)
  /\ UNCHANGED <<table, seeding, cache, clearer>>

Chunk(t) == SubSeq(tab[t].batch, 1, IF ChunkSize < Len(tab[t].batch) THEN ChunkSize
                                    ELSE Len(tab[t].batch))
Left(t) == SubSeq(tab[t].batch, ChunkSize + 1, Len(tab[t].batch))

\* saveBillersInChunks: one transaction of it
SaveChunk(t) ==
  /\ tab[t].pc \in {"save", "rest"}
  /\ cache' = cache \cup ToSet(Chunk(t))
  /\ LET next == IF At(t, "save") THEN "read" ELSE "ready"
     IN Goes(t, IF Left(t) = <<>> THEN next ELSE tab[t].pc, Left(t))
  /\ UNCHANGED <<table, seeding, clearer>>

\* the answer is an error, the stream breaks off, a transaction fails, or the page is
\* loaded again: what was cleared stays so
Abandon(t) ==
  /\ tab[t].pc # "idle"
  /\ Tab(t, "idle", 0, {}, <<>>)
  /\ UNCHANGED <<table, seeding, cache, clearer>>

CacheNext ==
  \/ \E s \in Seeders : CountBillers(s) \/ SeedBillers(s)
  \/ \E t \in Tabs : \/ Hydrate(t) \/ Respond(t) \/ ClearCache(t) \/ ReadLine(t)
                     \/ EndStream(t) \/ SaveChunk(t) \/ Abandon(t)

CacheSpec == CacheInit /\ [][CacheNext]_cacheVars

-----------------------------------------------------------------------------
CacheTypeOK ==
  /\ table \in {{}, Seeds}
  /\ seeding \subseteq Seeders
  /\ cache \subseteq Seeds
  /\ clearer \in Tabs \cup {NoTab}
  /\ tab \in [Tabs -> [pc : Busy \cup {"idle", "ready"}, lines : 0..Cardinality(Seeds),
                       streamed : SUBSET Seeds, batch : Seq(Seeds)]]
  /\ \A t \in Tabs : tab[t].lines <= Cardinality(table)

\* "Successfully hydrated ${linesCount} records into IndexedDB cache" (db.ts:279): when
\* the tab that cleared the store last says so, the store holds every line it read, and
\* until then it lacks only those in the batch, whatever other tabs write, break off or
\* read meanwhile.  A tab whose store was cleared by another one since says it as well: of
\* that one nothing is claimed.
HydratedIsComplete ==
  \A t \in Tabs :
    clearer = t => /\ tab[t].pc \in {"read", "save", "rest"}
                        => tab[t].streamed \subseteq cache \cup ToSet(tab[t].batch)
                   /\ tab[t].pc = "ready" => tab[t].streamed \subseteq cache
=============================================================================
