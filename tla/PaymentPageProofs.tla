-------------------------- MODULE PaymentPageProofs --------------------------
(***************************************************************************)
(* What the payment page shows, for any number of payments and rows.         *)
(*                                                                          *)
(* Neither property is inductive.  A tracker is given a state by a closure   *)
(* from a list that was stored before, and that list was on its way while    *)
(* the ledger went on: every list, wherever it is, and every closure tells   *)
(* of a row only what that row has been (ListsAreKnown, ClosuresAreKnown),   *)
(* which no later write takes back (PastGrows).  The newest row is the       *)
(* payment's because an orderly user has one call under way (OneCall) and    *)
(* fetches no bill meanwhile (OwnIsNewest), so that the list on its way to   *)
(* the page still ends with it (ViewIsNewest).                               *)
(***************************************************************************)
EXTENDS PaymentPage, SequenceTheorems, TLAPS

\* a list, or a closure, says of a row what the row is or was
Known(l) == Len(l) <= Len(rows) /\ \A i \in 1..Len(l) : l[i] \in past[i]
KnownOf(i, s) == i \in 1..Len(rows) /\ s \in past[i]

ListsAreKnown == Known(rows) /\ Known(txs) /\ \A v \in Loads : Known(views[v])
ClosuresAreKnown == \A c \in {poll, check} : c.found # "none" => KnownOf(c.tx.row, c.found)
TrackedIsKnown == tracked.state \in Resolved => KnownOf(tracked.row, tracked.state)

\* each payment has a row, once the gateway has accepted it
RowsAreOwn ==
  /\ \A a \in Attempts : rowOf[a] \in 0..Len(rows)
  /\ \A a \in Attempts : rowOf[a] = 0 <=> server[a] \in {"idle", "posted", "4xx"}

\* a payment answered as settled has been
CommitsAreKept == \A a \in Attempts : server[a] = "200" => "SETTLED" \in past[rowOf[a]]

Answers == {"200", "4xx", "503", "504"}

\* a call of the page goes along with its request at the gateway, and with its load
CallsFollow ==
  \A a \in Attempts :
    /\ a > made => client[a] = "idle"
    /\ client[a] = "idle" <=> server[a] = "idle"
    /\ client[a] \in {"locating", "loading", "done"} => server[a] \in Answers
    /\ client[a] = "locating" => server[a] = "504"
    /\ client[a] \notin {"locating", "loading"} => views[a] = <<>>

LedgerInv ==
  ListsAreKnown /\ ClosuresAreKnown /\ TrackedIsKnown /\ RowsAreOwn /\ CommitsAreKept
  /\ CallsFollow

OneCall == \A a \in Attempts : client[a] \in {"waiting", "locating", "loading"} => a = made

OwnIsNewest ==
  made # 0 /\ client[made] \in {"waiting", "locating"} /\ Own # 0 => Own = Len(rows)

ViewIsNewest ==
  made # 0 /\ client[made] = "locating" /\ views[made] # <<>> =>
    Len(views[made]) = Len(rows)

Follows(t) == t # NoTransaction => t.row = Own /\ Own # 0

ReceiptIsSettled == page = "SUCCESS" => Own # 0 /\ "SETTLED" \in past[Own]

Waited == /\ OneCall /\ OwnIsNewest /\ ViewIsNewest /\ ReceiptIsSettled
          /\ Follows(tracked) /\ Follows(poll.tx) /\ Follows(check.tx)

PageInv == TypeOK /\ LedgerInv /\ (orderly => Waited)

-----------------------------------------------------------------------------
\* Lists of states, and the steps the actions are made of

LEMMA FunctionIsSeq ==
  ASSUME NEW S, NEW n \in Nat, NEW f \in [1..n -> S]
  PROVE  f \in Seq(S) /\ Len(f) = n
<1>1. f \in Seq(S)
  BY SeqDef
<1>2. Len(f) \in Nat /\ DOMAIN f = 1..Len(f)
  BY <1>1, LenProperties
<1>3. 1..n = 1..Len(f)
  BY <1>2
<1> QED BY <1>1, <1>2, <1>3

LEMMA WrittenRow ==
  ASSUME NEW l \in Seq(States), NEW i, NEW s \in States
  PROVE  [l EXCEPT ![i] = s] \in Seq(States) /\ Len([l EXCEPT ![i] = s]) = Len(l)
<1>1. l \in [1..Len(l) -> States] /\ Len(l) \in Nat
  BY LenProperties
<1>2. [l EXCEPT ![i] = s] \in [1..Len(l) -> States]
  BY <1>1
<1> QED BY <1>1, <1>2, FunctionIsSeq

\* The ledger only grows: rows are added or written, and what a row has been is kept.
PastGrows ==
  /\ rows' \in Seq(States) /\ Len(rows') \in RowNumbers /\ Len(rows) <= Len(rows')
  /\ past' \in [1..MaxRows -> SUBSET States]
  /\ \A i \in 1..MaxRows : past[i] \subseteq past'[i]
  /\ \A i \in 1..Len(rows') : rows'[i] \in past'[i]

SameLength == Len(rows') = Len(rows)

LEMMA LedgerSame ==
  ASSUME TypeOK, LedgerInv, UNCHANGED ledgerVars
  PROVE  PastGrows /\ SameLength
<1>1. Len(rows) \in Nat
  BY LenProperties DEF TypeOK
<1> QED BY <1>1 DEF TypeOK, LedgerInv, ListsAreKnown, Known, PastGrows, SameLength,
                    ledgerVars

LEMMA LedgerWritten ==
  ASSUME TypeOK, LedgerInv, NEW i, NEW s \in States, Write(i, s)
  PROVE  /\ PastGrows /\ SameLength
         /\ i \in 1..MaxRows => s \in past'[i]
         /\ i \in 1..Len(rows) => rows'[i] = s
<1> USE PageAssumption DEF TypeOK, RowNumbers
<1>1. Len(rows) \in Nat /\ DOMAIN rows = 1..Len(rows)
  BY LenProperties
<1>2. rows' \in Seq(States) /\ Len(rows') = Len(rows)
  BY WrittenRow DEF Write
<1>3. /\ past' \in [1..MaxRows -> SUBSET States]
      /\ \A j \in 1..MaxRows : past[j] \subseteq past'[j]
      /\ i \in 1..MaxRows => s \in past'[i]
  BY DEF Write
<1>4. ASSUME NEW j \in 1..Len(rows) PROVE rows'[j] \in past'[j]
  <2>1. j \in 1..MaxRows
    BY <1>1
  <2>2. CASE j = i
    BY <1>1, <2>1, <2>2 DEF Write
  <2>3. CASE j # i
    BY <1>1, <2>1, <2>3 DEF Write, LedgerInv, ListsAreKnown, Known
  <2> QED BY <2>2, <2>3
<1>5. i \in 1..Len(rows) => rows'[i] = s
  BY <1>1 DEF Write
<1> QED BY <1>1, <1>2, <1>3, <1>4, <1>5 DEF PastGrows, SameLength

LEMMA LedgerCreated ==
  ASSUME TypeOK, LedgerInv, NEW s \in States, Create(s)
  PROVE  PastGrows /\ Len(rows') = Len(rows) + 1
<1> USE PageAssumption DEF TypeOK, RowNumbers
<1>1. Len(rows) \in Nat /\ Len(rows) < MaxRows
  BY LenProperties DEF Create
<1>2. /\ rows' \in Seq(States) /\ Len(rows') = Len(rows) + 1
      /\ rows'[Len(rows) + 1] = s
      /\ \A j \in 1..Len(rows) : rows'[j] = rows[j]
  BY <1>1 DEF Create
<1>3. /\ past' \in [1..MaxRows -> SUBSET States]
      /\ \A j \in 1..MaxRows : past[j] \subseteq past'[j]
      /\ s \in past'[Len(rows) + 1]
  BY <1>1 DEF Create
<1>4. ASSUME NEW j \in 1..Len(rows') PROVE rows'[j] \in past'[j]
  <2>1. CASE j = Len(rows) + 1
    BY <1>2, <1>3, <2>1
  <2>2. CASE j \in 1..Len(rows)
    BY <1>1, <1>2, <1>3, <2>2 DEF LedgerInv, ListsAreKnown, Known
  <2> QED BY <1>1, <1>2, <2>1, <2>2
<1> QED BY <1>1, <1>2, <1>3, <1>4 DEF PastGrows

LEMMA LedgerResolved ==
  ASSUME TypeOK, LedgerInv, NEW i, Resolve(i)
  PROVE  PastGrows /\ SameLength /\ (i \in 1..Len(rows) => rows'[i] \in States)
<1>1. PICK s \in Resolved : Write(i, s)
  BY DEF Resolve
<1>2. s \in States
  BY DEF Resolved, States
<1> QED BY <1>1, <1>2, LedgerWritten

\* what was known stays known
LEMMA KnownStays ==
  ASSUME TypeOK, PastGrows, NEW l \in Seq(States), Known(l)
  PROVE  Len(l) <= Len(rows') /\ \A i \in 1..Len(l) : l[i] \in past'[i]
<1>1. Len(l) \in Nat /\ Len(rows) \in Nat /\ Len(rows') \in Nat
  BY LenProperties DEF TypeOK, PastGrows
<1>2. Len(rows) <= MaxRows
  BY <1>1, PageAssumption DEF TypeOK, RowNumbers
<1> QED BY <1>1, <1>2, PageAssumption DEF Known, PastGrows

LEMMA KnownOfStays ==
  ASSUME TypeOK, PastGrows, NEW i, NEW s, KnownOf(i, s)
  PROVE  i \in 1..Len(rows') /\ s \in past'[i]
<1>1. Len(rows) \in Nat /\ Len(rows') \in Nat
  BY LenProperties DEF TypeOK, PastGrows
<1>2. Len(rows) <= MaxRows
  BY <1>1, PageAssumption DEF TypeOK, RowNumbers
<1> QED BY <1>1, <1>2, PageAssumption DEF KnownOf, PastGrows

\* The lists at the gateway or on their way keep their types, and tell what is known.
ViewsAreFit ==
  /\ views' \in [Loads -> Seq(States)]
  /\ \A v \in Loads : Len(views'[v]) \in RowNumbers /\ Len(views'[v]) <= Len(rows')
  /\ \A v \in Loads : \A i \in 1..Len(views'[v]) : views'[v][i] \in past'[i]

LEMMA LoadsAre == Attempts \subseteq Loads /\ Poll \in Loads /\ Check \in Loads
  BY PageAssumption DEF Attempts, Loads, Poll, Check

LEMMA ViewsSame ==
  ASSUME TypeOK, LedgerInv, PastGrows, views' = views
  PROVE  ViewsAreFit
  BY KnownStays DEF TypeOK, LedgerInv, ListsAreKnown, ViewsAreFit

LEMMA ViewTaken ==
  ASSUME TypeOK, LedgerInv, PastGrows, NEW v \in Loads, NEW l \in {<<>>, rows},
         views' = [views EXCEPT ![v] = l]
  PROVE  ViewsAreFit
<1> USE PageAssumption DEF TypeOK, RowNumbers
<1>1. l \in Seq(States) /\ Len(l) \in RowNumbers /\ Known(l)
  <2>1. CASE l = <<>>
    BY <2>1, LenProperties DEF Known
  <2>2. CASE l = rows
    BY <2>2 DEF LedgerInv, ListsAreKnown
  <2> QED BY <2>1, <2>2
<1>2. Len(l) <= Len(rows') /\ \A i \in 1..Len(l) : l[i] \in past'[i]
  BY <1>1, KnownStays
<1>3. ASSUME NEW w \in Loads
      PROVE  /\ views'[w] \in Seq(States) /\ Len(views'[w]) \in RowNumbers
             /\ Len(views'[w]) <= Len(rows')
             /\ \A i \in 1..Len(views'[w]) : views'[w][i] \in past'[i]
  <2>1. CASE w = v
    BY <1>1, <1>2, <2>1
  <2>2. CASE w # v
    BY <2>2, KnownStays DEF LedgerInv, ListsAreKnown
  <2> QED BY <2>1, <2>2
<1> QED BY <1>3 DEF ViewsAreFit

LEMMA ViewRefreshed ==
  ASSUME TypeOK, LedgerInv, PastGrows, NEW v \in Loads, NEW i \in DOMAIN views[v],
         views' = [views EXCEPT ![v][i] = rows'[i]]
  PROVE  ViewsAreFit /\ \A w \in Loads : Len(views'[w]) = Len(views[w])
<1> USE PageAssumption DEF TypeOK, RowNumbers
<1> DEFINE l == [views[v] EXCEPT ![i] = rows'[i]]
<1>1. /\ Len(views[v]) \in Nat /\ DOMAIN views[v] = 1..Len(views[v])
      /\ Len(rows) \in Nat /\ Len(rows') \in Nat
  BY LenProperties DEF PastGrows
<1>2. Len(views[v]) <= Len(rows) /\ Len(rows) <= Len(rows')
  BY DEF LedgerInv, ListsAreKnown, Known, PastGrows
<1>3. i \in 1..Len(rows')
  BY <1>1, <1>2
<1>4. rows'[i] \in States /\ rows'[i] \in past'[i]
  BY <1>1, <1>3, LenProperties DEF PastGrows
<1>5. l \in Seq(States) /\ Len(l) = Len(views[v])
  BY <1>4, WrittenRow
<1>6. \A j \in 1..Len(l) : l[j] \in past'[j]
  <2> TAKE j \in 1..Len(l)
  <2>1. CASE j = i
    BY <1>1, <1>4, <2>1
  <2>2. CASE j # i
    <3>1. l[j] = views[v][j] /\ j \in 1..Len(views[v])
      BY <1>1, <1>5, <2>2
    <3> QED BY <3>1, KnownStays DEF LedgerInv, ListsAreKnown
  <2> QED BY <2>1, <2>2
<1>7. views' = [views EXCEPT ![v] = l]
  OBVIOUS
<1> HIDE DEF l
<1>8. ASSUME NEW w \in Loads
      PROVE  /\ views'[w] \in Seq(States) /\ Len(views'[w]) = Len(views[w])
             /\ Len(views'[w]) <= Len(rows')
             /\ \A j \in 1..Len(views'[w]) : views'[w][j] \in past'[j]
  <2>1. CASE w = v
    <3>1. views'[w] = l
      BY <1>7, <2>1
    <3>2. l \in Seq(States) /\ Len(l) = Len(views[w]) /\ Len(l) <= Len(rows')
      BY <1>1, <1>2, <1>5, <2>1
    <3> QED BY <1>6, <3>1, <3>2, Zenon
  <2>2. CASE w # v
    <3>1. views'[w] = views[w] /\ Known(views[w]) /\ views[w] \in Seq(States)
      BY <1>7, <2>2 DEF LedgerInv, ListsAreKnown
    <3> QED BY <3>1, KnownStays
  <2> QED BY <2>1, <2>2
<1> QED BY <1>7, <1>8 DEF ViewsAreFit

\* A list that is stored is one that was on its way, or the one stored before.
TxsAreFit ==
  /\ txs' \in Seq(States) /\ Len(txs') \in RowNumbers /\ Len(txs') <= Len(rows')
  /\ \A i \in 1..Len(txs') : txs'[i] \in past'[i]

LEMMA TxsSame ==
  ASSUME TypeOK, LedgerInv, PastGrows, txs' = txs
  PROVE  TxsAreFit
  BY KnownStays DEF TypeOK, LedgerInv, ListsAreKnown, TxsAreFit

LEMMA LoadMoves ==
  ASSUME TypeOK, LedgerInv, PastGrows, NEW v \in Loads, LoadEnds(v)
  PROVE  TxsAreFit /\ ViewsAreFit
<1>1. ViewsAreFit
  BY ViewTaken DEF LoadEnds
<1>2. CASE txs' = txs
  BY <1>1, <1>2, TxsSame
<1>3. CASE txs' = views[v]
  BY <1>1, <1>3, KnownStays DEF TypeOK, LedgerInv, ListsAreKnown, TxsAreFit
<1> QED BY <1>2, <1>3 DEF LoadEnds

\* the tracker and the closures
TrackersAreFit ==
  /\ tracked' \in Transactions /\ poll' \in Closures /\ check' \in Closures
  /\ \A c \in {poll', check'} :
       c.found # "none" => c.tx.row \in 1..Len(rows') /\ c.found \in past'[c.tx.row]
  /\ tracked'.state \in Resolved =>
       tracked'.row \in 1..Len(rows') /\ tracked'.state \in past'[tracked'.row]

LEMMA NothingTracked ==
  /\ NoTransaction \in Transactions /\ NoClosure \in Closures
  /\ NoTransaction.state \notin Resolved /\ NoClosure.found = "none"
  BY PageAssumption DEF NoTransaction, Transactions, NoClosure, Closures, RowNumbers,
                        Resolved

\* What a closure finds is what the list knows of the row it tracks.
LEMMA ClosureKnows ==
  ASSUME TypeOK, LedgerInv
  PROVE  /\ Closure \in Closures /\ Closure.tx = tracked
         /\ Closure.found # "none" => KnownOf(Closure.tx.row, Closure.found)
<1> USE PageAssumption DEF TypeOK, RowNumbers
<1>1. /\ DOMAIN txs = 1..Len(txs) /\ Len(txs) \in Nat /\ Len(rows) \in Nat
  BY LenProperties
<1>2. Closure.tx = tracked
  BY DEF Closure
<1>3. CASE tracked.row \in DOMAIN txs
  <2>1. Closure.found = txs[tracked.row] /\ txs[tracked.row] \in States
    BY <1>1, <1>3 DEF Closure
  <2>2. KnownOf(tracked.row, txs[tracked.row])
    BY <1>1, <1>3 DEF LedgerInv, ListsAreKnown, Known, KnownOf
  <2> QED BY <1>2, <2>1, <2>2 DEF Closure, Closures
<1>4. CASE tracked.row \notin DOMAIN txs
  BY <1>2, <1>4 DEF Closure, Closures
<1> QED BY <1>3, <1>4

\* A transaction updated by a closure is a transaction, in the state that was found.
LEMMA MatchedIs ==
  ASSUME NEW c \in Closures
  PROVE  Matched(c) \in Transactions /\ Matched(c).row = c.tx.row
         /\ Matched(c).state = c.found
  BY DEF Closures, Transactions, Matched

LEMMA TrackersMove ==
  ASSUME TypeOK, LedgerInv, PastGrows,
         \/ tracked' = tracked
         \/ tracked' = NoTransaction
         \/ tracked' \in Transactions /\ tracked'.state \notin Resolved
         \/ poll.found # "none" /\ tracked' = Matched(poll)
         \/ check.found # "none" /\ tracked' = Matched(check),
         poll' \in {poll, NoClosure, Closure}, check' \in {check, NoClosure, Closure}
  PROVE  TrackersAreFit
<1> USE DEF TypeOK
<1>1. ASSUME NEW c \in {poll, check, NoClosure, Closure}
      PROVE  /\ c \in Closures
             /\ c.found # "none" => c.tx.row \in 1..Len(rows') /\ c.found \in past'[c.tx.row]
  <2>1. c \in Closures /\ (c.found # "none" => KnownOf(c.tx.row, c.found))
    BY NothingTracked, ClosureKnows DEF LedgerInv, ClosuresAreKnown
  <2> QED BY <2>1, KnownOfStays
<1>2. /\ tracked' \in Transactions
      /\ tracked'.state \in Resolved =>
           tracked'.row \in 1..Len(rows') /\ tracked'.state \in past'[tracked'.row]
  <2>1. CASE tracked' = tracked
    BY <2>1, KnownOfStays DEF LedgerInv, TrackedIsKnown
  <2>2. CASE tracked' = NoTransaction
    BY <2>2, NothingTracked
  <2>3. CASE poll.found # "none" /\ tracked' = Matched(poll)
    BY <1>1, <2>3, MatchedIs
  <2>4. CASE check.found # "none" /\ tracked' = Matched(check)
    BY <1>1, <2>4, MatchedIs
  <2> QED BY <2>1, <2>2, <2>3, <2>4
<1> QED BY <1>1, <1>2 DEF TrackersAreFit

-----------------------------------------------------------------------------
\* Ledger, lists and closures

LEMMA DataInit == Init => TypeOK /\ LedgerInv
<1> SUFFICES ASSUME Init PROVE TypeOK /\ LedgerInv
  OBVIOUS
<1> USE PageAssumption DEF Init, RowNumbers
<1>1. rows \in Seq(States) /\ Len(rows) = 0 /\ txs = rows /\ \A v \in Loads : views[v] = rows
  OBVIOUS
<1>2. TypeOK
  <2>1. /\ rowOf \in [Attempts -> RowNumbers] /\ made \in 0..MaxAttempts
        /\ Len(rows) \in RowNumbers /\ Len(txs) \in RowNumbers
    BY <1>1
  <2>2. views \in [Loads -> Seq(States)] /\ \A v \in Loads : Len(views[v]) \in RowNumbers
    BY <1>1
  <2>3. tracked \in Transactions /\ {poll, check} \subseteq Closures
    BY NothingTracked
  <2>4. bill \in BOOLEAN /\ orderly \in BOOLEAN
    OBVIOUS
  <2> QED BY <1>1, <2>1, <2>2, <2>3, <2>4 DEF TypeOK
<1>3. ListsAreKnown
  BY <1>1 DEF ListsAreKnown, Known
<1>4. ClosuresAreKnown /\ TrackedIsKnown
  BY NothingTracked DEF ClosuresAreKnown, TrackedIsKnown
<1>5. RowsAreOwn /\ CommitsAreKept /\ CallsFollow
  BY <1>1, LoadsAre DEF RowsAreOwn, CommitsAreKept, CallsFollow
<1> QED BY <1>2, <1>3, <1>4, <1>5 DEF LedgerInv

DataFits == PastGrows /\ ViewsAreFit /\ TxsAreFit /\ TrackersAreFit

\* the part of a step that is none of the page's
LEMMA GatewayData ==
  ASSUME TypeOK, LedgerInv, PastGrows, ViewsAreFit, UNCHANGED Pages
  PROVE  DataFits
<1>1. txs' = txs /\ tracked' = tracked /\ poll' = poll /\ check' = check
  BY DEF Pages
<1> QED BY <1>1, TxsSame, TrackersMove DEF DataFits

\* a step of the page, as far as it leaves the gateway alone
LEMMA PageData ==
  ASSUME TypeOK, LedgerInv, UNCHANGED gatewayVars, txs' = txs,
         \/ tracked' = tracked
         \/ tracked' = NoTransaction,
         poll' \in {poll, NoClosure, Closure}, check' \in {check, NoClosure, Closure}
  PROVE  DataFits
<1>1. PastGrows /\ views' = views
  BY LedgerSame DEF gatewayVars, ledgerVars
<1> QED BY <1>1, ViewsSame, TxsSame, TrackersMove DEF DataFits

\* the answer to a load
LEMMA LoadData ==
  ASSUME TypeOK, LedgerInv, UNCHANGED ledgerVars, NEW v \in Loads, LoadEnds(v),
         \/ tracked' = tracked
         \/ tracked' \in Transactions /\ tracked'.state \notin Resolved
         \/ poll.found # "none" /\ tracked' = Matched(poll)
         \/ check.found # "none" /\ tracked' = Matched(check),
         poll' \in {poll, NoClosure}, check' \in {check, NoClosure}
  PROVE  DataFits
<1>1. PastGrows
  BY LedgerSame
<1> QED BY <1>1, LoadMoves, TrackersMove DEF DataFits

\* No step loses what a row has been, or makes a list or a closure tell anything else.
LEMMA DataStep ==
  ASSUME TypeOK, LedgerInv, [Next]_vars
  PROVE  DataFits
<1> USE DEF States
<1>1. ASSUME NEW a \in Attempts, Accept(a) PROVE DataFits
  BY <1>1, LedgerCreated, ViewsSame, GatewayData DEF Accept
<1>2. ASSUME NEW a \in Attempts, Refuse(a) PROVE DataFits
  BY <1>2, LedgerSame, ViewsSame, GatewayData DEF Refuse
<1>3. ASSUME NEW a \in Attempts, NEW s \in States, NEW answer, Commit(a, s, answer)
      PROVE  DataFits
  BY <1>3, LedgerWritten, ViewsSame, GatewayData DEF Commit
<1>4. ASSUME NEW i, Reconcile(i) PROVE DataFits
  BY <1>4, LedgerResolved, ViewsSame, GatewayData DEF Reconcile
<1>5. ASSUME NEW v \in Loads, OneViewLoad(v) PROVE DataFits
  BY <1>5, LedgerSame, ViewTaken, GatewayData DEF OneViewLoad
<1>6. ASSUME NEW v \in Loads, NEW i, OneViewReconcile(v, i) PROVE DataFits
  BY <1>6, LedgerResolved, ViewRefreshed, GatewayData DEF OneViewReconcile
<1>7. CASE FetchBill
  <2>1. PastGrows /\ views' = views
    BY <1>7, LedgerCreated DEF FetchBill
  <2>2. txs' = txs /\ tracked' = tracked /\ poll' = poll /\ check' = check
    BY <1>7 DEF FetchBill
  <2> QED BY <2>1, <2>2, ViewsSame, TxsSame, TrackersMove DEF DataFits
<1>8. CASE Select \/ CancelBill
  BY <1>8, PageData DEF Select, CancelBill
<1>9. CASE Pay
  <2>1. PastGrows /\ views' = views
    BY <1>9, LedgerSame DEF Pay
  <2>2. txs' = txs /\ tracked' = NoTransaction /\ poll' = poll /\ check' = check
    BY <1>9 DEF Pay
  <2> QED BY <2>1, <2>2, ViewsSame, TxsSame, TrackersMove DEF DataFits
<1>10. ASSUME NEW a \in Attempts, AnswerSuccess(a) \/ AnswerError(a) \/ AnswerAmbiguous(a)
       PROVE  DataFits
  BY <1>10, PageData DEF AnswerSuccess, AnswerError, AnswerAmbiguous
<1>11. ASSUME NEW a \in Attempts, Reload(a) PROVE DataFits
  BY <1>11, LoadData, LoadsAre DEF Reload
<1>12. ASSUME NEW a \in Attempts, Locate(a) PROVE DataFits
  <2>1. UNCHANGED ledgerVars /\ LoadEnds(a) /\ a \in Loads
    BY <1>12, LoadsAre DEF Locate
  <2>2. TxsAreFit
    BY <2>1, LedgerSame, LoadMoves
  <2>3. tracked' = [row |-> Len(txs'), state |-> "AMBIGUOUS_TIMEOUT"]
    BY <1>12 DEF Locate
  <2>4. tracked' \in Transactions /\ tracked'.state \notin Resolved
    BY <2>2, <2>3 DEF TxsAreFit, Transactions, Resolved
  <2>5. poll' = poll /\ check' = check
    BY <1>12 DEF Locate
  <2> QED BY <2>1, <2>4, <2>5, LoadData
<1>13. CASE PollStart \/ CheckStart
  BY <1>13, PageData DEF PollStart, CheckStart
<1>14. CASE PollEnd
  <2>1. tracked' = tracked \/ (poll.found # "none" /\ tracked' = Matched(poll))
    BY <1>14 DEF PollEnd
  <2>2. UNCHANGED ledgerVars /\ LoadEnds(Poll) /\ poll' = NoClosure /\ check' = check
    BY <1>14 DEF PollEnd
  <2> QED BY <2>1, <2>2, LoadData, LoadsAre
<1>15. CASE CheckEnd
  <2>1. tracked' = tracked \/ (check.found # "none" /\ tracked' = Matched(check))
    BY <1>15 DEF CheckEnd
  <2>2. UNCHANGED ledgerVars /\ LoadEnds(Check) /\ check' = NoClosure /\ poll' = poll
    BY <1>15 DEF CheckEnd
  <2> QED BY <2>1, <2>2, LoadData, LoadsAre
<1>16. CASE UNCHANGED vars
  BY <1>16, PageData DEF vars, gatewayVars, ledgerVars
<1> QED BY <1>1, <1>2, <1>3, <1>4, <1>5, <1>6, <1>7, <1>8, <1>9, <1>10, <1>11, <1>12,
           <1>13, <1>14, <1>15, <1>16 DEF Next, Gateway, Answer, Outcome

\* the types of the other variables
OthersAreFit ==
  /\ rowOf' \in [Attempts -> RowNumbers]
  /\ server' \in [Attempts -> {"idle", "posted", "network", "200", "4xx", "503", "504"}]
  /\ made' \in 0..MaxAttempts
  /\ client' \in [Attempts -> {"idle", "waiting", "locating", "loading", "done"}]
  /\ bill' \in BOOLEAN
  /\ page' \in {"IDLE", "PENDING", "SUCCESS", "ERROR"}
  /\ orderly' \in BOOLEAN

LEMMA OthersStep ==
  ASSUME TypeOK, LedgerInv, [Next]_vars
  PROVE  OthersAreFit
<1> USE PageAssumption DEF TypeOK, Attempts, RowNumbers, OthersAreFit
<1>1. ASSUME NEW a \in Attempts, Accept(a) \/ Refuse(a) PROVE OthersAreFit
  <2>1. Len(rows) \in Nat
    BY LenProperties
  <2>2. Create("NETWORK_IN_FLIGHT") => Len(rows) + 1 \in 0..MaxRows
    BY <2>1 DEF Create
  <2>3. rowOf' \in [Attempts -> RowNumbers]
    BY <1>1, <2>2 DEF Accept, Refuse
  <2>4. UNCHANGED <<made, client, bill, page, orderly>>
    BY <1>1 DEF Accept, Refuse, Pages
  <2>5. server' \in [Attempts -> {"idle", "posted", "network", "200", "4xx", "503", "504"}]
    BY <1>1 DEF Accept, Refuse, Serves
  <2> QED BY <2>3, <2>4, <2>5
<1>2. ASSUME NEW a \in Attempts, NEW s \in States, NEW answer \in Answers,
             Commit(a, s, answer)
      PROVE  OthersAreFit
  BY <1>2 DEF Commit, Serves, Pages, Answers
<1>3. CASE FetchBill \/ Select \/ CancelBill
  BY <1>3 DEF FetchBill, Select, CancelBill, Acts, Quiet, gatewayVars
<1>4. CASE Pay
  BY <1>4 DEF Pay, Acts, Quiet
<1>5. ASSUME NEW a \in Attempts, Answer(a) PROVE OthersAreFit
  BY <1>5 DEF Answer, AnswerSuccess, Reload, AnswerError, AnswerAmbiguous, Locate, Calls,
              gatewayVars
<1>6. CASE UNCHANGED <<rowOf, server, made, client, bill, page, orderly>>
  BY <1>6
<1>7. ASSUME \/ \E i : Reconcile(i)
             \/ \E v : OneViewLoad(v) \/ \E i : OneViewReconcile(v, i)
             \/ PollStart \/ PollEnd \/ CheckStart \/ CheckEnd
             \/ UNCHANGED vars
      PROVE  UNCHANGED <<rowOf, server, made, client, bill, page, orderly>>
  BY <1>7 DEF Reconcile, OneViewLoad, OneViewReconcile, Pages, PollStart, PollEnd,
              CheckStart, CheckEnd, gatewayVars, vars
<1> QED BY <1>1, <1>2, <1>3, <1>4, <1>5, <1>6, <1>7
        DEF Next, Gateway, Outcome, States, Answers

LEMMA TypeStep ==
  ASSUME TypeOK, LedgerInv, [Next]_vars
  PROVE  TypeOK' /\ ListsAreKnown' /\ ClosuresAreKnown' /\ TrackedIsKnown'
<1>1. PastGrows /\ ViewsAreFit /\ TxsAreFit /\ TrackersAreFit /\ OthersAreFit
  BY DataStep, OthersStep DEF DataFits
<1>2. TypeOK'
  BY <1>1 DEF TypeOK, PastGrows, ViewsAreFit, TxsAreFit, TrackersAreFit, OthersAreFit
<1>3. Len(rows') \in Nat
  BY <1>1, LenProperties DEF PastGrows
<1>4. ListsAreKnown'
  BY <1>1, <1>3 DEF ListsAreKnown, Known, PastGrows, ViewsAreFit, TxsAreFit
<1>5. ClosuresAreKnown' /\ TrackedIsKnown'
  BY <1>1 DEF ClosuresAreKnown, TrackedIsKnown, KnownOf, TrackersAreFit
<1> QED BY <1>2, <1>4, <1>5

-----------------------------------------------------------------------------
\* Handlers and calls

\* a payment that was accepted has its row
LEMMA RowIsThere ==
  ASSUME TypeOK, LedgerInv, NEW a \in Attempts,
         server[a] \notin {"idle", "posted", "4xx"}
  PROVE  rowOf[a] \in 1..Len(rows) /\ rowOf[a] \in 1..MaxRows
<1>1. Len(rows) \in Nat /\ Len(rows) \in 0..MaxRows
  BY LenProperties DEF TypeOK, RowNumbers
<1>2. rowOf[a] \in 0..Len(rows) /\ rowOf[a] # 0
  BY DEF LedgerInv, RowsAreOwn
<1>3. rowOf[a] \in 1..Len(rows)
  BY <1>1, <1>2
<1> QED BY <1>1, <1>3, PageAssumption

\* What does not touch handlers keeps what is said of them.
LEMMA HandlersUndisturbed ==
  ASSUME TypeOK, LedgerInv, PastGrows, rowOf' = rowOf,
         \A a \in Attempts : server'[a] # server[a] =>
           \/ server[a] = "idle" /\ server'[a] = "posted"
           \/ server[a] = "posted" /\ server'[a] = "4xx"
  PROVE  RowsAreOwn' /\ CommitsAreKept'
<1> USE PageAssumption DEF TypeOK, RowNumbers
<1>1. Len(rows) \in Nat /\ Len(rows') \in Nat /\ Len(rows) <= Len(rows')
  BY LenProperties DEF PastGrows
<1>2. RowsAreOwn'
  BY <1>1 DEF LedgerInv, RowsAreOwn
<1>3. ASSUME NEW a \in Attempts, server'[a] = "200" PROVE "SETTLED" \in past'[rowOf'[a]]
  <2>1. server[a] = "200"
    BY <1>3
  <2>2. rowOf[a] \in 1..MaxRows
    BY <2>1, RowIsThere
  <2> QED BY <2>1, <2>2 DEF LedgerInv, CommitsAreKept, PastGrows
<1> QED BY <1>2, <1>3 DEF CommitsAreKept

LEMMA HandlersStep ==
  ASSUME TypeOK, LedgerInv, [Next]_vars
  PROVE  RowsAreOwn' /\ CommitsAreKept'
<1> USE PageAssumption DEF TypeOK, RowNumbers
<1>1. PastGrows /\ Len(rows) \in Nat /\ Len(rows') \in Nat
  BY DataStep, LenProperties DEF DataFits, PastGrows
<1>2. ASSUME NEW a \in Attempts, Accept(a) PROVE RowsAreOwn' /\ CommitsAreKept'
  <2>1. Len(rows') = Len(rows) + 1
    BY <1>2, LedgerCreated DEF Accept, States
  <2>2. /\ server[a] = "posted" /\ server' = [server EXCEPT ![a] = "network"]
        /\ rowOf' = [rowOf EXCEPT ![a] = Len(rows) + 1]
    BY <1>2 DEF Accept, Serves
  <2>3. RowsAreOwn'
    BY <1>1, <2>1, <2>2 DEF LedgerInv, RowsAreOwn
  <2>4. ASSUME NEW b \in Attempts, server'[b] = "200" PROVE "SETTLED" \in past'[rowOf'[b]]
    <3>1. server[b] = "200" /\ rowOf'[b] = rowOf[b]
      BY <2>2, <2>4
    <3>2. rowOf[b] \in 1..MaxRows
      BY <3>1, RowIsThere
    <3> QED BY <1>1, <3>1, <3>2 DEF LedgerInv, CommitsAreKept, PastGrows
  <2> QED BY <2>3, <2>4 DEF CommitsAreKept
<1>3. ASSUME NEW a \in Attempts, NEW s \in States, NEW answer \in Answers \ {"4xx"},
             Commit(a, s, answer), answer = "200" => s = "SETTLED"
      PROVE  RowsAreOwn' /\ CommitsAreKept'
  <2>1. /\ server[a] = "network" /\ server' = [server EXCEPT ![a] = answer]
        /\ rowOf' = rowOf /\ Write(rowOf[a], s)
    BY <1>3 DEF Commit, Serves
  <2>2. RowsAreOwn'
    BY <1>1, <2>1 DEF LedgerInv, RowsAreOwn, PastGrows, Answers
  <2>3. ASSUME NEW b \in Attempts, server'[b] = "200" PROVE "SETTLED" \in past'[rowOf'[b]]
    <3>1. rowOf[b] \in 1..MaxRows
      <4>1. server[b] \in {"network", "200"}
        BY <2>1, <2>3
      <4> QED BY <4>1, RowIsThere
    <3>2. CASE b = a
      BY <1>3, <2>1, <2>3, <3>1, <3>2, LedgerWritten
    <3>3. CASE b # a
      BY <1>1, <2>1, <2>3, <3>1, <3>3 DEF LedgerInv, CommitsAreKept, PastGrows
    <3> QED BY <3>2, <3>3
  <2> QED BY <2>2, <2>3 DEF CommitsAreKept
<1>4. ASSUME NEW a \in Attempts, Refuse(a) PROVE RowsAreOwn' /\ CommitsAreKept'
  <2>1. server[a] = "posted" /\ server' = [server EXCEPT ![a] = "4xx"] /\ rowOf' = rowOf
    BY <1>4 DEF Refuse, Serves
  <2> QED BY <1>1, <2>1, HandlersUndisturbed
<1>5. CASE Pay
  <2>1. /\ made + 1 \in Attempts /\ server' = [server EXCEPT ![made + 1] = "posted"]
        /\ rowOf' = rowOf
    BY <1>5 DEF Pay, Attempts
  <2>2. server[made + 1] = "idle"
    BY <2>1 DEF LedgerInv, CallsFollow
  <2> QED BY <1>1, <2>1, <2>2, HandlersUndisturbed
<1>6. CASE rowOf' = rowOf /\ server' = server
  BY <1>1, <1>6, HandlersUndisturbed
<1>7. ASSUME \/ \E i : Reconcile(i)
             \/ \E v : OneViewLoad(v) \/ \E i : OneViewReconcile(v, i)
             \/ \E a \in Attempts : Answer(a)
             \/ FetchBill \/ Select \/ CancelBill
             \/ PollStart \/ PollEnd \/ CheckStart \/ CheckEnd
             \/ UNCHANGED vars
      PROVE  rowOf' = rowOf /\ server' = server
  BY <1>7 DEF Reconcile, OneViewLoad, OneViewReconcile, Answer, AnswerSuccess, Reload,
              AnswerError, AnswerAmbiguous, Locate, FetchBill, Select, CancelBill,
              PollStart, PollEnd, CheckStart, CheckEnd, gatewayVars, vars
<1>8. ASSUME NEW a \in Attempts, Outcome(a) PROVE RowsAreOwn' /\ CommitsAreKept'
  BY <1>3, <1>8 DEF Outcome, States, Answers
<1> QED BY <1>2, <1>4, <1>5, <1>6, <1>7, <1>8 DEF Next, Gateway

LEMMA CallsStep ==
  ASSUME TypeOK, LedgerInv, [Next]_vars
  PROVE  CallsFollow'
<1> USE PageAssumption, LoadsAre DEF TypeOK, LedgerInv, CallsFollow, Answers, Attempts
<1>1. ASSUME NEW a \in Attempts, Accept(a) \/ Refuse(a) \/ Outcome(a) PROVE CallsFollow'
  <2>1. made' = made /\ client' = client /\ views' = views
    BY <1>1 DEF Accept, Refuse, Outcome, Commit, Pages
  <2>2. PICK s \in {"network", "200", "4xx", "503", "504"} :
          server' = [server EXCEPT ![a] = s] /\ server[a] \in {"posted", "network"}
    BY <1>1 DEF Accept, Refuse, Outcome, Commit, Serves
  <2> QED BY <2>1, <2>2
<1>2. CASE Pay
  BY <1>2 DEF Pay
<1>3. ASSUME NEW a \in Attempts, AnswerSuccess(a) \/ AnswerError(a) \/ AnswerAmbiguous(a)
      PROVE  CallsFollow'
  BY <1>3 DEF AnswerSuccess, AnswerError, AnswerAmbiguous, Calls, gatewayVars
<1>4. ASSUME NEW a \in Attempts, Reload(a) \/ Locate(a) PROVE CallsFollow'
  <2>1. made' = made /\ server' = server /\ client' = [client EXCEPT ![a] = "done"]
        /\ views' = [views EXCEPT ![a] = <<>>] /\ client[a] \in {"loading", "locating"}
    BY <1>4 DEF Reload, Locate, Calls, LoadEnds
  <2> QED BY <2>1
<1>5. ASSUME NEW v \in Loads, OneViewLoad(v) PROVE CallsFollow'
  <2>1. made' = made /\ client' = client /\ server' = server
    BY <1>5 DEF OneViewLoad, Pages
  <2>2. ASSUME NEW a \in Attempts, client[a] \notin {"locating", "loading"}
        PROVE  views'[a] = views[a]
    <3>1. a # Poll /\ a # Check
      BY DEF Poll, Check
    <3>2. ~Asked(a)
      BY <2>2, <3>1 DEF Asked
    <3>3. a # v
      BY <1>5, <3>2 DEF OneViewLoad
    <3> QED BY <1>5, <3>3 DEF OneViewLoad
  <2> QED BY <2>1, <2>2
<1>6. ASSUME NEW v \in Loads, NEW i, OneViewReconcile(v, i) PROVE CallsFollow'
  <2>1. made' = made /\ client' = client /\ server' = server
    BY <1>6 DEF OneViewReconcile, Pages
  <2>2. views[v] # <<>> /\ views' = [views EXCEPT ![v][i] = rows'[i]]
    BY <1>6 DEF OneViewReconcile
  <2>3. ASSUME NEW a \in Attempts, client[a] \notin {"locating", "loading"}
        PROVE  views'[a] = views[a]
    <3>1. views[a] = <<>>
      BY <2>3
    <3>2. a # v
      BY <2>2, <3>1
    <3> QED BY <2>2, <3>2
  <2> QED BY <2>1, <2>3
<1>7. CASE PollEnd \/ CheckEnd
  <2>1. made' = made /\ client' = client /\ server' = server
    BY <1>7 DEF PollEnd, CheckEnd
  <2>2. \A a \in Attempts : views'[a] = views[a]
    BY <1>7 DEF PollEnd, CheckEnd, LoadEnds, Poll, Check
  <2> QED BY <2>1, <2>2
<1>8. CASE made' = made /\ client' = client /\ server' = server /\ views' = views
  BY <1>8
<1>9. ASSUME \/ \E i : Reconcile(i)
             \/ FetchBill \/ Select \/ CancelBill \/ PollStart \/ CheckStart
             \/ UNCHANGED vars
      PROVE  made' = made /\ client' = client /\ server' = server /\ views' = views
  BY <1>9 DEF Reconcile, Pages, FetchBill, Select, CancelBill, PollStart, CheckStart,
              gatewayVars, vars
<1> QED BY <1>1, <1>2, <1>3, <1>4, <1>5, <1>6, <1>7, <1>8, <1>9 DEF Next, Gateway, Answer

LEMMA LedgerStep ==
  ASSUME TypeOK, LedgerInv, [Next]_vars
  PROVE  TypeOK' /\ LedgerInv'
  BY TypeStep, HandlersStep, CallsStep DEF LedgerInv

-----------------------------------------------------------------------------
\* A user who waits

LEMMA WaitedInit == Init => Waited
<1> SUFFICES ASSUME Init PROVE Waited
  OBVIOUS
<1> QED BY DEF Init, Waited, OneCall, OwnIsNewest, ViewIsNewest, ReceiptIsSettled, Follows,
               NoClosure

\* nothing is on its way to the page
LEMMA QuietIs ==
  ASSUME TypeOK, Quiet
  PROVE  /\ \A a \in Attempts : client[a] \in {"idle", "done"}
         /\ poll = NoClosure /\ check = NoClosure
<1>1. /\ \A v \in Loads : ~Asked(v)
      /\ \A a \in Attempts : client[a] # "waiting"
  BY DEF Quiet, Due
<1>2. ASSUME NEW a \in Attempts PROVE client[a] \in {"idle", "done"}
  BY <1>1, LoadsAre DEF Asked, TypeOK
<1>3. poll = NoClosure /\ check = NoClosure
  BY <1>1, LoadsAre DEF Asked
<1> QED BY <1>2, <1>3

\* The payment's row, once it exists, stays its row, and stays one that was settled.
LEMMA OwnStays ==
  ASSUME TypeOK, LedgerInv, PastGrows, made' = made, rowOf' = rowOf
  PROVE  /\ Own' = Own
         /\ ReceiptIsSettled /\ page' = page => ReceiptIsSettled'
<1>1. Own' = Own
  BY DEF Own
<1>2. ASSUME Own # 0 PROVE Own \in 1..MaxRows
  <2>1. made \in Attempts /\ Own = rowOf[made]
    BY <1>2, PageAssumption DEF TypeOK, Own, Attempts
  <2>2. server[made] \notin {"idle", "posted", "4xx"}
    BY <1>2, <2>1 DEF LedgerInv, RowsAreOwn
  <2> QED BY <2>1, <2>2, RowIsThere
<1>3. ReceiptIsSettled /\ page' = page => ReceiptIsSettled'
  BY <1>1, <1>2 DEF ReceiptIsSettled, PastGrows
<1> QED BY <1>1, <1>3

\* The newest row of an ambiguous payment's user is the payment's.
LEMMA LocatesOwn ==
  ASSUME TypeOK, LedgerInv, Waited, NEW a \in Attempts, client[a] = "locating"
  PROVE  a = made /\ Own # 0 /\ Own = Len(rows)
<1>1. a = made
  BY DEF Waited, OneCall
<1>2. made # 0
  BY <1>1, PageAssumption DEF Attempts
<1>3. Own # 0
  BY <1>1, <1>2 DEF LedgerInv, CallsFollow, RowsAreOwn, Own
<1> QED BY <1>1, <1>2, <1>3 DEF Waited, OwnIsNewest

\* The payment the gateway now accepts is the one the page waits for, and nothing of it
\* is shown yet.
LEMMA AcceptsOwn ==
  ASSUME TypeOK, LedgerInv, Waited, NEW a \in Attempts, server[a] = "posted"
  PROVE  a = made /\ Own = 0 /\ client[a] = "waiting"
<1>1. client[a] \notin {"idle", "locating", "loading", "done"}
  BY DEF LedgerInv, CallsFollow, Answers
<1>2. a = made /\ client[a] = "waiting"
  BY <1>1 DEF TypeOK, Waited, OneCall
<1>3. rowOf[a] = 0
  BY DEF LedgerInv, RowsAreOwn
<1> QED BY <1>2, <1>3 DEF Own

\* A step that adds no row, posts nothing and shows nothing of another payment.
WaitsOn ==
  /\ made' = made /\ rowOf' = rowOf /\ SameLength /\ client' = client /\ page' = page
  /\ tracked' \in {tracked, NoTransaction}
  /\ poll'.tx \in {poll.tx, tracked, NoTransaction}
  /\ check'.tx \in {check.tx, tracked, NoTransaction}

LEMMA WaitsOnStep ==
  ASSUME TypeOK, LedgerInv, Waited, PastGrows, WaitsOn, ViewIsNewest'
  PROVE  Waited'
<1>1. Own' = Own /\ ReceiptIsSettled'
  BY OwnStays DEF Waited, WaitsOn
<1>2. OneCall' /\ OwnIsNewest'
  BY <1>1 DEF Waited, OneCall, OwnIsNewest, WaitsOn, SameLength
<1>3. Follows(tracked') /\ Follows(poll'.tx) /\ Follows(check'.tx)
  BY DEF Waited, Follows, WaitsOn
<1> QED BY <1>1, <1>2, <1>3 DEF Waited, Follows

\* the list on its way still ends with the newest row
LEMMA ViewStays ==
  ASSUME ViewIsNewest, made' = made, client' = client, SameLength,
         made # 0 /\ client[made] = "locating" => views'[made] = views[made]
  PROVE  ViewIsNewest'
  BY DEF ViewIsNewest, SameLength

\* A closure that finds its transaction shows it, and no other.
LEMMA FollowsMatched ==
  ASSUME TypeOK, LedgerInv, NEW c \in {poll, check}, Follows(c.tx), c.found # "none"
  PROVE  Follows(Matched(c))
<1>1. c \in Closures /\ c.tx.row \in 1..Len(rows) /\ Len(rows) \in Nat
  BY LenProperties DEF TypeOK, LedgerInv, ClosuresAreKnown, KnownOf
<1>2. c.tx # NoTransaction
  BY <1>1 DEF NoTransaction
<1> QED BY <1>1, <1>2, MatchedIs DEF Follows

\* a call of the page goes on
LEMMA CallGoesOn ==
  ASSUME TypeOK, Waited, NEW a \in Attempts, NEW from \in {"waiting", "locating", "loading"},
         NEW to \in {"locating", "loading", "done"}, Calls(a, from, to),
         to = "locating" => from = "waiting",
         made' = made, rowOf' = rowOf, SameLength
  PROVE  OneCall' /\ OwnIsNewest' /\ Own' = Own /\ a = made /\ made # 0
<1>1. client[a] = from /\ client' = [client EXCEPT ![a] = to]
  BY DEF Calls
<1>2. a = made /\ made # 0
  BY <1>1, PageAssumption DEF Waited, OneCall, Attempts
<1>3. Own' = Own
  BY DEF Own
<1>4. OneCall'
  BY <1>1, <1>2 DEF TypeOK, Waited, OneCall
<1>5. OwnIsNewest'
  BY <1>1, <1>2, <1>3 DEF TypeOK, Waited, OwnIsNewest, SameLength
<1> QED BY <1>2, <1>3, <1>4, <1>5

LEMMA WaitedStep ==
  ASSUME TypeOK, LedgerInv, orderly => Waited, [Next]_vars, orderly'
  PROVE  Waited'
<1> USE PageAssumption DEF TypeOK
<1>1. orderly
  BY DEF Next, Gateway, Outcome, Answer, Accept, Refuse, Commit, Reconcile, OneViewLoad,
         OneViewReconcile, Pages, FetchBill, Select, CancelBill, Pay, Acts, AnswerSuccess,
         Reload, AnswerError, AnswerAmbiguous, Locate, PollStart, PollEnd, CheckStart,
         CheckEnd, vars
<1>2. Waited /\ PastGrows
  BY <1>1, DataStep DEF DataFits
<1>3. Len(rows) \in Nat /\ Len(rows') \in Nat
  BY <1>2, LenProperties DEF PastGrows
<1>4. made # 0 => made \in Attempts
  BY DEF Attempts
<1>5. ASSUME WaitsOn, views' = views PROVE Waited'
  BY <1>2, <1>5, ViewStays, WaitsOnStep DEF Waited, WaitsOn
<1>6. ASSUME UNCHANGED Pages, UNCHANGED <<rowOf, views>>, SameLength PROVE Waited'
  BY <1>5, <1>6 DEF Pages, WaitsOn
<1>7. UNCHANGED ledgerVars => SameLength
  BY DEF ledgerVars, SameLength
<1>8. ASSUME NEW a \in Attempts, Accept(a) PROVE Waited'
  <2>1. a = made /\ Own = 0 /\ made # 0 /\ client[a] = "waiting"
    BY <1>2, <1>8, AcceptsOwn DEF Accept, Serves, Attempts
  <2>2. tracked = NoTransaction /\ poll.tx = NoTransaction /\ check.tx = NoTransaction
    BY <1>2, <2>1 DEF Waited, Follows
  <2>3. page # "SUCCESS"
    BY <1>2, <2>1 DEF Waited, ReceiptIsSettled
  <2>4. Len(rows') = Len(rows) + 1 /\ rowOf' = [rowOf EXCEPT ![a] = Len(rows) + 1]
    BY <1>8, LedgerCreated DEF Accept, States
  <2>5. made' = made /\ client' = client /\ page' = page /\ tracked' = tracked
        /\ poll' = poll /\ check' = check
    BY <1>8 DEF Accept, Pages
  <2>6. Own' = Len(rows')
    BY <2>1, <2>4, <2>5 DEF Own
  <2>7. OneCall' /\ OwnIsNewest' /\ ViewIsNewest' /\ ReceiptIsSettled'
    BY <1>2, <2>1, <2>3, <2>5, <2>6
    DEF Waited, OneCall, OwnIsNewest, ViewIsNewest, ReceiptIsSettled
  <2> QED BY <2>2, <2>5, <2>7 DEF Waited, Follows
<1>9. ASSUME NEW a \in Attempts, Refuse(a) PROVE Waited'
  BY <1>6, <1>7, <1>9 DEF Refuse
<1>10. ASSUME NEW a \in Attempts, NEW s \in States, NEW answer, Commit(a, s, answer)
       PROVE  Waited'
  BY <1>6, <1>10, LedgerWritten DEF Commit
<1>11. ASSUME NEW i, Reconcile(i) PROVE Waited'
  BY <1>6, <1>11, LedgerResolved DEF Reconcile
<1>12. ASSUME NEW v \in Loads, OneViewLoad(v) PROVE Waited'
  <2>1. WaitsOn
    BY <1>7, <1>12 DEF OneViewLoad, Pages, WaitsOn
  <2>2. views' = [views EXCEPT ![v] = rows] /\ rows' = rows
    BY <1>12 DEF OneViewLoad, ledgerVars
  <2>3. ASSUME made # 0, client[made] = "locating", views'[made] # <<>>
        PROVE  Len(views'[made]) = Len(rows)
    BY <1>2, <1>4, <2>2, <2>3, LoadsAre DEF Waited, ViewIsNewest
  <2>4. ViewIsNewest'
    BY <2>1, <2>2, <2>3 DEF ViewIsNewest, WaitsOn
  <2> QED BY <1>2, <2>1, <2>4, WaitsOnStep
<1>13. ASSUME NEW v \in Loads, NEW i, OneViewReconcile(v, i) PROVE Waited'
  <2>1. SameLength
    BY <1>13, LedgerResolved DEF OneViewReconcile
  <2>2. WaitsOn
    BY <1>13, <2>1 DEF OneViewReconcile, Pages, WaitsOn
  <2>3. \A w \in Loads : Len(views'[w]) = Len(views[w])
    BY <1>2, <1>13, ViewRefreshed DEF OneViewReconcile
  <2>4. ASSUME made # 0, client[made] = "locating", views'[made] # <<>>
        PROVE  Len(views'[made]) = Len(rows')
    <3>1. made \in Loads
      BY <1>4, <2>4, LoadsAre
    <3>2. i \in DOMAIN views[v] /\ views' = [views EXCEPT ![v][i] = rows'[i]]
      BY <1>13 DEF OneViewReconcile
    <3>3. views[made] # <<>>
      BY <2>4, <3>1, <3>2
    <3> QED BY <1>2, <2>1, <2>3, <2>4, <3>1, <3>3 DEF Waited, ViewIsNewest, SameLength
  <2>5. ViewIsNewest'
    BY <2>2, <2>4 DEF ViewIsNewest, WaitsOn
  <2> QED BY <1>2, <2>2, <2>5, WaitsOnStep
<1>14. CASE FetchBill
  <2>1. Quiet /\ made' = made /\ rowOf' = rowOf /\ client' = client /\ page' = page
    BY <1>14 DEF FetchBill, Acts
  <2>2. \A a \in Attempts : client[a] \in {"idle", "done"}
    BY <2>1, QuietIs
  <2>3. OneCall' /\ OwnIsNewest' /\ ViewIsNewest'
    BY <1>4, <2>1, <2>2 DEF OneCall, OwnIsNewest, ViewIsNewest
  <2>4. tracked' = tracked /\ poll' = poll /\ check' = check
    BY <1>14 DEF FetchBill
  <2> QED BY <1>2, <2>1, <2>3, <2>4, OwnStays DEF Waited, Follows
<1>15. CASE CancelBill
  BY <1>5, <1>7, <1>15 DEF CancelBill, gatewayVars, WaitsOn
<1>16. CASE Select
  <2>1. /\ made' = made /\ rowOf' = rowOf /\ UNCHANGED <<ledgerVars, client, views>>
        /\ page' = "IDLE" /\ tracked' = NoTransaction /\ poll' = poll /\ check' = check
    BY <1>16 DEF Select, gatewayVars
  <2>2. Own' = Own /\ SameLength
    BY <1>7, <2>1 DEF Own
  <2> QED BY <1>2, <2>1, <2>2 DEF Waited, OneCall, OwnIsNewest, ViewIsNewest,
                                  ReceiptIsSettled, Follows, SameLength
<1>17. CASE Pay
  <2>1. /\ Quiet /\ made' = made + 1 /\ made' \in Attempts /\ rowOf' = rowOf
        /\ client' = [client EXCEPT ![made'] = "waiting"]
        /\ page' = "PENDING" /\ tracked' = NoTransaction /\ poll' = poll /\ check' = check
    <3>1. made + 1 \in Attempts
      BY <1>17 DEF Pay, Attempts
    <3> QED BY <1>17, <3>1 DEF Pay, Acts
  <2>2. /\ poll.tx = NoTransaction /\ check.tx = NoTransaction
        /\ \A a \in Attempts : client[a] \in {"idle", "done"}
    BY <2>1, QuietIs DEF NoClosure
  <2>3. Own' = 0
    <3>1. client[made'] = "idle"
      BY <2>1 DEF LedgerInv, CallsFollow, Attempts
    <3>2. rowOf[made'] = 0
      BY <2>1, <3>1 DEF LedgerInv, CallsFollow, RowsAreOwn
    <3> QED BY <2>1, <3>2 DEF Own, Attempts
  <2>4. OneCall'
    BY <2>1, <2>2 DEF OneCall
  <2>5. ViewIsNewest'
    BY <2>1 DEF ViewIsNewest
  <2> QED BY <2>1, <2>2, <2>3, <2>4, <2>5 DEF Waited, OwnIsNewest, ReceiptIsSettled, Follows
<1>18. ASSUME NEW a \in Attempts, AnswerSuccess(a) PROVE Waited'
  <2>1. /\ Calls(a, "waiting", "loading") /\ server[a] = "200" /\ page' = "SUCCESS"
        /\ made' = made /\ rowOf' = rowOf /\ UNCHANGED ledgerVars
        /\ tracked' = tracked /\ poll' = poll /\ check' = check
    BY <1>18 DEF AnswerSuccess, gatewayVars
  <2>2. OneCall' /\ OwnIsNewest' /\ Own' = Own /\ a = made /\ made # 0
    BY <1>2, <1>7, <2>1, CallGoesOn
  <2>3. Own # 0 /\ "SETTLED" \in past[Own]
    BY <2>1, <2>2 DEF Own, LedgerInv, RowsAreOwn, CommitsAreKept
  <2>4. ReceiptIsSettled'
    BY <2>1, <2>2, <2>3 DEF ReceiptIsSettled, ledgerVars
  <2>5. ViewIsNewest'
    BY <2>1, <2>2 DEF ViewIsNewest, Calls
  <2> QED BY <1>2, <2>1, <2>2, <2>4, <2>5 DEF Waited, Follows
<1>19. ASSUME NEW a \in Attempts, Reload(a) PROVE Waited'
  <2>1. /\ Calls(a, "loading", "done") /\ made' = made /\ rowOf' = rowOf /\ page' = page
        /\ UNCHANGED ledgerVars /\ tracked' = tracked /\ poll' = poll /\ check' = check
    BY <1>19 DEF Reload
  <2>2. OneCall' /\ OwnIsNewest' /\ Own' = Own /\ a = made /\ made # 0
    BY <1>2, <1>7, <2>1, CallGoesOn
  <2>3. ViewIsNewest'
    BY <2>1, <2>2 DEF ViewIsNewest, Calls
  <2> QED BY <1>2, <2>1, <2>2, <2>3, OwnStays DEF Waited, Follows
<1>20. ASSUME NEW a \in Attempts, AnswerError(a) PROVE Waited'
  <2>1. /\ Calls(a, "waiting", "done") /\ made' = made /\ rowOf' = rowOf /\ page' = "ERROR"
        /\ UNCHANGED ledgerVars /\ tracked' = tracked /\ poll' = poll /\ check' = check
    BY <1>20 DEF AnswerError, gatewayVars
  <2>2. OneCall' /\ OwnIsNewest' /\ Own' = Own /\ a = made /\ made # 0
    BY <1>2, <1>7, <2>1, CallGoesOn
  <2>3. ViewIsNewest'
    BY <2>1, <2>2 DEF ViewIsNewest, Calls
  <2> QED BY <1>2, <2>1, <2>2, <2>3 DEF Waited, ReceiptIsSettled, Follows
<1>21. ASSUME NEW a \in Attempts, AnswerAmbiguous(a) PROVE Waited'
  <2>1. /\ Calls(a, "waiting", "locating") /\ made' = made /\ rowOf' = rowOf
        /\ page' = page /\ views' = views
        /\ UNCHANGED ledgerVars /\ tracked' = tracked /\ poll' = poll /\ check' = check
    BY <1>21 DEF AnswerAmbiguous, gatewayVars
  <2>2. OneCall' /\ OwnIsNewest' /\ Own' = Own /\ a = made /\ made # 0
    BY <1>2, <1>7, <2>1, CallGoesOn
  <2>3. views[made] = <<>>
    BY <2>1, <2>2 DEF LedgerInv, CallsFollow, Calls
  <2>4. ViewIsNewest'
    BY <2>1, <2>3 DEF ViewIsNewest
  <2> QED BY <1>2, <2>1, <2>2, <2>4, OwnStays DEF Waited, Follows
<1>22. ASSUME NEW a \in Attempts, Locate(a) PROVE Waited'
  <2>1. /\ Calls(a, "locating", "done") /\ made' = made /\ rowOf' = rowOf
        /\ page' = "ERROR" /\ UNCHANGED ledgerVars /\ poll' = poll /\ check' = check
    BY <1>22 DEF Locate
  <2>2. OneCall' /\ OwnIsNewest' /\ Own' = Own /\ a = made /\ made # 0
    BY <1>2, <1>7, <2>1, CallGoesOn
  <2>3. ViewIsNewest'
    BY <2>1, <2>2 DEF ViewIsNewest, Calls
  <2>4. client[a] = "locating"
    BY <2>1 DEF Calls
  <2>5. views[a] # <<>> /\ txs' = views[a] /\ tracked'.row = Len(txs')
    BY <1>22 DEF Locate
  <2>6. Len(views[a]) = Len(rows)
    BY <1>2, <2>2, <2>4, <2>5 DEF Waited, ViewIsNewest
  <2>7. tracked'.row = Own' /\ Own' # 0
    BY <1>2, <2>2, <2>4, <2>5, <2>6, LocatesOwn
  <2> QED BY <1>2, <2>1, <2>2, <2>3, <2>7 DEF Waited, ReceiptIsSettled, Follows
<1>23. CASE PollStart
  <2>1. Closure.tx = tracked
    BY DEF Closure
  <2> QED BY <1>5, <1>7, <1>23, <2>1 DEF PollStart, gatewayVars, WaitsOn
<1>24. CASE CheckStart
  <2>1. Closure.tx = tracked
    BY DEF Closure
  <2> QED BY <1>5, <1>7, <1>24, <2>1 DEF CheckStart, gatewayVars, WaitsOn
<1>25. ASSUME UNCHANGED <<ledgerVars, rowOf, made, client, page>>,
              NEW v \in {Poll, Check}, views' = [views EXCEPT ![v] = <<>>],
              Follows(tracked'), Follows(poll'.tx), Follows(check'.tx)
       PROVE  Waited'
  <2>1. Own' = Own /\ ReceiptIsSettled' /\ SameLength
    BY <1>2, <1>7, <1>25, OwnStays DEF Waited
  <2>2. OneCall' /\ OwnIsNewest'
    BY <1>2, <1>25, <2>1 DEF Waited, OneCall, OwnIsNewest, SameLength
  <2>3. made # 0 => views'[made] = views[made]
    BY <1>4, <1>25 DEF Attempts, Poll, Check
  <2>4. ViewIsNewest'
    BY <1>2, <1>25, <2>1, <2>3, ViewStays DEF Waited
  <2> QED BY <1>25, <2>1, <2>2, <2>4 DEF Waited, Follows
<1>26. Follows(NoClosure.tx)
  BY DEF Follows, NoClosure
<1>27. CASE PollEnd
  <2>1. /\ UNCHANGED <<ledgerVars, rowOf, made, client, page>>
        /\ views' = [views EXCEPT ![Poll] = <<>>] /\ poll' = NoClosure /\ check' = check
    BY <1>27 DEF PollEnd, LoadEnds
  <2>2. tracked' = tracked \/ (poll.found # "none" /\ tracked' = Matched(poll))
    BY <1>27 DEF PollEnd
  <2>3. Follows(tracked')
    BY <1>2, <2>2, FollowsMatched DEF Waited
  <2> QED BY <1>2, <1>25, <1>26, <2>1, <2>3 DEF Waited
<1>28. CASE CheckEnd
  <2>1. /\ UNCHANGED <<ledgerVars, rowOf, made, client, page>>
        /\ views' = [views EXCEPT ![Check] = <<>>] /\ check' = NoClosure /\ poll' = poll
    BY <1>28 DEF CheckEnd, LoadEnds
  <2>2. tracked' = tracked \/ (check.found # "none" /\ tracked' = Matched(check))
    BY <1>28 DEF CheckEnd
  <2>3. Follows(tracked')
    BY <1>2, <2>2, FollowsMatched DEF Waited
  <2> QED BY <1>2, <1>25, <1>26, <2>1, <2>3 DEF Waited
<1>29. CASE UNCHANGED vars
  BY <1>5, <1>29 DEF vars, WaitsOn, SameLength
<1> QED BY <1>8, <1>9, <1>10, <1>11, <1>12, <1>13, <1>14, <1>15, <1>16, <1>17, <1>18, <1>19,
           <1>20, <1>21, <1>22, <1>23, <1>24, <1>27, <1>28, <1>29
        DEF Next, Gateway, Answer, Outcome, States

\* The inductive invariant of the page: the ledger's part whatever the user does, the
\* page's part as long as the user waits.
THEOREM PageInvariant == Spec => []PageInv
<1>1. Init => PageInv
  BY DataInit, WaitedInit DEF PageInv
<1>2. PageInv /\ [Next]_vars => PageInv'
  BY LedgerStep, WaitedStep DEF PageInv
<1> QED BY <1>1, <1>2, PTL DEF Spec

\* Ledger, page, lists and closures keep their types.
THEOREM TypeCorrect == Spec => []TypeOK
<1>1. PageInv => TypeOK
  BY DEF PageInv
<1> QED BY <1>1, PageInvariant, PTL

\* For any number of payments and bills, the tracker of a user who waits follows the
\* payment that was just made, although its list was on its way while others wrote.
THEOREM TracksOwnPaymentAlways == Spec => []TracksOwnPayment
<1>1. PageInv => TracksOwnPayment
  BY DEF PageInv, Waited, Follows, TracksOwnPayment
<1> QED BY <1>1, PageInvariant, PTL

\* For any number of loads under way, any order of their answers, any OneView that writes
\* over an outcome, and whatever the user does, an outcome that is shown is one the ledger
\* had for that row; and a receipt that is waited for is of a payment that was settled.
THEOREM ShowsTheOutcomeAlways == Spec => []ShowsTheOutcome
<1>1. PageInv => ShowsTheOutcome
  <2> SUFFICES ASSUME PageInv PROVE ShowsTheOutcome
    OBVIOUS
  <2>1. DOMAIN rows = 1..Len(rows)
    BY LenProperties DEF PageInv, TypeOK
  <2> QED BY <2>1 DEF PageInv, LedgerInv, TrackedIsKnown, KnownOf, Waited,
                      ReceiptIsSettled, ShowsTheOutcome
<1> QED BY <1>1, PageInvariant, PTL
=============================================================================
