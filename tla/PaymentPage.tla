----------------------------- MODULE PaymentPage -----------------------------
(***************************************************************************)
(* The bill payment page of the frontend (pages/BillPayment.tsx with the    *)
(* stores state/paymentStore.ts and state/reconciliationStore.ts) against   *)
(* the gateway: a payment is posted, its answer may be ambiguous, and the   *)
(* page then takes the newest row of OneView for its payment and polls.     *)
(*                                                                          *)
(* Callbacks of the page are closures over the render that made them: a     *)
(* poll looks its payment up in the list as it was before its own load, and *)
(* whatever arrives late is stored without asking what the page shows now.  *)
(* A load of OneView is awaited: the gateway reads the rows, reconciles     *)
(* those it read as ambiguous one by one, and its list is stored when it    *)
(* arrives, in any order with the lists of other loads.                     *)
(*                                                                          *)
(* PaymentHandler and the workers model the gateway's side in full; here    *)
(* it is what one customer's browser can see of it.                         *)
(***************************************************************************)
EXTENDS TransactionStates, Naturals, Sequences, FiniteSets

CONSTANTS MaxAttempts,  \* bound: payments posted
          MaxRows,      \* bound: rows of the customer
          MaxLate,      \* bound: answers on their way when the user acts
          MaxLookups,   \* bound: polls and "Check Now"s on their way at once
          MaxRewritten  \* bound: rows whose outcome is written over

ASSUME PageAssumption == MaxAttempts \in Nat /\ MaxRows \in Nat

VARIABLES rows,     \* transaction_logs of the customer, in order of creation
          past,     \* history: past[i] holds the states that row i has had
          rowOf,    \* rowOf[a]: the row of payment a, 0 before it exists
          server,   \* server[a]: the gateway's handler of payment a, or its answer
          made,     \* payments posted: the page stands for the last one
          client,   \* client[a]: the payBill call of payment a
          bill,     \* a fetched bill is shown
          page,     \* paymentStatus
          tracked,  \* currentTransaction
          txs,      \* transactions: the OneView list that was stored last
          views,    \* views[v]: the list of load v at the gateway or on its way to
                    \* the page, empty until the gateway has read the rows
          poll,     \* the closure of a running poll, if any
          check,    \* the closure of a running "Check Now", if any
          orderly   \* history: so far the user waited for what was on its way, and
                    \* every payment was located in a list just loaded

vars == <<rows, past, rowOf, server, made, client, bill, page, tracked, txs, views, poll,
          check, orderly>>
ledgerVars == <<rows, past>>
gatewayVars == <<ledgerVars, rowOf, server, views>>

Attempts == 1..MaxAttempts
RowNumbers == 0..MaxRows

\* loads of OneView: one for each payment's answer, the poll's and that of "Check Now"
Poll == MaxAttempts + 1
Check == MaxAttempts + 2
Loads == 1..(MaxAttempts + 2)

NoTransaction == [row |-> 0, state |-> "none"]
Transactions == [row : RowNumbers, state : States \cup {"none"}]
\* A closure holds the transaction it was made for, and what the list of its render has
\* for it ("none": nothing); it looks that up later, in a list that does not change
Closures == [tx : Transactions, found : States \cup {"none"}]
NoClosure == [tx |-> NoTransaction, found |-> "none"]

TypeOK ==
  /\ rows \in Seq(States) /\ Len(rows) \in RowNumbers
  /\ past \in [1..MaxRows -> SUBSET States]
  /\ rowOf \in [Attempts -> RowNumbers]
  /\ server \in [Attempts -> {"idle", "posted", "network", "200", "4xx", "503", "504"}]
  /\ made \in 0..MaxAttempts
  /\ client \in [Attempts -> {"idle", "waiting", "locating", "loading", "done"}]
  /\ bill \in BOOLEAN
  /\ page \in {"IDLE", "PENDING", "SUCCESS", "ERROR"}
  /\ tracked \in Transactions
  /\ txs \in Seq(States) /\ Len(txs) \in RowNumbers
  /\ views \in [Loads -> Seq(States)] /\ \A v \in Loads : Len(views[v]) \in RowNumbers
  /\ {poll, check} \subseteq Closures
  /\ orderly \in BOOLEAN

Init ==
  /\ rows = <<>> /\ txs = <<>>
  /\ past = [i \in 1..MaxRows |-> {}]
  /\ views = [v \in Loads |-> <<>>]
  /\ rowOf = [a \in Attempts |-> 0]
  /\ server = [a \in Attempts |-> "idle"]
  /\ client = [a \in Attempts |-> "idle"]
  /\ made = 0
  /\ bill = FALSE /\ page = "IDLE" /\ tracked = NoTransaction
  /\ poll = NoClosure /\ check = NoClosure
  /\ orderly = TRUE

-----------------------------------------------------------------------------
\* The gateway, as PaymentHandler and the workers model it

Serves(a, from, to) == server[a] = from /\ server' = [server EXCEPT ![a] = to]
Pages == <<made, client, bill, page, tracked, txs, poll, check, orderly>>

\* row i is written, the states it has had are kept
Write(i, s) ==
  /\ rows' = [rows EXCEPT ![i] = s]
  /\ past' = [past EXCEPT ![i] = @ \cup {s}]

\* a row is created
Create(s) ==
  /\ Len(rows) < MaxRows
  /\ rows' = Append(rows, s)
  /\ past' = [past EXCEPT ![Len(rows) + 1] = @ \cup {s}]

\* the payment is created and goes to the network
Accept(a) ==
  /\ Serves(a, "posted", "network")
  /\ Create("NETWORK_IN_FLIGHT")
  /\ rowOf' = [rowOf EXCEPT ![a] = Len(rows) + 1]
  /\ UNCHANGED <<views, Pages>>

\* 400, 404 or 409 before a row exists
Refuse(a) == Serves(a, "posted", "4xx") /\ UNCHANGED <<ledgerVars, rowOf, views, Pages>>

\* The handler commits the state its outcome calls for through its own object, and
\* answers: settled; breaker open or a failure (no word of an ambiguity); ambiguous
Commit(a, s, answer) ==
  /\ Serves(a, "network", answer)
  /\ Write(rowOf[a], s)
  /\ UNCHANGED <<rowOf, views, Pages>>

Outcome(a) ==
  \/ Commit(a, "SETTLED", "200")
  \/ Commit(a, "FAILED", "503")
  \/ Commit(a, "AMBIGUOUS_TIMEOUT", "504")
  \/ Commit(a, "AMBIGUOUS_TIMEOUT", "503")

Ambiguous == {i \in DOMAIN rows : rows[i] = "AMBIGUOUS_TIMEOUT"}

\* reconcile_transaction writes an outcome into a row that was read as ambiguous,
\* whatever has become of it by now
Resolve(i) ==
  /\ "AMBIGUOUS_TIMEOUT" \in past[i]
  /\ \/ i \in Ambiguous
     \/ Cardinality({j \in DOMAIN rows : Resolved \subseteq past[j]}) < MaxRewritten
  /\ \E s \in Resolved : Write(i, s)

\* RecoveryService and operators resolve a row that is ambiguous, a OneView of another
\* page one that was so when it read the rows
Reconcile(i) == Resolve(i) /\ UNCHANGED <<rowOf, server, views, Pages>>

\* load v has been asked for by the page, and is not yet answered
Asked(v) ==
  \/ v \in Attempts /\ client[v] \in {"locating", "loading"}
  \/ v = Poll /\ poll # NoClosure
  \/ v = Check /\ check # NoClosure

\* OneView reads the rows of the customer, without a lock
OneViewLoad(v) ==
  /\ Asked(v) /\ views[v] = <<>>
  /\ views' = [views EXCEPT ![v] = rows]
  /\ UNCHANGED <<ledgerVars, rowOf, server, Pages>>

\* it resolves a row that it read as ambiguous, whatever has become of it, and reads
\* that row again; a row it fails to resolve stays in its list as it was read
OneViewReconcile(v, i) ==
  /\ i \in DOMAIN views[v] /\ views[v][i] = "AMBIGUOUS_TIMEOUT"
  /\ Resolve(i)
  /\ views' = [views EXCEPT ![v][i] = rows'[i]]
  /\ UNCHANGED <<rowOf, server, Pages>>

-----------------------------------------------------------------------------
\* The page

\* loadOneView is answered: the list is stored, or the request has failed, which is
\* swallowed and leaves the list that was stored before
LoadEnds(v) ==
  /\ txs' \in IF views[v] = <<>> THEN {txs} ELSE {views[v], txs}
  /\ views' = [views EXCEPT ![v] = <<>>]

\* what is on its way to the page
Due == {v \in Loads : Asked(v)} \cup {a \in Attempts : client[a] = "waiting"}
Quiet == Due = {}

\* The user acts; nothing on the page keeps them from doing so while answers are due
Acts ==
  /\ Cardinality(Due) <= MaxLate
  /\ orderly' = (orderly /\ Quiet)

\* fetchBill with its answer: the gateway stores a row for the bill, too
FetchBill ==
  /\ ~bill /\ Acts
  /\ Create("INITIALIZED")
  /\ bill' = TRUE
  /\ UNCHANGED <<rowOf, server, made, client, page, tracked, txs, views, poll, check>>

\* another biller, or none, is selected: the bill and the payment are reset
Select ==
  /\ bill \/ page # "IDLE"
  /\ Acts
  /\ bill' = FALSE /\ page' = "IDLE" /\ tracked' = NoTransaction
  /\ UNCHANGED <<gatewayVars, made, client, txs, poll, check>>

\* the payment form's cancel: only the bill is reset
CancelBill ==
  /\ bill /\ page \in {"IDLE", "PENDING"} /\ Acts
  /\ bill' = FALSE
  /\ UNCHANGED <<gatewayVars, made, client, page, tracked, txs, poll, check>>

\* payBill up to its request; the form is disabled while one is PENDING and hidden
\* once it was answered
Pay ==
  /\ bill /\ page = "IDLE" /\ Acts
  /\ made < MaxAttempts
  /\ made' = made + 1
  /\ client' = [client EXCEPT ![made'] = "waiting"]
  /\ server' = [server EXCEPT ![made'] = "posted"]
  /\ page' = "PENDING" /\ tracked' = NoTransaction
  /\ UNCHANGED <<ledgerVars, rowOf, bill, txs, views, poll, check>>

Calls(a, from, to) == client[a] = from /\ client' = [client EXCEPT ![a] = to]

\* 200: the receipt is shown and OneView loaded again
AnswerSuccess(a) ==
  /\ Calls(a, "waiting", "loading")
  /\ server[a] = "200"
  /\ page' = "SUCCESS"
  /\ UNCHANGED <<gatewayVars, made, bill, tracked, txs, poll, check, orderly>>

Reload(a) ==
  /\ Calls(a, "loading", "done")
  /\ LoadEnds(a)
  /\ UNCHANGED <<ledgerVars, rowOf, server, made, bill, page, tracked, poll, check,
                 orderly>>

\* any other error
AnswerError(a) ==
  /\ Calls(a, "waiting", "done")
  /\ server[a] \in {"4xx", "503"}
  /\ page' = "ERROR"
  /\ UNCHANGED <<gatewayVars, made, bill, tracked, txs, poll, check, orderly>>

\* 504; the message of any other answer names neither a timeout nor an ambiguity
AnswerAmbiguous(a) ==
  /\ Calls(a, "waiting", "locating")
  /\ server[a] = "504"
  /\ UNCHANGED <<gatewayVars, made, bill, page, tracked, txs, poll, check, orderly>>

\* Mutant of Locate: the list is not sorted, newest first
LocateOldest(a) ==
  /\ Calls(a, "locating", "done")
  /\ LoadEnds(a)
  /\ tracked' = [row |-> IF txs' = <<>> THEN 0 ELSE 1, state |-> "AMBIGUOUS_TIMEOUT"]
  /\ page' = "ERROR"
  /\ orderly' = (orderly /\ views[a] # <<>> /\ txs' = views[a])
  /\ UNCHANGED <<ledgerVars, rowOf, server, made, bill, poll, check>>

\* the trace id is that of the newest row of OneView (UNKNOWN, row 0, without any)
Locate(a) ==
  /\ Calls(a, "locating", "done")
  /\ LoadEnds(a)
  /\ tracked' = [row |-> Len(txs'), state |-> "AMBIGUOUS_TIMEOUT"]
  /\ page' = "ERROR"
  /\ orderly' = (orderly /\ views[a] # <<>> /\ txs' = views[a])
  /\ UNCHANGED <<ledgerVars, rowOf, server, made, bill, poll, check>>

LooksUp == Cardinality({v \in {Poll, Check} : Asked(v)}) < MaxLookups

\* the closure of the last render
Closure ==
  [tx |-> tracked,
   found |-> IF tracked.row \in DOMAIN txs THEN txs[tracked.row] ELSE "none"]

\* transaction c.tx in the state that closure c finds
Matched(c) == [c.tx EXCEPT !.state = c.found]

\* a poll, every 2 s while the transaction is AMBIGUOUS_TIMEOUT, in the closure of
\* the last render
PollStart ==
  /\ tracked.state = "AMBIGUOUS_TIMEOUT" /\ poll = NoClosure /\ LooksUp
  /\ poll' = Closure
  /\ UNCHANGED <<gatewayVars, made, client, bill, page, tracked, txs, check, orderly>>

\* Mutant of PollEnd: the loaded list is not stored
PollEndKeepsList ==
  /\ poll # NoClosure
  /\ poll' = NoClosure
  /\ tracked' = IF poll.found \in {"none", "AMBIGUOUS_TIMEOUT"} THEN tracked
                ELSE Matched(poll)
  /\ views' = [views EXCEPT ![Poll] = <<>>]
  /\ UNCHANGED <<ledgerVars, rowOf, server, txs, made, client, bill, page, check, orderly>>

\* Mutant of PollEnd: the state is put into whatever transaction is shown by now
PollEndUpdatesShown ==
  /\ poll # NoClosure
  /\ LoadEnds(Poll)
  /\ poll' = NoClosure
  /\ tracked' = IF poll.found \in {"none", "AMBIGUOUS_TIMEOUT"} THEN tracked
                ELSE [tracked EXCEPT !.state = poll.found]
  /\ UNCHANGED <<ledgerVars, rowOf, server, made, client, bill, page, check, orderly>>

\* its OneView answer: any state but AMBIGUOUS_TIMEOUT is shown, and ends the polling
PollEnd ==
  /\ poll # NoClosure
  /\ LoadEnds(Poll)
  /\ poll' = NoClosure
  /\ tracked' = IF poll.found \in {"none", "AMBIGUOUS_TIMEOUT"} THEN tracked
                ELSE Matched(poll)
  /\ UNCHANGED <<ledgerVars, rowOf, server, made, client, bill, page, check, orderly>>

\* "Check Now", disabled for a final state
CheckStart ==
  /\ tracked # NoTransaction /\ tracked.state \notin Terminal
  /\ check = NoClosure /\ LooksUp
  /\ check' = Closure
  /\ UNCHANGED <<gatewayVars, made, client, bill, page, tracked, txs, poll, orderly>>

\* its OneView answer: the state found is shown, AMBIGUOUS_TIMEOUT too
CheckEnd ==
  /\ check # NoClosure
  /\ LoadEnds(Check)
  /\ check' = NoClosure
  /\ tracked' = IF check.found = "none" THEN tracked ELSE Matched(check)
  /\ UNCHANGED <<ledgerVars, rowOf, server, made, client, bill, page, poll, orderly>>

Gateway(a) == Accept(a) \/ Refuse(a) \/ Outcome(a)
Answer(a) ==
  AnswerSuccess(a) \/ Reload(a) \/ AnswerError(a) \/ AnswerAmbiguous(a) \/ Locate(a)

Next ==
  \/ \E a \in Attempts : Gateway(a) \/ Answer(a)
  \/ \E i \in DOMAIN rows : Reconcile(i)
  \/ \E v \in Loads : OneViewLoad(v) \/ \E i \in DOMAIN rows : OneViewReconcile(v, i)
  \/ FetchBill \/ Select \/ CancelBill \/ Pay
  \/ PollStart \/ PollEnd \/ CheckStart \/ CheckEnd

Spec == Init /\ [][Next]_vars

\* The recovery goes on, the poll's timer fires (the bound MaxLookups may hold it up until
\* a "Check Now" is answered), not every load of a poll is lost on its way to the gateway,
\* nor every one on its way back
FairSpec ==
  /\ Spec
  /\ WF_vars(\E i \in Ambiguous : Reconcile(i))
  /\ SF_vars(PollStart) /\ WF_vars(CheckEnd)
  /\ SF_vars(OneViewLoad(Poll))
  /\ SF_vars(PollEnd /\ views[Poll] # <<>> /\ txs' = views[Poll])

-----------------------------------------------------------------------------
\* the row of the payment the page stands for, 0 before it exists
Own == IF made = 0 THEN 0 ELSE rowOf[made]

\* The tracker follows the payment that was just made: txs[0] of the OneView list
\* loaded after the ambiguous answer is that payment, not a bill or an older payment.
TracksOwnPayment ==
  orderly /\ tracked # NoTransaction => tracked.row = Own /\ Own # 0

\* An outcome that the tracker shows is one the ledger has had for the very row it
\* tracks, although its polls look the row up in a list that is out of date and lists
\* arrive in any order: never that of another payment or of a state nobody committed.
\* It may be out of date where a OneView has written over it (TerminalOverwritten).  And
\* a receipt is shown for a payment that was settled.
ShowsTheOutcome ==
  /\ tracked.state \in Resolved =>
       tracked.row \in DOMAIN rows /\ tracked.state \in past[tracked.row]
  /\ orderly /\ page = "SUCCESS" => Own # 0 /\ "SETTLED" \in past[Own]

\* "Polling active for recovery..." (paymentStore.ts): a page that says its payment is
\* ambiguous gets to show the outcome, unless the user leaves it.
AmbiguityEnds ==
  orderly /\ tracked.state = "AMBIGUOUS_TIMEOUT"
    ~> tracked.state \in Resolved \/ tracked = NoTransaction \/ ~orderly
=============================================================================
